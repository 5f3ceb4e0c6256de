-------------------------- MODULE BookStoreProofs --------------------------
(***************************************************************************)
(* Proofs about the BookStore app, for any number of books and pictures.   *)
(***************************************************************************)
EXTENDS BookStore, TLAPS

(* The operations on bags of picture names return bags.                    *)
LEMMA BagFacts ==
  /\ EmptyBag \in Bags
  /\ \A f, g \in Bags : Plus(f, g) \in Bags
  /\ \A f \in Bags, n \in Names : Plus1(f, n) \in Bags
  /\ \A f \in Bags, n \in Names : f[n] > 0 => Minus1(f, n) \in Bags
BY BoundAssumption DEF EmptyBag, Plus, Plus1, Minus1, Bags, Names

(* The operations on databases return databases.                           *)
LEMMA DatabaseFacts ==
  /\ EmptyDatabase \in Databases
  /\ \A db \in Databases : db.books \subseteq Books
  /\ \A db \in Databases, b \in Books : db.rel[b] \in Bags
  /\ \A db \in Databases, b \in Books : WithoutBook(db, b) \in Databases
  /\ \A db \in Databases, b \in Books, f \in Bags :
       WithRows(db, b, f) \in Databases
BY BagFacts DEF EmptyDatabase, Databases, WithoutBook, WithRows

(* A step that traps, in one way or the other.                             *)
Crash == OutOfRange \/ NilUnwrapped

(* Whatever fails in the environment, every handler of the list and of the *)
(* form keeps the type of every variable it assigns.                       *)
THEOREM TypeCorrect == Spec => []TypeOK
<1>1. Init => TypeOK
  <2> SUFFICES ASSUME Init PROVE TypeOK
    OBVIOUS
  <2>1. clock \in 0..MaxStamp /\ bookData \in Books \cup {NoBook}
    BY BoundAssumption DEF Init
  <2>2. ctx \in Databases /\ store \in Databases
    BY DatabaseFacts, Zenon DEF Init
  <2>3. arrImages \in Bags /\ arrUpdatedImages \in Bags
        /\ arrRemoveImages \in Bags /\ todo \in Bags
    BY BagFacts, Zenon DEF Init
  <2> QED
    BY <2>1, <2>2, <2>3 DEF Init, TypeOK
<1>2. TypeOK /\ [Next]_vars => TypeOK'
  <2> SUFFICES ASSUME TypeOK, [Next]_vars PROVE TypeOK'
    OBVIOUS
  <2> USE BoundAssumption, DatabaseFacts DEF TypeOK, dbVars, fileVars, listVars, formVars, loopVars
  <2>0. Crash => TypeOK'
    BY DEF Crash, OutOfRange, NilUnwrapped, Trap
  <2>1. CASE getBookRecords
    BY <2>1 DEF getBookRecords, Acting
  <2>2. ASSUME NEW b \in Books, cellForRowAt(b) PROVE TypeOK'
    BY <2>2, <2>0 DEF cellForRowAt, vars, Crash
  <2>3. ASSUME NEW b \in Books, editAction(b) PROVE TypeOK'
    BY <2>3, <2>0, BagFacts DEF editAction, Acting, FormFor, Crash
  <2>4. ASSUME NEW b \in Books, deleteAction(b) PROVE TypeOK'
    BY <2>4, <2>0, BagFacts DEF deleteAction, Acting, RowGone, Saves, SaveThrows, Crash
  <2>5. CASE click_onAddBtn
    BY <2>5, BagFacts DEF click_onAddBtn, Acting, FormFor
  <2>6. CASE editText
    BY <2>6 DEF editText
  <2>7. CASE imagePickerController
    <3>1. clock' \in Names
      BY <2>7 DEF imagePickerController, Names
    <3>2. arrImages' \in Bags /\ arrUpdatedImages' \in Bags
      BY <2>7, <3>1, BagFacts DEF imagePickerController, Updated
    <3>3. files' \in SUBSET Names
      BY <2>7, <3>1 DEF imagePickerController
    <3>4. clock' \in 0..MaxStamp
      BY <2>7 DEF imagePickerController
    <3> QED
      BY <2>7, <3>2, <3>3, <3>4 DEF imagePickerController
  <2>8. ASSUME NEW n \in Names, Click_onDeleteBtn(n) PROVE TypeOK'
    BY <2>8, BagFacts DEF Click_onDeleteBtn, Shown, Removed
  <2>9. ASSUME NEW n \in Names, removeImage(n) PROVE TypeOK'
    <3>1. \A c \in Holders(n) :
            WithRows(ctx, c, Minus1(ctx.rel[c], n)) \in Databases
      BY BagFacts DEF Holders
    <3> QED
      BY <2>9, <2>0, <3>1, BagFacts DEF removeImage, Saves, SaveThrows, Crash
  <2>10. CASE click_onBackBtn
    BY <2>10, BagFacts DEF click_onBackBtn, FormGone, FormFor
  <2>11. CASE saveRefused
    BY <2>11 DEF saveRefused
  <2>12. CASE addBookRecord
    <3>1. ctx' \in Databases
      BY <2>12 DEF addBookRecord
    <3>2. store' \in Databases /\ alert' \in BOOLEAN /\ popDue' \in BOOLEAN
      BY <2>12, <3>1 DEF addBookRecord, Saves, SaveThrows, Announce
    <3> QED
      BY <2>12, <3>1, <3>2 DEF addBookRecord
  <2>13. CASE updateBookRecord
    BY <2>13, <2>0, BagFacts DEF updateBookRecord, ToDelete, Crash
  <2>14. CASE saveAndGoBack
    BY <2>14 DEF saveAndGoBack, Saves, SaveThrows, Announce
  <2>15. CASE popViewController
    BY <2>15, BagFacts DEF popViewController, FormGone, FormFor
  <2>16. CASE closeAlert
    BY <2>16 DEF closeAlert
  <2>17. CASE kill
    BY <2>17 DEF kill
  <2>18. CASE launch
    BY <2>18, BagFacts DEF launch, FormGone, FormFor
  <2>19. CASE UNCHANGED vars
    BY <2>19 DEF vars
  <2> QED
    BY <2>1, <2>2, <2>3, <2>4, <2>5, <2>6, <2>7, <2>8, <2>9, <2>10, <2>11,
       <2>12, <2>13, <2>14, <2>15, <2>16, <2>17, <2>18, <2>19 DEF Next
<1> QED
  BY <1>1, <1>2, PTL DEF Spec

-----------------------------------------------------------------------------
(* What the operations on bags and databases return, name by name.         *)

(* How often a name is in the bag that an operation returns.               *)
LEMMA BagValues ==
  /\ \A f \in Bags, n \in Names : f[n] \in Nat
  /\ \A n \in Names : EmptyBag[n] = 0
  /\ \A f \in Bags : f # EmptyBag => \E n \in Names : f[n] > 0
  /\ \A f, g \in Bags, n \in Names : Plus(f, g)[n] = f[n] + g[n]
  /\ \A f \in Bags, n, m \in Names :
       /\ Plus1(f, n)[m] = IF m = n THEN f[m] + 1 ELSE f[m]
       /\ Minus1(f, n)[m] = IF m = n THEN f[m] - 1 ELSE f[m]
<1>1. \A f \in Bags : f # EmptyBag => \E n \in Names : f[n] > 0
  BY DEF EmptyBag, Bags
<1> QED
  BY <1>1 DEF EmptyBag, Plus, Plus1, Minus1, Bags

(* Storing or deleting a book changes that book only.                      *)
LEMMA DatabaseValues ==
  ASSUME NEW db \in Databases, NEW b \in Books, NEW f \in Bags
  PROVE  /\ WithRows(db, b, f).books = db.books \cup {b}
         /\ \A c \in Books :
              WithRows(db, b, f).rel[c] = IF c = b THEN f ELSE db.rel[c]
         /\ WithoutBook(db, b).books = db.books \ {b}
         /\ \A c \in Books :
              WithoutBook(db, b).rel[c] = IF c = b THEN EmptyBag ELSE db.rel[c]
BY DEF Databases, WithRows, WithoutBook

(* A sound database stays sound when a book gets rows with names that are  *)
(* not from the future and are not used by another book, ...               *)
LEMMA SoundWithRows ==
  ASSUME NEW db \in Databases, NEW b \in Books, NEW f \in Bags, NEW now \in Nat,
         Sound(db, now), f # EmptyBag,
         \A n \in Names : f[n] =< 1,
         \A n \in Names : f[n] > 0 => n =< now,
         \A n \in Names, c \in Books \ {b} : f[n] > 0 => db.rel[c][n] = 0
  PROVE  Sound(WithRows(db, b, f), now)
<1> DEFINE new == WithRows(db, b, f)
<1>0. /\ new.books = db.books \cup {b}
      /\ \A c \in Books : new.rel[c] = IF c = b THEN f ELSE db.rel[c]
  BY DatabaseValues
<1>t. db.books \subseteq Books /\ \A c \in Books, n \in Names : db.rel[c][n] \in Nat
  BY BagValues, DatabaseFacts
<1>1. PICK m \in Names : f[m] > 0
  BY BagValues
<1> HIDE DEF new
<1>2. \A c \in Books \ new.books, n \in Names : new.rel[c][n] = 0
  BY <1>0 DEF Sound
<1>3. \A c \in new.books : HasImage(new, c)
  BY <1>0, <1>1, <1>t DEF Sound, HasImage
<1>4. UniqueIn(new)
  BY <1>0, <1>t, BagValues DEF Sound, UniqueIn
<1>5. \A c \in Books, n \in Names : new.rel[c][n] > 0 => n =< now
  BY <1>0 DEF Sound
<1> QED
  BY <1>2, <1>3, <1>4, <1>5 DEF Sound, new

(* ... when a book is deleted with its rows, ...                           *)
LEMMA SoundWithoutBook ==
  ASSUME NEW db \in Databases, NEW b \in Books, NEW now \in Nat, Sound(db, now)
  PROVE  Sound(WithoutBook(db, b), now)
<1> DEFINE new == WithoutBook(db, b)
<1>0. /\ new.books = db.books \ {b}
      /\ \A c \in Books : new.rel[c] = IF c = b THEN EmptyBag ELSE db.rel[c]
  BY DatabaseValues, BagFacts
<1>t. db.books \subseteq Books
  BY DatabaseFacts
<1> HIDE DEF new
<1>2. \A c \in Books \ new.books, n \in Names : new.rel[c][n] = 0
  BY <1>0, BagValues DEF Sound
<1>3. \A c \in new.books : HasImage(new, c)
  BY <1>0, <1>t DEF Sound, HasImage
<1>4. UniqueIn(new)
  BY <1>0, BagValues DEF Sound, UniqueIn
<1>5. \A c \in Books, n \in Names : new.rel[c][n] > 0 => n =< now
  BY <1>0, BagValues DEF Sound
<1> QED
  BY <1>2, <1>3, <1>4, <1>5 DEF Sound, new

(* ... and when time passes.                                               *)
LEMMA SoundLater ==
  ASSUME NEW db \in Databases, NEW now \in Nat, Sound(db, now)
  PROVE  Sound(db, now + 1)
BY DEF Sound, Names

-----------------------------------------------------------------------------
(* The invariant Coherent, when no save fails and no form is saved twice.  *)

(* When saves are quiet none throws and no form is saved twice.            *)
LEMMA NoFailedSave == ASSUME QuietSaves PROVE ~SaveThrows /\ "resave" \notin Env
BY DEF QuietSaves, SaveThrows

(* The freshly installed app is coherent.                                  *)
LEMMA InitCoherent == Init => Coherent
<1> SUFFICES ASSUME Init PROVE Coherent
  OBVIOUS
<1>1. ctx.books = {} /\ \A b \in Books : ctx.rel[b] = EmptyBag
  BY DEF Init, EmptyDatabase
<1>2. Sound(ctx, clock)
  BY <1>1, BagValues DEF Sound, UniqueIn
<1>3. store = ctx
  BY DEF Init
<1>4. FormOK
  BY <1>1, BagValues DEF Init, FormOK
<1> QED
  BY <1>2, <1>3, <1>4 DEF Coherent, CleanContext, ListPart, FormPart, LoopPart, Init

(* A process that is not running has nothing but its databases.            *)
LEMMA StoppedCoherent ==
  ASSUME Coherent, app' # "running", UNCHANGED <<ctx, store, clock>>
  PROVE  Coherent'
BY DEF Coherent, CleanContext, ListPart, FormPart, LoopPart

(* A fresh form, on no book or on a book of a sound context, is in order.  *)
LEMMA FreshForm ==
  ASSUME TypeOK, TypeOK', Sound(ctx, clock)', NEW b \in Books \cup {NoBook},
         b # NoBook => b \in ctx'.books,
         FormFor(b, IF b = NoBook THEN EmptyBag ELSE ctx'.rel[b], filled')
  PROVE  FormOK' /\ (b # NoBook => EditOK') /\ bookData' = b
<1> USE DEF FormFor
<1>0. bookData' = b /\ NoBook \notin Books
  BY NoBookAssumption
<1>1. \A n \in Names : arrUpdatedImages'[n] = 0 /\ arrRemoveImages'[n] = 0
  BY BagValues
<1>2. CASE b = NoBook
  BY <1>0, <1>1, <1>2, BagValues DEF FormOK
<1>3. CASE b \in Books
  <2>1. arrImages' = ctx'.rel[b]
    BY <1>3, <1>0
  <2>2. \A c \in Books, n \in Names : ctx'.rel[c][n] \in Nat
    BY BagValues, DatabaseFacts DEF TypeOK
  <2>3. FormOK'
    BY <1>0, <1>1, <1>3, <2>1, <2>2 DEF FormOK, Sound, UniqueIn
  <2>4. EditOK'
    BY <1>0, <1>1, <1>3, <2>1, <2>2 DEF EditOK
  <2> QED
    BY <2>3, <2>4, <1>0
<1> QED
  BY <1>2, <1>3

(* What the invariant says of the names and rows it counts.                *)
LEMMA Counts ==
  ASSUME TypeOK
  PROVE  /\ \A n \in Names : /\ n \in Nat
                            /\ arrImages[n] \in Nat /\ arrUpdatedImages[n] \in Nat
                            /\ arrRemoveImages[n] \in Nat /\ todo[n] \in Nat
         /\ \A b \in Books, n \in Names : ctx.rel[b][n] \in Nat
         /\ ctx.books \subseteq Books
         /\ clock \in Nat
<1>1. \A n \in Names : n \in Nat
  BY DEF Names
<1>2. \A n \in Names : /\ arrImages[n] \in Nat /\ arrUpdatedImages[n] \in Nat
                      /\ arrRemoveImages[n] \in Nat /\ todo[n] \in Nat
  BY BagValues DEF TypeOK
<1>3. \A b \in Books, n \in Names : ctx.rel[b][n] \in Nat
  BY BagValues, DatabaseFacts DEF TypeOK
<1>4. ctx.books \subseteq Books
  BY DatabaseFacts DEF TypeOK
<1>5. clock \in Nat
  BY BoundAssumption DEF TypeOK
<1> QED
  BY <1>1, <1>2, <1>3, <1>4, <1>5

(* Picking a picture keeps the form in order: its name is new.             *)
LEMMA PickKeeps ==
  ASSUME TypeOK, TypeOK', Coherent, imagePickerController
  PROVE  Coherent'
<1> USE DEF dbVars, listVars, loopVars
<1>1. /\ app = "running" /\ app' = app /\ phase = "idle" /\ phase' = phase
      /\ clock' = clock + 1 /\ clock' \in Names
      /\ UNCHANGED <<ctx, store, arrTblBooks, screen, bookData,
                     arrRemoveImages, popDue>>
      /\ arrImages' = Plus1(arrImages, clock')
      /\ arrUpdatedImages' = Updated(clock')
  BY BoundAssumption DEF imagePickerController, Acting, TypeOK, Names
<1>2. Sound(ctx, clock)' /\ Sound(store, clock)'
  BY <1>1, SoundLater, Counts DEF Coherent, TypeOK
<1>3. CleanContext' /\ ListPart' /\ LoopPart'
  BY <1>1 DEF Coherent, CleanContext, ListPart, LoopPart
<1>4. FormPart'
  <2> SUFFICES ASSUME ~popDue
               PROVE  FormOK' /\ (bookData # NoBook => bookData \in ctx.books /\ EditOK')
    BY <1>1 DEF FormPart
  <2>1. FormOK /\ (bookData # NoBook => bookData \in ctx.books /\ EditOK)
    BY <1>1 DEF Coherent, FormPart
  <2>2. arrImages[clock'] = 0 /\ arrRemoveImages[clock'] = 0 /\ arrUpdatedImages[clock'] = 0
    BY <2>1, <1>1, Counts DEF FormOK
  <2>3. \A c \in Books : ctx.rel[c][clock'] = 0
    BY <1>1, Counts DEF Coherent, Sound
  <2>4. \A n \in Names : arrImages'[n] = IF n = clock' THEN 1 ELSE arrImages[n]
    <3>1. arrImages \in Bags
      BY DEF TypeOK
    <3>2. \A n \in Names :
            arrImages'[n] = IF n = clock' THEN arrImages[n] + 1 ELSE arrImages[n]
      BY <1>1, <3>1, BagValues
    <3> QED
      BY <3>2, <2>2
  <2>5. \A n \in Names : arrUpdatedImages'[n] =
          IF bookData # NoBook /\ n = clock' THEN 1 ELSE arrUpdatedImages[n]
    BY <1>1, <2>2, BagValues DEF TypeOK, Updated
  <2>6. FormOK'
    BY <1>1, <2>1, <2>2, <2>3, <2>4, <2>5, Counts DEF FormOK
  <2>7. bookData # NoBook => bookData \in ctx.books /\ EditOK'
    BY <1>1, <2>1, <2>2, <2>3, <2>4, <2>5, Counts DEF EditOK
  <2> QED
    BY <2>6, <2>7
<1> QED
  BY <1>2, <1>3, <1>4 DEF Coherent

(* Deleting a picture keeps the form in order.                             *)
LEMMA DeletePictureKeeps ==
  ASSUME TypeOK, TypeOK', Coherent, NEW n \in Names, Click_onDeleteBtn(n)
  PROVE  Coherent'
<1> USE DEF dbVars, listVars, loopVars, fileVars
<1>1. /\ app = "running" /\ app' = app /\ phase = "idle" /\ phase' = phase
      /\ arrImages[n] > 0
      /\ UNCHANGED <<ctx, store, clock, arrTblBooks, screen, bookData, popDue>>
      /\ arrImages' = Minus1(arrImages, n)
      /\ arrRemoveImages' = Plus1(arrRemoveImages, n)
      /\ arrUpdatedImages' = IF arrUpdatedImages[n] > 0
                             THEN Minus1(arrUpdatedImages, n)
                             ELSE arrUpdatedImages
  BY DEF Click_onDeleteBtn, Acting, Shown, Removed
<1>2. Sound(ctx, clock)' /\ Sound(store, clock)' /\ CleanContext' /\ ListPart' /\ LoopPart'
  BY <1>1 DEF Coherent, CleanContext, ListPart, LoopPart
<1>4. FormPart'
  <2> SUFFICES ASSUME ~popDue
               PROVE  FormOK' /\ (bookData # NoBook => bookData \in ctx.books /\ EditOK')
    BY <1>1 DEF FormPart
  <2>1. FormOK /\ (bookData # NoBook => bookData \in ctx.books /\ EditOK)
    BY <1>1 DEF Coherent, FormPart
  <2>4. \A m \in Names :
          /\ arrImages'[m] = IF m = n THEN arrImages[m] - 1 ELSE arrImages[m]
          /\ arrRemoveImages'[m] = IF m = n THEN arrRemoveImages[m] + 1
                                            ELSE arrRemoveImages[m]
    BY <1>1, BagValues DEF TypeOK
  <2>5. \A m \in Names : arrUpdatedImages'[m] =
          IF m = n /\ arrUpdatedImages[n] > 0 THEN arrUpdatedImages[m] - 1
                                               ELSE arrUpdatedImages[m]
    BY <1>1, BagValues DEF TypeOK
  <2>6. FormOK'
    BY <1>1, <2>1, <2>4, <2>5, Counts DEF FormOK
  <2>7. bookData # NoBook => bookData \in ctx.books /\ EditOK'
    BY <1>1, <2>1, <2>4, <2>5, Counts DEF EditOK, FormOK
  <2> QED
    BY <2>6, <2>7
<1> QED
  BY <1>2, <1>4 DEF Coherent

(* Saving a new book keeps both databases in order: it shares no name with *)
(* another book.                                                           *)
LEMMA AddKeeps ==
  ASSUME TypeOK, TypeOK', Coherent, QuietSaves, addBookRecord
  PROVE  Coherent'
<1> USE DEF listVars, loopVars, fileVars, formVars
<1>1. /\ app = "running" /\ app' = app /\ phase = "idle" /\ phase' = phase
      /\ arrImages # EmptyBag /\ bookData = NoBook /\ screen = "form"
      /\ UNCHANGED <<clock, arrTblBooks, screen, formVars>>
      /\ store' = ctx' /\ popDue' /\ ~popDue
  BY NoFailedSave DEF addBookRecord, SaveTapped, Acting, Acceptable, Adding,
                      Saves, Announce
<1>2. PICK b \in Books : ctx' = WithRows(ctx, b, arrImages)
  BY DEF addBookRecord
<1>3. FormOK
  BY <1>1 DEF Coherent, FormPart
<1>4. Sound(WithRows(ctx, b, arrImages), clock)
  <2>1. /\ ctx \in Databases /\ arrImages \in Bags /\ clock \in Nat
        /\ Sound(ctx, clock)
    BY Counts DEF TypeOK, Coherent
  <2>2. \A n \in Names : arrImages[n] =< 1
    BY <1>3, Counts DEF FormOK
  <2>3. \A n \in Names : arrImages[n] > 0 => n =< clock
    BY <1>3, Counts DEF FormOK
  <2>4. \A n \in Names, c \in Books \ {b} : arrImages[n] > 0 => ctx.rel[c][n] = 0
    BY <1>1, <1>3, Counts, NoBookAssumption DEF FormOK
  <2> QED
    BY <1>1, <2>1, <2>2, <2>3, <2>4, SoundWithRows
<1>5. Sound(ctx, clock)' /\ Sound(store, clock)'
  BY <1>1, <1>2, <1>4
<1>6. ctx'.books = ctx.books \cup {b}
  BY <1>2, DatabaseValues DEF TypeOK
<1>7. CleanContext' /\ ListPart' /\ FormPart' /\ LoopPart'
  BY <1>1, <1>6 DEF Coherent, CleanContext, ListPart, FormPart, LoopPart
<1> QED
  BY <1>5, <1>7 DEF Coherent

(* The new rows of an updated book keep the context in order and set the   *)
(* loop up.                                                                *)
LEMMA UpdateKeeps ==
  ASSUME TypeOK, TypeOK', Coherent, QuietSaves, updateBookRecord
  PROVE  Coherent'
<1> USE DEF listVars, loopVars, fileVars, formVars, dbVars
<1>1. CASE Crash
  BY <1>1, StoppedCoherent DEF Crash, OutOfRange, NilUnwrapped, Trap
<1>2. CASE ~Crash
  <2> DEFINE f == Plus(ctx.rel[bookData], arrUpdatedImages)
  <2>1. /\ app = "running" /\ app' = app /\ phase = "idle" /\ phase' = "removing"
        /\ arrImages # EmptyBag /\ bookData \in ctx.books /\ screen = "form"
        /\ UNCHANGED <<store, clock, arrTblBooks, screen, formVars, popDue>>
        /\ ctx' = WithRows(ctx, bookData, f) /\ todo' = arrRemoveImages /\ ~popDue
        /\ bookData # NoBook
    BY <1>2, NoFailedSave DEF updateBookRecord, SaveTapped, Acting, Acceptable, ToDelete, Crash
  <2>2. FormOK /\ EditOK
    BY <2>1 DEF Coherent, FormPart
  <2>3. /\ bookData \in Books /\ f \in Bags
        /\ \A n \in Names : f[n] = ctx.rel[bookData][n] + arrUpdatedImages[n]
    <3>1. bookData \in Books /\ ctx.rel[bookData] \in Bags /\ arrUpdatedImages \in Bags
      BY <2>1, Counts, DatabaseFacts DEF TypeOK
    <3> QED
      BY <3>1, BagFacts, BagValues
  <2> HIDE DEF f
  <2>4. Sound(WithRows(ctx, bookData, f), clock)
    <3>1. ctx \in Databases /\ clock \in Nat /\ Sound(ctx, clock)
      BY Counts DEF TypeOK, Coherent
    <3>2. \A n \in Names : f[n] =< 1
      BY <2>2, <2>3, Counts DEF FormOK, EditOK
    <3>3. \A n \in Names : f[n] > 0 => n =< clock
      BY <2>2, <2>3, Counts DEF FormOK, EditOK
    <3>4. \A n \in Names, c \in Books \ {bookData} : f[n] > 0 => ctx.rel[c][n] = 0
      BY <2>2, <2>3, Counts DEF FormOK, EditOK
    <3>5. f # EmptyBag
      <4>1. PICK n \in Names : arrImages[n] > 0
        BY <2>1, BagValues DEF TypeOK
      <4>2. f[n] > 0
        BY <4>1, <2>2, <2>3, Counts DEF EditOK
      <4> QED
        BY <4>2, BagValues
    <3> QED
      BY <2>3, <3>1, <3>2, <3>3, <3>4, <3>5, SoundWithRows
  <2>5. Sound(ctx, clock)' /\ Sound(store, clock)'
    BY <2>1, <2>4 DEF Coherent
  <2>6. /\ ctx'.books = ctx.books
        /\ \A c \in Books : ctx'.rel[c] = IF c = bookData THEN f ELSE ctx.rel[c]
    <3>1. ctx \in Databases
      BY DEF TypeOK
    <3>2. /\ WithRows(ctx, bookData, f).books = ctx.books \cup {bookData}
          /\ \A c \in Books : WithRows(ctx, bookData, f).rel[c] =
                              IF c = bookData THEN f ELSE ctx.rel[c]
      BY <2>3, <3>1, DatabaseValues
    <3> QED
      BY <2>1, <3>2
  <2>7. FormOK'
    BY <2>1, <2>2, <2>6 DEF FormOK
  <2>8. LoopOK'
    BY <2>1, <2>2, <2>3, <2>6, Counts DEF LoopOK, EditOK
  <2> QED
    BY <2>1, <2>5, <2>6, <2>7, <2>8
       DEF Coherent, CleanContext, ListPart, FormPart, LoopPart
<1> QED
  BY <1>1, <1>2

(* A turn of the loop deletes the row of the edited book or none, and      *)
(* leaves every picture the form shows.                                    *)
LEMMA RemoveRow ==
  ASSUME TypeOK, Coherent, NEW n \in Names, removeImage(n)
  PROVE  /\ bookData \in ctx.books /\ bookData \in Books
         /\ \A c \in Holders(n) : c = bookData
         /\ arrImages[n] = 0 /\ arrRemoveImages[n] > 0
         /\ FormOK /\ LoopOK /\ ~popDue /\ bookData # NoBook
<1>1. app = "running" /\ phase = "removing" /\ todo[n] > 0
  BY DEF removeImage
<1>2. FormOK /\ LoopOK /\ ~popDue /\ bookData # NoBook /\ bookData \in ctx.books
  BY <1>1 DEF Coherent, FormPart, LoopPart
<1>3. arrImages[n] = 0 /\ arrRemoveImages[n] > 0
  BY <1>1, <1>2, Counts DEF FormOK, LoopOK
<1>4. \A c \in Books \ {bookData} : ctx.rel[c][n] = 0
  BY <1>2, <1>3, Counts DEF FormOK
<1>5. \A c \in Holders(n) : c = bookData
  <2> SUFFICES ASSUME NEW c \in Holders(n), c # bookData PROVE FALSE
    OBVIOUS
  <2>1. c \in ctx.books /\ ctx.rel[c][n] > 0
    BY DEF Holders
  <2>2. c \in Books
    BY <2>1, Counts
  <2> QED
    BY <2>1, <2>2, <1>4
<1> QED
  BY <1>2, <1>3, <1>5, Counts

(* A save inside the loop of saveAndGoBack deletes one row of the edited   *)
(* book and leaves the rest of the loop accounted for.                     *)
LEMMA RemoveKeeps ==
  ASSUME TypeOK, TypeOK', Coherent, QuietSaves, NEW n \in Names, removeImage(n)
  PROVE  Coherent'
<1> USE DEF listVars, fileVars, formVars, dbVars, loopVars
<1>1. CASE Crash
  BY <1>1, StoppedCoherent DEF Crash, OutOfRange, NilUnwrapped, Trap
<1>2. CASE ~Crash
  <2> DEFINE f == Minus1(ctx.rel[bookData], n)
  <2>0. /\ bookData \in ctx.books /\ bookData \in Books
        /\ \A c \in Holders(n) : c = bookData
        /\ arrImages[n] = 0 /\ arrRemoveImages[n] > 0
        /\ FormOK /\ LoopOK /\ ~popDue /\ bookData # NoBook
    BY RemoveRow
  <2>1. /\ app = "running" /\ app' = app /\ phase = "removing" /\ phase' = phase
        /\ UNCHANGED <<clock, arrTblBooks, screen, formVars, popDue>>
        /\ todo[n] > 0 /\ todo' = Minus1(todo, n)
    BY <1>2 DEF removeImage, Crash
  <2>t. \A m \in Names : todo'[m] = IF m = n THEN todo[m] - 1 ELSE todo[m]
    BY <2>1, BagValues DEF TypeOK
  <2>2. CASE Holders(n) = {}
    <3>1. UNCHANGED <<ctx, store>>
      BY <1>2, <2>2 DEF removeImage, Crash
    <3>2. ctx.rel[bookData][n] = 0
      BY <2>0, <2>2, Counts DEF Holders
    <3>3. FormOK'
      BY <2>0, <2>1, <3>1 DEF FormOK
    <3>4. LoopOK'
      BY <2>0, <2>1, <2>t, <3>1, <3>2, Counts DEF LoopOK
    <3> QED
      BY <2>0, <2>1, <3>1, <3>3, <3>4
         DEF Coherent, CleanContext, ListPart, FormPart, LoopPart
  <2>3. CASE Holders(n) # {}
    <3>1. store' = ctx' /\ ctx' = WithRows(ctx, bookData, f)
      BY <1>2, <2>0, <2>3, NoFailedSave DEF removeImage, Saves, Crash
    <3>2. bookData \in Holders(n) /\ ctx.rel[bookData][n] > 0
      BY <2>0, <2>3 DEF Holders
    <3>3. /\ f \in Bags
          /\ \A m \in Names : f[m] = IF m = n THEN ctx.rel[bookData][m] - 1
                                              ELSE ctx.rel[bookData][m]
      <4>1. ctx.rel[bookData] \in Bags
        BY <2>0, DatabaseFacts DEF TypeOK
      <4> QED
        BY <4>1, <3>2, BagFacts, BagValues, ZenonT(60)
    <3> HIDE DEF f
    <3>4. ctx \in Databases /\ clock \in Nat /\ Sound(ctx, clock)
      BY Counts DEF TypeOK, Coherent
    <3>5. \A m \in Names : arrImages[m] =< f[m]
      BY <2>0, <3>2, <3>3, Counts DEF LoopOK
    <3>6. \A m \in Names : f[m] =< 1 /\ f[m] =< ctx.rel[bookData][m]
      BY <2>0, <3>3, <3>4, Counts DEF Sound, UniqueIn
    <3>7. f # EmptyBag
      <4>1. PICK m \in Names : arrImages[m] > 0
        BY <2>0, BagValues DEF TypeOK, LoopOK
      <4> QED
        BY <4>1, <3>3, <3>5, BagValues, Counts
    <3>8. Sound(WithRows(ctx, bookData, f), clock)
      <4>1. \A m \in Names : f[m] > 0 => ctx.rel[bookData][m] > 0
        BY <2>0, <3>3, <3>6, BagValues, Counts
      <4>2. \A m \in Names : f[m] > 0 => m =< clock
        BY <2>0, <3>4, <4>1 DEF Sound
      <4>3. \A m \in Names, c \in Books \ {bookData} : f[m] > 0 => ctx.rel[c][m] = 0
        BY <2>0, <3>4, <4>1, Counts DEF Sound, UniqueIn
      <4> QED
        BY <2>0, <3>3, <3>4, <3>6, <3>7, <4>2, <4>3, SoundWithRows
    <3>9. /\ ctx'.books = ctx.books
          /\ \A c \in Books : ctx'.rel[c] = IF c = bookData THEN f ELSE ctx.rel[c]
      <4>1. /\ WithRows(ctx, bookData, f).books = ctx.books \cup {bookData}
            /\ \A c \in Books : WithRows(ctx, bookData, f).rel[c] =
                                IF c = bookData THEN f ELSE ctx.rel[c]
        BY <2>0, <3>3, <3>4, DatabaseValues
      <4> QED
        BY <2>0, <3>1, <4>1
    <3>10. Sound(ctx, clock)' /\ Sound(store, clock)'
      BY <2>1, <3>1, <3>8
    <3>11. FormOK'
      BY <2>0, <2>1, <3>9 DEF FormOK
    <3>12. LoopOK'
      <4>1. \A m \in Names : f[m] =< arrImages[m] + todo'[m]
        BY <2>0, <2>1, <2>t, <3>3, <3>6, Counts DEF LoopOK
      <4>2. \A m \in Names : todo'[m] =< arrRemoveImages[m]
        BY <2>0, <2>t, Counts DEF LoopOK
      <4> QED
        BY <2>0, <2>1, <3>5, <3>9, <4>1, <4>2 DEF LoopOK
    <3> QED
      BY <2>0, <2>1, <3>1, <3>9, <3>10, <3>11, <3>12
         DEF Coherent, CleanContext, ListPart, FormPart, LoopPart
  <2> QED
    BY <2>2, <2>3
<1> QED
  BY <1>1, <1>2

(* Every handler keeps the invariant, one case per action.                 *)
LEMMA CoherentStep ==
  ASSUME TypeOK, TypeOK', Coherent, QuietSaves, [Next]_vars
  PROVE  Coherent'
<1> USE DEF dbVars, fileVars, listVars, formVars, loopVars
<1>0. Crash => Coherent'
  BY StoppedCoherent DEF Crash, OutOfRange, NilUnwrapped, Trap
<1>1. CASE getBookRecords
  BY <1>1 DEF getBookRecords, Acting, Coherent, CleanContext, ListPart, FormPart,
              LoopPart, FormOK, EditOK
<1>2. ASSUME NEW b \in Books, cellForRowAt(b) PROVE Coherent'
  <2>1. CASE UNCHANGED vars
    BY <2>1 DEF vars, Coherent, CleanContext, ListPart, FormPart, LoopPart,
                FormOK, EditOK, LoopOK
  <2> QED
    BY <1>0, <1>2, <2>1 DEF cellForRowAt, Crash
<1>3. ASSUME NEW b \in Books, editAction(b) PROVE Coherent'
  <2>1. CASE b \notin arrTblBooks
    BY <1>0, <1>3, <2>1 DEF editAction, Crash
  <2>2. CASE b \in arrTblBooks
    <3>1. /\ app = "running" /\ app' = app /\ phase = "idle" /\ phase' = phase
          /\ UNCHANGED <<ctx, store, clock, arrTblBooks, popDue>>
          /\ screen' = "form" /\ FormFor(b, ctx.rel[b], TRUE)
      BY <1>3, <2>2 DEF editAction, Acting
    <3>2. b \in ctx'.books /\ b # NoBook
      BY <2>2, <3>1, NoBookAssumption DEF Coherent, ListPart
    <3>3. FormFor(b, IF b = NoBook THEN EmptyBag ELSE ctx'.rel[b], filled')
      BY <3>1, <3>2 DEF FormFor
    <3>4. Sound(ctx, clock)' /\ Sound(store, clock)' /\ CleanContext'
      BY <3>1 DEF Coherent, CleanContext
    <3>5. FormOK' /\ EditOK' /\ bookData' = b
      BY <3>2, <3>3, <3>4, FreshForm
    <3> QED
      BY <3>1, <3>2, <3>4, <3>5 DEF Coherent, ListPart, FormPart, LoopPart
  <2> QED
    BY <2>1, <2>2
<1>4. ASSUME NEW b \in Books, deleteAction(b) PROVE Coherent'
  <2>1. CASE Crash
    BY <1>0, <2>1
  <2>2. CASE ~Crash
    <3>1. /\ app = "running" /\ app' = app /\ phase = "idle" /\ phase' = phase
          /\ ctx' = WithoutBook(ctx, b) /\ store' = ctx'
          /\ arrTblBooks' = arrTblBooks \ {b}
          /\ UNCHANGED <<clock, screen, formVars, popDue>> /\ screen = "list"
      BY <1>4, <2>2, NoFailedSave DEF deleteAction, Acting, RowGone, Saves, Crash
    <3>2. Sound(ctx, clock)' /\ Sound(store, clock)'
      BY <3>1, SoundWithoutBook, Counts DEF Coherent, TypeOK
    <3>3. ctx \in Databases /\ ctx' \in Databases
      BY DEF TypeOK
    <3>4. /\ ctx'.books = ctx.books \ {b}
          /\ \A c \in Books : ctx'.rel[c] = IF c = b THEN EmptyBag ELSE ctx.rel[c]
      BY <3>1, <3>3, DatabaseValues, BagFacts
    <3>5. bookData = NoBook
      BY <3>1 DEF Coherent, ListPart
    <3>6. FormOK => FormOK'
      BY <3>1, <3>4, BagValues DEF FormOK
    <3> QED
      BY <3>1, <3>2, <3>4, <3>5, <3>6
         DEF Coherent, CleanContext, ListPart, FormPart, LoopPart
  <2> QED
    BY <2>1, <2>2
<1>5. CASE click_onAddBtn
  <2>1. /\ app = "running" /\ app' = app /\ phase = "idle" /\ phase' = phase
        /\ UNCHANGED <<ctx, store, clock, arrTblBooks, popDue>>
        /\ FormFor(NoBook, EmptyBag, FALSE)
    BY <1>5 DEF click_onAddBtn, Acting
  <2>2. FormFor(NoBook, EmptyBag, filled')
    BY <2>1 DEF FormFor
  <2>3. Sound(ctx, clock)' /\ Sound(store, clock)' /\ CleanContext'
    BY <2>1 DEF Coherent, CleanContext
  <2>4. FormOK' /\ bookData' = NoBook
    BY <2>2, <2>3, FreshForm
  <2> QED
    BY <2>1, <2>3, <2>4 DEF Coherent, ListPart, FormPart, LoopPart
<1>6. CASE editText \/ saveRefused \/ closeAlert
  BY <1>6 DEF editText, saveRefused, closeAlert, Coherent, CleanContext, ListPart,
              FormPart, LoopPart, FormOK, EditOK, LoopOK
<1>7. CASE imagePickerController
  BY <1>7, PickKeeps
<1>8. ASSUME NEW n \in Names, Click_onDeleteBtn(n) PROVE Coherent'
  BY <1>8, DeletePictureKeeps
<1>9. ASSUME NEW n \in Names, removeImage(n) PROVE Coherent'
  BY <1>9, RemoveKeeps
<1>10. CASE click_onBackBtn \/ popViewController
  <2>1. /\ app = "running" /\ app' = app /\ phase = "idle" /\ phase' = phase
        /\ UNCHANGED <<ctx, store, clock, arrTblBooks>>
        /\ FormFor(NoBook, EmptyBag, FALSE)
    BY <1>10 DEF click_onBackBtn, popViewController, Acting, FormGone
  <2>2. FormFor(NoBook, EmptyBag, filled')
    BY <2>1 DEF FormFor
  <2>3. Sound(ctx, clock)' /\ Sound(store, clock)' /\ CleanContext'
    BY <2>1 DEF Coherent, CleanContext
  <2>4. FormOK' /\ bookData' = NoBook
    BY <2>2, <2>3, FreshForm
  <2> QED
    BY <2>1, <2>3, <2>4 DEF Coherent, ListPart, FormPart, LoopPart
<1>12. CASE addBookRecord
  BY <1>12, AddKeeps
<1>13. CASE updateBookRecord
  BY <1>13, UpdateKeeps
<1>14. CASE saveAndGoBack
  <2>1. /\ app = "running" /\ app' = app /\ phase = "removing" /\ phase' = "idle"
        /\ UNCHANGED <<ctx, clock, arrTblBooks, screen, formVars>>
        /\ store' = ctx' /\ popDue'
    BY <1>14, NoFailedSave DEF saveAndGoBack, Saves, Announce
  <2> QED
    BY <2>1 DEF Coherent, CleanContext, ListPart, FormPart, LoopPart
<1>17. CASE kill
  BY <1>17, StoppedCoherent DEF kill
<1>18. CASE launch
  <2>1. /\ app' = "running" /\ phase' = "idle" /\ ctx' = store /\ store' = store
        /\ clock' = clock /\ arrTblBooks' \subseteq store.books
        /\ FormFor(NoBook, EmptyBag, FALSE)
    BY <1>18 DEF launch, FormGone
  <2>2. FormFor(NoBook, EmptyBag, filled')
    BY <2>1 DEF FormFor
  <2>3. Sound(ctx, clock)' /\ Sound(store, clock)' /\ CleanContext'
    BY <2>1 DEF Coherent, CleanContext
  <2>4. FormOK' /\ bookData' = NoBook
    BY <2>2, <2>3, FreshForm
  <2> QED
    BY <2>1, <2>3, <2>4 DEF Coherent, ListPart, FormPart, LoopPart
<1>19. CASE UNCHANGED vars
  BY <1>19 DEF vars, Coherent, CleanContext, ListPart, FormPart, LoopPart,
               FormOK, EditOK, LoopOK
<1> QED
  BY <1>1, <1>2, <1>3, <1>4, <1>5, <1>6, <1>7, <1>8, <1>9, <1>10,
     <1>12, <1>13, <1>14, <1>17, <1>18, <1>19 DEF Next

(* As long as no save fails and no form is saved twice, the form, the      *)
(* context and the store always fit together, for any number of books and  *)
(* pictures and whatever else fails, kills inside the loop included.       *)
THEOREM CoherentAlways == ASSUME QuietSaves PROVE Spec => []Coherent
<1>1. Init => Coherent
  BY InitCoherent
<1>2. TypeOK /\ TypeOK' /\ Coherent /\ [Next]_vars => Coherent'
  BY CoherentStep
<1> QED
  BY <1>1, <1>2, TypeCorrect, PTL DEF Spec

(* Every book has an image in the context and in the store, so that        *)
(* arrImg[0] of the list exists.                                           *)
THEOREM ImagesAlways == ASSUME QuietSaves PROVE Spec => []EveryBookHasImage
<1>1. Coherent => EveryBookHasImage
  BY DEF Coherent, Sound, EveryBookHasImage
<1> QED
  BY <1>1, CoherentAlways, PTL

(* No two image rows have the same img_url.                                *)
THEOREM NamesUnique == ASSUME QuietSaves PROVE Spec => []NoSharedImage
<1>1. Coherent => NoSharedImage
  BY DEF Coherent, Sound, NoSharedImage
<1> QED
  BY <1>1, CoherentAlways, PTL

(* Between two handlers the context has nothing unsaved.                   *)
THEOREM ContextClean == ASSUME QuietSaves PROVE Spec => []CleanContext
<1>1. Coherent => CleanContext
  BY DEF Coherent
<1> QED
  BY <1>1, CoherentAlways, PTL

(* Unless a failed refresh left the list behind, no handler indexes an     *)
(* array out of range: the lists hold books of the context, every one of   *)
(* which has an image.  Traps on the nil of a failed fetch remain.         *)
THEOREM ListSafe == ASSUME QuietSaves PROVE Spec => OnlyStaleListOutOfRange
<1>1. ASSUME TypeOK, Coherent, [Next]_vars, app = "running", app' = "outOfRange"
      PROVE  screen = "list" /\ ~(rows \subseteq arrTblBooks)
  <2>0. arrTblBooks \subseteq ctx.books /\ \A b \in ctx.books : HasImage(ctx, b)
    BY <1>1 DEF Coherent, Sound, ListPart
  <2>1. ASSUME NEW b \in Books, cellForRowAt(b)
        PROVE  screen = "list" /\ ~(rows \subseteq arrTblBooks)
    <3>1. b \in rows /\ screen = "list"
      BY <2>1 DEF cellForRowAt
    <3>2. CellTraps(b)
      BY <1>1, <2>1 DEF cellForRowAt, vars
    <3> QED
      BY <2>0, <3>1, <3>2 DEF CellTraps
  <2>2. ASSUME NEW b \in Books, editAction(b) \/ deleteAction(b)
        PROVE  screen = "list" /\ ~(rows \subseteq arrTblBooks)
    <3>1. b \in rows /\ screen = "list"
      BY <2>2 DEF editAction, deleteAction, Acting
    <3>2. b \notin arrTblBooks \cap ctx.books
      BY <1>1, <2>2, <2>0 DEF editAction, deleteAction, NilUnwrapped, Trap
    <3> QED
      BY <2>0, <3>1, <3>2
  <2>3. CASE updateBookRecord
    <3>1. app' # app
      BY <1>1
    <3>2. bookData # NoBook /\ phase = "idle" /\ ~popDue
      BY <2>3, NoFailedSave DEF updateBookRecord, SaveTapped, Acting
    <3>3. bookData \in ctx.books
      BY <1>1, <3>2 DEF Coherent, FormPart
    <3> QED
      BY <1>1, <2>3, <3>1, <3>3 DEF updateBookRecord, NilUnwrapped, Trap
  <2>4. ASSUME NEW n \in Names, removeImage(n) PROVE FALSE
    BY <1>1, <2>4 DEF removeImage, NilUnwrapped, Trap
  <2> QED
    BY <1>1, <2>1, <2>2, <2>3, <2>4 DEF Next, getBookRecords, click_onAddBtn,
       editText, imagePickerController, Click_onDeleteBtn, click_onBackBtn,
       saveRefused, addBookRecord, saveAndGoBack, popViewController,
       closeAlert, kill, launch, vars
<1>2. TypeOK /\ Coherent /\ [Next]_vars
      => [app = "running" /\ app' = "outOfRange"
            => screen = "list" /\ ~(rows \subseteq arrTblBooks)]_vars
  BY <1>1
<1> QED
  BY <1>2, TypeCorrect, CoherentAlways, PTL DEF Spec, OnlyStaleListOutOfRange

(* The loop of saveAndGoBack touches the rows of the edited book only.     *)
THEOREM OthersSafe == ASSUME QuietSaves PROVE Spec => OthersUntouched
<1> USE DEF dbVars
<1>1. ASSUME TypeOK, Coherent, [Next]_vars, app = "running", phase = "removing"
      PROVE  \A b \in Books \ {bookData} : ctx'.rel[b] = ctx.rel[b]
  <2>1. ASSUME NEW n \in Names, removeImage(n)
        PROVE  \A b \in Books \ {bookData} : ctx'.rel[b] = ctx.rel[b]
    <3>1. bookData \in Books /\ \A c \in Holders(n) : c = bookData
      BY <1>1, <2>1, RemoveRow
    <3>2. CASE UNCHANGED ctx
      BY <3>2
    <3>3. CASE ctx' # ctx
      <4>1. PICK c \in Holders(n) : ctx' = WithRows(ctx, c, Minus1(ctx.rel[c], n))
        BY <2>1, <3>3 DEF removeImage, Crash, OutOfRange, NilUnwrapped, Trap
      <4>2. c = bookData /\ ctx.rel[c][n] > 0
        BY <3>1 DEF Holders
      <4>3. ctx \in Databases /\ ctx.rel[c] \in Bags
        BY <1>1, <3>1, <4>2, DatabaseFacts DEF TypeOK
      <4>4. Minus1(ctx.rel[c], n) \in Bags
        BY <4>2, <4>3, BagFacts
      <4> QED
        BY <3>1, <4>1, <4>2, <4>3, <4>4, DatabaseValues
    <3> QED
      BY <3>2, <3>3
  <2>2. CASE saveAndGoBack \/ kill \/ UNCHANGED vars
    BY <2>2 DEF saveAndGoBack, kill, vars
  <2> QED
    BY <1>1, <2>1, <2>2 DEF Next, getBookRecords, cellForRowAt, editAction,
       deleteAction, click_onAddBtn, editText, imagePickerController,
       Click_onDeleteBtn, click_onBackBtn, saveRefused, addBookRecord, SaveTapped,
       updateBookRecord, popViewController, closeAlert, launch, Acting
<1>2. TypeOK /\ Coherent /\ [Next]_vars
      => [app = "running" /\ phase = "removing"
            => \A b \in Books \ {bookData} : ctx'.rel[b] = ctx.rel[b]]_vars
  BY <1>1
<1> QED
  BY <1>2, TypeCorrect, CoherentAlways, PTL DEF Spec, OthersUntouched

(* What the form shows when the update is announced is what the store has. *)
THEOREM UpdateSavesForm == ASSUME QuietSaves PROVE Spec => SavedAsShown
<1>1. ASSUME TypeOK, Coherent, [Next]_vars, phase = "removing", phase' = "idle",
             popDue', app' = "running"
      PROVE  store'.rel[bookData] = arrImages
  <2>1. CASE saveAndGoBack
    <3>1. app = "running" /\ todo = EmptyBag /\ store' = ctx
      BY <2>1, NoFailedSave DEF saveAndGoBack, Saves
    <3>2. LoopOK /\ bookData \in ctx.books
      BY <1>1, <3>1 DEF Coherent, LoopPart, FormPart
    <3>3. ctx.rel[bookData] \in Bags /\ arrImages \in Bags /\ bookData \in Books
      BY <1>1, <3>2, Counts, DatabaseFacts DEF TypeOK
    <3>4. \A n \in Names : todo[n] = 0
      BY <3>1, BagValues
    <3>5. \A n \in Names : ctx.rel[bookData][n] = arrImages[n]
      BY <1>1, <3>2, <3>3, <3>4, Counts DEF LoopOK
    <3>6. ctx.rel[bookData] = arrImages
      BY <3>3, <3>5 DEF Bags
    <3> QED
      BY <3>1, <3>6
  <2>2. CASE launch
    BY <1>1, <2>2 DEF launch, FormGone
  <2>3. CASE UNCHANGED vars
    BY <1>1, <2>3 DEF vars, loopVars
  <2>4. ASSUME NEW n \in Names, removeImage(n) PROVE FALSE
    BY <1>1, <2>4 DEF removeImage, Crash, OutOfRange, NilUnwrapped, Trap
  <2>5. CASE kill
    BY <1>1, <2>5 DEF kill
  <2> QED
    BY <1>1, <2>1, <2>2, <2>3, <2>4, <2>5 DEF Next, getBookRecords, cellForRowAt,
       editAction, deleteAction, click_onAddBtn, editText, imagePickerController,
       Click_onDeleteBtn, click_onBackBtn, saveRefused, addBookRecord, SaveTapped,
       updateBookRecord, popViewController, closeAlert, Acting
<1>2. TypeOK /\ Coherent /\ [Next]_vars
      => [phase = "removing" /\ phase' = "idle" /\ popDue' /\ app' = "running"
            => store'.rel[bookData] = arrImages]_vars
  BY <1>1
<1> QED
  BY <1>2, TypeCorrect, CoherentAlways, PTL DEF Spec, SavedAsShown

-----------------------------------------------------------------------------
(* What holds whatever fails: the list and the form hold books of the      *)
(* context, and there is no form behind the list, so that a deletion takes *)
(* no book away from a form.                                               *)
ListBare ==
  app = "running" /\ screen = "list" => bookData = NoBook /\ arrImages = EmptyBag
LookupInv == LookupsFind /\ ListBare

(* Every handler keeps it: a deletion takes the book out of the array too, *)
(* everything else leaves books in the context or rereads them.            *)
LEMMA LookupStep ==
  ASSUME TypeOK, LookupInv, [Next]_vars
  PROVE  LookupInv'
<1> USE DEF dbVars, fileVars, listVars, formVars, loopVars, LookupInv, LookupsFind,
            ListBare
<1>0. Crash => LookupInv'
  BY DEF Crash, OutOfRange, NilUnwrapped, Trap
<1>1. CASE getBookRecords
  BY <1>1 DEF getBookRecords, Acting
<1>2. ASSUME NEW b \in Books, cellForRowAt(b) PROVE LookupInv'
  BY <1>0, <1>2 DEF cellForRowAt, vars, Crash
<1>3. ASSUME NEW b \in Books, editAction(b) PROVE LookupInv'
  <2>1. CASE b \in arrTblBooks
    BY <1>3, <2>1 DEF editAction, Acting, FormFor
  <2> QED
    BY <1>0, <1>3, <2>1 DEF editAction, Crash
<1>4. ASSUME NEW b \in Books, deleteAction(b) PROVE LookupInv'
  <2>1. CASE ctx' = WithoutBook(ctx, b) /\ arrTblBooks' = arrTblBooks \ {b}
             /\ UNCHANGED <<app, screen, bookData, arrImages>>
    <3>1. bookData = NoBook
      BY <1>4 DEF deleteAction, Acting
    <3>2. ctx'.books = ctx.books \ {b}
      BY <2>1 DEF WithoutBook
    <3> QED
      BY <2>1, <3>1, <3>2
  <2> QED
    BY <1>0, <1>4, <2>1 DEF deleteAction, RowGone, Crash
<1>5. CASE \/ click_onAddBtn \/ editText \/ imagePickerController \/ saveRefused
           \/ click_onBackBtn \/ popViewController \/ saveAndGoBack
           \/ closeAlert \/ kill \/ UNCHANGED vars
  BY <1>5 DEF click_onAddBtn, editText, imagePickerController, saveRefused,
              click_onBackBtn, popViewController, saveAndGoBack, closeAlert,
              kill, vars, Acting, FormFor, FormGone
<1>6. ASSUME NEW n \in Names, Click_onDeleteBtn(n) PROVE LookupInv'
  BY <1>6 DEF Click_onDeleteBtn, Acting
<1>7. CASE addBookRecord
  <2>1. ctx.books \subseteq ctx'.books
    BY <1>7 DEF addBookRecord, WithRows
  <2> QED
    BY <1>7, <2>1 DEF addBookRecord
<1>8. CASE updateBookRecord
  <2>1. CASE ~Crash
    <3>1. /\ ctx.books \subseteq ctx'.books
          /\ UNCHANGED <<app, arrTblBooks, screen, bookData, arrImages>>
      BY <1>8, <2>1 DEF updateBookRecord, WithRows, Crash
    <3> QED
      BY <3>1
  <2> QED
    BY <1>0, <2>1
<1>9. ASSUME NEW n \in Names, removeImage(n) PROVE LookupInv'
  <2>1. CASE ~Crash
    <3>1. /\ ctx.books \subseteq ctx'.books
          /\ UNCHANGED <<app, arrTblBooks, screen, bookData, arrImages>>
      BY <1>9, <2>1 DEF removeImage, WithRows, Crash
    <3> QED
      BY <3>1
  <2> QED
    BY <1>0, <2>1
<1>10. CASE launch
  BY <1>10 DEF launch, FormGone, FormFor
<1> QED
  BY <1>1, <1>2, <1>3, <1>4, <1>5, <1>6, <1>7, <1>8, <1>9, <1>10 DEF Next

(* The two facts hold always, under every fault.                           *)
LEMMA LookupInvAlways == Spec => []LookupInv
<1>1. Init => LookupInv
  BY DEF Init, LookupInv, LookupsFind, ListBare
<1>2. TypeOK /\ LookupInv /\ [Next]_vars => LookupInv'
  BY LookupStep
<1> QED
  BY <1>1, <1>2, TypeCorrect, PTL DEF Spec

(* Whatever fails, saves and fetches included, a lookup by book_id of a    *)
(* book of the list or the form finds it when the fetch does not throw.    *)
THEOREM LookupsAlwaysFind == Spec => []LookupsFind
<1>1. LookupInv => LookupsFind
  BY DEF LookupInv
<1> QED
  BY <1>1, LookupInvAlways, PTL

-----------------------------------------------------------------------------
(* The shelf.                                                              *)

(* Inside the loop of saveAndGoBack the store is the context, or it is the *)
(* context without the pictures that this update adds to the book.         *)
StoreBehind ==
  app = "running" /\ phase = "removing" =>
    /\ bookData \in store.books
    /\ \A b \in Books \ {bookData} : store.rel[b] = ctx.rel[b]
    /\ \/ store.rel[bookData] = ctx.rel[bookData]
       \/ \A n \in Names :
            ctx.rel[bookData][n] = store.rel[bookData][n] + arrUpdatedImages[n]

(* What a turn of the loop does when it does not trap.                     *)
LEMMA RemoveEffect ==
  ASSUME TypeOK, Coherent, QuietSaves, NEW n \in Names, removeImage(n), ~Crash
  PROVE  \/ UNCHANGED <<ctx, store>>
         \/ /\ store' = ctx' /\ ctx'.books = ctx.books
            /\ \A c \in Books \ {bookData} : ctx'.rel[c] = ctx.rel[c]
            /\ \A m \in Names :
                 ctx'.rel[bookData][m] = IF m = n THEN ctx.rel[bookData][m] - 1
                                                  ELSE ctx.rel[bookData][m]
<1> USE DEF dbVars
<1>0. /\ bookData \in ctx.books /\ bookData \in Books
      /\ \A c \in Holders(n) : c = bookData
  BY RemoveRow
<1> DEFINE f == Minus1(ctx.rel[bookData], n)
<1>1. CASE Holders(n) = {}
  BY <1>1 DEF removeImage, Crash
<1>2. CASE Holders(n) # {}
  <2>1. store' = ctx' /\ ctx' = WithRows(ctx, bookData, f)
    BY <1>0, <1>2, NoFailedSave DEF removeImage, Saves, Crash
  <2>2. ctx \in Databases /\ ctx.rel[bookData] \in Bags /\ ctx.rel[bookData][n] > 0
    BY <1>0, <1>2, DatabaseFacts DEF TypeOK, Holders
  <2>3. /\ f \in Bags
        /\ \A m \in Names : f[m] = IF m = n THEN ctx.rel[bookData][m] - 1
                                            ELSE ctx.rel[bookData][m]
    BY <2>2, BagFacts, BagValues, ZenonT(60)
  <2> HIDE DEF f
  <2>4. /\ WithRows(ctx, bookData, f).books = ctx.books \cup {bookData}
        /\ \A c \in Books : WithRows(ctx, bookData, f).rel[c] =
                            IF c = bookData THEN f ELSE ctx.rel[c]
    BY <1>0, <2>2, <2>3, DatabaseValues
  <2> QED
    BY <1>0, <2>1, <2>3, <2>4
<1> QED
  BY <1>1, <1>2

(* The store keeps up with the context in every handler but the loop,      *)
(* which saves the new rows with its first deletion.                       *)
LEMMA StoreBehindStep ==
  ASSUME TypeOK, TypeOK', Coherent, Coherent', StoreBehind, QuietSaves, [Next]_vars
  PROVE  StoreBehind'
<1> USE DEF dbVars, fileVars, listVars, formVars, loopVars
<1>0. Crash => app' # "running"
  BY DEF Crash, OutOfRange, NilUnwrapped, Trap
<1>1. ASSUME NEW n \in Names, removeImage(n) PROVE StoreBehind'
  <2>1. CASE Crash
    BY <1>0, <2>1 DEF StoreBehind
  <2>2. CASE ~Crash
    <3>1. app = "running" /\ phase = "removing" /\ UNCHANGED <<bookData, arrUpdatedImages>>
      BY <1>1, <2>2 DEF removeImage, Crash
    <3>2. bookData \in ctx.books
      BY <1>1, RemoveRow
    <3>3. UNCHANGED <<ctx, store>> \/ (store' = ctx' /\ ctx'.books = ctx.books)
      BY <1>1, <2>2, RemoveEffect
    <3> QED
      BY <3>1, <3>2, <3>3 DEF StoreBehind
  <2> QED
    BY <2>1, <2>2
<1>2. CASE updateBookRecord
  <2>1. CASE Crash
    BY <1>0, <2>1 DEF StoreBehind
  <2>2. CASE ~Crash
    <3> DEFINE f == Plus(ctx.rel[bookData], arrUpdatedImages)
    <3>1. /\ bookData \in ctx.books /\ ctx' = WithRows(ctx, bookData, f)
          /\ store' = store /\ store = ctx
          /\ UNCHANGED <<bookData, arrUpdatedImages>>
      BY <1>2, <2>2 DEF updateBookRecord, SaveTapped, Acting, Coherent, CleanContext, Crash
    <3>2. bookData \in Books /\ ctx \in Databases /\ ctx.rel[bookData] \in Bags
      BY <3>1, DatabaseFacts DEF TypeOK
    <3>3. /\ f \in Bags
          /\ \A n \in Names : f[n] = ctx.rel[bookData][n] + arrUpdatedImages[n]
      BY <3>2, BagFacts, BagValues, ZenonT(60) DEF TypeOK
    <3> HIDE DEF f
    <3>4. \A c \in Books : ctx'.rel[c] = IF c = bookData THEN f ELSE ctx.rel[c]
      BY <3>1, <3>2, <3>3, DatabaseValues
    <3> QED
      BY <3>1, <3>2, <3>3, <3>4 DEF StoreBehind
  <2> QED
    BY <2>1, <2>2
<1>3. CASE UNCHANGED vars
  BY <1>3 DEF vars, StoreBehind
<1>4. ASSUME app' # "running" \/ phase' # "removing" PROVE StoreBehind'
  BY <1>4 DEF StoreBehind
<1>5. CASE \E b \in Books : cellForRowAt(b)
  BY <1>0, <1>3, <1>4, <1>5 DEF cellForRowAt, Crash
<1>6. CASE \E b \in Books : editAction(b) \/ deleteAction(b)
  BY <1>0, <1>4, <1>6 DEF editAction, deleteAction, Acting, Crash
<1>7. CASE \/ getBookRecords \/ click_onAddBtn \/ editText \/ imagePickerController
           \/ \E n \in Names : Click_onDeleteBtn(n)
  BY <1>4, <1>7 DEF getBookRecords, click_onAddBtn, editText, imagePickerController,
                    Click_onDeleteBtn, Acting
<1>8. CASE \/ click_onBackBtn \/ saveRefused \/ addBookRecord \/ saveAndGoBack
           \/ popViewController \/ closeAlert \/ kill \/ launch
  BY <1>4, <1>8 DEF click_onBackBtn, saveRefused, addBookRecord, SaveTapped, Acting,
                    saveAndGoBack, popViewController, closeAlert, kill, launch
<1> QED
  BY <1>1, <1>2, <1>3, <1>5, <1>6, <1>7, <1>8 DEF Next

(* The store is behind the context by the new pictures at most.            *)
LEMMA StoreBehindAlways == ASSUME QuietSaves PROVE Spec => []StoreBehind
<1>1. Init => StoreBehind
  BY DEF Init, StoreBehind
<1>2. TypeOK /\ TypeOK' /\ Coherent /\ Coherent' /\ StoreBehind /\ [Next]_vars
      => StoreBehind'
  BY StoreBehindStep
<1> QED
  BY <1>1, <1>2, TypeCorrect, CoherentAlways, PTL DEF Spec

(* The refinement mapping, by name: the pictures the form would add.       *)
Taken == IF bookData = NoBook THEN arrImages ELSE arrUpdatedImages
OnShelf == [b \in Books |-> Stored(b)]
OnDesk == IF app # "running" THEN {} ELSE Unsaved(Taken)

(* A picture is on the desk when the form took it and no book in the store *)
(* has it.                                                                 *)
LEMMA OnDeskValue ==
  ASSUME app = "running"
  PROVE  \A n \in Names : n \in OnDesk <=> /\ Taken[n] > 0
                                           /\ \A b \in Books : ~(store.rel[b][n] > 0)
BY DEF OnDesk, Unsaved, Stored

(* A step that leaves the store and the clock alone and puts nothing into  *)
(* the form drops pictures or does nothing.                                *)
LEMMA DropStep ==
  ASSUME store' = store, clock' = clock,
         app' = "running" =>
           /\ app = "running"
           /\ \A n \in Names : Taken'[n] > 0 => Taken[n] > 0
  PROVE  Shelf!ShelfNext
<1>1. OnShelf' = OnShelf
  BY DEF OnShelf, Stored
<1>2. OnDesk' \in SUBSET OnDesk
  BY DEF OnDesk, Unsaved, Stored
<1> QED
  BY <1>1, <1>2 DEF OnShelf, OnDesk, Taken, Shelf!ShelfNext, Shelf!DropPictures

(* Saving the edited book moves the desk into it: what the last save of    *)
(* saveAndGoBack and every turn of its loop do to the shelf.               *)
LEMMA ChangeStep ==
  ASSUME TypeOK, TypeOK', Coherent, Coherent', LookupInv, StoreBehind,
         app = "running", phase = "removing", app' = "running",
         UNCHANGED <<clock, bookData, arrImages, arrUpdatedImages>>,
         store' = ctx', ctx'.books = ctx.books,
         \A c \in Books \ {bookData} : ctx'.rel[c] = ctx.rel[c],
         \A m \in Names : /\ ctx'.rel[bookData][m] =< ctx.rel[bookData][m]
                          /\ arrImages[m] =< ctx'.rel[bookData][m]
  PROVE  Shelf!ShelfNext
<1> DEFINE old == Stored(bookData)
           new == {m \in Names : ctx'.rel[bookData][m] > 0}
<1>0. /\ bookData \in Books /\ bookData # NoBook /\ FormOK /\ LoopOK
      /\ bookData \in ctx.books
  BY Counts DEF Coherent, LoopPart, FormPart
<1>1. \A m \in Names : /\ arrImages[m] \in Nat /\ arrUpdatedImages[m] \in Nat
                       /\ ctx.rel[bookData][m] \in Nat
                       /\ ctx'.rel[bookData][m] \in Nat
                       /\ store.rel[bookData][m] \in Nat
                       /\ arrUpdatedImages[m] =< arrImages[m]
                       /\ ctx.rel[bookData][m] =< 1
  BY <1>0, DatabaseFacts, BagValues DEF TypeOK, FormOK, Coherent, Sound, UniqueIn
<1>2. Taken = arrUpdatedImages /\ Taken' = arrUpdatedImages
  BY <1>0 DEF Taken
<1>3. OnShelf' = [OnShelf EXCEPT ![bookData] = new]
  <2>1. \A c \in Books \ {bookData} : store'.rel[c] = store.rel[c]
    BY DEF StoreBehind
  <2>2. \A c \in Books : Stored(c)' = IF c = bookData THEN new ELSE Stored(c)
    BY <2>1 DEF Stored
  <2> QED
    BY <1>0, <2>2 DEF OnShelf
<1>4. OnDesk' = {}
  <2> SUFFICES ASSUME NEW n \in Names, n \in OnDesk' PROVE FALSE
    BY DEF OnDesk, Unsaved
  <2>1. Taken'[n] > 0 /\ ~(store'.rel[bookData][n] > 0)
    BY <1>0 DEF OnDesk, Unsaved, Stored
  <2> QED
    BY <1>1, <1>2, <2>1
<1>5. old # {}
  BY <1>0 DEF StoreBehind, Stored, Coherent, Sound, HasImage
<1>6. new # {}
  <2>1. PICK m \in Names : arrImages[m] > 0
    BY <1>0, BagValues DEF TypeOK, LoopOK
  <2> QED
    BY <1>1, <2>1
<1>7. OnDesk \subseteq new
  <2> SUFFICES ASSUME NEW n \in Names, n \in OnDesk PROVE n \in new
    BY DEF OnDesk, Unsaved
  <2>1. arrUpdatedImages[n] > 0
    BY <1>2, OnDeskValue
  <2> QED
    BY <1>1, <2>1
<1>8. new \subseteq old \cup OnDesk
  <2> SUFFICES ASSUME NEW n \in new, n \notin old PROVE n \in OnDesk
    OBVIOUS
  <2>1. n \in Names /\ ctx.rel[bookData][n] > 0 /\ ~(store.rel[bookData][n] > 0)
    BY <1>1 DEF Stored
  <2>2. arrUpdatedImages[n] > 0
    BY <1>1, <2>1 DEF StoreBehind
  <2>3. \A b \in Books \ {bookData} : ~(ctx.rel[b][n] > 0)
    BY <1>0, <2>1 DEF Coherent, Sound, UniqueIn
  <2>4. \A b \in Books : ~(store.rel[b][n] > 0)
    BY <2>1, <2>3 DEF StoreBehind
  <2> QED
    BY <1>2, <2>1, <2>2, <2>4, OnDeskValue
<1>9. OnShelf[bookData] = old
  BY <1>0 DEF OnShelf
<1> HIDE DEF old, new
<1>10. Shelf!ChangeBook(bookData)
  BY <1>3, <1>4, <1>5, <1>6, <1>7, <1>8, <1>9
     DEF OnShelf, OnDesk, Taken, Shelf!ChangeBook
<1> QED
  BY <1>0, <1>10 DEF Shelf!ShelfNext

(* Picking a picture is taking one to the desk.                            *)
LEMMA PickStep ==
  ASSUME TypeOK, Coherent, imagePickerController
  PROVE  Shelf!ShelfNext
<1> USE DEF dbVars
<1>1. /\ app = "running" /\ app' = app /\ store' = store /\ bookData' = bookData
      /\ clock' = clock + 1 /\ clock' \in Names
  BY BoundAssumption DEF imagePickerController, Acting, TypeOK, Names
<1>2. \A n \in Names : Taken'[n] > 0 <=> Taken[n] > 0 \/ n = clock'
  <2>1. Taken' = Plus1(Taken, clock')
    BY <1>1 DEF imagePickerController, Taken, Updated
  <2>2. Taken \in Bags
    BY DEF Taken, TypeOK
  <2>3. \A n \in Names : Taken[n] \in Nat
    BY <2>2, BagValues
  <2>4. \A n \in Names : Plus1(Taken, clock')[n] = IF n = clock' THEN Taken[n] + 1
                                                            ELSE Taken[n]
    BY <1>1, <2>2, BagValues
  <2> QED
    BY <2>1, <2>3, <2>4
<1>3. \A b \in Books : ~(store.rel[b][clock'] > 0)
  BY <1>1 DEF Coherent, Sound, TypeOK
<1>4. OnShelf' = OnShelf
  BY <1>1 DEF OnShelf, Stored
<1>5. OnDesk' = OnDesk \cup {clock'}
  <2> DEFINE U == UNION {Stored(b) : b \in Books}
  <2>a. clock' \notin U
    BY <1>3 DEF Stored
  <2>b. U' = U
    BY <1>1 DEF Stored
  <2> HIDE DEF U
  <2>c. {n \in Names : Taken'[n] > 0} = {n \in Names : Taken[n] > 0} \cup {clock'}
    BY <1>1, <1>2
  <2>d. Unsaved(Taken) = {n \in Names : Taken[n] > 0} \ U
    BY DEF Unsaved, U
  <2>e. Unsaved(Taken)' = {n \in Names : Taken'[n] > 0} \ U'
    BY DEF Unsaved, U
  <2>1. Unsaved(Taken)' = Unsaved(Taken) \cup {clock'}
    BY <2>a, <2>b, <2>c, <2>d, <2>e
  <2> QED
    BY <1>1, <2>1 DEF OnDesk
<1> QED
  BY <1>1, <1>4, <1>5 DEF OnShelf, OnDesk, Taken, Shelf!ShelfNext, Shelf!TakePicture

(* Saving a new book puts it on the shelf with the pictures of the desk.   *)
LEMMA PutStep ==
  ASSUME TypeOK, TypeOK', Coherent, QuietSaves, addBookRecord
  PROVE  Shelf!ShelfNext
<1> USE DEF dbVars, fileVars, formVars
<1>1. PICK b \in Books \ (ctx.books \cup store.books \cup rows) :
        ctx' = WithRows(ctx, b, arrImages)
  BY DEF addBookRecord
<1>2. /\ app = "running" /\ phase = "idle" /\ ~popDue /\ store' = ctx' /\ store = ctx
      /\ UNCHANGED <<app, clock, bookData, arrImages, arrUpdatedImages>>
      /\ bookData = NoBook /\ arrImages # EmptyBag
  BY NoFailedSave DEF addBookRecord, SaveTapped, Acting, Saves, Coherent,
                      CleanContext, Adding, Acceptable
<1>3. \A c \in Books : store'.rel[c] = IF c = b THEN arrImages ELSE store.rel[c]
  BY <1>1, <1>2, DatabaseValues DEF TypeOK
<1>4. \A n \in Names : arrImages[n] > 0 => \A c \in Books : ~(store.rel[c][n] > 0)
  <2>1. FormOK
    BY <1>2 DEF Coherent, FormPart
  <2> QED
    BY <1>2, <2>1, NoBookAssumption, Counts DEF FormOK
<1> DEFINE P == {n \in Names : arrImages[n] > 0}
<1>5. OnDesk = P
  BY <1>2, <1>4 DEF OnDesk, Unsaved, Stored, Taken
<1>6. OnDesk' = {}
  <2> SUFFICES ASSUME NEW n \in Names, n \in OnDesk' PROVE FALSE
    BY DEF OnDesk, Unsaved
  <2>1. arrImages'[n] > 0 /\ ~(store'.rel[b][n] > 0)
    BY <1>2 DEF OnDesk, Unsaved, Stored, Taken
  <2> QED
    BY <1>2, <1>3, <2>1
<1>7. OnShelf' = [OnShelf EXCEPT ![b] = P]
  <2>1. \A c \in Books : Stored(c)' = IF c = b THEN P ELSE Stored(c)
    BY <1>3 DEF Stored
  <2> QED
    BY <2>1 DEF OnShelf
<1>8. OnShelf[b] = {}
  BY <1>1 DEF OnShelf, Stored, Coherent, Sound
<1>9. P # {}
  BY <1>2, BagValues DEF TypeOK
<1> HIDE DEF P
<1>10. Shelf!PutBook(b)
  BY <1>2, <1>5, <1>6, <1>7, <1>8, <1>9 DEF OnShelf, OnDesk, Taken, Shelf!PutBook
<1> QED
  BY <1>10 DEF Shelf!ShelfNext

(* Deleting a book takes it from the shelf.                                *)
LEMMA TakeStep ==
  ASSUME TypeOK, TypeOK', Coherent, LookupInv, QuietSaves, NEW b \in Books,
         deleteAction(b), ~Crash
  PROVE  Shelf!ShelfNext
<1> USE DEF dbVars, fileVars, formVars
<1>1. /\ app = "running" /\ phase = "idle" /\ screen = "list"
      /\ store' = ctx' /\ store = ctx /\ ctx' = WithoutBook(ctx, b)
      /\ UNCHANGED <<app, clock, bookData, arrImages, arrUpdatedImages>>
  BY NoFailedSave DEF deleteAction, Acting, Saves, Coherent, CleanContext, Crash
<1>2. \A c \in Books : store'.rel[c] = IF c = b THEN EmptyBag ELSE store.rel[c]
  BY <1>1, BagFacts, DatabaseValues DEF TypeOK
<1>3. \A n \in Names : ~(Taken[n] > 0) /\ ~(Taken'[n] > 0)
  BY <1>1, BagValues DEF LookupInv, ListBare, Taken
<1>4. OnDesk = {} /\ OnDesk' = {}
  BY <1>1, <1>3 DEF OnDesk, Unsaved
<1>5. OnShelf' = [OnShelf EXCEPT ![b] = {}]
  <2>1. \A c \in Books : Stored(c)' = IF c = b THEN {} ELSE Stored(c)
    BY <1>2, BagValues DEF Stored
  <2> QED
    BY <2>1 DEF OnShelf
<1>6. Shelf!TakeBook(b)
  BY <1>1, <1>4, <1>5 DEF OnShelf, OnDesk, Taken, Shelf!TakeBook
<1> QED
  BY <1>6 DEF Shelf!ShelfNext

(* Every step of the app is a step of the shelf or leaves it alone.        *)
LEMMA ShelfStep ==
  ASSUME TypeOK, TypeOK', Coherent, Coherent', LookupInv, StoreBehind, QuietSaves,
         [Next]_vars
  PROVE  [Shelf!ShelfNext]_Shelf!shelfVars
<1> USE DEF dbVars, fileVars, listVars, formVars, loopVars
<1>0. Crash => Shelf!ShelfNext
  BY DropStep DEF Crash, OutOfRange, NilUnwrapped, Trap
<1>e. \A n \in Names : ~(EmptyBag[n] > 0)
  BY BagValues
<1>1. CASE \/ getBookRecords \/ editText \/ saveRefused \/ closeAlert \/ kill
           \/ UNCHANGED vars
  BY <1>1, DropStep DEF getBookRecords, editText, saveRefused, closeAlert, kill,
                        vars, Taken, Acting
<1>2. ASSUME NEW b \in Books, cellForRowAt(b) PROVE Shelf!ShelfNext
  BY <1>0, <1>2, DropStep DEF cellForRowAt, vars, Taken, Crash
<1>3. ASSUME NEW b \in Books, editAction(b) PROVE Shelf!ShelfNext
  <2>1. CASE b \in arrTblBooks
    <3>1. app = "running" /\ store' = store /\ clock' = clock /\ Taken' = EmptyBag
      BY <1>3, <2>1, NoBookAssumption DEF editAction, FormFor, Acting, Taken
    <3> QED
      BY <1>e, <3>1, DropStep
  <2> QED
    BY <1>0, <1>3, <2>1 DEF editAction, Crash
<1>4. ASSUME NEW b \in Books, deleteAction(b) PROVE Shelf!ShelfNext
  BY <1>0, <1>4, TakeStep
<1>5. CASE click_onAddBtn \/ click_onBackBtn \/ popViewController
  <2>1. app = "running" /\ store' = store /\ clock' = clock /\ Taken' = EmptyBag
    BY <1>5 DEF click_onAddBtn, click_onBackBtn, popViewController, FormGone,
                FormFor, Acting, Taken
  <2> QED
    BY <1>e, <2>1, DropStep
<1>6. CASE imagePickerController
  BY <1>6, PickStep
<1>7. ASSUME NEW n \in Names, Click_onDeleteBtn(n) PROVE Shelf!ShelfNext
  <2>1. /\ app = "running" /\ store' = store /\ clock' = clock /\ bookData' = bookData
        /\ arrImages' = Minus1(arrImages, n)
        /\ arrUpdatedImages' \in {arrUpdatedImages, Minus1(arrUpdatedImages, n)}
    BY <1>7 DEF Click_onDeleteBtn, Acting
  <2>2. \A f \in Bags, m \in Names : Minus1(f, n)[m] > 0 => f[m] > 0
    BY BagValues
  <2>3. arrImages \in Bags /\ arrUpdatedImages \in Bags
    BY DEF TypeOK
  <2>4. \A m \in Names : Taken'[m] > 0 => Taken[m] > 0
    BY <2>1, <2>2, <2>3 DEF Taken
  <2> QED
    BY <2>1, <2>4, DropStep
<1>8. ASSUME NEW n \in Names, removeImage(n)
      PROVE  [Shelf!ShelfNext]_Shelf!shelfVars
  <2>1. CASE ~Crash
    <3>1. /\ app = "running" /\ phase = "removing" /\ app' = app
          /\ UNCHANGED <<clock, bookData, arrImages, arrUpdatedImages>>
      BY <1>8, <2>1 DEF removeImage, Crash
    <3>2. CASE UNCHANGED <<ctx, store>>
      BY <3>1, <3>2, DropStep DEF Taken
    <3>3. CASE ~UNCHANGED <<ctx, store>>
      <4>1. /\ store' = ctx' /\ ctx'.books = ctx.books
            /\ \A c \in Books \ {bookData} : ctx'.rel[c] = ctx.rel[c]
            /\ \A m \in Names :
                 ctx'.rel[bookData][m] = IF m = n THEN ctx.rel[bookData][m] - 1
                                                  ELSE ctx.rel[bookData][m]
        BY <1>8, <2>1, <3>3, RemoveEffect
      <4>2. phase' = "removing"
        BY <1>8, <2>1 DEF removeImage, Crash
      <4>3. LoopOK' /\ bookData \in Books
        BY <1>8, <3>1, <4>2, RemoveRow DEF Coherent, LoopPart
      <4>4. \A m \in Names : ctx.rel[bookData][m] \in Nat
        BY <4>3, DatabaseFacts, BagValues DEF TypeOK
      <4>5. \A m \in Names : /\ ctx'.rel[bookData][m] =< ctx.rel[bookData][m]
                             /\ arrImages[m] =< ctx'.rel[bookData][m]
        BY <3>1, <4>1, <4>3, <4>4 DEF LoopOK
      <4> QED
        BY <3>1, <4>1, <4>5, ChangeStep
    <3> QED
      BY <3>2, <3>3
  <2> QED
    BY <1>0, <2>1
<1>9. CASE addBookRecord
  BY <1>9, PutStep
<1>10. CASE updateBookRecord
  <2>1. CASE ~Crash
    <3>1. /\ app = "running" /\ app' = app /\ store' = store
          /\ UNCHANGED <<clock, bookData, arrImages, arrUpdatedImages>>
      BY <1>10, <2>1 DEF updateBookRecord, SaveTapped, Acting, Crash
    <3> QED
      BY <3>1, DropStep DEF Taken
  <2> QED
    BY <1>0, <2>1
<1>11. CASE saveAndGoBack
  <2>1. /\ app = "running" /\ phase = "removing" /\ app' = app
        /\ UNCHANGED <<ctx, clock, bookData, arrImages, arrUpdatedImages>>
        /\ store' = ctx'
    BY <1>11, NoFailedSave DEF saveAndGoBack, Saves
  <2>2. LoopOK /\ bookData \in Books
    BY <2>1, Counts DEF Coherent, LoopPart, FormPart
  <2>3. \A m \in Names : ctx.rel[bookData][m] \in Nat
    BY <2>2, DatabaseFacts, BagValues DEF TypeOK
  <2>4. \A m \in Names : /\ ctx'.rel[bookData][m] =< ctx.rel[bookData][m]
                         /\ arrImages[m] =< ctx'.rel[bookData][m]
    BY <2>1, <2>2, <2>3 DEF LoopOK
  <2> QED
    BY <2>1, <2>4, ChangeStep
<1>12. CASE launch
  <2>1. app # "running" /\ store' = store /\ clock' = clock /\ Taken' = EmptyBag
    BY <1>12 DEF launch, FormGone, FormFor, Taken
  <2>2. OnShelf' = OnShelf /\ OnDesk' = {} /\ OnDesk = {}
    BY <1>e, <2>1 DEF OnShelf, OnDesk, Unsaved, Stored
  <2> QED
    BY <2>1, <2>2 DEF OnShelf, OnDesk, Taken, Shelf!shelfVars
<1> QED
  BY <1>1, <1>2, <1>3, <1>4, <1>5, <1>6, <1>7, <1>8, <1>9, <1>10, <1>11, <1>12
     DEF Next

(* As long as no save fails and no form is saved twice, the app implements *)
(* the shelf of books, kills and failed fetches included: every handler    *)
(* and every turn of the loop of saveAndGoBack is one step of the shelf or *)
(* none.                                                                   *)
THEOREM AppImplementsShelf == ASSUME QuietSaves PROVE Spec => ImplementsShelf
<1>1. Init => Shelf!ShelfInit
  <2> SUFFICES ASSUME Init PROVE Shelf!ShelfInit
    OBVIOUS
  <2>1. \A b \in Books, n \in Names : ~(store.rel[b][n] > 0)
    BY BagValues DEF Init, EmptyDatabase
  <2>2. OnShelf = [b \in Books |-> {}]
    BY <2>1 DEF OnShelf, Stored
  <2>3. OnDesk = {}
    <3>1. Taken = arrImages
      BY DEF Taken, Init
    <3>2. \A n \in Names : ~(arrImages[n] > 0)
      BY BagValues DEF Init
    <3> QED
      BY <3>1, <3>2 DEF OnDesk, Unsaved
  <2> QED
    BY <2>2, <2>3, Zenon DEF Init, Shelf!ShelfInit, OnShelf, OnDesk, Taken
<1>2. /\ TypeOK /\ TypeOK' /\ Coherent /\ Coherent' /\ LookupInv /\ StoreBehind
      /\ [Next]_vars
      => [Shelf!ShelfNext]_Shelf!shelfVars
  BY ShelfStep
<1> QED
  BY <1>1, <1>2, TypeCorrect, CoherentAlways, LookupInvAlways, StoreBehindAlways, PTL
     DEF Spec, ImplementsShelf, Shelf!ShelfSpec

=============================================================================
