------------------------------ MODULE BookStore ------------------------------
(***************************************************************************)
(* The BookStore app: a list of books (Controllers/ViewController.swift)   *)
(* and a form that adds or edits one (Controllers/AddBookVC.swift) over a  *)
(* Core Data context and a directory of image files.                       *)
(*                                                                         *)
(* Handlers run on the main thread, so one handler is one action.  The one *)
(* exception is the loop of saveAndGoBack, which saves the context once    *)
(* per deleted image: it is a sequence of steps between which only the     *)
(* death of the process can come (phase = "removing").                     *)
(*                                                                         *)
(* An image file is named by its creation time, so a name is a number.     *)
(* The order of the pictures in the form and in a book_images set decides  *)
(* nothing (the user can delete any cell), so the arrays of names are bags *)
(* of names, and book_images is the bag of the img_urls of its rows.       *)
(***************************************************************************)
EXTENDS Naturals

CONSTANTS
  Books,      \* identities of Tbl_Books objects
  NoBook,     \* bookData = nil: the form adds a book
  MaxStamp,   \* bound: how many pictures are ever taken into the form
  MaxRows,    \* bound: how many rows with the same img_url a book may get
  Env         \* what the environment may do beside killing the process

Hazards == {"saveFails", "fetchFails", "writeFails", "resave"}

(* No save fails and no form is saved twice.                               *)
QuietSaves == Env \cap {"saveFails", "resave"} = {}

ASSUME NoBookAssumption == NoBook \notin Books
ASSUME BoundAssumption == MaxStamp \in Nat /\ MaxRows \in Nat
ASSUME EnvAssumption == Env \subseteq Hazards

Names == 1..MaxStamp
Bags == [Names -> Nat]
EmptyBag == [n \in Names |-> 0]
Plus(f, g) == [n \in Names |-> f[n] + g[n]]
Minus1(f, n) == [f EXCEPT ![n] = @ - 1]
Plus1(f, n) == [f EXCEPT ![n] = @ + 1]

(***************************************************************************)
(* A database: the books that exist and, for each, its image rows.  The    *)
(* relationship deletes by cascade and every row is created inside a book, *)
(* so there is no row outside a book.                                      *)
(***************************************************************************)
Databases == [books : SUBSET Books, rel : [Books -> Bags]]
EmptyDatabase == [books |-> {}, rel |-> [b \in Books |-> EmptyBag]]
WithRows(db, b, f) ==
  [books |-> db.books \cup {b}, rel |-> [db.rel EXCEPT ![b] = f]]
WithoutBook(db, b) ==
  [books |-> db.books \ {b}, rel |-> [db.rel EXCEPT ![b] = EmptyBag]]

VARIABLES
  app,               \* "running", "killed", or by which trap it ended
  ctx,               \* the managed object context: what fetches see
  store,             \* the persistent store: what a relaunch sees
  files,             \* image files in the Documents directory
  clock,             \* time stamp of the last picture
  arrTblBooks,       \* the list's array
  rows,              \* the rows the table view was last told about
  screen,            \* "list" or "form"
  bookData,          \* the book the form edits, NoBook when it adds one
  arrImages,         \* the pictures the form shows
  arrUpdatedImages,  \* the ones picked while editing a book
  arrRemoveImages,   \* the ones deleted in the form
  filled,            \* name, author and description are not empty
  alert,             \* an alert covers the screen
  popDue,            \* the form has scheduled its own pop
  phase,             \* "removing" inside the loop of saveAndGoBack
  todo               \* the names that loop has still to delete

dbVars == <<ctx, store>>
fileVars == <<files, clock>>
listVars == <<arrTblBooks, rows>>
formVars == <<bookData, arrImages, arrUpdatedImages, arrRemoveImages, filled>>
loopVars == <<phase, todo>>
vars == <<app, dbVars, fileVars, listVars, screen, formVars, alert, popDue,
          loopVars>>

HasImage(db, b) == \E n \in Names : db.rel[b][n] > 0

(***************************************************************************)
(* The code traps: an array is indexed out of range, or the nil that try?  *)
(* makes of a fetch that threw is unwrapped.                               *)
(***************************************************************************)
Trap(reason) ==
  /\ app' = reason
  /\ UNCHANGED <<dbVars, fileVars, listVars, screen, formVars, alert, popDue,
                 loopVars>>
OutOfRange == Trap("outOfRange")
NilUnwrapped == "fetchFails" \in Env /\ Trap("nilUnwrapped")

(***************************************************************************)
(* The user acts on screen s: no handler is running, no alert is on top.   *)
(***************************************************************************)
Acting(s) == app = "running" /\ phase = "idle" /\ ~alert /\ screen = s

(***************************************************************************)
(* context.save(): the store takes over the context, or the save throws    *)
(* and the context keeps its changes.                                      *)
(***************************************************************************)
SavesNothing == store' = store
Saves == store' = ctx'
SaveThrows == "saveFails" \in Env /\ store' = store

(***************************************************************************)
(* A fresh AddBookVC, and the end of one.                                  *)
(***************************************************************************)
FormFor(b, images, text) ==
  /\ bookData' = b
  /\ arrImages' = images
  /\ arrUpdatedImages' = EmptyBag
  /\ arrRemoveImages' = EmptyBag
  /\ filled' = text
FormGone == FormFor(NoBook, EmptyBag, FALSE) /\ popDue' = FALSE

Init ==
  /\ app = "running"
  /\ ctx = EmptyDatabase
  /\ store = EmptyDatabase
  /\ files = {}
  /\ clock = 0
  /\ arrTblBooks = {}
  /\ rows = {}
  /\ screen = "list"
  /\ bookData = NoBook
  /\ arrImages = EmptyBag
  /\ arrUpdatedImages = EmptyBag
  /\ arrRemoveImages = EmptyBag
  /\ filled = FALSE
  /\ alert = FALSE
  /\ popDue = FALSE
  /\ phase = "idle"
  /\ todo = EmptyBag

-----------------------------------------------------------------------------
(* The list.                                                               *)

(* Pull to refresh.  When the fetch throws, the array is already empty but *)
(* the table is not reloaded.                                              *)
getBookRecords ==
  /\ Acting("list")
  /\ \/ arrTblBooks' = ctx.books /\ rows' = ctx.books
     \/ "fetchFails" \in Env /\ arrTblBooks' = {} /\ rows' = rows
  /\ UNCHANGED <<app, dbVars, fileVars, screen, formVars, alert, popDue,
                 loopVars>>

(* The table view draws the row of b: it indexes the array and takes the   *)
(* first image of the book, arrImg[0].img_url!.                            *)
CellTraps(b) == b \notin arrTblBooks \/ ~HasImage(ctx, b)
cellForRowAt(b) ==
  /\ app = "running" /\ phase = "idle" /\ screen = "list"
  /\ b \in rows
  /\ IF CellTraps(b) THEN OutOfRange ELSE UNCHANGED vars

click_onAddBtn ==
  /\ Acting("list")
  /\ screen' = "form"
  /\ FormFor(NoBook, EmptyBag, FALSE)
  /\ UNCHANGED <<app, dbVars, fileVars, listVars, alert, popDue, loopVars>>

(* Swipe, edit: the form opens on the book and copies its image names.     *)
editAction(b) ==
  /\ Acting("list")
  /\ b \in rows
  /\ IF b \in arrTblBooks
     THEN /\ screen' = "form"
          /\ FormFor(b, ctx.rel[b], TRUE)
          /\ UNCHANGED <<app, dbVars, fileVars, listVars, alert, popDue,
                         loopVars>>
     ELSE OutOfRange

(* Swipe, delete, yes: the fetched book is deleted and, by cascade, its    *)
(* image rows; the array and the table lose the row before the save.  It   *)
(* traps on a row the array has not, on a book the fetch does not find,    *)
(* and when the fetch throws.                                              *)
RowKept(b) == arrTblBooks
RowGone(b) == arrTblBooks \ {b}
deleteAction(b) ==
  /\ Acting("list")
  /\ b \in rows
  /\ \/ /\ b \in arrTblBooks \cap ctx.books
        /\ ctx' = WithoutBook(ctx, b)
        /\ arrTblBooks' = RowGone(b)
        /\ rows' = rows \ {b}
        /\ Saves \/ SaveThrows
        /\ UNCHANGED <<app, fileVars, screen, formVars, alert, popDue,
                       loopVars>>
     \/ b \notin arrTblBooks \cap ctx.books /\ OutOfRange
     \/ b \in arrTblBooks /\ NilUnwrapped

-----------------------------------------------------------------------------
(* The form.                                                               *)

editText ==
  /\ Acting("form")
  /\ filled' = ~filled
  /\ UNCHANGED <<app, dbVars, fileVars, listVars, screen, bookData, arrImages,
                 arrUpdatedImages, arrRemoveImages, alert, popDue, loopVars>>

(* The picker returned a picture: saveImage names it by the time and       *)
(* returns the name even when the file could not be written.  A book that  *)
(* is being edited gets the name into arrUpdatedImages too.                *)
UpdatedNever(n) == arrUpdatedImages
Updated(n) == IF bookData # NoBook THEN Plus1(arrUpdatedImages, n)
                                   ELSE arrUpdatedImages
imagePickerController ==
  /\ Acting("form")
  /\ clock < MaxStamp
  /\ clock' = clock + 1
  /\ \/ files' = files \cup {clock'}
     \/ "writeFails" \in Env /\ files' = files
  /\ arrImages' = Plus1(arrImages, clock')
  /\ arrUpdatedImages' = Updated(clock')
  /\ UNCHANGED <<app, dbVars, listVars, screen, bookData, arrRemoveImages,
                 filled, alert, popDue, loopVars>>

(* The delete button of a picture's cell.                                  *)
ShownAlways(n) == TRUE
Shown(n) == arrImages[n] > 0
RemovedForgotten(n) == arrRemoveImages
Removed(n) == Plus1(arrRemoveImages, n)
Click_onDeleteBtn(n) ==
  /\ Acting("form")
  /\ Shown(n)
  /\ arrUpdatedImages' = IF arrUpdatedImages[n] > 0
                         THEN Minus1(arrUpdatedImages, n)
                         ELSE arrUpdatedImages
  /\ arrRemoveImages' = Removed(n)
  /\ arrImages' = Minus1(arrImages, n)
  /\ UNCHANGED <<app, dbVars, fileVars, listVars, screen, bookData, filled,
                 alert, popDue, loopVars>>

click_onBackBtn ==
  /\ Acting("form")
  /\ screen' = "list"
  /\ FormGone
  /\ UNCHANGED <<app, dbVars, fileVars, listVars, alert, loopVars>>

(* click_onSaveBtn: a form without a picture or with an empty text is      *)
(* refused with an alert.                                                  *)
AcceptableText == filled
Acceptable == arrImages # EmptyBag /\ filled
saveRefused ==
  /\ Acting("form")
  /\ ~Acceptable
  /\ alert' = TRUE
  /\ UNCHANGED <<app, dbVars, fileVars, listVars, screen, formVars, popDue,
                 loopVars>>

(* Save is tapped on an acceptable form.  After a save that succeeded the  *)
(* form stays for one second: a second tap in it is the hazard "resave".   *)
SaveTapped ==
  /\ Acting("form")
  /\ Acceptable
  /\ popDue => "resave" \in Env

(* What a save that succeeded shows: an alert, and a pop in one second.    *)
AnnounceOnly == alert' = TRUE /\ popDue' = popDue
Announce == alert' = TRUE /\ popDue' = TRUE

(* click_onSaveBtn with bookData = nil.  The new book is a local variable: *)
(* the form goes on thinking that it adds a book.                          *)
AddingAlways == TRUE
Adding == bookData = NoBook
addBookRecord ==
  /\ SaveTapped
  /\ Adding
  /\ \E b \in Books \ (ctx.books \cup store.books \cup rows) :
       ctx' = WithRows(ctx, b, arrImages)
  /\ \/ Saves /\ Announce
     \/ SaveThrows /\ UNCHANGED <<alert, popDue>>
  /\ UNCHANGED <<app, fileVars, listVars, screen, formVars, loopVars>>

(* click_onSaveBtn with a book: the pictures picked since the form opened  *)
(* become rows of the book, then the loop of saveAndGoBack starts.         *)
ToDeleteSwapped == arrUpdatedImages
ToDelete == arrRemoveImages
updateBookRecord ==
  /\ SaveTapped
  /\ bookData # NoBook
  /\ \/ /\ bookData \in ctx.books
        /\ \A n \in Names :
             ctx.rel[bookData][n] + arrUpdatedImages[n] =< MaxRows
        /\ ctx' = WithRows(ctx, bookData,
                           Plus(ctx.rel[bookData], arrUpdatedImages))
        /\ phase' = "removing"
        /\ todo' = ToDelete
        /\ UNCHANGED <<app, store, fileVars, listVars, screen, formVars,
                       alert, popDue>>
     \/ bookData \notin ctx.books /\ OutOfRange
     \/ NilUnwrapped

(* One turn of the loop: the first row that a fetch by img_url returns, of *)
(* whichever book, is deleted and the context saved; an error is ignored.  *)
Holders(n) == {c \in ctx.books : ctx.rel[c][n] > 0}
removeImage(n) ==
  /\ app = "running" /\ phase = "removing"
  /\ todo[n] > 0
  /\ \/ /\ todo' = Minus1(todo, n)
        /\ IF Holders(n) = {}
           THEN UNCHANGED dbVars
           ELSE /\ \E c \in Holders(n) :
                     ctx' = WithRows(ctx, c, Minus1(ctx.rel[c], n))
                /\ Saves \/ SaveThrows
        /\ UNCHANGED <<app, fileVars, listVars, screen, formVars, alert,
                       popDue, phase>>
     \/ NilUnwrapped

(* The last save of saveAndGoBack.                                         *)
saveAndGoBack ==
  /\ app = "running" /\ phase = "removing"
  /\ todo = EmptyBag
  /\ phase' = "idle"
  /\ UNCHANGED ctx
  /\ \/ Saves /\ Announce
     \/ SaveThrows /\ UNCHANGED <<alert, popDue>>
  /\ UNCHANGED <<app, fileVars, listVars, screen, formVars, todo>>

(* One second after the save; the alert stays on top if it is not closed.  *)
popViewController ==
  /\ app = "running" /\ phase = "idle"
  /\ popDue
  /\ screen' = "list"
  /\ FormGone
  /\ UNCHANGED <<app, dbVars, fileVars, listVars, alert, loopVars>>

closeAlert ==
  /\ app = "running" /\ phase = "idle"
  /\ alert
  /\ alert' = FALSE
  /\ UNCHANGED <<app, dbVars, fileVars, listVars, screen, formVars, popDue,
                 loopVars>>

-----------------------------------------------------------------------------
(* The system kills the process, at any moment, and the user starts it.    *)

kill ==
  /\ app = "running"
  /\ app' = "killed"
  /\ UNCHANGED <<dbVars, fileVars, listVars, screen, formVars, alert, popDue,
                 loopVars>>

launch ==
  /\ app # "running"
  /\ app' = "running"
  /\ ctx' = store
  /\ \/ arrTblBooks' = store.books /\ rows' = store.books
     \/ "fetchFails" \in Env /\ arrTblBooks' = {} /\ rows' = {}
  /\ screen' = "list"
  /\ FormGone
  /\ alert' = FALSE
  /\ phase' = "idle"
  /\ todo' = EmptyBag
  /\ UNCHANGED <<store, fileVars>>

Next ==
  \/ getBookRecords
  \/ \E b \in Books : cellForRowAt(b) \/ editAction(b) \/ deleteAction(b)
  \/ click_onAddBtn
  \/ editText
  \/ imagePickerController
  \/ \E n \in Names : Click_onDeleteBtn(n) \/ removeImage(n)
  \/ click_onBackBtn
  \/ saveRefused
  \/ addBookRecord
  \/ updateBookRecord
  \/ saveAndGoBack
  \/ popViewController
  \/ closeAlert
  \/ kill
  \/ launch

(***************************************************************************)
(* A handler that has started runs to its end, and the main queue runs the *)
(* pop it was given.  Nothing is assumed of the user.                      *)
(***************************************************************************)
Fairness ==
  /\ \A n \in Names : WF_vars(removeImage(n))
  /\ WF_vars(saveAndGoBack)
  /\ WF_vars(popViewController)

Spec == Init /\ [][Next]_vars
FairSpec == Spec /\ Fairness

-----------------------------------------------------------------------------
(* Properties.                                                             *)

(* Every variable keeps its type: arrTblBooks and rows hold books, no      *)
(* array of names in AddBookVC.swift ever loses a name it does not hold,   *)
(* and a loop that is not running has nothing to do.                       *)
TypeOK ==
  /\ app \in {"running", "outOfRange", "nilUnwrapped", "killed"}
  /\ ctx \in Databases
  /\ store \in Databases
  /\ files \in SUBSET Names
  /\ clock \in 0..MaxStamp
  /\ arrTblBooks \in SUBSET Books
  /\ rows \in SUBSET Books
  /\ screen \in {"list", "form"}
  /\ bookData \in Books \cup {NoBook}
  /\ arrImages \in Bags
  /\ arrUpdatedImages \in Bags
  /\ arrRemoveImages \in Bags
  /\ filled \in BOOLEAN
  /\ alert \in BOOLEAN
  /\ popDue \in BOOLEAN
  /\ phase \in {"idle", "removing"}
  /\ todo \in Bags

(* Every book has an image, in the context and in the store, also between  *)
(* two saves of the loop of saveAndGoBack and after a kill inside it: the  *)
(* list takes arrImg[0] of every book it draws (ViewController.swift:113), *)
(* and the form asks for "at leat one image" (AddBookVC.swift:366).        *)
EveryBookHasImage ==
  /\ \A b \in ctx.books : HasImage(ctx, b)
  /\ \A b \in store.books : HasImage(store, b)

(* Between two handlers nothing is left unsaved in the context, so that a  *)
(* kill between them loses nothing (every handler's last context.save()).  *)
CleanContext == app = "running" /\ phase = "idle" => store = ctx

(* No two image rows have the same img_url, whether of one book or of two. *)
(* saveAndGoBack deletes the first row with the name, so this is what      *)
(* makes it delete the right one (AddBookVC.swift:164-170).                *)
UniqueIn(db) ==
  \A n \in Names :
    /\ \A b \in Books : db.rel[b][n] =< 1
    /\ \A b, c \in Books : db.rel[b][n] > 0 /\ db.rel[c][n] > 0 => b = c
NoSharedImage == UniqueIn(ctx) /\ UniqueIn(store)

(***************************************************************************)
(* The invariant behind the ones above, for runs in which no save fails    *)
(* and no form is saved twice.                                             *)
(*                                                                         *)
(* A database is sound when it is what such a run may leave in it: rows    *)
(* only in existing books, at least one per book, every name at most once  *)
(* and none from the future.                                               *)
(***************************************************************************)
Sound(db, now) ==
  /\ \A b \in Books \ db.books, n \in Names : db.rel[b][n] = 0
  /\ \A b \in db.books : HasImage(db, b)
  /\ UniqueIn(db)
  /\ \A b \in Books, n \in Names : db.rel[b][n] > 0 => n =< now

(* The form remembers every name once, and none that is a row of another   *)
(* book.                                                                   *)
FormOK ==
  \A n \in Names :
    /\ arrImages[n] + arrRemoveImages[n] =< 1
    /\ arrUpdatedImages[n] =< arrImages[n]
    /\ arrImages[n] + arrRemoveImages[n] > 0
         => /\ n =< clock
            /\ \A c \in Books \ {bookData} : ctx.rel[c][n] = 0

(* How a form that edits a book accounts for the rows of the book before   *)
(* the book is saved.                                                      *)
EditOK ==
  \A n \in Names :
    /\ ctx.rel[bookData][n] + arrUpdatedImages[n]
         =< arrImages[n] + arrRemoveImages[n]
    /\ arrImages[n] =< ctx.rel[bookData][n] + arrUpdatedImages[n]

(* The same inside the loop of saveAndGoBack.                              *)
LoopOK ==
  /\ arrImages # EmptyBag
  /\ \A n \in Names :
       /\ todo[n] =< arrRemoveImages[n]
       /\ arrImages[n] =< ctx.rel[bookData][n]
       /\ ctx.rel[bookData][n] =< arrImages[n] + todo[n]

(* The list shows existing books only, and no book is edited behind it.    *)
ListPart ==
  app = "running" =>
    /\ arrTblBooks \subseteq ctx.books
    /\ screen = "list" => bookData = NoBook
FormPart ==
  app = "running" /\ ~popDue =>
    /\ FormOK
    /\ bookData # NoBook => bookData \in ctx.books
    /\ phase = "idle" /\ bookData # NoBook => EditOK
LoopPart ==
  app = "running" /\ phase = "removing" =>
    ~popDue /\ bookData # NoBook /\ LoopOK

(* The form, the context and the store fit together at every step of every *)
(* handler of AddBookVC.swift: the inductive invariant that explains       *)
(* EveryBookHasImage, NoSharedImage, SavedAsShown and OthersUntouched.     *)
Coherent ==
  /\ Sound(ctx, clock)
  /\ Sound(store, clock)
  /\ CleanContext
  /\ ListPart
  /\ FormPart
  /\ LoopPart

(* No array is indexed out of range, not arrTblBooks[row], arrImg[0] or    *)
(* getdata![0], except by a list whose last refresh failed, which has rows *)
(* and no books.  The other traps of the code, which this leaves alone,    *)
(* unwrap the nil of a fetch that threw (ViewController.swift:40-65,       *)
(* 106-114, 139-142, 160, AddBookVC.swift:130, 169).                       *)
OnlyStaleListOutOfRange ==
  [][app = "running" /\ app' = "outOfRange"
       => screen = "list" /\ ~(rows \subseteq arrTblBooks)]_vars

(* When "Book Updated SuccessFully!" is shown the store has exactly the    *)
(* pictures the form shows, after any sequence of picking and deleting     *)
(* pictures (arrImages against arrUpdatedImages and arrRemoveImages).      *)
SavedAsShown ==
  [][phase = "removing" /\ phase' = "idle" /\ popDue' /\ app' = "running"
       => store'.rel[bookData] = arrImages]_vars

(* The update of a book, every turn of its loop included, changes the rows *)
(* of no other book although the loop finds its rows by name only.         *)
OthersUntouched ==
  [][app = "running" /\ phase = "removing"
       => \A b \in Books \ {bookData} : ctx'.rel[b] = ctx.rel[b]]_vars

(* Whatever fails and however often a form is saved, every book that the   *)
(* list or the form holds is in the context, so that a lookup by book_id   *)
(* that does not throw finds it: deleteAction and updateBookRecord index   *)
(* the result without a test (ViewController.swift:142,                    *)
(* AddBookVC.swift:130).                                                   *)
LookupsFind ==
  app = "running" => arrTblBooks \cup ({bookData} \ {NoBook}) \subseteq ctx.books

(* An update that started brings the user back to the list, unless the     *)
(* process dies (AddBookVC.swift:186-188).                                 *)
SaveLeadsHome == phase = "removing" ~> screen = "list" \/ app # "running"

(***************************************************************************)
(* The app as a shelf of books.  The shelf is what a relaunch would find;  *)
(* on the desk are the pictures of the form that no saved book has.        *)
(***************************************************************************)
Stored(b) == {n \in Names : store.rel[b][n] > 0}
Unsaved(f) == {n \in Names : f[n] > 0} \ UNION {Stored(b) : b \in Books}
Shelf == INSTANCE BookShelf WITH
  shelf <- [b \in Books |-> Stored(b)],
  desk <- IF app # "running" THEN {}
          ELSE Unsaved(IF bookData = NoBook THEN arrImages ELSE arrUpdatedImages)

(* The app implements the shelf of books, kills inside the loop of         *)
(* saveAndGoBack included: what a relaunch finds changes one book at a     *)
(* time, a new book has exactly the pictures taken for it, an update adds  *)
(* all of them or none, no book is ever stored without a picture, and no   *)
(* picture that was dropped or deleted comes back.                         *)
ImplementsShelf == Shelf!ShelfSpec

=============================================================================
