------------------------- MODULE StudentRecordsProofs -------------------------
(***************************************************************************)
(* Theorems about the students.  The first rests on where the ids of       *)
(* students come from: document() makes each one once, before anything is  *)
(* written under it, so a setData never meets a deleted student.  The      *)
(* second rests on which form an upload reads: while it is open it is the  *)
(* form on the screen, and no other form can be opened.                    *)
(***************************************************************************)
EXTENDS StudentRecords, QueueLemmas, TLAPS

StudentWrites == [op : {"set", "update", "delete"}, key : Students,
                  doc : SUBSET Entries, mine : BOOLEAN]
StudentUploads == [open : BOOLEAN, texts : Entries, tapped : Entries,
                   touched : BOOLEAN]

StudentTypeOK ==
  /\ server \in [Students -> SUBSET Entries]
  /\ write \in Seq(StudentWrites) /\ Len(write) =< 1
  /\ madeKeys \in SUBSET Students /\ gone \in SUBSET Students
  /\ uploading \in Seq(StudentUploads)
  /\ arrstudent \in SUBSET Rows
  /\ asking \in BOOLEAN
  /\ answers \in Seq(SUBSET Rows)
  /\ studentForm \in Students \cup {Adds, Shut}
  /\ entry \in Entries

(* The form without anything in it is a form.                              *)
LEMMA NoEntryIsEntry == NoEntry \in Entries
  BY DEF NoEntry, Entries

(* The queue of one write is taken as a whole.                             *)
LEMMA OneWrite ==
  ASSUME NEW w \in StudentWrites
  PROVE  /\ <<w>> \in Seq(StudentWrites) /\ Len(<<w>>) =< 1
         /\ <<w>> # <<>> /\ Head(<<w>>) = w
  OBVIOUS

(* A queue that is not empty has one write.                                *)
LEMMA FirstWrite ==
  ASSUME StudentTypeOK, write # <<>>
  PROVE  /\ Head(write) \in StudentWrites
         /\ Head(write) = write[1]
         /\ DOMAIN write = 1..1
  <1>1. write \in Seq(StudentWrites) /\ Len(write) =< 1
    BY DEF StudentTypeOK
  <1>2. Len(write) \in Nat /\ Len(write) # 0
    BY <1>1
  <1>3. Len(write) = 1
    <2>1. PICK n \in Nat : n = Len(write)
      BY <1>2
    <2>2. n =< 1 /\ n # 0
      BY <2>1, <1>1, <1>2
    <2>3. n = 1
      BY <2>2
    <2> QED
      BY <2>1, <2>3
  <1>4. DOMAIN write = 1..1 /\ write[1] \in StudentWrites
    BY <1>1, <1>3
  <1>5. Head(write) = write[1]
    BY <1>1, TailPlaces
  <1> QED
    BY <1>4, <1>5

(* The answer on its way is a list.                                        *)
LEMMA FirstAnswer ==
  ASSUME NEW S, NEW q \in Seq(S), q # <<>> PROVE Head(q) \in S
  OBVIOUS

(* At most one answer is on its way.                                       *)
LEMMA OneAnswer ==
  ASSUME NEW S, NEW a \in S PROVE <<a>> \in Seq(S) /\ <<>> \in Seq(S)
  OBVIOUS

(* A form that is left keeps its uploads, which remember its texts.        *)
LEMMA FrozenUploads ==
  ASSUME StudentTypeOK,
         uploading' = [i \in DOMAIN uploading |-> Frozen(uploading[i])]
  PROVE  /\ uploading' \in Seq(StudentUploads)
         /\ DOMAIN uploading' = DOMAIN uploading
         /\ \A i \in DOMAIN uploading :
              /\ ~uploading'[i].open
              /\ uploading'[i].tapped = uploading[i].tapped
              /\ uploading'[i].touched = uploading[i].touched
              /\ uploading'[i].texts = EntryNow(uploading[i])
  <1>1. uploading \in Seq(StudentUploads) /\ entry \in Entries
    BY DEF StudentTypeOK
  <1>2. ASSUME NEW u \in StudentUploads
        PROVE  /\ Frozen(u) \in StudentUploads
               /\ ~Frozen(u).open
               /\ Frozen(u).tapped = u.tapped
               /\ Frozen(u).touched = u.touched
               /\ Frozen(u).texts = EntryNow(u)
    BY <1>1 DEF Frozen, EntryNow, StudentUploads
  <1>3. DOMAIN uploading = 1..Len(uploading) /\ Len(uploading) \in Nat
    BY <1>1
  <1>4. \A i \in 1..Len(uploading) : uploading[i] \in StudentUploads
    BY <1>1
  <1>5. uploading' \in [1..Len(uploading) -> StudentUploads]
    BY <1>2, <1>3, <1>4
  <1>6. uploading' \in Seq(StudentUploads)
    BY <1>3, <1>5
  <1> QED
    BY <1>2, <1>3, <1>4, <1>5, <1>6

(* A form that is changed keeps its uploads; those that are open know it.  *)
LEMMA TouchedUploads ==
  ASSUME StudentTypeOK, TouchesForm
  PROVE  /\ uploading' \in Seq(StudentUploads)
         /\ DOMAIN uploading' = DOMAIN uploading
         /\ \A i \in DOMAIN uploading :
              /\ uploading'[i].open = uploading[i].open
              /\ uploading'[i].tapped = uploading[i].tapped
              /\ uploading'[i].texts = uploading[i].texts
              /\ ~uploading'[i].touched => ~uploading[i].touched /\ ~uploading[i].open
  <1>1. uploading \in Seq(StudentUploads)
    BY DEF StudentTypeOK
  <1>2. ASSUME NEW u \in StudentUploads
        PROVE  /\ Touched(u) \in StudentUploads
               /\ Touched(u).open = u.open
               /\ Touched(u).tapped = u.tapped
               /\ Touched(u).texts = u.texts
               /\ ~Touched(u).touched => ~u.touched /\ ~u.open
    BY DEF Touched, StudentUploads
  <1>3. DOMAIN uploading = 1..Len(uploading) /\ Len(uploading) \in Nat
    BY <1>1
  <1>4. \A i \in 1..Len(uploading) : uploading[i] \in StudentUploads
    BY <1>1
  <1>5. uploading' \in [1..Len(uploading) -> StudentUploads]
    BY <1>2, <1>3, <1>4 DEF TouchesForm
  <1>6. uploading' \in Seq(StudentUploads)
    BY <1>3, <1>5
  <1> QED
    BY <1>2, <1>3, <1>4, <1>5, <1>6 DEF TouchesForm

(* A write that loses its form is still the same write.                    *)
LEMMA OrphanWrite ==
  ASSUME StudentTypeOK,
         write' = [i \in DOMAIN write |-> [write[i] EXCEPT !.mine = FALSE]]
  PROVE  /\ write' \in Seq(StudentWrites) /\ Len(write') =< 1
         /\ write' = <<>> <=> write = <<>>
         /\ write # <<>> => /\ ~Head(write').mine
                            /\ Head(write').op = Head(write).op
                            /\ Head(write').key = Head(write).key
                            /\ Head(write').doc = Head(write).doc
  <1>1. write \in Seq(StudentWrites) /\ Len(write) =< 1
    BY DEF StudentTypeOK
  <1>2. CASE write = <<>>
    BY <1>1, <1>2
  <1>3. CASE write # <<>>
    <2>1. DOMAIN write = 1..1 /\ write[1] \in StudentWrites /\ Head(write) = write[1]
      BY <1>3, FirstWrite
    <2>2. write' = [i \in 1..1 |-> [write[i] EXCEPT !.mine = FALSE]]
      BY <2>1
    <2>3. write'[1] = [write[1] EXCEPT !.mine = FALSE]
      BY <2>2
    <2>4. /\ write'[1] \in StudentWrites
          /\ ~write'[1].mine /\ write'[1].op = write[1].op
          /\ write'[1].key = write[1].key /\ write'[1].doc = write[1].doc
      <3>1. ASSUME NEW w \in StudentWrites
            PROVE  LET v == [w EXCEPT !.mine = FALSE] IN
                   /\ v \in StudentWrites /\ ~v.mine
                   /\ v.op = w.op /\ v.key = w.key /\ v.doc = w.doc
        BY DEF StudentWrites
      <3> QED
        BY <2>1, <2>3, <3>1
    <2>5. write' \in [1..1 -> StudentWrites]
      BY <2>2, <2>3, <2>4
    <2>6. write' \in Seq(StudentWrites) /\ Len(write') = 1
      BY <2>5
    <2>7. Head(write') = write'[1] /\ write' # <<>>
      BY <2>6
    <2> QED
      BY <1>3, <2>1, <2>4, <2>6, <2>7
  <1> QED
    BY <1>2, <1>3

-----------------------------------------------------------------------------
(* Types.                                                                  *)

(* The types hold at the start, when nothing was asked or written.         *)
LEMMA StudentTypeInit == ASSUME StudentInit PROVE StudentTypeOK
  <1>1. <<>> \in Seq(StudentWrites) /\ Len(<<>>) =< 1
    OBVIOUS
  <1>2. <<>> \in Seq(StudentUploads) /\ <<>> \in Seq(SUBSET Rows)
    OBVIOUS
  <1>3. server \in [Students -> SUBSET Entries]
    BY DEF StudentInit
  <1>4. write \in Seq(StudentWrites) /\ Len(write) =< 1
    BY <1>1 DEF StudentInit
  <1>5. uploading \in Seq(StudentUploads) /\ answers \in Seq(SUBSET Rows)
    BY <1>2, Zenon DEF StudentInit
  <1> QED
    BY <1>3, <1>4, <1>5, NoEntryIsEntry DEF StudentInit, StudentTypeOK

(* Every operation keeps the types of the store, the list and the form.    *)
LEMMA StudentTypeStep ==
  ASSUME StudentTypeOK, [StudentNext]_studentVars
  PROVE  StudentTypeOK'
  <1> USE DEF storeVars, formVars, queryVars
  <1>1. CASE getstudent
    <2>1. getstudentLimitedData \in SUBSET Rows
      BY DEF getstudentLimitedData
    <2>2. /\ <<getstudentLimitedData>> \in Seq(SUBSET Rows)
          /\ <<>> \in Seq(SUBSET Rows)
      BY <2>1, OneAnswer
    <2>3. answers' \in Seq(SUBSET Rows)
      BY <1>1, <2>2, Zenon DEF getstudent
    <2> QED
      BY <1>1, <2>3 DEF getstudent, StudentTypeOK
  <1>2. CASE retrivealldata
    <2>1. answers' \in Seq(SUBSET Rows)
      BY <1>2 DEF retrivealldata
    <2>2. answers \in Seq(SUBSET Rows) /\ answers # <<>>
      BY <1>2 DEF retrivealldata, StudentTypeOK
    <2>3. Head(answers) \in SUBSET Rows
      BY <2>2, FirstAnswer
    <2> QED
      BY <1>2, <2>1, <2>3 DEF retrivealldata, StudentTypeOK
  <1>3. CASE addStudentBtn
    BY <1>3, NoEntryIsEntry DEF addStudentBtn, OpensForm, StudentTypeOK
  <1>4. ASSUME NEW r \in arrstudent, editStudent(r) PROVE StudentTypeOK'
    <2>1. r \in Rows
      BY DEF StudentTypeOK
    <2>2. /\ EditsByName(r) \in Students \cup {Adds, Shut}
          /\ [text |-> r.entry.text, board |-> FALSE] \in Entries
      BY <2>1 DEF EditsByName, Rows, Entries
    <2> QED
      BY <1>4, <2>2 DEF editStudent, OpensForm, StudentTypeOK
  <1>5. ASSUME NEW r \in arrstudent, deleteStudent(r) PROVE StudentTypeOK'
    <2>1. Deletion(r.key) \in StudentWrites
      BY DEF StudentTypeOK, Rows, Deletion, StudentWrites
    <2>2. write' \in Seq(StudentWrites) /\ Len(write') =< 1
      BY <1>5, <2>1, OneWrite DEF deleteStudent
    <2> QED
      BY <1>5, <2>2 DEF deleteStudent, StudentTypeOK
  <1>6. ASSUME NEW t \in Typed \cup {Empty}, typeText(t) PROVE StudentTypeOK'
    <2>1. entry' \in Entries
      BY <1>6 DEF typeText, StudentTypeOK, Entries
    <2>2. uploading' \in Seq(StudentUploads)
      BY <1>6, TouchedUploads DEF typeText
    <2> QED
      BY <1>6, <2>1, <2>2 DEF typeText, StudentTypeOK
  <1>7. CASE stdbtnclick
    <2>1. entry' \in Entries
      BY <1>7 DEF stdbtnclick, StudentTypeOK, Entries
    <2>2. uploading' \in Seq(StudentUploads)
      BY <1>7, TouchedUploads DEF stdbtnclick
    <2> QED
      BY <1>7, <2>1, <2>2 DEF stdbtnclick, StudentTypeOK
  <1>8. CASE updateStudent
    <2>1. UpdatesDocument(studentForm) \in StudentWrites
      BY <1>8 DEF updateStudent, InForm, StudentTypeOK, UpdatesDocument, StudentWrites
    <2>2. write' \in Seq(StudentWrites) /\ Len(write') =< 1
      BY <1>8, <2>1, OneWrite DEF updateStudent
    <2> QED
      BY <1>8, <2>2 DEF updateStudent, StudentTypeOK
  <1>9. CASE uploadStudent
    <2> DEFINE u == [open |-> TRUE, texts |-> NoEntry, tapped |-> entry,
                     touched |-> FALSE]
    <2>1. u \in StudentUploads
      BY NoEntryIsEntry DEF StudentTypeOK, StudentUploads
    <2>2. uploading' = Append(uploading, u)
      BY <1>9 DEF uploadStudent
    <2> HIDE DEF u
    <2>3. uploading' \in Seq(StudentUploads)
      BY <2>1, <2>2 DEF StudentTypeOK
    <2> QED
      BY <1>9, <2>3 DEF uploadStudent, KeepsForm, StudentTypeOK
  <1>10. CASE backToStudents
    <2>1. uploading' \in Seq(StudentUploads)
      BY <1>10, FrozenUploads DEF backToStudents, Left
    <2>2. write' \in Seq(StudentWrites) /\ Len(write') =< 1
      BY <1>10, OrphanWrite DEF backToStudents
    <2> QED
      BY <1>10, <2>1, <2>2, NoEntryIsEntry DEF backToStudents, Left, StudentTypeOK
  <1>11. ASSUME NEW i, NEW k \in Students, uploadEnds(i, k) PROVE StudentTypeOK'
    <2>1. uploading \in Seq(StudentUploads) /\ i \in 1..Len(uploading)
      BY <1>11 DEF uploadEnds, StudentTypeOK
    <2>2. uploading' = Cut(uploading, i)
      BY <1>11 DEF uploadEnds, Cut
    <2>3. uploading' \in Seq(StudentUploads)
      BY <2>1, <2>2, CutPlaces
    <2>4. uploading[i] \in StudentUploads
      BY <2>1
    <2> DEFINE w == [op |-> "set", key |-> k, doc |-> {EntryNow(uploading[i])},
                     mine |-> uploading[i].open]
    <2>5. w \in StudentWrites
      BY <2>4 DEF StudentUploads, EntryNow, StudentWrites, StudentTypeOK
    <2>6. write' = <<w>>
      BY <1>11 DEF uploadEnds
    <2> HIDE DEF w
    <2>7. write' \in Seq(StudentWrites) /\ Len(write') =< 1
      BY <2>5, <2>6, OneWrite
    <2> QED
      BY <1>11, <2>3, <2>7 DEF uploadEnds, StudentTypeOK
  <1>12. CASE commitStudent
    <2> DEFINE w == Head(write)
    <2>1. w \in StudentWrites
      BY <1>12, FirstWrite DEF commitStudent
    <2>2. write' \in Seq(StudentWrites) /\ Len(write') =< 1
      BY <1>12 DEF commitStudent
    <2>3. /\ server' \in [Students -> SUBSET Entries]
          /\ gone' \in SUBSET Students
      BY <1>12, <2>1 DEF commitStudent, StudentTypeOK, StudentWrites
    <2>4. /\ uploading' \in Seq(StudentUploads) /\ asking' \in BOOLEAN
          /\ studentForm' \in Students \cup {Adds, Shut}
          /\ entry' \in Entries
      <3>1. CASE w.mine
        BY <1>12, <3>1, FrozenUploads, NoEntryIsEntry DEF commitStudent, Closes, Left
      <3>2. CASE ~w.mine
        BY <1>12, <3>2 DEF commitStudent, Closes, StudentTypeOK
      <3> QED
        BY <3>1, <3>2
    <2> QED
      BY <1>12, <2>2, <2>3, <2>4 DEF commitStudent, StudentTypeOK
  <1>13. CASE rejectStudent
    <2>1. write' \in Seq(StudentWrites) /\ Len(write') =< 1
      BY <1>13 DEF rejectStudent
    <2> QED
      BY <1>13, <2>1 DEF rejectStudent, StudentTypeOK
  <1>14. CASE UNCHANGED studentVars
    BY <1>14 DEF studentVars, StudentTypeOK
  <1> QED
    BY <1>1, <1>2, <1>3, <1>4, <1>5, <1>6, <1>7, <1>8, <1>9, <1>10, <1>11,
       <1>12, <1>13, <1>14
       DEF StudentNext

-----------------------------------------------------------------------------
(* Deleted students.                                                       *)

(* Every id that is anywhere, in a document, a write, a row, an answer or  *)
(* the form, was made by document(); a setData goes to an id that nobody   *)
(* has deleted.                                                            *)
KeysMade ==
  /\ gone \subseteq madeKeys
  /\ \A k \in Students : server[k] # {} => k \in madeKeys
  /\ write # <<>> => /\ Head(write).key \in madeKeys
                     /\ Head(write).op = "set" => Head(write).key \notin gone
                     /\ Head(write).op = "delete" => Head(write).doc = {}
  /\ \A r \in arrstudent : r.key \in madeKeys
  /\ answers # <<>> => \A r \in Head(answers) : r.key \in madeKeys
  /\ studentForm \in madeKeys \cup {Adds, Shut}

GoneInv == StudentTypeOK /\ KeysMade /\ DeletedStudentGone

(* A read finds only students whose id was made.                           *)
LEMMA SeenMade ==
  ASSUME GoneInv, NEW r \in getstudentLimitedData
  PROVE  r.key \in madeKeys
  <1>1. r \in Rows /\ r.entry \in Seen(r.key) /\ r.key \in Students
    BY DEF getstudentLimitedData, Rows
  <1>2. CASE write # <<>> /\ Head(write).key = r.key
    BY <1>2 DEF GoneInv, KeysMade
  <1>3. CASE ~(write # <<>> /\ Head(write).key = r.key)
    BY <1>1, <1>3 DEF Seen, GoneInv, KeysMade
  <1> QED
    BY <1>2, <1>3

(* The form and the list: no document changes, and what they hand on was   *)
(* made before.                                                            *)
LEMMA ScreenKeepsKeys ==
  ASSUME GoneInv,
         \/ getstudent \/ retrivealldata \/ addStudentBtn
         \/ \E r \in arrstudent : editStudent(r)
         \/ \E t \in Typed \cup {Empty} : typeText(t)
         \/ stdbtnclick \/ uploadStudent \/ UNCHANGED studentVars
  PROVE  KeysMade' /\ DeletedStudentGone'
  <1> USE DEF storeVars, formVars, queryVars
  <1>1. UNCHANGED <<server, madeKeys, gone, write>>
    BY DEF getstudent, retrivealldata, addStudentBtn, editStudent, OpensForm,
           typeText, stdbtnclick, uploadStudent, studentVars
  <1>2. DeletedStudentGone'
    BY <1>1 DEF GoneInv, DeletedStudentGone
  <1>3. CASE getstudent
    <2>1. answers' # <<>> => Head(answers') = getstudentLimitedData
      BY <1>3 DEF getstudent
    <2> QED
      BY <1>1, <1>2, <1>3, <2>1, SeenMade DEF getstudent, GoneInv, KeysMade
  <1>4. CASE retrivealldata
    <2>1. \A r \in arrstudent' : r.key \in madeKeys
      BY <1>4 DEF retrivealldata, GoneInv, KeysMade
    <2> QED
      BY <1>1, <1>2, <1>4, <2>1 DEF retrivealldata, GoneInv, KeysMade
  <1>5. CASE addStudentBtn
    BY <1>1, <1>2, <1>5 DEF addStudentBtn, OpensForm, GoneInv, KeysMade
  <1>6. ASSUME NEW r \in arrstudent, editStudent(r)
        PROVE  KeysMade' /\ DeletedStudentGone'
    <2>1. studentForm' \in madeKeys \cup {Adds, Shut}
      BY <1>6 DEF editStudent, OpensForm, EditsByName, GoneInv, KeysMade
    <2> QED
      BY <1>1, <1>2, <1>6, <2>1 DEF editStudent, OpensForm, GoneInv, KeysMade
  <1>7. CASE \/ \E t \in Typed \cup {Empty} : typeText(t)
             \/ stdbtnclick \/ uploadStudent \/ UNCHANGED studentVars
    BY <1>1, <1>2, <1>7
       DEF typeText, stdbtnclick, uploadStudent, studentVars, GoneInv, KeysMade
  <1> QED
    BY <1>3, <1>4, <1>5, <1>6, <1>7

(* New writes: a deletion and an update go to an id that was made, a       *)
(* setData to one that is made with it.                                    *)
LEMMA WriteKeepsKeys ==
  ASSUME GoneInv,
         NEW w \in StudentWrites, write' = <<w>>,
         UNCHANGED <<server, gone, answers>>,
         madeKeys \subseteq madeKeys', w.key \in madeKeys',
         w.op = "set" => w.key \notin gone,
         w.op = "delete" => w.doc = {},
         arrstudent' \subseteq arrstudent,
         studentForm' = studentForm
  PROVE  KeysMade' /\ DeletedStudentGone'
  <1>1. write' # <<>> /\ Head(write') = w
    OBVIOUS
  <1>2. DeletedStudentGone'
    BY DEF GoneInv, DeletedStudentGone
  <1>3. KeysMade'
    BY <1>1 DEF GoneInv, KeysMade
  <1> QED
    BY <1>2, <1>3

(* The server takes a write: only a deletion adds to the deleted students, *)
(* and neither a setData nor an updateData reaches one of them.            *)
LEMMA CommitKeepsGone ==
  ASSUME GoneInv, commitStudent
  PROVE  KeysMade' /\ DeletedStudentGone'
  <1> DEFINE w == Head(write)
  <1>1. w \in StudentWrites /\ w.key \in Students
    BY FirstWrite DEF GoneInv, commitStudent, StudentWrites
  <1>2. /\ w.key \in madeKeys
        /\ w.op = "set" => w.key \notin gone
        /\ w.op = "delete" => w.doc = {}
    BY DEF GoneInv, KeysMade, commitStudent
  <1>3. /\ server' = [server EXCEPT ![w.key] = w.doc]
        /\ w.op = "update" => server[w.key] # {}
        /\ gone' = IF w.op = "delete" THEN gone \cup {w.key} ELSE gone
        /\ write' = <<>> /\ UNCHANGED <<madeKeys, arrstudent, answers>>
    BY DEF commitStudent
  <1>4. studentForm' \in {studentForm, Shut}
    BY DEF commitStudent, Closes, Left, formVars
  <1>5. w.op \in {"set", "update", "delete"}
    BY <1>1 DEF StudentWrites
  <1>6. server \in [Students -> SUBSET Entries] /\ gone \subseteq Students
    BY DEF GoneInv, StudentTypeOK
  <1> HIDE DEF w
  <1>7. DeletedStudentGone'
    <2>1. SUFFICES ASSUME NEW k \in gone' PROVE server'[k] = {}
      BY DEF DeletedStudentGone
    <2>2. CASE w.op = "delete"
      <3>1. CASE k = w.key
        BY <1>1, <1>2, <1>3, <1>6, <2>2, <3>1
      <3>2. CASE k # w.key
        <4>1. k \in gone
          BY <1>3, <2>2, <3>2
        <4> QED
          BY <4>1, <1>3, <1>6, <3>2 DEF GoneInv, DeletedStudentGone
      <3> QED
        BY <3>1, <3>2
    <2>3. CASE w.op # "delete"
      <3>1. k \in gone /\ server[k] = {}
        BY <1>3, <2>3 DEF GoneInv, DeletedStudentGone
      <3>2. k # w.key
        BY <3>1, <1>2, <1>3, <1>5, <2>3
      <3> QED
        BY <3>1, <3>2, <1>3, <1>6
    <2> QED
      BY <2>2, <2>3
  <1>8. gone' \subseteq madeKeys
    BY <1>2, <1>3 DEF GoneInv, KeysMade
  <1>9. \A k \in Students : server'[k] # {} => k \in madeKeys
    BY <1>2, <1>3, <1>6 DEF GoneInv, KeysMade
  <1>10. KeysMade'
    BY <1>3, <1>4, <1>8, <1>9 DEF GoneInv, KeysMade
  <1> QED
    BY <1>7, <1>10

(* Every step keeps the deleted students deleted.                          *)
LEMMA GoneStep ==
  ASSUME GoneInv, [StudentNext]_studentVars PROVE GoneInv'
  <1> DEFINE Goal == KeysMade' /\ DeletedStudentGone'
  <1>0. SUFFICES Goal
    BY StudentTypeStep DEF GoneInv
  <1>1. CASE \/ getstudent \/ retrivealldata \/ addStudentBtn
             \/ \E r \in arrstudent : editStudent(r)
             \/ \E t \in Typed \cup {Empty} : typeText(t)
             \/ stdbtnclick \/ uploadStudent \/ UNCHANGED studentVars
    BY <1>1, ScreenKeepsKeys
  <1>2. ASSUME NEW r \in arrstudent, deleteStudent(r) PROVE Goal
    <2>1. Deletion(r.key) \in StudentWrites
      BY DEF GoneInv, StudentTypeOK, Rows, Deletion, StudentWrites
    <2>2. /\ Deletion(r.key).key = r.key /\ Deletion(r.key).op = "delete"
          /\ Deletion(r.key).doc = {}
      BY DEF Deletion
    <2>3. r.key \in madeKeys
      BY DEF GoneInv, KeysMade
    <2> QED
      BY <1>2, <2>1, <2>2, <2>3, WriteKeepsKeys
         DEF deleteStudent, storeVars, queryVars, formVars
  <1>3. CASE updateStudent
    <2> DEFINE w == UpdatesDocument(studentForm)
    <2>1. studentForm \in madeKeys /\ studentForm \in Students
      BY <1>3 DEF updateStudent, InForm, GoneInv, KeysMade, StudentTypeOK
    <2>2. w \in StudentWrites /\ w.key = studentForm /\ w.op = "update"
      BY <2>1 DEF GoneInv, StudentTypeOK, UpdatesDocument, StudentWrites
    <2> QED
      BY <1>3, <2>1, <2>2, WriteKeepsKeys
         DEF updateStudent, storeVars, queryVars, formVars
  <1>4. ASSUME NEW i, NEW k \in Students, uploadEnds(i, k) PROVE Goal
    <2> DEFINE w == [op |-> "set", key |-> k, doc |-> {EntryNow(uploading[i])},
                     mine |-> uploading[i].open]
    <2>1. uploading[i] \in StudentUploads
      BY <1>4 DEF uploadEnds, GoneInv, StudentTypeOK
    <2>2. w \in StudentWrites
      BY <2>1 DEF StudentUploads, EntryNow, StudentWrites, GoneInv, StudentTypeOK
    <2>3. w.key = k /\ w.op = "set"
      OBVIOUS
    <2>4. k \notin gone
      BY <1>4 DEF uploadEnds, GoneInv, KeysMade
    <2>5. write' = <<w>>
      BY <1>4 DEF uploadEnds
    <2> HIDE DEF w
    <2> QED
      BY <1>4, <2>2, <2>3, <2>4, <2>5, WriteKeepsKeys
         DEF uploadEnds, queryVars, formVars
  <1>5. CASE backToStudents
    <2>1. /\ write' = <<>> <=> write = <<>>
          /\ write # <<>> => /\ Head(write').op = Head(write).op
                             /\ Head(write').key = Head(write).key
                             /\ Head(write').doc = Head(write).doc
      BY <1>5, OrphanWrite DEF backToStudents, GoneInv
    <2> QED
      BY <1>5, <2>1 DEF backToStudents, Left, storeVars, GoneInv, KeysMade,
                        DeletedStudentGone
  <1>6. CASE commitStudent
    BY <1>6, CommitKeepsGone
  <1>7. CASE rejectStudent
    BY <1>7 DEF rejectStudent, storeVars, queryVars, formVars, GoneInv, KeysMade,
                DeletedStudentGone
  <1> HIDE DEF Goal
  <1> QED
    BY <1>1, <1>2, <1>3, <1>4, <1>5, <1>6, <1>7, Zenon DEF StudentNext

(* THEOREM: a deleted student stays deleted, for any number of students,   *)
(* uploads and late answers: an update of it is refused, and a setData     *)
(* always has an id of its own (GetDataVc.swift:60, 84-103,                *)
(* MainDataVc.swift:78).                                                   *)
THEOREM DeletedStudentAlwaysGone == StudentSpec => []DeletedStudentGone
  <1>1. StudentInit => GoneInv
    <2>1. ASSUME StudentInit PROVE StudentTypeOK
      BY <2>1, StudentTypeInit
    <2> QED
      BY <2>1 DEF StudentInit, GoneInv, KeysMade, DeletedStudentGone
  <1>2. GoneInv /\ [StudentNext]_studentVars => GoneInv'
    BY GoneStep
  <1>3. GoneInv => DeletedStudentGone
    BY DEF GoneInv
  <1> QED
    BY <1>1, <1>2, <1>3, PTL DEF StudentSpec

-----------------------------------------------------------------------------
(* What is stored.                                                         *)

(* An upload that still reads its form has that form on the screen: with   *)
(* no form on the screen a new one can be opened and filled in.            *)
TappedInv ==
  /\ StoredAsTapped
  /\ studentForm = Shut => \A i \in DOMAIN uploading : ~uploading[i].open

(* When the form goes, what it contains goes with its uploads.             *)
LEMMA LeftKeepsTapped ==
  ASSUME StudentTypeOK, TappedInv, Left
  PROVE  TappedInv'
  <1>1. /\ DOMAIN uploading' = DOMAIN uploading
        /\ \A i \in DOMAIN uploading :
              /\ ~uploading'[i].open
              /\ uploading'[i].tapped = uploading[i].tapped
              /\ uploading'[i].touched = uploading[i].touched
              /\ uploading'[i].texts = EntryNow(uploading[i])
    BY FrozenUploads DEF Left
  <1>2. ASSUME NEW i \in DOMAIN uploading, ~uploading'[i].touched
        PROVE  (EntryNow(uploading[i]) = uploading[i].tapped)'
    <2>1. EntryNow(uploading[i])' = uploading'[i].texts
      BY <1>1 DEF EntryNow
    <2>2. EntryNow(uploading[i]) = uploading[i].tapped
      BY <1>1, <1>2 DEF TappedInv, StoredAsTapped
    <2> QED
      BY <1>1, <2>1, <2>2
  <1> QED
    BY <1>1, <1>2 DEF TappedInv, StoredAsTapped

(* A change of the form marks the uploads that read it, and the others     *)
(* have their texts.                                                       *)
LEMMA TouchKeepsTapped ==
  ASSUME StudentTypeOK, TappedInv, TouchesForm, studentForm' = studentForm
  PROVE  TappedInv'
  <1>1. /\ DOMAIN uploading' = DOMAIN uploading
        /\ \A i \in DOMAIN uploading :
              /\ uploading'[i].open = uploading[i].open
              /\ uploading'[i].tapped = uploading[i].tapped
              /\ uploading'[i].texts = uploading[i].texts
              /\ ~uploading'[i].touched => ~uploading[i].touched /\ ~uploading[i].open
    BY TouchedUploads
  <1>2. ASSUME NEW i \in DOMAIN uploading, ~uploading'[i].touched
        PROVE  (EntryNow(uploading[i]) = uploading[i].tapped)'
    <2>1. EntryNow(uploading[i])' = uploading[i].texts
      BY <1>1, <1>2 DEF EntryNow
    <2>2. EntryNow(uploading[i]) = uploading[i].texts
      BY <1>1, <1>2 DEF EntryNow
    <2>3. EntryNow(uploading[i]) = uploading[i].tapped
      BY <1>1, <1>2 DEF TappedInv, StoredAsTapped
    <2> QED
      BY <1>1, <2>1, <2>2, <2>3
  <1> QED
    BY <1>1, <1>2 DEF TappedInv, StoredAsTapped

(* A new upload begins with what was tapped.                               *)
LEMMA UploadKeepsTapped ==
  ASSUME StudentTypeOK, TappedInv, uploadStudent
  PROVE  TappedInv'
  <1> DEFINE u == [open |-> TRUE, texts |-> NoEntry, tapped |-> entry,
                   touched |-> FALSE]
             n == Len(uploading) + 1
  <1>1. u \in StudentUploads /\ u.open /\ u.tapped = entry
    BY NoEntryIsEntry DEF StudentTypeOK, StudentUploads
  <1>2. uploading' = Append(uploading, u) /\ entry' = entry /\ studentForm' # Shut
    BY DEF uploadStudent, KeepsForm, InForm
  <1> HIDE DEF u
  <1>3. uploading \in Seq(StudentUploads)
    BY DEF StudentTypeOK
  <1>4. /\ DOMAIN uploading' = (DOMAIN uploading) \cup {n}
        /\ \A i \in DOMAIN uploading : uploading'[i] = uploading[i]
        /\ uploading'[n] = u
    BY <1>1, <1>2, <1>3, AppendPlaces
  <1> HIDE DEF n
  <1>5. ASSUME NEW i \in DOMAIN uploading', ~uploading'[i].touched
        PROVE  (EntryNow(uploading[i]) = uploading[i].tapped)'
    <2>1. CASE i = n
      BY <1>1, <1>2, <1>4, <2>1 DEF EntryNow
    <2>2. CASE i \in DOMAIN uploading
      <3>1. EntryNow(uploading[i]) = uploading[i].tapped
        BY <1>4, <1>5, <2>2 DEF TappedInv, StoredAsTapped
      <3> QED
        BY <1>2, <1>4, <2>2, <3>1 DEF EntryNow
    <2> QED
      BY <1>4, <2>1, <2>2
  <1> QED
    BY <1>2, <1>5 DEF TappedInv, StoredAsTapped

(* An upload ends: the others are what they were.                          *)
LEMMA UploadEndsKeepsTapped ==
  ASSUME StudentTypeOK, TappedInv, NEW i, NEW k \in Students, uploadEnds(i, k)
  PROVE  TappedInv'
  <1> DEFINE t == uploading'
             n == Len(uploading)
  <1>1. uploading \in Seq(StudentUploads) /\ i \in 1..n /\ n \in Nat
    BY DEF uploadEnds, StudentTypeOK
  <1>2. uploading' = Cut(uploading, i)
    BY DEF uploadEnds, Cut
  <1>3. /\ t \in Seq(StudentUploads) /\ Len(t) = n - 1
        /\ \A m \in 1..(n - 1) : t[m] = IF m < i THEN uploading[m] ELSE uploading[m + 1]
    BY <1>1, <1>2, CutPlaces
  <1>4. DOMAIN t = 1..(n - 1) /\ DOMAIN uploading = 1..n
    BY <1>1, <1>3
  <1> DEFINE from(m) == IF m < i THEN m ELSE m + 1
  <1>5. ASSUME NEW m \in DOMAIN t
        PROVE  from(m) \in DOMAIN uploading /\ t[m] = uploading[from(m)]
    <2>1. m \in 1..(n - 1)
      BY <1>4
    <2>2. from(m) \in 1..n
      BY <1>1, <2>1
    <2> QED
      BY <1>3, <1>4, <2>1, <2>2
  <1> HIDE DEF t, n, from
  <1>6. entry' = entry /\ studentForm' = studentForm
    BY DEF uploadEnds, formVars
  <1>7. ASSUME NEW m \in DOMAIN uploading', ~uploading'[m].touched
        PROVE  (EntryNow(uploading[m]) = uploading[m].tapped)'
    <2>1. from(m) \in DOMAIN uploading /\ uploading'[m] = uploading[from(m)]
      BY <1>5 DEF t
    <2>2. EntryNow(uploading[from(m)]) = uploading[from(m)].tapped
      BY <2>1, <1>7 DEF TappedInv, StoredAsTapped
    <2>3. EntryNow(uploading[m])' = EntryNow(uploading[from(m)])
      BY <2>1, <1>6 DEF EntryNow
    <2> QED
      BY <2>1, <2>2, <2>3
  <1>8. studentForm' = Shut => \A m \in DOMAIN uploading' : ~uploading'[m].open
    BY <1>5, <1>6 DEF TappedInv, t
  <1> QED
    BY <1>7, <1>8 DEF TappedInv, StoredAsTapped

(* Every step keeps it.                                                    *)
LEMMA TappedStep ==
  ASSUME StudentTypeOK, TappedInv, [StudentNext]_studentVars
  PROVE  TappedInv'
  <1> USE DEF storeVars, formVars, queryVars
  <1> DEFINE Goal == TappedInv'
  <1>0. SUFFICES Goal
    OBVIOUS
  <1>1. ASSUME UNCHANGED <<uploading, entry, studentForm>> PROVE Goal
    BY <1>1 DEF TappedInv, StoredAsTapped, EntryNow
  <1>2. CASE \/ getstudent \/ retrivealldata \/ updateStudent \/ rejectStudent
             \/ UNCHANGED studentVars
    <2>1. UNCHANGED <<uploading, entry, studentForm>>
      BY <1>2 DEF getstudent, retrivealldata, updateStudent, rejectStudent,
                  studentVars
    <2> QED
      BY <1>1, <2>1
  <1>3. CASE addStudentBtn \/ \E r \in arrstudent : editStudent(r)
    <2>1. studentForm = Shut /\ uploading' = uploading
      BY <1>3 DEF addStudentBtn, editStudent, OpensForm
    <2>2. \A i \in DOMAIN uploading : ~uploading[i].open
      BY <2>1 DEF TappedInv
    <2> QED
      BY <2>1, <2>2 DEF TappedInv, StoredAsTapped, EntryNow
  <1>4. ASSUME NEW r \in arrstudent, deleteStudent(r) PROVE Goal
    <2>1. UNCHANGED <<uploading, entry, studentForm>>
      BY <1>4 DEF deleteStudent
    <2> QED
      BY <1>1, <2>1
  <1>5. CASE (\E t \in Typed \cup {Empty} : typeText(t)) \/ stdbtnclick
    BY <1>5, TouchKeepsTapped DEF typeText, stdbtnclick
  <1>6. CASE uploadStudent
    BY <1>6, UploadKeepsTapped
  <1>7. CASE backToStudents
    BY <1>7, LeftKeepsTapped DEF backToStudents
  <1>8. ASSUME NEW i, NEW k \in Students, uploadEnds(i, k) PROVE Goal
    BY <1>8, UploadEndsKeepsTapped
  <1>9. CASE commitStudent
    <2>1. Left \/ UNCHANGED <<uploading, entry, studentForm>>
      BY <1>9 DEF commitStudent, Closes
    <2> QED
      BY <1>1, <2>1, LeftKeepsTapped
  <1> HIDE DEF Goal
  <1> QED
    BY <1>2, <1>3, <1>4, <1>5, <1>6, <1>7, <1>8, <1>9, Zenon DEF StudentNext

(* THEOREM: for any number of uploads, forms and late answers, a new       *)
(* student is stored as the form was when Add was tapped, although the     *)
(* closure of the upload reads the fields again when it ends, unless that  *)
(* same form was changed in between (GetDataVc.swift:73-103).              *)
THEOREM AlwaysStoredAsTapped == StudentSpec => []StoredAsTapped
  <1> DEFINE Inv == StudentTypeOK /\ TappedInv
  <1>1. StudentInit => Inv
    <2>1. ASSUME StudentInit PROVE StudentTypeOK
      BY <2>1, StudentTypeInit
    <2>2. ASSUME StudentInit PROVE DOMAIN uploading = {}
      BY <2>2 DEF StudentInit
    <2>3. ASSUME StudentInit PROVE TappedInv
      BY <2>2, <2>3 DEF TappedInv, StoredAsTapped
    <2> QED
      BY <2>1, <2>3
  <1>2. Inv /\ [StudentNext]_studentVars => Inv'
    BY StudentTypeStep, TappedStep
  <1>3. Inv => StoredAsTapped
    BY DEF TappedInv
  <1> QED
    BY <1>1, <1>2, <1>3, PTL DEF StudentSpec

=============================================================================
