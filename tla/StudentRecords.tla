--------------------------- MODULE StudentRecords ---------------------------
(***************************************************************************)
(* The students of the FirebasePractise app: the list of MainDataVc.swift, *)
(* the form of GetDataVc.swift, and what they use of DataManager.swift.    *)
(*                                                                         *)
(* A new student is written when the upload of the picture ends, with what *)
(* the form contains at that moment; a student with a name is updated at   *)
(* once, with the board of this form, which is empty until one of its two  *)
(* buttons is tapped.  The picture is written and never read, so only the  *)
(* end of its upload matters.  Name and number are one text, which may be  *)
(* empty; both buttons do the same to the control and are one choice.      *)
(* Firestore is the queue of writes that DetailRecords describes.          *)
(***************************************************************************)
EXTENDS Naturals, Sequences

CONSTANTS
  Students,   \* document ids
  Typed,      \* what is typed into the fields
  Empty,      \* the empty text
  Adds,       \* the form adds a student
  Shut,       \* there is no form
  MaxUploads  \* bound: uploads under way

ASSUME StudentAssumption ==
  /\ Empty \notin Typed
  /\ {Adds, Shut} \cap Students = {} /\ Adds # Shut
  /\ MaxUploads \in Nat

Entries == [text : Typed \cup {Empty}, board : BOOLEAN]
NoEntry == [text |-> Empty, board |-> FALSE]
Rows == [key : Students, entry : Entries]

VARIABLES
  server,      \* the documents; a document that is not there is {}
  write,       \* Firestore's queue of writes; bound: it holds at most one
  madeKeys,    \* ids that document() has made
  gone,        \* history: students that the server has deleted
  uploading,   \* uploads under way
  arrstudent,  \* the list
  asking,      \* the list waits for an answer
  answers,     \* the answer on its way through the main queue
  studentForm, \* Shut, Adds, or the student that is edited
  entry        \* what the form contains

storeVars == <<server, madeKeys, gone>>
formVars == <<studentForm, entry>>
queryVars == <<asking, answers>>
studentVars == <<storeVars, write, uploading, arrstudent, queryVars, formVars>>

StudentInit ==
  /\ server = [k \in Students |-> {}]
  /\ write = <<>> /\ madeKeys = {} /\ gone = {}
  /\ uploading = <<>>
  /\ arrstudent = {} /\ asking = TRUE /\ answers = <<>>
  /\ studentForm = Shut /\ entry = NoEntry

(* What a read on the device sees: the write under way is on top.          *)
Seen(k) == IF write # <<>> /\ Head(write).key = k
              /\ (Head(write).op = "update" => server[k] # {})
           THEN Head(write).doc ELSE server[k]
getstudentLimitedData == {r \in Rows : r.entry \in Seen(r.key)}

-----------------------------------------------------------------------------
(* The list.                                                               *)

(* viewWillAppear has asked; the answer hops through the main queue, and a *)
(* failed query never calls the completion.  A second question while one   *)
(* is under way is merged with it.                                         *)
getstudent ==
  /\ asking /\ answers = <<>>
  /\ asking' = FALSE
  /\ answers' \in {<<getstudentLimitedData>>, <<>>}
  /\ UNCHANGED <<storeVars, write, uploading, arrstudent, formVars>>

retrivealldata ==
  /\ answers # <<>>
  /\ arrstudent' = Head(answers)
  /\ answers' = <<>>
  /\ UNCHANGED <<storeVars, write, uploading, asking, formVars>>

OpensForm(k, e) ==
  /\ studentForm = Shut
  /\ studentForm' = k /\ entry' = e
  /\ UNCHANGED <<storeVars, write, uploading, arrstudent, queryVars>>

addStudentBtn == OpensForm(Adds, NoEntry)

(* A student without a name opens as a new one.  The board of the student  *)
(* is not taken over.                                                      *)
EditsByName(r) == IF r.entry.text # Empty THEN r.key ELSE Adds
editStudent(r) ==
  /\ r \in arrstudent
  /\ OpensForm(EditsByName(r), [text |-> r.entry.text, board |-> FALSE])

Deletion(k) == [op |-> "delete", key |-> k, doc |-> {}, mine |-> FALSE]
deleteStudent(r) ==
  /\ studentForm = Shut /\ r \in arrstudent /\ write = <<>>
  /\ write' = <<Deletion(r.key)>>
  /\ arrstudent' = arrstudent \ {r}
  /\ UNCHANGED <<storeVars, uploading, queryVars, formVars>>

-----------------------------------------------------------------------------
(* The form.                                                               *)

(* The fields and buttons stay enabled while the picture is uploaded: an   *)
(* upload of this form remembers, as a history, that it was changed.       *)
InForm == studentForm # Shut
Touched(u) == [u EXCEPT !.touched = u.touched \/ u.open]
TouchesForm == uploading' = [i \in DOMAIN uploading |-> Touched(uploading[i])]

typeText(t) ==
  /\ InForm
  /\ entry' = [entry EXCEPT !.text = t]
  /\ TouchesForm
  /\ UNCHANGED <<storeVars, write, arrstudent, queryVars, studentForm>>

stdbtnclick ==
  /\ InForm
  /\ entry' = [entry EXCEPT !.board = TRUE]
  /\ TouchesForm
  /\ UNCHANGED <<storeVars, write, arrstudent, queryVars, studentForm>>

(* addbtnclick for a student with a name: updateData at once.              *)
SetsDocument(k) == [op |-> "set", key |-> k, doc |-> {entry}, mine |-> TRUE]
UpdatesDocument(k) == [op |-> "update", key |-> k, doc |-> {entry}, mine |-> TRUE]
updateStudent ==
  /\ InForm /\ studentForm # Adds /\ write = <<>>
  /\ write' = <<UpdatesDocument(studentForm)>>
  /\ UNCHANGED <<storeVars, uploading, arrstudent, queryVars, formVars>>

(* addbtnclick for a new one: the picture first.  An upload remembers      *)
(* whether its form still shows, the texts the form was left with, and, as *)
(* a history, what it contained at the tap.                                *)
ClearsForm == NoEntry
KeepsForm == entry
uploadStudent ==
  /\ InForm /\ studentForm = Adds
  /\ Len(uploading) < MaxUploads
  /\ uploading' = Append(uploading, [open |-> TRUE, texts |-> NoEntry,
                                        tapped |-> entry, touched |-> FALSE])
  /\ entry' = KeepsForm
  /\ UNCHANGED <<storeVars, write, arrstudent, queryVars, studentForm>>

(* The form goes and the list appears; closures still hold the form, whose *)
(* texts nobody can change any more.                                       *)
Frozen(u) == IF u.open THEN [u EXCEPT !.open = FALSE, !.texts = entry] ELSE u
Left ==
  /\ studentForm' = Shut /\ entry' = NoEntry
  /\ asking' = TRUE
  /\ uploading' = [i \in DOMAIN uploading |-> Frozen(uploading[i])]
backToStudents ==
  /\ InForm
  /\ Left
  /\ write' = [i \in DOMAIN write |-> [write[i] EXCEPT !.mine = FALSE]]
  /\ UNCHANGED <<storeVars, arrstudent, answers>>

-----------------------------------------------------------------------------
(* Storage and Firestore.                                                  *)

(* An upload ends, well or not: the student is written with what the form  *)
(* contains now.                                                           *)
EntryNow(u) == IF u.open THEN entry ELSE u.texts
uploadEnds(i, k) ==
  /\ i \in DOMAIN uploading /\ write = <<>>
  /\ k \in Students \ madeKeys
  /\ madeKeys' = madeKeys \cup {k}
  /\ write' = <<[op |-> "set", key |-> k, doc |-> {EntryNow(uploading[i])},
                 mine |-> uploading[i].open]>>
  /\ uploading' = SubSeq(uploading, 1, i - 1) \o SubSeq(uploading, i + 1, Len(uploading))
  /\ UNCHANGED <<server, gone, arrstudent, queryVars, formVars>>

(* The server takes the write; the closure of a form's write closes it.    *)
Closes(w) ==
  IF w.mine THEN Left ELSE UNCHANGED <<formVars, asking, uploading>>
commitStudent ==
  /\ write # <<>>
  /\ LET w == Head(write) IN
     /\ w.op = "update" => server[w.key] # {}
     /\ server' = [server EXCEPT ![w.key] = w.doc]
     /\ gone' = IF w.op = "delete" THEN gone \cup {w.key} ELSE gone
     /\ Closes(w)
  /\ write' = <<>>
  /\ UNCHANGED <<madeKeys, arrstudent, answers>>

(* It is refused, always when the document to update is gone.              *)
rejectStudent ==
  /\ write # <<>>
  /\ write' = <<>>
  /\ UNCHANGED <<storeVars, uploading, arrstudent, queryVars, formVars>>

StudentNext ==
  \/ getstudent \/ retrivealldata \/ addStudentBtn
  \/ \E r \in arrstudent : editStudent(r) \/ deleteStudent(r)
  \/ \E t \in Typed \cup {Empty} : typeText(t)
  \/ stdbtnclick \/ updateStudent \/ uploadStudent \/ backToStudents
  \/ \E i \in 1..MaxUploads, k \in Students : uploadEnds(i, k)
  \/ commitStudent \/ rejectStudent

StudentSpec == StudentInit /\ [][StudentNext]_studentVars

-----------------------------------------------------------------------------
(* Properties.                                                             *)

(* A deleted student is not brought back by a form that was opened on a    *)
(* row which a late answer put back into the list: updateData, unlike      *)
(* setData, needs the document (GetDataVc.swift:60, MainDataVc.swift:78).  *)
DeletedStudentGone == \A k \in gone : server[k] = {}

(* A new student is stored as the form was when Add was tapped, although   *)
(* the closure of the upload reads the fields again when it ends, unless   *)
(* somebody changed that same form in between, which nothing forbids.  It  *)
(* does not matter that the form was left, that another one was opened and *)
(* filled in, or that a second upload of the form ended first              *)
(* (GetDataVc.swift:73-103).                                               *)
StoredAsTapped ==
  \A i \in DOMAIN uploading :
    ~uploading[i].touched => EntryNow(uploading[i]) = uploading[i].tapped

=============================================================================
