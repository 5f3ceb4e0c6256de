----------------------------- MODULE FruitStore -----------------------------
(***************************************************************************)
(* The fruits of the user who is signed in: the list of SignupmainVC.swift *)
(* and the form of SignPassdataVC.swift over the Firestore collection      *)
(* "fruit", composed with the session of FirebaseSession.                  *)
(*                                                                         *)
(* Firestore is modelled as the code uses it.  A write is queued on the    *)
(* device, in a queue that belongs to the current user and survives the    *)
(* process; reads see the queue on top of the server; the server takes one *)
(* write after the other and the closure of the write runs then.  A query  *)
(* is answered some time after it was made.  DataManager.getfruit hands    *)
(* the answer to the main queue once more, so that other handlers may run  *)
(* between the answer and its use: a fruit that is deleted then is "raced" *)
(* and comes back with the answer.                                         *)
(*                                                                         *)
(* A document is its created_by; its name decides nothing.                 *)
(***************************************************************************)
EXTENDS FirebaseSession, Sequences

CONSTANTS
  Fruits,     \* document ids
  New,        \* the form adds a fruit (data = nil)
  Closed,     \* there is no form
  MaxWrites,  \* bound: length of a queue of writes
  MaxGets     \* bound: queries for the same user, and answers, under way

FruitHazards == {"getFails", "resave"}

ASSUME FruitAssumption == {New, Closed} \cap Fruits = {} /\ New # Closed
ASSUME FruitBounds == MaxWrites \in Nat /\ MaxGets \in Nat \ {0}
ASSUME EnvAssumption == Env \subseteq SessionHazards \cup FruitHazards

Owners == Uids \cup {Anon}
Accounts == Uids \cup {NoUser}
Writes == [f : Fruits, by : Owners \cup {NoUser}, mine : BOOLEAN]

VARIABLES
  fruits,     \* the server: created_by of a document, NoUser if there is none
  writes,     \* the queues of writes; mine: by the form that is open
  used,       \* ids that document() has made
  deleted,    \* history: ids that were deleted and not saved again since
  arrfruit,   \* the list
  asked,      \* how many queries for each created_by are under way
  hop,        \* answers on their way through the main queue
  raced,      \* history: ids deleted while an answer of this list had them
  form,       \* Closed, New or the fruit that is edited
  saved       \* the open form has a write under way

homeVars == <<arrfruit, asked, hop, raced, form, saved>>
docVars == <<fruits, used, deleted>>
fruitVars == <<docVars, writes, homeVars>>
vars == <<sessionVars, fruitVars>>

(* What a read on this device sees.                                        *)
Queue == writes[currentUser]
WritesOf(f) == {i \in DOMAIN Queue : Queue[i].f = f}
View(f) == IF WritesOf(f) = {} THEN fruits[f]
           ELSE Queue[CHOOSE i \in WritesOf(f) : \A j \in WritesOf(f) : j =< i].by
FruitsOfAll(u) == {f \in Fruits : View(f) # NoUser}
FruitsOf(u) == {f \in Fruits : View(f) = u}

NoGets == [u \in Owners |-> 0]
Ask(u) == asked[u] < MaxGets /\ asked' = [asked EXCEPT ![u] = @ + 1]

(* The closures of these writes will find that their form is gone.         *)
Disown(q) == [i \in DOMAIN q |-> [q[i] EXCEPT !.mine = FALSE]]
DisownAll == writes' = [u \in Accounts |-> Disown(writes[u])]

FruitInit ==
  /\ fruits = [f \in Fruits |-> NoUser]
  /\ writes = [u \in Accounts |-> <<>>]
  /\ used = {}
  /\ deleted = {}
  /\ arrfruit = {}
  /\ asked = NoGets
  /\ hop = <<>>
  /\ raced = {}
  /\ form = Closed
  /\ saved = FALSE
Init == SessionInit /\ FruitInit

-----------------------------------------------------------------------------
(* The session changes under the home screen.                              *)

(* A new SignupmainVC: viewWillAppear asks for the fruits of userID.       *)
HomeAppears ==
  /\ arrfruit' = {}
  /\ asked' = [NoGets EXCEPT ![userID'] = 1]
  /\ hop' = <<>> /\ raced' = {}
  /\ form' = Closed
  /\ saved' = FALSE
  /\ DisownAll
HomeLeft ==
  /\ UNCHANGED <<arrfruit, form>>
  /\ asked' = NoGets
  /\ hop' = <<>> /\ raced' = {}
  /\ saved' = FALSE
  /\ DisownAll
HomeGone ==
  /\ arrfruit' = {}
  /\ asked' = NoGets
  /\ hop' = <<>> /\ raced' = {}
  /\ form' = Closed
  /\ saved' = FALSE
  /\ DisownAll

sessionBeside ==
  /\ \/ Taps \/ Answers
     \/ \E c \in Calls : createUserDone(c) \/ googleDone(c) \/ loginFailed(c)
  /\ app' = "running"
  /\ UNCHANGED fruitVars

sessionHome ==
  /\ \/ launch
     \/ \E c \in Calls : loginDone(c) \/ profileDone(c)
  /\ app' = "running" /\ screen' = "home"
  /\ HomeAppears
  /\ UNCHANGED docVars

sessionAway ==
  /\ launch \/ click_onLogoutBtn \/ kill \/ Closures
  /\ app' # "running" \/ screen' = "login"
  /\ HomeGone
  /\ UNCHANGED docVars

-----------------------------------------------------------------------------
(* The list and the form.                                                  *)

OnList == ActingOn("home") /\ form = Closed
OnForm == ActingOn("home") /\ form # Closed

addbtnclick ==
  /\ OnList
  /\ form' = New
  /\ saved' = FALSE
  /\ UNCHANGED <<sessionVars, docVars, writes, arrfruit, asked, hop, raced>>

editAction(f) ==
  /\ OnList
  /\ f \in arrfruit
  /\ form' = f
  /\ saved' = FALSE
  /\ UNCHANGED <<sessionVars, docVars, writes, arrfruit, asked, hop, raced>>

(* Swipe, delete: the row goes at once, the document when the server has   *)
(* the write; an error is only printed.                                    *)
Enqueue(w) ==
  /\ Len(Queue) < MaxWrites
  /\ writes' = [writes EXCEPT ![currentUser] = Append(Queue, w)]
RowStays(f) == arrfruit
RowGone(f) == arrfruit \ {f}
Races(f) == \E i \in DOMAIN hop : f \in hop[i]
deleteAction(f) ==
  /\ OnList
  /\ f \in arrfruit
  /\ Enqueue([f |-> f, by |-> NoUser, mine |-> FALSE])
  /\ deleted' = deleted \cup {f}
  /\ raced' = IF Races(f) THEN raced \cup {f} ELSE raced \ {f}
  /\ arrfruit' = RowGone(f)
  /\ UNCHANGED <<sessionVars, fruits, used, asked, hop, form, saved>>

(* The form is saved under the global userID of this moment.  It is not    *)
(* closed before the server has the write.                                 *)
TargetNew == Fruits \ used
Target == IF form = New THEN Fruits \ used ELSE {form}
saveFruit(f) ==
  /\ OnForm
  /\ saved => "resave" \in Env
  /\ f \in Target
  /\ Enqueue([f |-> f, by |-> userID, mine |-> TRUE])
  /\ used' = used \cup {f}
  /\ saved' = TRUE
  /\ deleted' = deleted \ {f} /\ raced' = raced \ {f}
  /\ UNCHANGED <<sessionVars, fruits, arrfruit, asked, hop, form>>

(* The form is left: the list appears again and asks again.                *)
goBack ==
  /\ OnForm
  /\ form' = Closed
  /\ saved' = FALSE
  /\ Ask(userID)
  /\ DisownAll
  /\ UNCHANGED <<sessionVars, docVars, arrfruit, hop, raced>>

-----------------------------------------------------------------------------
(* Firestore.                                                              *)

(* The server takes the oldest write; the closure of a form's write closes *)
(* the form if it is still there.                                          *)
Rest == [writes EXCEPT ![currentUser] = Tail(Queue)]
PopsOnly == form' = Closed /\ saved' = FALSE /\ UNCHANGED asked
Pops == form' = Closed /\ saved' = FALSE /\ Ask(userID)
commit ==
  /\ app = "running" /\ Queue # <<>>
  /\ fruits' = [fruits EXCEPT ![Head(Queue).f] = Head(Queue).by]
  /\ IF Head(Queue).mine
     THEN Pops /\ writes' = [u \in Accounts |-> Disown(Rest[u])]
     ELSE writes' = Rest /\ UNCHANGED <<form, saved, asked>>
  /\ UNCHANGED <<sessionVars, used, deleted, arrfruit, hop, raced>>

(* The server refuses it: the write is taken back and an error printed.    *)
reject ==
  /\ app = "running" /\ Queue # <<>>
  /\ "writeFails" \in Env
  /\ writes' = Rest
  /\ saved' = (saved /\ ~Head(Queue).mine)
  /\ UNCHANGED <<sessionVars, docVars, arrfruit, asked, hop, raced, form>>

(* A query is answered and the answer handed to the main queue; a failed   *)
(* one never calls the completion.                                         *)
answer(u) ==
  /\ app = "running" /\ asked[u] > 0
  /\ asked' = [asked EXCEPT ![u] = @ - 1]
  /\ \/ Len(hop) < MaxGets /\ hop' = Append(hop, FruitsOf(u))
     \/ "getFails" \in Env /\ UNCHANGED hop
  /\ UNCHANGED <<sessionVars, docVars, writes, arrfruit, raced, form, saved>>

completion ==
  /\ app = "running" /\ hop # <<>>
  /\ arrfruit' = Head(hop)
  /\ hop' = Tail(hop)
  /\ UNCHANGED <<sessionVars, docVars, writes, asked, raced, form, saved>>

Next ==
  \/ sessionBeside \/ sessionHome \/ sessionAway
  \/ addbtnclick \/ goBack
  \/ \E f \in Fruits : editAction(f) \/ deleteAction(f) \/ saveFruit(f)
  \/ commit \/ reject
  \/ \E u \in Owners : answer(u)
  \/ completion

(***************************************************************************)
(* A query is always answered (from the cache when there is no network),   *)
(* and the main queue runs what it was given.  Nothing is assumed of the   *)
(* user, of the writes, or of the calls of the session.                    *)
(***************************************************************************)
Fairness == (\A u \in Owners : WF_vars(answer(u))) /\ WF_vars(completion)

Spec == Init /\ [][Next]_vars
FairSpec == Spec /\ Fairness

-----------------------------------------------------------------------------
(* Properties.                                                             *)

(* Every variable keeps its type, and a list, a query, an answer or a form *)
(* exists on the home screen only.                                         *)
FruitTypeOK ==
  /\ fruits \in [Fruits -> Owners \cup {NoUser}]
  /\ writes \in [Accounts -> Seq(Writes)]
  /\ used \in SUBSET Fruits
  /\ deleted \in SUBSET used
  /\ arrfruit \in SUBSET used
  /\ asked \in [Owners -> 0..MaxGets]
  /\ hop \in Seq(SUBSET Fruits)
  /\ raced \in SUBSET deleted
  /\ form \in Fruits \cup {New, Closed}
  /\ saved \in BOOLEAN
  /\ screen # "home" => /\ arrfruit = {} /\ asked = NoGets
                        /\ hop = <<>> /\ raced = {} /\ form = Closed

(* Up to races a list shows the fruits of the user: all of them, and       *)
(* beside them only fruits that were deleted while an answer with them was *)
(* on its way through the main queue.                                      *)
ShowsFruits ==
  FruitsOf(userID) \subseteq arrfruit /\ arrfruit \ FruitsOf(userID) \subseteq raced

(* Once no query and no answer is under way the list shows that, after any *)
(* mix of deletions, saves that the server has not taken, and changes of   *)
(* the user (SignupmainVC.swift:71-80, 109-124, DataManager.swift:126-145).*)
ListMatchesStore ==
  app = "running" /\ screen = "home" /\ form = Closed /\ asked = NoGets
    /\ hop = <<>> => ShowsFruits

(* A fruit that the user has deleted comes back to the list only with an   *)
(* answer that was already on its way through the main queue when it was   *)
(* deleted: not with a query that was under way, not for another user, and *)
(* not when the screen is made again (SignupmainVC.swift:109-124,          *)
(* DataManager.swift:139-142).                                             *)
DeletedStaysDeleted == arrfruit \cap deleted \subseteq raced

(* Editing a fruit never gives it to another user although every save      *)
(* writes created_by again from the global userID (SignPassdataVC.swift:   *)
(* 51-54), also with late answers, failed writes and interrupted sign ups. *)
OwnerStable ==
  [][\A f \in Fruits : fruits[f] # NoUser /\ fruits'[f] # NoUser
                         => fruits'[f] = fruits[f]]_vars

(* Every fruit belongs to an account, even when users log in and sign up   *)
(* before earlier requests are answered: none is created by "1234".        *)
OwnedByAccount == \A f \in Fruits : fruits[f] \in accounts \cup {NoUser}

(* The home screen comes to show the fruits of the user, up to races, or   *)
(* is left (SignupmainVC.swift:31-34, DataManager.swift:126-145).          *)
ListSettles ==
  app = "running" /\ screen = "home" ~>
    \/ ShowsFruits
    \/ ~(app = "running" /\ screen = "home" /\ form = Closed)

=============================================================================
