-------------------------- MODULE FruitStoreProofs --------------------------
(***************************************************************************)
(* Proofs about the fruits of FirebasePractise, for any users, documents   *)
(* and bounds: what the session guarantees carries over to the composed    *)
(* app; and every fruit has one owner, although each save takes it from    *)
(* the global userID.                                                      *)
(***************************************************************************)
EXTENDS FruitStore, FirebaseSessionProofs, QueueLemmas

(* Every id that the server, a queue, an answer or the form knows has been *)
(* made by document(), and a write whose closure closes the form has one.  *)
FruitIds ==
  /\ \A f \in Fruits : fruits[f] # NoUser => f \in used
  /\ \A u \in Accounts : \A i \in DOMAIN writes[u] : writes[u][i].f \in used
  /\ \A i \in DOMAIN hop : hop[i] \subseteq used
  /\ form \in used \cup {New, Closed}
  /\ \A u \in Accounts : \A i \in DOMAIN writes[u] :
       writes[u][i].mine => screen = "home" /\ form # Closed

(* Somebody claims fruit f for u: the server, a queued write, or the home  *)
(* screen of u.                                                            *)
OnScreen(f) == f \in arrfruit \/ form = f \/ \E i \in DOMAIN hop : f \in hop[i]
Claim(f, u) ==
  \/ fruits[f] = u
  \/ \E v \in Accounts : \E i \in DOMAIN writes[v] :
       writes[v][i].f = f /\ writes[v][i].by = u
  \/ u = userID /\ OnScreen(f)

(* All claims to a fruit agree, and the queries under way are those of the *)
(* user on the home screen (SignupmainVC.swift:71-80,                      *)
(* SignPassdataVC.swift:51-54).                                            *)
OwnerInv ==
  /\ \A f \in Fruits : \A u, v \in Owners : Claim(f, u) /\ Claim(f, v) => u = v
  /\ \A u \in Owners : asked[u] > 0 => u = userID

(* The i-th write of q is its last write of f.                             *)
Last(q, f, i) ==
  /\ i \in DOMAIN q /\ q[i].f = f
  /\ \A j \in DOMAIN q : q[j].f = f => j =< i

(* The owner of f for a reader with queue q when the server says b; what   *)
(* user u would see.                                                       *)
LastBy(q, f, b) ==
  LET W == {i \in DOMAIN q : q[i].f = f}
  IN  IF W = {} THEN b ELSE q[CHOOSE i \in W : \A j \in W : j =< i].by
Sees(u, f) == LastBy(writes[u], f, fruits[f])

(* A user writes for nobody else, a deleted fruit is on the screen only if *)
(* it raced an answer, and no user sees it as one of theirs                *)
(* (SignupmainVC.swift:109-124).                                           *)
DeletedInv ==
  /\ \A u \in Accounts : \A i \in DOMAIN writes[u] : writes[u][i].by \in {u, NoUser}
  /\ \A f \in deleted : OnScreen(f) => f \in raced
  /\ \A f \in deleted : \A u \in Uids : Sees(u, f) # u

(* What the list will show when the main queue has run the answers that it *)
(* holds: without failures that is the fruits of the user, up to races, as *)
(* soon as no query is under way.                                          *)
Newest == IF hop = <<>> THEN arrfruit ELSE hop[Len(hop)]
ListInv ==
  app = "running" /\ screen = "home" /\ form = Closed /\ asked = NoGets =>
    FruitsOf(userID) \subseteq Newest /\ Newest \ FruitsOf(userID) \subseteq raced

-----------------------------------------------------------------------------
(* The composed app runs the session, so that what is proved of the        *)
(* session holds in it.                                                    *)

(* Every step of the app is a step of the session or leaves it alone.      *)
LEMMA SessionOfStep ==
  ASSUME [Next]_vars PROVE [SessionNext]_sessionVars
<1>1. CASE sessionBeside \/ sessionHome \/ sessionAway
  BY <1>1 DEF sessionBeside, sessionHome, sessionAway, SessionNext, Closures
<1>2. CASE addbtnclick \/ goBack \/ commit \/ reject \/ completion
  BY <1>2 DEF addbtnclick, goBack, commit, reject, completion
<1>3. ASSUME NEW f \in Fruits, editAction(f) \/ deleteAction(f) \/ saveFruit(f)
      PROVE  UNCHANGED sessionVars
  BY <1>3 DEF editAction, deleteAction, saveFruit
<1>4. ASSUME NEW u \in Owners, answer(u) PROVE UNCHANGED sessionVars
  BY <1>4 DEF answer
<1>5. CASE UNCHANGED vars
  BY <1>5 DEF vars
<1> QED
  BY <1>1, <1>2, <1>3, <1>4, <1>5 DEF Next

(* The app with its fruits implements the session.                         *)
THEOREM FruitRunsSession == Spec => SessionSpec
<1>1. Init => SessionInit
  BY DEF Init
<1>2. [Next]_vars => [SessionNext]_sessionVars
  BY SessionOfStep
<1> QED
  BY <1>1, <1>2, PTL DEF Spec, SessionSpec

-----------------------------------------------------------------------------
(* What a step does to the queues.                                         *)

(* Disowning the writes of a form changes nothing that the server sees.    *)
LEMMA DisownFacts ==
  ASSUME NEW q \in Seq(Writes)
  PROVE  /\ Disown(q) \in Seq(Writes)
         /\ DOMAIN Disown(q) = DOMAIN q
         /\ \A i \in DOMAIN q : /\ Disown(q)[i].f = q[i].f
                                /\ Disown(q)[i].by = q[i].by
                                /\ Disown(q)[i].mine = FALSE
<1>1. \A i \in DOMAIN q : q[i] \in Writes
  OBVIOUS
<1>2. \A i \in DOMAIN q : /\ [q[i] EXCEPT !.mine = FALSE] \in Writes
                          /\ [q[i] EXCEPT !.mine = FALSE].f = q[i].f
                          /\ [q[i] EXCEPT !.mine = FALSE].by = q[i].by
                          /\ [q[i] EXCEPT !.mine = FALSE].mine = FALSE
  BY <1>1 DEF Writes
<1>3. DOMAIN q = 1..Len(q) /\ Len(q) \in Nat
  OBVIOUS
<1>4. Disown(q) \in [1..Len(q) -> Writes]
  BY <1>2, <1>3 DEF Disown
<1>5. Disown(q) \in Seq(Writes)
  BY <1>3, <1>4
<1>6. DOMAIN Disown(q) = DOMAIN q
  BY DEF Disown
<1>7. \A i \in DOMAIN q : Disown(q)[i] = [q[i] EXCEPT !.mine = FALSE]
  BY DEF Disown
<1> QED
  BY <1>2, <1>5, <1>6, <1>7

(* The queue of the current user is one of the queues.                     *)
LEMMA QueueTyped ==
  ASSUME SessionTypeOK, FruitTypeOK
  PROVE  currentUser \in Accounts /\ Queue \in Seq(Writes)
BY DEF SessionTypeOK, FruitTypeOK, Accounts, Queue

(* The writes in the queues after a step were there before, but for the    *)
(* deletion of a row and the save of the form.                             *)
LEMMA QueueStep ==
  ASSUME SessionTypeOK, FruitTypeOK, Next
  PROVE  /\ writes' \in [Accounts -> Seq(Writes)]
         /\ \A u \in Accounts : \A i \in DOMAIN writes'[u] :
              \/ \E j \in DOMAIN writes[u] : /\ writes'[u][i].f = writes[u][j].f
                                             /\ writes'[u][i].by = writes[u][j].by
                                             /\ writes'[u][i].mine \in {writes[u][j].mine, FALSE}
              \/ /\ writes'[u][i].f \in arrfruit /\ writes'[u][i].by = NoUser
                 /\ writes'[u][i].mine = FALSE
              \/ /\ OnForm /\ u = currentUser /\ writes'[u][i].f \in Target \cap used'
                 /\ writes'[u][i].by = userID
<1> DEFINE Same == writes' \in [Accounts -> Seq(Writes)] /\
                   \A u \in Accounts : \A i \in DOMAIN writes'[u] :
                     \E j \in DOMAIN writes[u] : /\ writes'[u][i].f = writes[u][j].f
                                                 /\ writes'[u][i].by = writes[u][j].by
                                                 /\ writes'[u][i].mine \in {writes[u][j].mine, FALSE}
<1>0. writes \in [Accounts -> Seq(Writes)]
  BY DEF FruitTypeOK
<1>1. writes' = writes => Same
  BY <1>0
<1>2. ASSUME DisownAll PROVE Same
  <2>1. ASSUME NEW u \in Accounts
        PROVE  /\ writes'[u] \in Seq(Writes) /\ DOMAIN writes'[u] = DOMAIN writes[u]
               /\ \A i \in DOMAIN writes[u] : /\ writes'[u][i].f = writes[u][i].f
                                              /\ writes'[u][i].by = writes[u][i].by
                                              /\ writes'[u][i].mine = FALSE
    BY <1>0, <1>2, DisownFacts DEF DisownAll
  <2>2. writes' \in [Accounts -> Seq(Writes)]
    BY <1>2, <2>1 DEF DisownAll
  <2> QED
    BY <2>1, <2>2
<1>3. ASSUME Queue # <<>>
      PROVE  /\ Rest \in [Accounts -> Seq(Writes)]
             /\ \A u \in Accounts : \A i \in DOMAIN Rest[u] :
                  \E j \in DOMAIN writes[u] : Rest[u][i] = writes[u][j]
  <2>1. Tail(Queue) \in Seq(Writes)
        /\ \A i \in DOMAIN Tail(Queue) : i + 1 \in DOMAIN Queue /\ Tail(Queue)[i] = Queue[i + 1]
    BY <1>3, QueueTyped, TailPlaces
  <2>2. Rest \in [Accounts -> Seq(Writes)] /\ Rest[currentUser] = Tail(Queue)
        /\ \A u \in Accounts \ {currentUser} : Rest[u] = writes[u]
    BY <1>0, <2>1, QueueTyped DEF Rest
  <2>3. ASSUME NEW u \in Accounts, NEW i \in DOMAIN Rest[u]
        PROVE  \E j \in DOMAIN writes[u] : Rest[u][i] = writes[u][j]
    <3>1. CASE u = currentUser
      <4>1. Rest[u] = Tail(Queue) /\ writes[u] = Queue
        BY <2>2, <3>1 DEF Queue
      <4>2. i + 1 \in DOMAIN Queue /\ Tail(Queue)[i] = Queue[i + 1]
        BY <2>1, <4>1
      <4> QED
        BY <4>1, <4>2
    <3>2. CASE u # currentUser
      BY <2>2, <3>2
    <3> QED
      BY <3>1, <3>2
  <2> QED
    BY <2>2, <2>3
<1>4. ASSUME NEW w \in Writes, Enqueue(w)
      PROVE  /\ writes' \in [Accounts -> Seq(Writes)]
             /\ \A u \in Accounts : \A i \in DOMAIN writes'[u] :
                  \/ \E j \in DOMAIN writes[u] : writes'[u][i] = writes[u][j]
                  \/ u = currentUser /\ writes'[u][i] = w
  <2>1. /\ Append(Queue, w) \in Seq(Writes)
        /\ DOMAIN Append(Queue, w) = (DOMAIN Queue) \cup {Len(Queue) + 1}
        /\ \A i \in DOMAIN Queue : Append(Queue, w)[i] = Queue[i]
        /\ Append(Queue, w)[Len(Queue) + 1] = w
    BY QueueTyped, AppendPlaces
  <2>2. /\ writes' \in [Accounts -> Seq(Writes)]
        /\ writes'[currentUser] = Append(Queue, w)
        /\ \A u \in Accounts \ {currentUser} : writes'[u] = writes[u]
    BY <1>0, <1>4, <2>1, QueueTyped DEF Enqueue
  <2> QED
    BY <2>1, <2>2 DEF Queue
<1>5. CASE sessionBeside \/ sessionHome \/ sessionAway
  BY <1>1, <1>2, <1>5 DEF sessionBeside, sessionHome, sessionAway, fruitVars,
                          HomeAppears, HomeGone
<1>6. CASE addbtnclick \/ goBack \/ completion
  BY <1>1, <1>2, <1>6 DEF addbtnclick, goBack, completion
<1>7. ASSUME NEW f \in Fruits, editAction(f) PROVE Same
  BY <1>1, <1>7 DEF editAction
<1>8. ASSUME NEW u \in Owners, answer(u) PROVE Same
  BY <1>1, <1>8 DEF answer
<1>9. CASE commit
  <2>1. CASE Head(Queue).mine
    <3>1. writes' = [u \in Accounts |-> Disown(Rest[u])] /\ Queue # <<>>
      BY <1>9, <2>1 DEF commit
    <3>2. \A u \in Accounts : /\ Rest[u] \in Seq(Writes)
                               /\ writes'[u] = Disown(Rest[u])
      BY <1>3, <3>1
    <3>3. writes' \in [Accounts -> Seq(Writes)]
      BY <3>1, <3>2, DisownFacts
    <3>4. ASSUME NEW u \in Accounts, NEW i \in DOMAIN writes'[u]
          PROVE  \E j \in DOMAIN writes[u] : /\ writes'[u][i].f = writes[u][j].f
                                              /\ writes'[u][i].by = writes[u][j].by
                                              /\ writes'[u][i].mine \in {writes[u][j].mine, FALSE}
      <4>1. i \in DOMAIN Rest[u] /\ writes'[u][i].f = Rest[u][i].f
            /\ writes'[u][i].by = Rest[u][i].by /\ writes'[u][i].mine = FALSE
        <5>1. Rest[u] \in Seq(Writes) /\ writes'[u] = Disown(Rest[u])
          BY <3>2
        <5>2. /\ DOMAIN Disown(Rest[u]) = DOMAIN Rest[u]
              /\ \A k \in DOMAIN Rest[u] : /\ Disown(Rest[u])[k].f = Rest[u][k].f
                                            /\ Disown(Rest[u])[k].by = Rest[u][k].by
                                            /\ Disown(Rest[u])[k].mine = FALSE
          BY <5>1, DisownFacts
        <5> QED
          BY <3>4, <5>1, <5>2
      <4> QED
        BY <1>3, <3>1, <4>1
    <3>5. Same
      BY <3>3, <3>4
    <3> QED
      BY <3>5
  <2>2. CASE ~Head(Queue).mine
    <3>1. writes' = Rest /\ Queue # <<>>
      BY <1>9, <2>2 DEF commit
    <3> QED
      BY <1>3, <3>1, ZenonT(60)
  <2> QED
    BY <2>1, <2>2
<1>10. CASE reject
  <2>1. writes' = Rest /\ Queue # <<>>
    BY <1>10 DEF reject
  <2> QED
    BY <1>3, <2>1, ZenonT(60)
<1>11. ASSUME NEW f \in Fruits, deleteAction(f)
       PROVE  /\ writes' \in [Accounts -> Seq(Writes)]
              /\ \A u \in Accounts : \A i \in DOMAIN writes'[u] :
                   \/ \E j \in DOMAIN writes[u] : writes'[u][i] = writes[u][j]
                   \/ /\ writes'[u][i].f \in arrfruit /\ writes'[u][i].by = NoUser
                      /\ writes'[u][i].mine = FALSE
  <2>1. /\ [f |-> f, by |-> NoUser, mine |-> FALSE] \in Writes
        /\ Enqueue([f |-> f, by |-> NoUser, mine |-> FALSE]) /\ f \in arrfruit
    BY <1>11 DEF deleteAction, Writes
  <2> QED
    BY <1>4, <2>1
<1>12. ASSUME NEW f \in Fruits, saveFruit(f)
       PROVE  /\ writes' \in [Accounts -> Seq(Writes)]
              /\ \A u \in Accounts : \A i \in DOMAIN writes'[u] :
                   \/ \E j \in DOMAIN writes[u] : writes'[u][i] = writes[u][j]
                   \/ /\ OnForm /\ u = currentUser
                      /\ writes'[u][i].f \in Target \cap used'
                      /\ writes'[u][i].by = userID
  <2>1. /\ [f |-> f, by |-> userID, mine |-> TRUE] \in Writes
        /\ Enqueue([f |-> f, by |-> userID, mine |-> TRUE])
        /\ OnForm /\ f \in Target \cap used'
    BY <1>12 DEF saveFruit, Writes, SessionTypeOK, Owners
  <2> QED
    BY <1>4, <2>1
<1> QED
  BY <1>5, <1>6, <1>7, <1>8, <1>9, <1>10, <1>11, <1>12, ZenonT(60) DEF Next

-----------------------------------------------------------------------------
(* Types and ids.                                                          *)

(* A read finds only ids that document() has made.                         *)
LEMMA FruitsOfUsed ==
  ASSUME SessionTypeOK, FruitTypeOK, FruitIds, NEW u \in Owners
  PROVE  FruitsOf(u) \subseteq used
<1> SUFFICES ASSUME NEW f \in Fruits, View(f) = u PROVE f \in used
  BY DEF FruitsOf
<1>1. u # NoUser
  BY UserAssumption DEF Owners
<1>2. CASE WritesOf(f) = {}
  BY <1>1, <1>2 DEF View, FruitIds
<1>3. CASE WritesOf(f) # {}
  <2>1. PICK i \in DOMAIN Queue : Queue[i].f = f
    BY <1>3 DEF WritesOf
  <2> QED
    BY <2>1, QueueTyped DEF FruitIds, Queue
<1> QED
  BY <1>2, <1>3

(* Asking once more keeps the count of the queries in its bounds.          *)
LEMMA AskTyped ==
  ASSUME asked \in [Owners -> 0..MaxGets], NEW u \in Owners, Ask(u)
  PROVE  asked' \in [Owners -> 0..MaxGets]
BY FruitBounds DEF Ask

(* The home screen is left through a log out, a crash or a kill only.      *)
LEMMA HomeStays ==
  ASSUME sessionBeside PROVE screen' # "home" => screen # "home"
BY DEF sessionBeside, Taps, Answers, loginbtnclick, clickonsignup, googlebtnclick,
       loginwithgooglebtnclick, click_onSignupBtn, backToLogin, ActingOn, serveAuth,
       serveProfile, refuse, createUserDone, googleDone, loginFailed, Die

(* A step that disowns all writes leaves none that could close a form.     *)
LEMMA NoneMine ==
  ASSUME FruitTypeOK, DisownAll
  PROVE  \A u \in Accounts : \A i \in DOMAIN writes'[u] : writes'[u][i].mine = FALSE
BY DisownFacts DEF FruitTypeOK, DisownAll

(* The whole invariant of types and ids.                                   *)
FruitInv == FruitTypeOK /\ FruitIds

(* Every step keeps types and ids, one case per action.                    *)
LEMMA FruitInvStep ==
  ASSUME SessionTypeOK, SessionTypeOK', FruitInv, [Next]_vars
  PROVE  FruitInv'
<1>0. FruitTypeOK /\ FruitIds
  BY DEF FruitInv
<1> DEFINE Mine == \A u \in Accounts : \A i \in DOMAIN writes'[u] :
                     writes'[u][i].mine => screen' = "home" /\ form' # Closed
           Made == \A u \in Accounts : \A i \in DOMAIN writes'[u] : writes'[u][i].f \in used'
<1>t. userID \in Owners /\ userID' \in Owners
  BY DEF SessionTypeOK, Owners
<1>n. NoGets \in [Owners -> 0..MaxGets]
  BY FruitBounds DEF NoGets
<1>e. ASSUME hop' = <<>>
      PROVE  hop' \in Seq(SUBSET Fruits) /\ \A i \in DOMAIN hop' : hop'[i] \subseteq used'
  BY <1>e
<1>q. ASSUME Next, used \subseteq used', Mine,
             /\ fruits' \in [Fruits -> Owners \cup {NoUser}]
             /\ used' \in SUBSET Fruits
             /\ deleted' \in SUBSET used'
             /\ arrfruit' \in SUBSET used'
             /\ asked' \in [Owners -> 0..MaxGets]
             /\ hop' \in Seq(SUBSET Fruits)
             /\ raced' \in SUBSET deleted'
             /\ form' \in Fruits \cup {New, Closed}
             /\ saved' \in BOOLEAN
             /\ screen' # "home" => /\ arrfruit' = {} /\ asked' = NoGets
                                    /\ hop' = <<>> /\ raced' = {} /\ form' = Closed,
             \A f \in Fruits : fruits'[f] # NoUser => f \in used',
             \A i \in DOMAIN hop' : hop'[i] \subseteq used',
             form' \in used' \cup {New, Closed}
      PROVE  FruitInv'
  <2>1. writes' \in [Accounts -> Seq(Writes)]
    BY <1>0, <1>q, QueueStep
  <2>2. Made
    <3> SUFFICES ASSUME NEW u \in Accounts, NEW i \in DOMAIN writes'[u]
                 PROVE  writes'[u][i].f \in used'
      OBVIOUS
    <3>1. \/ \E j \in DOMAIN writes[u] : writes'[u][i].f = writes[u][j].f
          \/ writes'[u][i].f \in arrfruit
          \/ writes'[u][i].f \in used'
      BY <1>0, <1>q, QueueStep, ZenonT(60)
    <3> QED
      BY <1>0, <1>q, <3>1 DEF FruitIds, FruitTypeOK
  <2> QED
    BY <1>0, <1>q, <2>1, <2>2 DEF FruitInv, FruitTypeOK, FruitIds
<1>m. ASSUME Next, screen' = screen, form' = form,
             \A u \in Accounts : \A i \in DOMAIN writes'[u] :
               \/ OnForm \/ writes'[u][i].mine = FALSE
               \/ \E j \in DOMAIN writes[u] : writes'[u][i].mine = writes[u][j].mine
      PROVE  Mine
  BY <1>0, <1>m DEF FruitIds, OnForm, ActingOn
<1>w. ASSUME Next, screen' = screen, form' = form PROVE Mine
  <2>1. ASSUME NEW u \in Accounts, NEW i \in DOMAIN writes'[u]
        PROVE  \/ OnForm \/ writes'[u][i].mine = FALSE
               \/ \E j \in DOMAIN writes[u] : writes'[u][i].mine = writes[u][j].mine
    <3>1. \/ \E j \in DOMAIN writes[u] : writes'[u][i].mine \in {writes[u][j].mine, FALSE}
          \/ writes'[u][i].mine = FALSE
          \/ OnForm
      BY <1>0, <1>w, QueueStep
    <3> QED
      BY <3>1
  <2> HIDE DEF Mine
  <2> QED
    BY <1>m, <1>w, <2>1
<1>1. CASE sessionBeside
  <2>1. UNCHANGED <<fruits, used, deleted, writes, arrfruit, asked, hop, raced, form, saved>>
    BY <1>1 DEF sessionBeside, fruitVars, docVars, homeVars
  <2> QED
    BY <1>0, <1>1, <2>1, HomeStays DEF FruitInv, FruitTypeOK, FruitIds, SessionTypeOK
<1>2. CASE sessionHome
  <2>1. UNCHANGED <<fruits, used, deleted>> /\ HomeAppears /\ screen' = "home"
    BY <1>2 DEF sessionHome, docVars
  <2>2. asked' \in [Owners -> 0..MaxGets]
    BY <1>n, <1>t, <2>1, FruitBounds DEF HomeAppears
  <2>3. Mine
    BY <1>0, <2>1, NoneMine DEF HomeAppears
  <2> HIDE DEF Mine
  <2> QED
    BY <1>0, <1>2, <1>e, <1>q, <2>1, <2>2, <2>3 DEF HomeAppears, FruitTypeOK, FruitIds, Next
<1>3. CASE sessionAway
  <2>1. UNCHANGED <<fruits, used, deleted>> /\ HomeGone
    BY <1>3 DEF sessionAway, docVars
  <2>2. Mine
    BY <1>0, <2>1, NoneMine DEF HomeGone
  <2> HIDE DEF Mine
  <2> QED
    BY <1>0, <1>3, <1>e, <1>n, <1>q, <2>1, <2>2 DEF HomeGone, FruitTypeOK, FruitIds, Next
<1>4. CASE addbtnclick
  <2>1. /\ UNCHANGED <<fruits, used, deleted, writes, arrfruit, asked, hop, raced, screen>>
        /\ screen = "home" /\ form' = New /\ saved' = FALSE
    BY <1>4 DEF addbtnclick, docVars, sessionVars, OnList, ActingOn
  <2>2. Mine
    BY <1>0, <2>1, FruitAssumption DEF FruitIds
  <2> HIDE DEF Mine
  <2> QED
    BY <1>0, <1>4, <1>q, <2>1, <2>2 DEF FruitTypeOK, FruitIds, Next
<1>5. ASSUME NEW f \in Fruits, editAction(f) PROVE FruitInv'
  <2>1. /\ UNCHANGED <<fruits, used, deleted, writes, arrfruit, asked, hop, raced, screen>>
        /\ screen = "home" /\ form' = f /\ f \in arrfruit /\ saved' = FALSE
    BY <1>5 DEF editAction, docVars, sessionVars, OnList, ActingOn
  <2>2. Mine
    BY <1>0, <2>1, FruitAssumption DEF FruitIds
  <2> HIDE DEF Mine
  <2> QED
    BY <1>0, <1>5, <1>q, <2>1, <2>2 DEF FruitTypeOK, FruitIds, Next
<1>6. ASSUME NEW f \in Fruits, deleteAction(f) PROVE FruitInv'
  <2>1. /\ UNCHANGED <<fruits, used, asked, hop, form, saved, screen>>
        /\ arrfruit' = arrfruit \ {f} /\ deleted' = deleted \cup {f}
        /\ f \in arrfruit /\ raced' \subseteq raced \cup {f}
        /\ screen = "home"
    BY <1>6 DEF deleteAction, sessionVars, RowGone, OnList, ActingOn
  <2>2. Mine
    BY <1>6, <1>w, <2>1 DEF Next
  <2> HIDE DEF Mine
  <2> QED
    BY <1>0, <1>6, <1>q, <2>1, <2>2 DEF FruitTypeOK, FruitIds, Next
<1>7. ASSUME NEW f \in Fruits, saveFruit(f) PROVE FruitInv'
  <2>1. /\ UNCHANGED <<fruits, arrfruit, asked, hop, form, screen>>
        /\ used' = used \cup {f} /\ saved' = TRUE
        /\ deleted' = deleted \ {f} /\ raced' = raced \ {f}
    BY <1>7 DEF saveFruit, sessionVars
  <2>2. Mine
    BY <1>7, <1>w, <2>1 DEF Next
  <2> HIDE DEF Mine
  <2> QED
    BY <1>0, <1>7, <1>q, <2>1, <2>2 DEF FruitTypeOK, FruitIds, Next
<1>8. CASE goBack
  <2>1. /\ UNCHANGED <<fruits, used, deleted, arrfruit, hop, raced, screen>>
        /\ screen = "home" /\ form' = Closed /\ saved' = FALSE
        /\ Ask(userID) /\ DisownAll
    BY <1>8 DEF goBack, docVars, sessionVars, OnForm, ActingOn
  <2>2. Mine
    BY <1>0, <2>1, NoneMine
  <2>3. asked' \in [Owners -> 0..MaxGets]
    BY <1>0, <1>t, <2>1, AskTyped DEF FruitTypeOK
  <2> HIDE DEF Mine
  <2> QED
    BY <1>0, <1>8, <1>q, <2>1, <2>2, <2>3 DEF FruitTypeOK, FruitIds, Next
<1>9. CASE commit
  <2>1. /\ UNCHANGED <<used, deleted, arrfruit, hop, raced, screen>> /\ Queue # <<>>
        /\ fruits' = [fruits EXCEPT ![Head(Queue).f] = Head(Queue).by]
    BY <1>9 DEF commit, sessionVars
  <2>2. /\ Head(Queue) = Queue[1] /\ 1 \in DOMAIN Queue /\ Head(Queue) \in Writes
        /\ Head(Queue) = writes[currentUser][1]
        /\ Head(Queue).f \in used
    BY <1>0, <2>1, QueueTyped, TailPlaces DEF FruitIds, Queue
  <2>3. /\ fruits' \in [Fruits -> Owners \cup {NoUser}]
        /\ \A f \in Fruits : fruits'[f] # NoUser => f \in used
    BY <1>0, <2>1, <2>2 DEF Writes, FruitTypeOK, FruitIds
  <2>4. CASE Head(Queue).mine
    <3>1. /\ form' = Closed /\ saved' = FALSE /\ Ask(userID)
          /\ writes' = [u \in Accounts |-> Disown(Rest[u])]
      BY <1>9, <2>4 DEF commit, Pops
    <3>2. screen = "home"
      BY <1>0, <2>2, <2>4, QueueTyped DEF FruitIds, Queue
    <3>3. asked' \in [Owners -> 0..MaxGets]
      BY <1>0, <1>t, <3>1, AskTyped DEF FruitTypeOK
    <3>4. \A u \in Accounts : Rest[u] \in Seq(Writes)
      BY <1>0, <2>1, QueueTyped, TailPlaces DEF Rest, FruitTypeOK
    <3>5. Mine
      BY <3>1, <3>4, DisownFacts
    <3> HIDE DEF Mine
    <3> QED
      BY <1>0, <1>9, <1>q, <2>1, <2>3, <3>1, <3>2, <3>3, <3>5 DEF FruitTypeOK, FruitIds, Next
  <2>5. CASE ~Head(Queue).mine
    <3>1. UNCHANGED <<form, saved, asked>>
      BY <1>9, <2>5 DEF commit
    <3>2. Mine
      BY <1>9, <1>w, <2>1, <3>1 DEF Next
    <3> HIDE DEF Mine
    <3> QED
      BY <1>0, <1>9, <1>q, <2>1, <2>3, <3>1, <3>2 DEF FruitTypeOK, FruitIds, Next
  <2> QED
    BY <2>4, <2>5
<1>10. CASE reject
  <2>1. /\ UNCHANGED <<fruits, used, deleted, arrfruit, asked, hop, raced, form, screen>>
        /\ saved' \in BOOLEAN
    BY <1>10 DEF reject, docVars, sessionVars
  <2>2. Mine
    BY <1>10, <1>w, <2>1 DEF Next
  <2> HIDE DEF Mine
  <2> QED
    BY <1>0, <1>10, <1>q, <2>1, <2>2 DEF FruitTypeOK, FruitIds, Next
<1>11. ASSUME NEW u \in Owners, answer(u) PROVE FruitInv'
  <2>1. /\ UNCHANGED <<fruits, used, deleted, arrfruit, raced, form, saved, screen>>
        /\ asked[u] > 0 /\ asked' = [asked EXCEPT ![u] = @ - 1]
        /\ hop' = Append(hop, FruitsOf(u)) \/ hop' = hop
    BY <1>11 DEF answer, docVars, sessionVars
  <2>2. asked' \in [Owners -> 0..MaxGets]
    BY <1>0, <2>1, FruitBounds DEF FruitTypeOK
  <2>3. FruitsOf(u) \subseteq used /\ FruitsOf(u) \in SUBSET Fruits
    BY <1>0, FruitsOfUsed DEF FruitsOf
  <2>4. screen = "home"
    BY <1>0, <2>1 DEF FruitTypeOK, NoGets
  <2>5. hop' \in Seq(SUBSET Fruits) /\ \A i \in DOMAIN hop' : hop'[i] \subseteq used
    <3>1. hop \in Seq(SUBSET Fruits) /\ \A i \in DOMAIN hop : hop[i] \subseteq used
      BY <1>0 DEF FruitTypeOK, FruitIds
    <3>2. CASE hop' = hop
      BY <3>1, <3>2
    <3>3. CASE hop' = Append(hop, FruitsOf(u))
      BY <2>3, <3>1, <3>3, AppendPlaces
    <3> QED
      BY <2>1, <3>2, <3>3
  <2>6. Mine
    BY <1>11, <1>w, <2>1 DEF Next
  <2> HIDE DEF Mine
  <2> QED
    BY <1>0, <1>11, <1>q, <2>1, <2>2, <2>3, <2>4, <2>5, <2>6 DEF FruitTypeOK, FruitIds, Next
<1>12. CASE completion
  <2>1. /\ UNCHANGED <<fruits, used, deleted, asked, raced, form, saved, screen>>
        /\ hop # <<>> /\ arrfruit' = Head(hop) /\ hop' = Tail(hop)
    BY <1>12 DEF completion, docVars, sessionVars
  <2>2. /\ hop' \in Seq(SUBSET Fruits) /\ arrfruit' \subseteq used
        /\ \A i \in DOMAIN hop' : hop'[i] \subseteq used
    BY <1>0, <2>1, TailPlaces DEF FruitTypeOK, FruitIds
  <2>3. screen = "home"
    BY <1>0, <2>1 DEF FruitTypeOK
  <2>4. Mine
    BY <1>12, <1>w, <2>1 DEF Next
  <2> HIDE DEF Mine
  <2> QED
    BY <1>0, <1>12, <1>q, <2>1, <2>2, <2>3, <2>4 DEF FruitTypeOK, FruitIds, Next
<1>13. CASE UNCHANGED vars
  BY <1>0, <1>13 DEF FruitInv, vars, fruitVars, docVars, homeVars, sessionVars, FruitTypeOK, FruitIds,
               Accounts, Owners, NoGets
<1> QED
  BY <1>1, <1>2, <1>3, <1>4, <1>5, <1>6, <1>7, <1>8, <1>9, <1>10, <1>11, <1>12,
     <1>13 DEF Next

(* Types and ids, whatever overlaps or fails.                              *)
THEOREM FruitInvAlways == Spec => []FruitInv
<1>1. Init => FruitInv
  <2> SUFFICES ASSUME Init PROVE FruitInv
    OBVIOUS
  <2>1. /\ writes \in [Accounts -> Seq(Writes)] /\ hop \in Seq(SUBSET Fruits)
        /\ \A u \in Accounts : DOMAIN writes[u] = {}
        /\ DOMAIN hop = {}
    BY DEF Init, FruitInit
  <2>2. asked \in [Owners -> 0..MaxGets]
    BY FruitBounds DEF Init, FruitInit, NoGets
  <2> QED
    BY <2>1, <2>2 DEF Init, SessionInit, FruitInit, FruitInv, FruitTypeOK, FruitIds
<1>2. SessionTypeOK /\ SessionTypeOK' /\ FruitInv /\ [Next]_vars => FruitInv'
  BY FruitInvStep
<1> QED
  BY <1>1, <1>2, FruitRunsSession, SessionTypeCorrect, PTL DEF Spec

(* Type correctness of the composed app.                                   *)
THEOREM FruitTypeCorrect == Spec => []FruitTypeOK
<1>1. FruitInv => FruitTypeOK
  BY DEF FruitInv
<1> QED
  BY <1>1, FruitInvAlways, PTL

-----------------------------------------------------------------------------
(* Every fruit belongs to an account.                                      *)

(* A document changes by a write of the current user's queue only.         *)
LEMMA FruitsStep ==
  ASSUME SessionTypeOK, FruitTypeOK, [Next]_vars
  PROVE  /\ fruits' \in [Fruits -> Owners \cup {NoUser}]
         /\ \A f \in Fruits :
              \/ fruits'[f] = fruits[f]
              \/ \E i \in DOMAIN writes[currentUser] :
                   /\ writes[currentUser][i].f = f
                   /\ writes[currentUser][i].by = fruits'[f]
<1>1. CASE commit
  <2>1. /\ Queue # <<>>
        /\ fruits' = [fruits EXCEPT ![Head(Queue).f] = Head(Queue).by]
    BY <1>1 DEF commit
  <2>2. 1 \in DOMAIN writes[currentUser] /\ Head(Queue) = writes[currentUser][1]
        /\ Head(Queue) \in Writes
    BY <2>1, QueueTyped, TailPlaces DEF Queue
  <2> QED
    BY <2>1, <2>2 DEF FruitTypeOK, Writes
<1>2. CASE ~commit
  <2>1. fruits' = fruits
    BY <1>2 DEF Next, vars, fruitVars, docVars, sessionBeside, sessionHome, sessionAway,
       addbtnclick, goBack, editAction, deleteAction, saveFruit, reject, answer, completion
  <2> QED
    BY <2>1 DEF FruitTypeOK
<1> QED
  BY <1>1, <1>2

(* Accounts are never taken away.                                          *)
LEMMA AccountsGrow ==
  ASSUME [SessionNext]_sessionVars PROVE accounts \subseteq accounts'
BY DEF SessionNext, sessionVars, sdkVars, Taps, Answers, Closures, loginbtnclick,
       clickonsignup, googlebtnclick, loginwithgooglebtnclick, click_onSignupBtn,
       backToLogin, click_onLogoutBtn, serveAuth, serveProfile, refuse, loginFailed,
       loginDone, Home, createUserDone, profileDone, googleDone, kill, launch, Die

(* The documents and the writes that wait for the server belong to         *)
(* accounts.                                                               *)
OwnedInv ==
  /\ OwnedByAccount
  /\ \A u \in Accounts : \A i \in DOMAIN writes[u] :
       writes[u][i].by \in accounts \cup {NoUser}

(* Every step writes for accounts only.                                    *)
LEMMA OwnedInvStep ==
  ASSUME SessionTypeOK, FruitTypeOK, AccountInv, OwnedInv, [Next]_vars
  PROVE  OwnedInv'
<1>1. accounts \subseteq accounts'
  BY SessionOfStep, AccountsGrow
<1>2. OwnedByAccount'
  <2> SUFFICES ASSUME NEW f \in Fruits PROVE fruits'[f] \in accounts' \cup {NoUser}
    BY DEF OwnedByAccount
  <2>1. \/ fruits'[f] = fruits[f]
        \/ \E i \in DOMAIN writes[currentUser] : writes[currentUser][i].by = fruits'[f]
    BY FruitsStep
  <2> QED
    BY <1>1, <2>1, QueueTyped DEF OwnedInv, OwnedByAccount
<1>3. ASSUME NEW u \in Accounts, NEW i \in DOMAIN writes'[u]
      PROVE  writes'[u][i].by \in accounts' \cup {NoUser}
  <2>1. CASE Next
    <3>1. \/ \E j \in DOMAIN writes[u] : writes'[u][i].by = writes[u][j].by
          \/ writes'[u][i].by = NoUser
          \/ OnForm /\ writes'[u][i].by = userID
      BY <1>3, <2>1, QueueStep
    <3> QED
      BY <1>1, <3>1 DEF OwnedInv, AccountInv, OnForm, ActingOn
  <2>2. CASE UNCHANGED vars
    BY <1>1, <1>3, <2>2 DEF vars, fruitVars, OwnedInv
  <2> QED
    BY <2>1, <2>2
<1> QED
  BY <1>2, <1>3 DEF OwnedInv, Accounts

(* However log ins and sign ups overlap, no fruit is created by "1234" or  *)
(* by somebody without an account.                                         *)
THEOREM FruitsOwnedByAccounts ==
  ASSUME "killMidWrite" \notin Env PROVE Spec => []OwnedByAccount
<1>1. Init => OwnedInv
  BY DEF Init, FruitInit, OwnedInv, OwnedByAccount
<1>2. SessionTypeOK /\ FruitTypeOK /\ AccountInv /\ OwnedInv /\ [Next]_vars => OwnedInv'
  BY OwnedInvStep
<1>3. Spec => []OwnedInv
  BY <1>1, <1>2, FruitRunsSession, SessionTypeCorrect, FruitTypeCorrect, AccountInvAlways,
     PTL DEF Spec
<1>4. OwnedInv => OwnedByAccount
  BY DEF OwnedInv
<1> QED
  BY <1>3, <1>4, PTL

-----------------------------------------------------------------------------
(* What a read sees.                                                       *)

(* The last write of f in the queue decides, and else the server.          *)
LEMMA LastByFacts ==
  ASSUME NEW q \in Seq(Writes), NEW f, NEW b
  PROVE  /\ (\A i \in DOMAIN q : q[i].f # f) => LastBy(q, f, b) = b
         /\ \A i : Last(q, f, i) => LastBy(q, f, b) = q[i].by
         /\ (\E i \in DOMAIN q : q[i].f = f) => \E i : Last(q, f, i)
<1> DEFINE W == {i \in DOMAIN q : q[i].f = f}
<1>1. DOMAIN q = 1..Len(q) /\ Len(q) \in Nat
  OBVIOUS
<1>2. (\A i \in DOMAIN q : q[i].f # f) => LastBy(q, f, b) = b
  BY DEF LastBy
<1>3. ASSUME NEW i, Last(q, f, i) PROVE LastBy(q, f, b) = q[i].by
  <2>1. i \in W /\ \A j \in W : j =< i
    BY <1>3 DEF Last
  <2>2. \A k \in W : (\A j \in W : j =< k) => k = i
    <3> SUFFICES ASSUME NEW k \in W, \A j \in W : j =< k PROVE k = i
      OBVIOUS
    <3>1. i =< k /\ k =< i /\ i \in Nat /\ k \in Nat
      BY <1>1, <2>1
    <3> QED
      BY <3>1
  <2>3. i = CHOOSE k \in W : \A j \in W : j =< k
    BY <2>1, <2>2
  <2> QED
    BY <2>1, <2>3 DEF LastBy
<1>4. ASSUME \E i \in DOMAIN q : q[i].f = f PROVE \E i : Last(q, f, i)
  <2>1. W # {} /\ W \in SUBSET (1..Len(q))
    BY <1>1, <1>4
  <2>2. PICK i \in W : \A j \in W : j =< i
    BY <1>1, <2>1, LastPlace
  <2> QED
    BY <2>2 DEF Last
<1> QED
  BY <1>2, <1>3, <1>4

(* A new write of f decides about f and about nothing else.                *)
LEMMA AppendSeen ==
  ASSUME NEW q \in Seq(Writes), NEW w \in Writes, NEW f, NEW b
  PROVE  LastBy(Append(q, w), f, b) = IF w.f = f THEN w.by ELSE LastBy(q, f, b)
<1> DEFINE p == Append(q, w)
<1>1. /\ p \in Seq(Writes)
      /\ DOMAIN p = (DOMAIN q) \cup {Len(q) + 1}
      /\ \A i \in DOMAIN q : i =< Len(q) /\ p[i] = q[i]
      /\ p[Len(q) + 1] = w
  BY AppendPlaces
<1> HIDE DEF p
<1>2. DOMAIN q = 1..Len(q) /\ Len(q) \in Nat
  OBVIOUS
<1>3. ASSUME w.f = f PROVE LastBy(p, f, b) = w.by
  <2>1. Last(p, f, Len(q) + 1)
    BY <1>1, <1>2, <1>3 DEF Last
  <2>2. LastBy(p, f, b) = p[Len(q) + 1].by
    BY <1>1, <2>1, LastByFacts
  <2> QED
    BY <1>1, <1>3, <2>2
<1>4. ASSUME w.f # f, \A i \in DOMAIN q : q[i].f # f
      PROVE  LastBy(p, f, b) = LastBy(q, f, b)
  <2>1. \A i \in DOMAIN p : p[i].f # f
    BY <1>1, <1>4
  <2>2. LastBy(p, f, b) = b
    BY <1>1, <2>1, LastByFacts
  <2>3. LastBy(q, f, b) = b
    BY <1>4, LastByFacts
  <2> QED
    BY <1>4, <2>2, <2>3
<1>5. ASSUME w.f # f, \E i \in DOMAIN q : q[i].f = f
      PROVE  LastBy(p, f, b) = LastBy(q, f, b)
  <2>1. PICK i : Last(q, f, i)
    BY <1>5, LastByFacts
  <2>2. Last(p, f, i) /\ p[i] = q[i]
    BY <1>1, <1>2, <1>5, <2>1 DEF Last
  <2>3. LastBy(p, f, b) = p[i].by
    BY <1>1, <2>2, LastByFacts
  <2>4. LastBy(q, f, b) = q[i].by
    BY <2>1, LastByFacts
  <2> QED
    BY <1>5, <2>2, <2>3, <2>4
<1>6. LastBy(p, f, b) = IF w.f = f THEN w.by ELSE LastBy(q, f, b)
  BY <1>3, <1>4, <1>5
<1> QED
  BY <1>6 DEF p

(* A reader of the queue does not notice that the server takes a write.    *)
LEMMA TailSeen ==
  ASSUME NEW q \in Seq(Writes), q # <<>>, NEW f, NEW b
  PROVE  LastBy(Tail(q), f, IF Head(q).f = f THEN Head(q).by ELSE b) = LastBy(q, f, b)
<1> DEFINE c == IF Head(q).f = f THEN Head(q).by ELSE b
           p == Tail(q)
<1>1. /\ Head(q) = q[1] /\ 1 \in DOMAIN q
      /\ p \in Seq(Writes)
      /\ DOMAIN p = 1..(Len(q) - 1)
      /\ \A i \in DOMAIN p : i + 1 \in DOMAIN q /\ p[i] = q[i + 1]
  BY TailPlaces
<1> HIDE DEF p
<1>2. DOMAIN q = 1..Len(q) /\ Len(q) \in Nat
  OBVIOUS
<1>3. \A j \in DOMAIN q : j # 1 => j - 1 \in DOMAIN p /\ p[j - 1] = q[j]
  BY <1>1, <1>2
<1>4. ASSUME \A i \in DOMAIN p : p[i].f # f PROVE LastBy(p, f, c) = LastBy(q, f, b)
  <2>1. LastBy(p, f, c) = c
    <3> HIDE DEF c
    <3> QED
      BY <1>1, <1>4, LastByFacts
  <2>2. \A j \in DOMAIN q : q[j].f = f => j = 1
    BY <1>3, <1>4
  <2>3. CASE Head(q).f = f
    <3>1. Last(q, f, 1)
      BY <1>1, <2>2, <2>3 DEF Last
    <3> QED
      BY <1>1, <2>1, <2>3, <3>1, LastByFacts
  <2>4. CASE Head(q).f # f
    <3>1. \A j \in DOMAIN q : q[j].f # f
      BY <1>1, <2>2, <2>4
    <3> QED
      BY <2>1, <2>4, <3>1, LastByFacts
  <2> QED
    BY <2>3, <2>4
<1>5. ASSUME \E i \in DOMAIN p : p[i].f = f PROVE LastBy(p, f, c) = LastBy(q, f, b)
  <2>1. PICK i : Last(p, f, i)
    BY <1>1, <1>5, LastByFacts
  <2>2. Last(q, f, i + 1) /\ p[i] = q[i + 1]
    <3>1. i \in DOMAIN p /\ i + 1 \in DOMAIN q /\ q[i + 1].f = f
          /\ p[i] = q[i + 1]
      BY <1>1, <2>1 DEF Last
    <3>2. ASSUME NEW j \in DOMAIN q, q[j].f = f PROVE j =< i + 1
      <4>1. CASE j = 1
        BY <1>1, <3>1, <4>1
      <4>2. CASE j # 1
        <5>1. j - 1 \in DOMAIN p /\ p[j - 1].f = f
          BY <1>3, <3>2, <4>2
        <5>2. j - 1 =< i
          BY <2>1, <5>1 DEF Last
        <5> QED
          BY <1>1, <1>2, <3>1, <5>2
      <4> QED
        BY <4>1, <4>2
    <3> QED
      BY <3>1, <3>2 DEF Last
  <2>3. LastBy(p, f, c) = p[i].by
    <3> HIDE DEF c
    <3> QED
      BY <1>1, <2>1, LastByFacts
  <2>4. LastBy(q, f, b) = q[i + 1].by
    BY <2>2, LastByFacts
  <2> QED
    BY <2>2, <2>3, <2>4
<1>6. LastBy(p, f, c) = LastBy(q, f, b)
  BY <1>4, <1>5
<1> QED
  BY <1>6 DEF p

(* Nor that the writes of a form have lost their form.                     *)
LEMMA DisownSeen ==
  ASSUME NEW q \in Seq(Writes), NEW f, NEW b
  PROVE  LastBy(Disown(q), f, b) = LastBy(q, f, b)
<1>1. /\ Disown(q) \in Seq(Writes) /\ DOMAIN Disown(q) = DOMAIN q
      /\ \A i \in DOMAIN q : Disown(q)[i].f = q[i].f /\ Disown(q)[i].by = q[i].by
  BY DisownFacts
<1>2. CASE \A i \in DOMAIN q : q[i].f # f
  <2>1. \A i \in DOMAIN Disown(q) : Disown(q)[i].f # f
    BY <1>1, <1>2
  <2> QED
    BY <1>1, <1>2, <2>1, LastByFacts
<1>3. CASE \E i \in DOMAIN q : q[i].f = f
  <2>1. PICK i : Last(q, f, i)
    BY <1>3, LastByFacts
  <2>2. Last(Disown(q), f, i) /\ Disown(q)[i].by = q[i].by
    BY <1>1, <2>1 DEF Last
  <2> QED
    BY <1>1, <2>1, <2>2, LastByFacts
<1> QED
  BY <1>2, <1>3

(* A read shows what the current user sees.                                *)
LEMMA ViewSees == \A f : View(f) = Sees(currentUser, f)
BY DEF View, WritesOf, Queue, Sees, LastBy

(* Whoever a user sees as the owner of a fruit claims it.                  *)
LEMMA SeesClaims ==
  ASSUME FruitTypeOK, NEW f \in Fruits, NEW v \in Accounts
  PROVE  Claim(f, Sees(v, f))
<1>1. writes[v] \in Seq(Writes)
  BY DEF FruitTypeOK
<1>2. CASE \A i \in DOMAIN writes[v] : writes[v][i].f # f
  BY <1>1, <1>2, LastByFacts DEF Claim, Sees
<1>3. CASE \E i \in DOMAIN writes[v] : writes[v][i].f = f
  <2>1. PICK i : Last(writes[v], f, i)
    BY <1>1, <1>3, LastByFacts
  <2>2. i \in DOMAIN writes[v] /\ writes[v][i].f = f /\ writes[v][i].by = Sees(v, f)
    BY <1>1, <2>1, LastByFacts DEF Last, Sees
  <2> QED
    BY <2>2 DEF Claim
<1> QED
  BY <1>2, <1>3

-----------------------------------------------------------------------------
(* All claims to a fruit agree.                                            *)

(* While the user waits for every answer, the global userID changes under  *)
(* no home screen: only where there is none, or where a new one appears.   *)
LEMMA UserOfScreen ==
  ASSUME SessionTypeOK, CallPart, sessionBeside
  PROVE  userID' = userID \/ screen # "home"
<1>1. ASSUME NEW c \in Calls, createUserDone(c) PROVE screen # "home"
  BY <1>1 DEF createUserDone, Answered, CallPart, Busy
<1>2. ASSUME ~\E c \in Calls : createUserDone(c) PROVE userID' = userID
  BY <1>2 DEF sessionBeside, Taps, Answers, loginbtnclick, clickonsignup,
     googlebtnclick, loginwithgooglebtnclick, click_onSignupBtn, backToLogin,
     serveAuth, serveProfile, refuse, googleDone, loginFailed
<1> QED
  BY <1>1, <1>2

(* What comes to the screen was there, or was read for the user of the     *)
(* screen.                                                                 *)
LEMMA ScreenStep ==
  ASSUME SessionTypeOK, FruitInv, CallPart, OwnerInv, Next, NEW f \in Fruits, OnScreen(f)'
  PROVE  userID' = userID /\ (OnScreen(f) \/ View(f) = userID)
<1> USE FruitAssumption DEF OnScreen
<1>0. FruitTypeOK /\ FruitIds
  BY DEF FruitInv
<1>1. CASE sessionBeside
  <2>1. OnScreen(f)
    BY <1>1 DEF sessionBeside, fruitVars, homeVars
  <2>2. screen = "home"
    BY <1>0, <2>1 DEF FruitTypeOK
  <2> QED
    BY <1>1, <2>1, <2>2, UserOfScreen
<1>2. CASE sessionHome \/ sessionAway
  BY <1>2 DEF sessionHome, sessionAway, HomeAppears, HomeGone
<1>3. CASE addbtnclick \/ goBack \/ commit \/ reject
  BY <1>3 DEF addbtnclick, goBack, commit, reject, Pops, sessionVars
<1>4. ASSUME NEW g \in Fruits, editAction(g) \/ deleteAction(g) \/ saveFruit(g)
      PROVE  userID' = userID /\ OnScreen(f)
  BY <1>4 DEF editAction, deleteAction, saveFruit, RowGone, sessionVars
<1>5. ASSUME NEW u \in Owners, answer(u)
      PROVE  userID' = userID /\ (OnScreen(f) \/ View(f) = userID)
  <2>1. /\ u = userID /\ userID' = userID /\ form' = form
        /\ arrfruit' = arrfruit \/ arrfruit' = FruitsOf(u)
        /\ hop' = hop \/ hop' = Append(hop, FruitsOf(u))
    BY <1>5 DEF answer, OwnerInv, sessionVars
  <2>2. f \in FruitsOf(u) => View(f) = userID
    BY <2>1 DEF FruitsOf
  <2>3. CASE hop' = hop
    BY <2>1, <2>2, <2>3
  <2>4. CASE hop' = Append(hop, FruitsOf(u))
    <3>1. hop \in Seq(SUBSET Fruits) /\ FruitsOf(u) \in SUBSET Fruits
      BY <1>0 DEF FruitTypeOK, FruitsOf
    <3> QED
      BY <2>1, <2>2, <2>4, <3>1, AppendPlaces
  <2> QED
    BY <2>1, <2>3, <2>4
<1>6. CASE completion
  <2>1. /\ hop # <<>> /\ hop \in Seq(SUBSET Fruits)
        /\ arrfruit' = Head(hop) /\ hop' = Tail(hop)
        /\ form' = form /\ userID' = userID
    BY <1>0, <1>6 DEF completion, FruitTypeOK, sessionVars
  <2> QED
    BY <2>1, TailPlaces
<1> QED
  BY <1>1, <1>2, <1>3, <1>4, <1>5, <1>6 DEF Next

(* A claim is old, or that of a new document of the user on the screen.    *)
LEMMA ClaimStep ==
  ASSUME SessionTypeOK, FruitInv, CallPart, OwnerInv, Next,
         NEW f \in Fruits, NEW u \in Owners, Claim(f, u)'
  PROVE  Claim(f, u) \/ (f \notin used /\ u = userID)
<1>0. FruitTypeOK /\ FruitIds
  BY DEF FruitInv
<1>1. CASE fruits'[f] = u
  <2>1. \/ fruits[f] = u
        \/ \E i \in DOMAIN writes[currentUser] :
             writes[currentUser][i].f = f /\ writes[currentUser][i].by = u
    BY <1>0, <1>1, FruitsStep
  <2> QED
    BY <1>0, <2>1, QueueTyped DEF Claim
<1>2. ASSUME NEW v \in Accounts, NEW i \in DOMAIN writes'[v],
             writes'[v][i].f = f, writes'[v][i].by = u
      PROVE  Claim(f, u) \/ (f \notin used /\ u = userID)
  <2>1. u # NoUser
    BY UserAssumption DEF Owners
  <2>2. \/ \E j \in DOMAIN writes[v] : f = writes[v][j].f /\ u = writes[v][j].by
        \/ OnForm /\ f \in Target /\ u = userID
    BY <1>0, <1>2, <2>1, QueueStep
  <2>3. f \in Target => f \notin used \/ OnScreen(f)
    BY DEF Target, OnScreen
  <2> QED
    BY <2>2, <2>3 DEF Claim
<1>3. CASE u = userID' /\ OnScreen(f)'
  <2>1. userID' = userID /\ (OnScreen(f) \/ View(f) = userID)
    BY <1>3, ScreenStep
  <2> QED
    BY <1>0, <1>3, <2>1, ViewSees, SeesClaims, QueueTyped DEF Claim
<1> QED
  BY <1>1, <1>2, <1>3 DEF Claim, Accounts

(* Only documents that exist are claimed.                                  *)
LEMMA ClaimUsed ==
  ASSUME FruitInv, NEW f \in Fruits, NEW u \in Owners, Claim(f, u)
  PROVE  f \in used
<1>1. u # NoUser
  BY UserAssumption DEF Owners
<1>2. OnScreen(f) => f \in used
  BY FruitAssumption DEF OnScreen, FruitInv, FruitTypeOK, FruitIds
<1> QED
  BY <1>1, <1>2 DEF Claim, FruitInv, FruitIds

(* Every step leaves each fruit to one user.                               *)
LEMMA OwnerInvStep ==
  ASSUME SessionTypeOK, SessionTypeOK', FruitInv, CallPart, OwnerInv, [Next]_vars
  PROVE  OwnerInv'
<1>0. FruitTypeOK /\ FruitIds /\ userID \in Owners /\ userID' \in Owners
  BY DEF FruitInv, SessionTypeOK, Owners
<1>1. CASE Next
  <2>1. ASSUME NEW f \in Fruits, NEW u \in Owners, NEW v \in Owners,
               Claim(f, u)', Claim(f, v)'
        PROVE  u = v
    <3>1. Claim(f, u) \/ (f \notin used /\ u = userID)
      BY <1>1, <2>1, ClaimStep
    <3>2. Claim(f, v) \/ (f \notin used /\ v = userID)
      BY <1>1, <2>1, ClaimStep
    <3>3. (Claim(f, u) => f \in used) /\ (Claim(f, v) => f \in used)
      BY ClaimUsed
    <3> QED
      BY <3>1, <3>2, <3>3 DEF OwnerInv
  <2>2. \A u \in Owners : asked'[u] > 0 => u = userID'
    <3>1. CASE sessionBeside
      <4>1. asked' = asked
        BY <3>1 DEF sessionBeside, fruitVars, homeVars
      <4>2. screen # "home" => \A u \in Owners : asked[u] = 0
        BY <1>0 DEF FruitTypeOK, NoGets
      <4> QED
        BY <3>1, <4>1, <4>2, UserOfScreen DEF OwnerInv
    <3>2. CASE sessionHome \/ sessionAway
      BY <1>0, <3>2 DEF sessionHome, sessionAway, HomeAppears, HomeGone, NoGets
    <3>3. CASE goBack \/ commit
      BY <1>0, <3>3 DEF goBack, commit, Pops, Ask, sessionVars, OwnerInv, FruitTypeOK
    <3>4. ASSUME NEW w \in Owners, answer(w)
          PROVE  \A u \in Owners : asked'[u] > 0 => u = userID'
      <4>1. w = userID /\ userID' = userID /\ asked' = [asked EXCEPT ![w] = @ - 1]
        BY <3>4 DEF answer, OwnerInv, sessionVars
      <4> QED
        BY <1>0, <4>1 DEF OwnerInv, FruitTypeOK
    <3>5. CASE addbtnclick \/ reject \/ completion
      BY <3>5 DEF addbtnclick, reject, completion, OwnerInv, sessionVars
    <3>6. ASSUME NEW g \in Fruits, editAction(g) \/ deleteAction(g) \/ saveFruit(g)
          PROVE  \A u \in Owners : asked'[u] > 0 => u = userID'
      BY <3>6 DEF editAction, deleteAction, saveFruit, OwnerInv, sessionVars
    <3> QED
      BY <1>1, <3>1, <3>2, <3>3, <3>4, <3>5, <3>6 DEF Next
  <2> QED
    BY <2>1, <2>2 DEF OwnerInv, Owners
<1>2. CASE UNCHANGED vars
  BY <1>2 DEF vars, fruitVars, docVars, homeVars, sessionVars, OwnerInv, Claim, OnScreen
<1> QED
  BY <1>1, <1>2

(* While the user waits for every answer all claims to a fruit agree,      *)
(* whatever fails and wherever the process is killed.                      *)
THEOREM OwnerInvAlways ==
  ASSUME "overlap" \notin Env PROVE Spec => []OwnerInv
<1>1. Init => OwnerInv
  <2> SUFFICES ASSUME Init PROVE OwnerInv
    OBVIOUS
  <2>1. ASSUME NEW f \in Fruits, NEW u \in Owners PROVE ~Claim(f, u)
    BY FruitAssumption, UserAssumption
       DEF Init, FruitInit, Claim, OnScreen, Owners, Accounts
  <2> QED
    BY <2>1 DEF Init, FruitInit, NoGets, OwnerInv
<1>2. SessionTypeOK /\ SessionTypeOK' /\ FruitInv /\ CallPart /\ OwnerInv /\ [Next]_vars
      => OwnerInv'
  BY OwnerInvStep
<1> QED
  BY <1>1, <1>2, FruitRunsSession, SessionTypeCorrect, CallPartAlways, FruitInvAlways,
     PTL DEF Spec

(* No save ever gives a fruit to another user: although the form writes    *)
(* created_by again from the global userID, it is the user who had it.     *)
THEOREM OwnersNeverChange ==
  ASSUME "overlap" \notin Env PROVE Spec => OwnerStable
<1>1. /\ SessionTypeOK /\ FruitInv /\ CallPart /\ OwnerInv /\ [Next]_vars
      => [\A f \in Fruits : fruits[f] # NoUser /\ fruits'[f] # NoUser
                              => fruits'[f] = fruits[f]]_vars
  <2> SUFFICES ASSUME SessionTypeOK, FruitInv, CallPart, OwnerInv, Next,
                      NEW f \in Fruits, fruits[f] # NoUser, fruits'[f] # NoUser
               PROVE  fruits'[f] = fruits[f]
    OBVIOUS
  <2>1. fruits[f] \in Owners /\ fruits'[f] \in Owners
    BY FruitsStep DEF FruitInv, FruitTypeOK
  <2>2. PICK o \in Owners : o = fruits'[f]
    BY <2>1
  <2>3. Claim(f, fruits[f]) /\ Claim(f, o)'
    BY <2>2 DEF Claim
  <2>4. f \in used
    BY <2>1, <2>3, ClaimUsed
  <2>5. Claim(f, o)
    BY <2>3, <2>4, ClaimStep
  <2> QED
    BY <2>1, <2>2, <2>3, <2>5 DEF OwnerInv
<1> QED
  BY <1>1, OwnerInvAlways, FruitRunsSession, SessionTypeCorrect, CallPartAlways,
     FruitInvAlways, PTL DEF Spec, OwnerStable

-----------------------------------------------------------------------------
(* What a step changes of what the users see.                              *)

(* Nothing when the queues keep their writes.                              *)
LEMMA SeesSame ==
  ASSUME FruitTypeOK, fruits' = fruits, writes' = writes \/ DisownAll,
         NEW u \in Accounts, NEW f \in Fruits
  PROVE  Sees(u, f)' = Sees(u, f)
<1>1. CASE writes' = writes
  BY <1>1 DEF Sees
<1>2. CASE DisownAll
  <2>1. writes[u] \in Seq(Writes) /\ writes'[u] = Disown(writes[u])
    BY <1>2 DEF FruitTypeOK, DisownAll
  <2>2. LastBy(writes'[u], f, fruits[f]) = LastBy(writes[u], f, fruits[f])
    BY <2>1, DisownSeen
  <2> QED
    BY <2>2 DEF Sees
<1> QED
  BY <1>1, <1>2

(* A write of the current user decides for this user and nobody else.      *)
LEMMA SeesEnqueued ==
  ASSUME SessionTypeOK, FruitTypeOK, fruits' = fruits, NEW w \in Writes, Enqueue(w),
         NEW u \in Accounts, NEW f \in Fruits
  PROVE  Sees(u, f)' = IF u = currentUser /\ w.f = f THEN w.by ELSE Sees(u, f)
<1>1. CASE u = currentUser
  <2>1. writes'[u] = Append(Queue, w) /\ Queue = writes[u] /\ Queue \in Seq(Writes)
    BY <1>1, QueueTyped DEF Enqueue, FruitTypeOK, Queue
  <2>2. LastBy(writes'[u], f, fruits[f])
          = IF w.f = f THEN w.by ELSE LastBy(writes[u], f, fruits[f])
    BY <2>1, AppendSeen
  <2> QED
    BY <1>1, <2>2 DEF Sees
<1>2. CASE u # currentUser
  <2>1. writes'[u] = writes[u]
    BY <1>2 DEF Enqueue, FruitTypeOK
  <2> QED
    BY <1>2, <2>1 DEF Sees
<1> QED
  BY <1>1, <1>2

(* When the server takes a write the current user sees no difference, and  *)
(* the others see at most what the write says.                             *)
LEMMA SeesCommitted ==
  ASSUME SessionTypeOK, FruitTypeOK, commit, NEW u \in Accounts, NEW f \in Fruits
  PROVE  \/ Sees(u, f)' = Sees(u, f)
         \/ /\ u # currentUser
            /\ \E i \in DOMAIN writes[currentUser] :
                 Sees(u, f)' = writes[currentUser][i].by
<1> DEFINE b == IF Head(Queue).f = f THEN Head(Queue).by ELSE fruits[f]
<1>1. /\ Queue # <<>> /\ Queue \in Seq(Writes) /\ currentUser \in Accounts
      /\ Head(Queue) \in Writes /\ 1 \in DOMAIN Queue /\ Head(Queue) = Queue[1]
      /\ Tail(Queue) \in Seq(Writes)
  BY QueueTyped, TailPlaces DEF commit
<1>2. fruits'[f] = b
  BY <1>1 DEF commit, FruitTypeOK, Writes
<1>3. LastBy(writes'[u], f, b) = LastBy(Rest[u], f, b)
  <2>1. Rest[u] \in Seq(Writes)
    BY <1>1 DEF Rest, FruitTypeOK
  <2>2. writes'[u] = Rest[u] \/ writes'[u] = Disown(Rest[u])
    BY DEF commit
  <2> HIDE DEF b
  <2>3. LastBy(Disown(Rest[u]), f, b) = LastBy(Rest[u], f, b)
    BY <2>1, DisownSeen
  <2> QED
    BY <2>2, <2>3
<1>4. CASE u = currentUser
  <2>1. Rest[u] = Tail(Queue) /\ Queue = writes[u]
    BY <1>1, <1>4 DEF Rest, FruitTypeOK, Queue
  <2>2. LastBy(Tail(Queue), f, b) = LastBy(Queue, f, fruits[f])
    BY <1>1, TailSeen
  <2> HIDE DEF b
  <2> QED
    BY <1>2, <1>3, <2>1, <2>2 DEF Sees
<1>5. CASE u # currentUser
  <2>1. Rest[u] = writes[u] /\ writes[u] \in Seq(Writes)
    BY <1>5 DEF Rest, FruitTypeOK
  <2>2. CASE b = fruits[f]
    BY <1>2, <1>3, <2>1, <2>2 DEF Sees
  <2>3. CASE b # fruits[f]
    <3>1. b = writes[currentUser][1].by /\ 1 \in DOMAIN writes[currentUser]
      BY <1>1, <2>3 DEF Queue
    <3> HIDE DEF b
    <3>2. CASE \A i \in DOMAIN writes[u] : writes[u][i].f # f
      <4>1. LastBy(writes[u], f, b) = b
        BY <2>1, <3>2, LastByFacts
      <4> QED
        BY <1>2, <1>3, <1>5, <2>1, <3>1, <4>1 DEF Sees
    <3>3. CASE \E i \in DOMAIN writes[u] : writes[u][i].f = f
      <4>1. PICK i : Last(writes[u], f, i)
        BY <2>1, <3>3, LastByFacts
      <4>2. LastBy(writes[u], f, b) = writes[u][i].by
        BY <2>1, <4>1, LastByFacts
      <4>3. LastBy(writes[u], f, fruits[f]) = writes[u][i].by
        BY <2>1, <4>1, LastByFacts
      <4> QED
        BY <1>2, <1>3, <2>1, <4>2, <4>3 DEF Sees
    <3> QED
      BY <3>2, <3>3
  <2> QED
    BY <2>2, <2>3
<1> QED
  BY <1>4, <1>5

-----------------------------------------------------------------------------
(* The list shows what the store has.                                      *)

(* Nobody taps, and no closure runs, under a home screen but its own.      *)
LEMMA BesideIsAway ==
  ASSUME SessionTypeOK, CallPart, sessionBeside PROVE screen' # "home"
<1>1. CASE Taps
  BY <1>1 DEF Taps, loginbtnclick, clickonsignup, googlebtnclick,
     loginwithgooglebtnclick, click_onSignupBtn, backToLogin, ActingOn
<1>2. ASSUME NEW c \in Calls, serveAuth(c) \/ serveProfile(c) \/ refuse(c)
                \/ createUserDone(c) \/ googleDone(c) \/ loginFailed(c)
      PROVE  screen' # "home"
  <2>1. Busy(c) /\ screen' = screen
    BY <1>2 DEF serveAuth, serveProfile, refuse, createUserDone, googleDone, loginFailed,
                Answered, Busy, Die
  <2> QED
    BY <2>1 DEF CallPart
<1> QED
  BY <1>1, <1>2 DEF sessionBeside, Answers

(* Nothing that the model lets fail can leave the list out of date.        *)
ListEnv == Env \cap {"overlap", "getFails", "writeFails"} = {}

(* An answer is the newest when it joins the others, and the main queue    *)
(* uses the answers in order.                                              *)
LEMMA NewestStep ==
  ASSUME FruitTypeOK
  PROVE  /\ \A S \in SUBSET Fruits : hop' = Append(hop, S) => Newest' = S
         /\ completion => Newest' = Newest
<1>1. hop \in Seq(SUBSET Fruits)
  BY DEF FruitTypeOK
<1>2. ASSUME NEW S \in SUBSET Fruits, hop' = Append(hop, S) PROVE Newest' = S
  BY <1>1, <1>2 DEF Newest
<1>3. ASSUME completion PROVE Newest' = Newest
  <2>1. hop # <<>> /\ arrfruit' = Head(hop) /\ hop' = Tail(hop)
    BY <1>3 DEF completion
  <2>2. CASE Len(hop) = 1
    BY <1>1, <2>1, <2>2 DEF Newest
  <2>3. CASE Len(hop) # 1
    <3>1. /\ Len(hop) - 1 \in DOMAIN Tail(hop) /\ Len(Tail(hop)) = Len(hop) - 1
          /\ Tail(hop) # <<>>
      <4>1. /\ Len(hop) \in Nat /\ DOMAIN hop = 1..Len(hop) /\ 1 \in DOMAIN hop
            /\ Tail(hop) \in Seq(SUBSET Fruits)
            /\ DOMAIN Tail(hop) = 1..(Len(hop) - 1)
        BY <1>1, <2>1, TailPlaces
      <4>2. Len(hop) - 1 \in DOMAIN Tail(hop)
        BY <2>3, <4>1
      <4>3. Len(Tail(hop)) = Len(hop) - 1
        BY <1>1, <2>1
      <4>4. ASSUME Tail(hop) = <<>> PROVE FALSE
        <5>1. DOMAIN Tail(hop) = {}
          BY <4>4
        <5> QED
          BY <4>2, <5>1
      <4> QED
        BY <4>2, <4>3, <4>4
    <3>2. Tail(hop)[Len(hop) - 1] = hop[Len(hop)]
      BY <1>1, <2>1, <3>1, TailPlaces
    <3> QED
      BY <2>1, <3>1, <3>2 DEF Newest
  <2> QED
    BY <2>2, <2>3
<1> QED
  BY <1>2, <1>3

(* Every step that changes what the user owns changes the list as well, or *)
(* asks again.                                                             *)
LEMMA ListInvStep ==
  ASSUME ListEnv, SessionTypeOK, SessionTypeOK', FruitInv, CallPart, OwnerInv, ListInv,
         [Next]_vars
  PROVE  ListInv'
<1>0. /\ FruitTypeOK /\ FruitIds /\ userID \in Owners /\ NoUser \notin Owners
      /\ userID' \in Owners /\ currentUser \in Accounts
  BY UserAssumption, QueueTyped DEF FruitInv, SessionTypeOK, Owners
<1>v. ASSUME UNCHANGED <<currentUser, userID>>,
             \A f \in Fruits : Sees(currentUser, f)' = Sees(currentUser, f)
      PROVE  FruitsOf(userID)' = FruitsOf(userID)
  <2>1. \A f \in Fruits : View(f)' = Sees(currentUser, f)'
    BY DEF View, WritesOf, Queue, Sees, LastBy
  <2> QED
    BY <1>v, <2>1, ViewSees DEF FruitsOf
<1> DEFINE Shown == /\ FruitsOf(userID) \subseteq Newest
                    /\ Newest \ FruitsOf(userID) \subseteq raced
<1>2. ListInv'
  <2> SUFFICES ASSUME app' = "running", screen' = "home", form' = Closed, asked' = NoGets
               PROVE  Shown'
    BY DEF ListInv
  <2>0. ASSUME app = "running", screen = "home", form = Closed, asked = NoGets
        PROVE  Shown
    BY <2>0 DEF ListInv
  <2>a. ASSUME Ask(userID) PROVE FALSE
    <3>1. asked'[userID] = asked[userID] + 1 /\ asked[userID] \in Nat
      BY <1>0, <2>a DEF Ask, FruitTypeOK
    <3> QED
      BY <1>0, <3>1 DEF NoGets
  <2>1. CASE sessionBeside
    BY <2>1, BesideIsAway
  <2>2. CASE sessionHome
    <3>1. asked'[userID'] = 1
      BY <1>0, <2>2 DEF sessionHome, HomeAppears, NoGets
    <3> QED
      BY <1>0, <3>1 DEF NoGets
  <2>3. CASE sessionAway
    BY <2>3 DEF sessionAway
  <2>4. CASE addbtnclick
    BY <2>4, FruitAssumption DEF addbtnclick
  <2>5. ASSUME NEW f \in Fruits, editAction(f) \/ saveFruit(f) PROVE FALSE
    BY <2>5, FruitAssumption DEF editAction, saveFruit, OnForm
  <2>6. ASSUME NEW f \in Fruits, deleteAction(f) PROVE Shown'
    <3> DEFINE w == [f |-> f, by |-> NoUser, mine |-> FALSE]
    <3>1. /\ UNCHANGED <<app, screen, userID, currentUser, form, asked, hop, fruits>>
          /\ arrfruit' = arrfruit \ {f} /\ Enqueue(w)
          /\ raced' = IF Races(f) THEN raced \cup {f} ELSE raced \ {f}
      BY <2>6 DEF deleteAction, RowGone, sessionVars, sdkVars
    <3>2. Shown
      BY <2>0, <3>1
    <3>3. w \in Writes /\ w.f = f /\ w.by = NoUser
      BY DEF Writes
    <3> HIDE DEF w
    <3>4. \A g \in Fruits : View(g)' = IF g = f THEN NoUser ELSE View(g)
      <4>1. \A g \in Fruits : View(g)' = Sees(currentUser, g)'
        BY DEF View, WritesOf, Queue, Sees, LastBy
      <4>2. \A g \in Fruits : Sees(currentUser, g)'
                                = IF w.f = g THEN w.by ELSE Sees(currentUser, g)
        <5> SUFFICES ASSUME NEW g \in Fruits
                     PROVE  Sees(currentUser, g)'
                              = IF w.f = g THEN w.by ELSE Sees(currentUser, g)
          OBVIOUS
        <5>1. PICK v \in Accounts : v = currentUser
          BY <1>0
        <5>2. Sees(v, g)' = IF w.f = g THEN w.by ELSE Sees(v, g)
          BY <1>0, <3>1, <3>3, <5>1, SeesEnqueued
        <5>3. Sees(currentUser, g)' = Sees(v, g)'
          BY <3>1, <5>1 DEF Sees
        <5> QED
          BY <5>1, <5>2, <5>3
      <4> QED
        BY <3>3, <4>1, <4>2, ViewSees
    <3>5. FruitsOf(userID)' = FruitsOf(userID) \ {f}
      BY <1>0, <3>1, <3>4 DEF FruitsOf
    <3>6. \/ hop = <<>> /\ ~Races(f) /\ Newest' = Newest \ {f}
          \/ Races(f) /\ Newest' = Newest
          \/ ~Races(f) /\ f \notin Newest /\ Newest' = Newest
      <4>1. hop \in Seq(SUBSET Fruits)
        BY <1>0 DEF FruitTypeOK
      <4>2. CASE hop = <<>>
        BY <3>1, <4>2 DEF Newest, Races
      <4>3. CASE hop # <<>>
        <5>1. Len(hop) \in DOMAIN hop
          BY <4>1, <4>3
        <5> QED
          BY <3>1, <4>3, <5>1 DEF Newest, Races
      <4> QED
        BY <4>2, <4>3
    <3> QED
      BY <3>1, <3>2, <3>5, <3>6
  <2>7. CASE goBack
    BY <2>7, <2>a DEF goBack
  <2>8. CASE commit
    <3>1. ~Head(Queue).mine
      BY <2>8, <2>a DEF commit, Pops
    <3>2. /\ UNCHANGED <<app, screen, userID, currentUser, form, asked, arrfruit, hop, raced>>
      BY <2>8, <3>1 DEF commit, sessionVars, sdkVars
    <3>3. \A f \in Fruits : Sees(currentUser, f)' = Sees(currentUser, f)
      <4> SUFFICES ASSUME NEW f \in Fruits
                   PROVE  Sees(currentUser, f)' = Sees(currentUser, f)
        OBVIOUS
      <4>1. PICK v \in Accounts : v = currentUser
        BY <1>0
      <4>2. Sees(v, f)' = Sees(v, f)
        BY <1>0, <2>8, <4>1, SeesCommitted
      <4>3. Sees(currentUser, f)' = Sees(v, f)'
        BY <3>2, <4>1 DEF Sees
      <4> QED
        BY <4>1, <4>2, <4>3
    <3> QED
      BY <1>v, <2>0, <3>2, <3>3 DEF Newest
  <2>9. CASE reject
    BY <2>9 DEF reject, ListEnv
  <2>10. ASSUME NEW u \in Owners, answer(u) PROVE Shown'
    <3>1. /\ u = userID /\ UNCHANGED <<userID, currentUser, fruits, writes>>
          /\ hop' = Append(hop, FruitsOf(u)) /\ FruitsOf(u) \in SUBSET Fruits
      BY <2>10 DEF answer, ListEnv, OwnerInv, docVars, sessionVars, sdkVars, FruitsOf
    <3>2. \A f \in Fruits : Sees(currentUser, f)' = Sees(currentUser, f)
      BY <3>1 DEF Sees
    <3>3. Newest' = FruitsOf(userID)
      BY <1>0, <3>1, NewestStep
    <3> QED
      BY <1>v, <3>1, <3>2, <3>3
  <2>11. CASE completion
    <3>1. UNCHANGED <<app, screen, userID, currentUser, form, asked, fruits, writes, raced>>
      BY <2>11 DEF completion, docVars, sessionVars, sdkVars
    <3>2. \A f \in Fruits : Sees(currentUser, f)' = Sees(currentUser, f)
      BY <3>1 DEF Sees
    <3>3. Newest' = Newest
      BY <1>0, <2>11, NewestStep
    <3> QED
      BY <1>v, <2>0, <3>1, <3>2, <3>3
  <2>12. CASE UNCHANGED vars
    <3>1. UNCHANGED <<app, screen, userID, currentUser, form, asked, fruits, writes, arrfruit,
                     hop, raced>>
      BY <2>12 DEF vars, fruitVars, docVars, homeVars, sessionVars, sdkVars
    <3>2. \A f \in Fruits : Sees(currentUser, f)' = Sees(currentUser, f)
      BY <3>1 DEF Sees
    <3> QED
      BY <1>v, <2>0, <3>1, <3>2 DEF Newest
  <2> QED
    BY <2>1, <2>2, <2>3, <2>4, <2>5, <2>6, <2>7, <2>8, <2>9, <2>10, <2>11, <2>12 DEF Next
<1> QED
  BY <1>2

(* While nothing fails and the user waits for every answer of the session, *)
(* the list shows the fruits of the user, and beside them only fruits that *)
(* were deleted while an answer was in the main queue, as soon as no query *)
(* and no answer is under way, wherever the process was killed and         *)
(* whatever the server has not taken yet.                                  *)
THEOREM ListAlwaysMatches ==
  ASSUME ListEnv PROVE Spec => []ListMatchesStore
<1>0. "overlap" \notin Env
  BY DEF ListEnv
<1>1. Init => ListInv
  BY DEF Init, SessionInit, FruitInit, ListInv
<1>2. /\ SessionTypeOK /\ SessionTypeOK' /\ FruitInv /\ CallPart /\ OwnerInv /\ ListInv
      /\ [Next]_vars
      => ListInv'
  BY ListInvStep
<1>3. Spec => []CallPart /\ []OwnerInv
  BY <1>0, FruitRunsSession, CallPartAlways, OwnerInvAlways, PTL
<1>4. ListInv => ListMatchesStore
  BY DEF ListInv, ListMatchesStore, ShowsFruits, Newest
<1> QED
  BY <1>1, <1>2, <1>3, <1>4, FruitRunsSession, SessionTypeCorrect, FruitInvAlways,
     PTL DEF Spec

-----------------------------------------------------------------------------
(* A deleted fruit stays away.                                             *)

(* No write is refused by the server or lost with the process, and the     *)
(* user is patient; queries may fail.                                      *)
DeleteEnv == Env \cap {"overlap", "killMidWrite", "writeFails"} = {}

(* No step brings a deleted fruit back into a user's view, nor, unless it  *)
(* raced an answer, to the screen.                                         *)
LEMMA DeletedInvStep ==
  ASSUME DeleteEnv, SessionTypeOK, FruitInv, SessionInv, OwnerInv, DeletedInv,
         [Next]_vars
  PROVE  DeletedInv'
<1>0. /\ FruitTypeOK /\ FruitIds /\ userID \in Owners /\ NoUser \notin Owners
      /\ currentUser \in Accounts /\ Uids \subseteq Accounts /\ Uids \subseteq Owners
      /\ NoUser \notin Uids
  BY UserAssumption, QueueTyped
     DEF FruitInv, SessionTypeOK, Owners, Accounts
<1>h. ASSUME ActingOn("home") PROVE userID = currentUser /\ currentUser \in Uids
  BY <1>h DEF ActingOn, SessionInv, SessionConsistent
<1>2. ASSUME NEW u \in Accounts, NEW i \in DOMAIN writes'[u]
      PROVE  writes'[u][i].by \in {u, NoUser}
  <2>1. CASE Next
    <3>1. \/ \E j \in DOMAIN writes[u] : writes'[u][i].by = writes[u][j].by
          \/ writes'[u][i].by = NoUser
          \/ OnForm /\ u = currentUser /\ writes'[u][i].by = userID
      BY <1>0, <1>2, <2>1, QueueStep
    <3> QED
      BY <1>h, <3>1 DEF DeletedInv, OnForm
  <2>2. CASE UNCHANGED vars
    BY <1>2, <2>2 DEF vars, fruitVars, DeletedInv
  <2> QED
    BY <2>1, <2>2
<1>s. ASSUME NEW f \in deleted, NEW u \in Uids PROVE Sees(u, f) # u /\ f \in Fruits
  BY <1>0 DEF DeletedInv, FruitTypeOK
<1>g. ASSUME deleted' = deleted, fruits' = fruits, writes' = writes \/ DisownAll,
             \A f \in deleted : OnScreen(f)' => f \in raced'
      PROVE  DeletedInv'
  <2>1. ASSUME NEW f \in deleted, NEW u \in Uids PROVE Sees(u, f)' # u
    <3>1. Sees(u, f)' = Sees(u, f)
      BY <1>0, <1>g, <1>s, SeesSame
    <3> QED
      BY <1>s, <3>1
  <2> QED
    BY <1>2, <1>g, <2>1 DEF DeletedInv, Accounts
<1>a. \A f \in deleted : (OnScreen(f) => f \in raced) /\ f \in Fruits
  BY <1>0 DEF DeletedInv, FruitTypeOK
<1>3. CASE sessionBeside \/ sessionHome \/ sessionAway
  <2>1. CASE sessionBeside
    BY <1>a, <1>g, <2>1 DEF sessionBeside, fruitVars, docVars, homeVars, OnScreen
  <2>2. CASE sessionHome \/ sessionAway
    <3>1. /\ UNCHANGED <<fruits, deleted>> /\ DisownAll
          /\ arrfruit' = {} /\ hop' = <<>> /\ form' = Closed
      BY <2>2 DEF sessionHome, sessionAway, HomeAppears, HomeGone, docVars
    <3>2. \A f \in deleted : ~OnScreen(f)'
      BY <1>a, <3>1, FruitAssumption DEF OnScreen
    <3> QED
      BY <1>g, <3>1, <3>2
  <2> QED
    BY <1>3, <2>1, <2>2
<1>4. CASE addbtnclick \/ goBack
  <2>1. /\ UNCHANGED <<fruits, deleted, arrfruit, hop, raced>> /\ (writes' = writes \/ DisownAll)
        /\ form' \in {New, Closed}
    BY <1>4 DEF addbtnclick, goBack, docVars
  <2>2. \A f \in deleted : OnScreen(f)' => f \in raced'
    BY <1>a, <2>1, FruitAssumption DEF OnScreen
  <2> QED
    BY <1>g, <2>1, <2>2
<1>5. ASSUME NEW f \in Fruits, editAction(f) PROVE DeletedInv'
  <2>1. /\ UNCHANGED <<fruits, deleted, arrfruit, hop, raced, writes>>
        /\ form' = f /\ f \in arrfruit
    BY <1>5 DEF editAction, docVars
  <2>2. \A g \in deleted : OnScreen(g)' => g \in raced'
    BY <1>a, <2>1 DEF OnScreen
  <2> QED
    BY <1>g, <2>1, <2>2
<1>6. ASSUME NEW f \in Fruits, deleteAction(f) PROVE DeletedInv'
  <2> DEFINE w == [f |-> f, by |-> NoUser, mine |-> FALSE]
  <2>1. /\ UNCHANGED <<fruits, form, hop>> /\ deleted' = deleted \cup {f}
        /\ arrfruit' = arrfruit \ {f} /\ Enqueue(w)
        /\ raced' = IF Races(f) THEN raced \cup {f} ELSE raced \ {f}
        /\ f \in arrfruit /\ form = Closed /\ ActingOn("home")
    BY <1>6 DEF deleteAction, RowGone, OnList
  <2>2. w \in Writes /\ w.f = f /\ w.by = NoUser
    BY DEF Writes
  <2> HIDE DEF w
  <2>3. ASSUME NEW g \in deleted', NEW u \in Uids PROVE Sees(u, g)' # u
    <3>1. Sees(u, g)' = IF u = currentUser /\ f = g THEN NoUser ELSE Sees(u, g)
      BY <1>0, <1>a, <2>1, <2>2, <2>3, SeesEnqueued
    <3>2. CASE g = f /\ u = currentUser
      BY <1>0, <3>1, <3>2
    <3>3. CASE g = f /\ u # currentUser
      <4>1. Claim(f, userID) /\ userID = currentUser
        BY <1>h, <2>1 DEF Claim, OnScreen
      <4>2. Sees(u, f) = u => Claim(f, u)
        BY <1>0, SeesClaims
      <4>3. Sees(u, f) # u
        BY <1>0, <3>3, <4>1, <4>2 DEF OwnerInv
      <4> QED
        BY <3>1, <3>3, <4>3
    <3>4. CASE g # f
      BY <1>s, <2>1, <2>3, <3>1, <3>4
    <3> QED
      BY <3>2, <3>3, <3>4
  <2>4. ASSUME NEW g \in deleted', OnScreen(g)' PROVE g \in raced'
    <3>1. CASE g = f
      BY <2>1, <2>4, <3>1, FruitAssumption DEF OnScreen, Races
    <3>2. CASE g # f
      BY <1>a, <2>1, <2>4, <3>2 DEF OnScreen
    <3> QED
      BY <3>1, <3>2
  <2> QED
    BY <1>2, <2>3, <2>4 DEF DeletedInv, Accounts
<1>7. ASSUME NEW f \in Fruits, saveFruit(f) PROVE DeletedInv'
  <2> DEFINE w == [f |-> f, by |-> userID, mine |-> TRUE]
  <2>1. /\ UNCHANGED <<fruits, form, arrfruit, hop>> /\ Enqueue(w)
        /\ deleted' = deleted \ {f} /\ raced' = raced \ {f}
    BY <1>7 DEF saveFruit
  <2>2. w \in Writes /\ w.f = f
    BY <1>0 DEF Writes
  <2> HIDE DEF w
  <2>3. ASSUME NEW g \in deleted', NEW u \in Uids PROVE Sees(u, g)' # u
    <3>1. g \in deleted /\ g # f /\ g \in Fruits
      BY <1>a, <2>1, <2>3
    <3>2. Sees(u, g)' = Sees(u, g)
      BY <1>0, <2>1, <2>2, <3>1, SeesEnqueued
    <3> QED
      BY <1>s, <3>1, <3>2
  <2>4. ASSUME NEW g \in deleted', OnScreen(g)' PROVE g \in raced'
    BY <1>a, <2>1, <2>4 DEF OnScreen
  <2> QED
    BY <1>2, <2>3, <2>4 DEF DeletedInv, Accounts
<1>8. CASE commit
  <2>1. UNCHANGED <<deleted, arrfruit, hop, raced>> /\ (form' = form \/ form' = Closed)
    BY <1>8 DEF commit, Pops
  <2>2. ASSUME NEW g \in deleted, NEW u \in Uids PROVE Sees(u, g)' # u
    <3>1. CASE Sees(u, g)' = Sees(u, g)
      BY <1>s, <3>1
    <3>2. CASE Sees(u, g)' # Sees(u, g)
      <4>1. u # currentUser /\ \E i \in DOMAIN writes[currentUser] :
                                 Sees(u, g)' = writes[currentUser][i].by
        BY <1>0, <1>8, <1>a, <3>2, SeesCommitted
      <4>2. Sees(u, g)' \in {currentUser, NoUser}
        BY <1>0, <4>1 DEF DeletedInv
      <4> QED
        BY <1>0, <4>1, <4>2
    <3> QED
      BY <3>1, <3>2
  <2>3. \A g \in deleted : OnScreen(g)' => g \in raced'
    BY <1>a, <2>1, FruitAssumption DEF OnScreen
  <2> QED
    BY <1>2, <2>1, <2>2, <2>3 DEF DeletedInv, Accounts
<1>9. CASE reject
  BY <1>9 DEF reject, DeleteEnv
<1>10. ASSUME NEW u \in Owners, answer(u) PROVE DeletedInv'
  <2>1. /\ UNCHANGED <<fruits, writes, deleted, form, arrfruit, raced>>
        /\ hop' = hop \/ hop' = Append(hop, FruitsOf(userID))
        /\ app = "running" /\ asked[u] > 0
    BY <1>10 DEF answer, OwnerInv, docVars
  <2>2. userID = currentUser /\ currentUser \in Uids
    <3>1. screen = "home"
      BY <1>0, <2>1 DEF FruitTypeOK, NoGets
    <3> QED
      BY <2>1, <3>1 DEF SessionInv, SessionConsistent
  <2>3. \A f \in deleted : f \notin FruitsOf(userID)
    BY <1>s, <2>2, ViewSees DEF FruitsOf
  <2>4. ASSUME NEW f \in deleted, OnScreen(f)' PROVE OnScreen(f)
    <3>1. hop \in Seq(SUBSET Fruits) /\ FruitsOf(userID) \in SUBSET Fruits
      BY <1>0 DEF FruitTypeOK, FruitsOf
    <3>2. CASE hop' = hop
      BY <2>1, <2>4, <3>2 DEF OnScreen
    <3>3. CASE hop' = Append(hop, FruitsOf(userID))
      BY <2>1, <2>3, <2>4, <3>1, <3>3, AppendPlaces DEF OnScreen
    <3> QED
      BY <2>1, <3>2, <3>3
  <2> QED
    BY <1>a, <1>g, <2>1, <2>4
<1>11. CASE completion
  <2>1. /\ UNCHANGED <<fruits, writes, deleted, form, raced>>
        /\ hop # <<>> /\ arrfruit' = Head(hop) /\ hop' = Tail(hop)
        /\ hop \in Seq(SUBSET Fruits)
    BY <1>0, <1>11 DEF completion, docVars, FruitTypeOK
  <2>2. \A f \in deleted : OnScreen(f)' => OnScreen(f)
    BY <2>1, TailPlaces DEF OnScreen
  <2> QED
    BY <1>a, <1>g, <2>1, <2>2
<1>12. CASE UNCHANGED vars
  BY <1>12, <1>a, <1>g DEF vars, fruitVars, docVars, homeVars, OnScreen
<1> QED
  BY <1>3, <1>4, <1>5, <1>6, <1>7, <1>8, <1>9, <1>10, <1>11, <1>12 DEF Next

(* A fruit that the user has deleted comes back to the list only with an   *)
(* answer that was in the main queue when it was deleted: not with a query *)
(* under way, not for other users and not after a launch, while its        *)
(* deletion waits for the server; queries may fail.                        *)
THEOREM DeletedAlwaysStaysAway ==
  ASSUME DeleteEnv PROVE Spec => []DeletedStaysDeleted
<1>0. Patient /\ "overlap" \notin Env
  BY DEF DeleteEnv, Patient
<1>1. Init => DeletedInv
  BY DEF Init, FruitInit, DeletedInv
<1>2. /\ SessionTypeOK /\ FruitInv /\ SessionInv /\ OwnerInv /\ DeletedInv /\ [Next]_vars
      => DeletedInv'
  BY DeletedInvStep
<1>3. Spec => []SessionInv /\ []OwnerInv
  BY <1>0, FruitRunsSession, SessionInvAlways, OwnerInvAlways, PTL
<1>4. DeletedInv => DeletedStaysDeleted
  BY DEF DeletedInv, DeletedStaysDeleted, OnScreen
<1> QED
  BY <1>1, <1>2, <1>3, <1>4, FruitRunsSession, SessionTypeCorrect, FruitInvAlways,
     PTL DEF Spec

=============================================================================
