------------------------ MODULE DetailRecordsProofs ------------------------
(***************************************************************************)
(* Proofs about the records of the collection "detail", for any number of  *)
(* devices, documents, pictures and queued writes.                         *)
(***************************************************************************)
EXTENDS DetailRecords, QueueLemmas

-----------------------------------------------------------------------------
(* What happens to the queue of a device: nothing that a reader would see  *)
(* (q becomes p), a write w is added, or the oldest one is taken.          *)
Alike(v, w) == v.op = w.op /\ v.key = w.key /\ v.doc = w.doc
Keeps(q, p) ==
  /\ DOMAIN p = DOMAIN q
  /\ \A i \in DOMAIN q : Alike(p[i], q[i])
Adds(q, p, w) ==
  /\ DOMAIN p = (DOMAIN q) \cup {Len(q) + 1}
  /\ \A i \in DOMAIN q : i \in Nat /\ i =< Len(q) /\ Alike(p[i], q[i])
  /\ p[Len(q) + 1] = w
Takes(q, p) ==
  /\ 1 \in DOMAIN q
  /\ \A i \in DOMAIN p : i \in Nat /\ i + 1 \in DOMAIN q /\ Alike(p[i], q[i + 1])
  /\ \A i \in DOMAIN q : i = 1 \/ (i - 1 \in DOMAIN p /\ Alike(p[i - 1], q[i]))

(* A queue that does not change is kept.                                   *)
LEMMA KeepsSelf == \A q : Keeps(q, q)
BY DEF Keeps, Alike

(* When a form goes, the writes of its device keep what they write.        *)
LEMMA DisownKeeps ==
  ASSUME NEW q \in [Devices -> Seq(Writes)], NEW d \in Devices
  PROVE  /\ Disown(d, q) \in [Devices -> Seq(Writes)]
         /\ \A e \in Devices : Keeps(q[e], Disown(d, q)[e])
         /\ \A e \in Devices \ {d} : Disown(d, q)[e] = q[e]
<1> DEFINE p == [i \in DOMAIN q[d] |-> [q[d][i] EXCEPT !.mine = FALSE]]
<1>1. q[d] \in Seq(Writes)
  OBVIOUS
<1>2. \A i \in DOMAIN q[d] : q[d][i] \in Writes
  BY <1>1
<1>3. \A i \in DOMAIN q[d] : p[i] \in Writes /\ Alike(p[i], q[d][i])
  BY <1>2 DEF Writes, Alike
<1>4. DOMAIN p = DOMAIN q[d]
  OBVIOUS
<1>5. Len(q[d]) \in Nat /\ DOMAIN q[d] = 1..Len(q[d])
  BY <1>1
<1>6. p \in [1..Len(q[d]) -> Writes]
  BY <1>3, <1>5
<1>7. p \in Seq(Writes)
  BY <1>5, <1>6
<1>8. Disown(d, q) = [q EXCEPT ![d] = p]
  BY DEF Disown
<1>9. Keeps(q[d], p)
  BY <1>3, <1>4 DEF Keeps
<1> HIDE DEF p
<1> QED
  BY <1>7, <1>8, <1>9, KeepsSelf

(* A write that is appended is the one that is added.                      *)
LEMMA AppendAdds ==
  ASSUME NEW q \in Seq(Writes), NEW w \in Writes
  PROVE  Append(q, w) \in Seq(Writes) /\ Adds(q, Append(q, w), w)
<1> DEFINE p == Append(q, w)
<1>1. /\ p \in Seq(Writes) /\ DOMAIN p = (DOMAIN q) \cup {Len(q) + 1}
      /\ \A i \in DOMAIN q : i =< Len(q) /\ p[i] = q[i]
      /\ p[Len(q) + 1] = w
  BY AppendPlaces
<1>2. \A i \in DOMAIN q : i \in Nat
  OBVIOUS
<1> HIDE DEF p
<1>3. Adds(q, p, w)
  BY <1>1, <1>2 DEF Adds, Alike
<1> QED
  BY <1>1, <1>3 DEF p

(* The server takes the first write of a queue.                            *)
LEMMA TailTakes ==
  ASSUME NEW q \in Seq(Writes), q # <<>>
  PROVE  /\ Tail(q) \in Seq(Writes) /\ Takes(q, Tail(q))
         /\ Head(q) = q[1] /\ Head(q) \in Writes
<1> DEFINE p == Tail(q)
<1>1. /\ Head(q) = q[1] /\ 1 \in DOMAIN q /\ p \in Seq(Writes)
      /\ DOMAIN p = 1..(Len(q) - 1)
      /\ \A i \in DOMAIN p : i + 1 \in DOMAIN q /\ p[i] = q[i + 1]
  BY TailPlaces
<1>2. q[1] \in Writes /\ Len(q) \in Nat /\ DOMAIN q = 1..Len(q)
  BY <1>1
<1> HIDE DEF p
<1>a. \A i \in DOMAIN q : i = 1 \/ (i - 1 \in DOMAIN p /\ Alike(p[i - 1], q[i]))
  <2> SUFFICES ASSUME NEW i \in DOMAIN q, i # 1
               PROVE  i - 1 \in DOMAIN p /\ Alike(p[i - 1], q[i])
    OBVIOUS
  <2>1. i - 1 \in DOMAIN p /\ (i - 1) + 1 = i
    BY <1>1, <1>2
  <2>2. p[i - 1] = q[(i - 1) + 1]
    BY <1>1, <2>1
  <2> QED
    BY <2>1, <2>2 DEF Alike
<1>3. Takes(q, p)
  BY <1>1, <1>2, <1>a DEF Takes, Alike
<1> QED
  BY <1>1, <1>2, <1>3 DEF p

(* Disowning what is left of a queue changes nothing of that.              *)
LEMMA TakesKeeps ==
  ASSUME NEW q, NEW p, NEW s, Takes(q, p), Keeps(p, s)
  PROVE  Takes(q, s)
BY DEF Takes, Keeps, Alike

-----------------------------------------------------------------------------
(* Types.  The model makes a document id when a record is first written    *)
(* and a file name when a picture is first uploaded; whatever a server, a  *)
(* queue, a list, a form or an upload holds was made before.               *)
MadeUrls == stamps \cup {NoImage}
Made(r) == r.key \in keys /\ r.url \in MadeUrls
MadeInv ==
  /\ \A k \in Keys : docs[k] # NoDoc => k \in keys /\ docs[k].url \in MadeUrls
  /\ \A d \in Devices : \A j \in DOMAIN queue[d] :
       queue[d][j].key \in keys /\ queue[d][j].doc.url \in MadeUrls
  /\ \A d \in Devices : \A r \in arrDetail[d] : Made(r)
  /\ \A d \in Devices : \A r \in query[d].rows : Made(r)
  /\ \A d \in Devices : form[d] # Closed => form[d].data = Detail \/ Made(form[d].data)
  /\ \A u \in uploads : u.img \in stamps /\ u.key \in keys \cup {NoKey}
DetailInv == DetailTypeOK /\ MadeInv

(* A write in a queue is a write.                                          *)
LEMMA QueuedWrites ==
  ASSUME DetailTypeOK, NEW d \in Devices
  PROVE  /\ queue[d] \in Seq(Writes)
         /\ \A j \in DOMAIN queue[d] : queue[d][j] \in Writes
<1>1. queue[d] \in Seq(Writes)
  BY DEF DetailTypeOK
<1> QED
  BY <1>1

(* A read finds the last write of a document in the queue of the device or *)
(* the document of the server, so every row it returns comes from one of   *)
(* the two.                                                                *)
LEMMA RowsRead ==
  ASSUME DetailTypeOK, NEW d \in Devices, NEW r \in getdetailLimitedData(d)
  PROVE  /\ r \in Rows
         /\ \/ docs[r.key] # NoDoc /\ docs[r.key].url = r.url
            \/ \E j \in DOMAIN queue[d] :
                 queue[d][j].key = r.key /\ queue[d][j].doc.url = r.url
         /\ docs[r.key] # NoDoc \/ Has(d, r.key, "set")
<1>1. PICK k \in Keys : /\ Exists(d, k)
                        /\ r = [key |-> k, named |-> View(d, k).named,
                                url |-> View(d, k).url]
  BY DEF getdetailLimitedData
<1>2. r.key = k /\ r.url = View(d, k).url
  BY <1>1
<1>3. docs[k] # NoDoc \/ Has(d, k, "set")
  BY <1>1 DEF Exists
<1>4. CASE WritesOf(d, k) = {}
  <2>1. docs[k] # NoDoc /\ View(d, k) = docs[k]
    BY <1>3, <1>4 DEF Has, View
  <2>2. docs[k] \in Docs
    BY <2>1 DEF DetailTypeOK
  <2>3. r \in Rows
    BY <1>1, <2>1, <2>2 DEF Rows, Docs
  <2> QED
    BY <1>2, <2>1, <2>3
<1>5. CASE WritesOf(d, k) # {}
  <2> DEFINE i == CHOOSE i \in WritesOf(d, k) : \A j \in WritesOf(d, k) : j =< i
  <2>1. queue[d] \in Seq(Writes) /\ \A j \in DOMAIN queue[d] : queue[d][j] \in Writes
    BY QueuedWrites
  <2>2. Len(queue[d]) \in Nat /\ WritesOf(d, k) \in SUBSET (1..Len(queue[d]))
    BY <2>1 DEF WritesOf
  <2>3. \E j \in WritesOf(d, k) : \A l \in WritesOf(d, k) : l =< j
    BY <1>5, <2>2, LastPlace
  <2>4. i \in WritesOf(d, k)
    BY <2>3
  <2>5. View(d, k) = queue[d][i].doc
    BY <1>5 DEF View
  <2> HIDE DEF i
  <2>6. i \in DOMAIN queue[d] /\ queue[d][i].key = k
    BY <2>4 DEF WritesOf
  <2>7. View(d, k) \in Docs
    BY <2>1, <2>5, <2>6 DEF Writes
  <2>8. r \in Rows
    BY <1>1, <2>7 DEF Rows, Docs
  <2> QED
    BY <1>2, <1>3, <2>5, <2>6, <2>8
<1> QED
  BY <1>4, <1>5

(* When a form goes, its uploads are only disowned.                        *)
Disowned(d, u) == IF u.dev = d THEN [u EXCEPT !.mine = FALSE] ELSE u

(* Every upload after it was one before, of the same picture for the same  *)
(* document.                                                               *)
LEMMA DisownUploadsKeeps ==
  ASSUME NEW d \in Devices, NEW U \in SUBSET Uploads, NEW v \in DisownUploads(d, U)
  PROVE  /\ v \in Uploads /\ (v.mine => v.dev # d)
         /\ \E u \in U : /\ v = Disowned(d, u)
                         /\ v.dev = u.dev /\ v.img = u.img /\ v.key = u.key
                         /\ v.stage = u.stage /\ (v.mine => u.mine)
<1>1. PICK u \in U : v = Disowned(d, u)
  BY DEF DisownUploads, Disowned
<1>2. u \in Uploads
  OBVIOUS
<1>3. CASE u.dev # d
  BY <1>1, <1>2, <1>3 DEF Disowned
<1>4. CASE u.dev = d
  <2>1. /\ v \in Uploads /\ v.mine = FALSE /\ v.dev = u.dev /\ v.img = u.img
        /\ v.key = u.key /\ v.stage = u.stage
    BY <1>1, <1>2, <1>4 DEF Uploads, Disowned
  <2> QED
    BY <1>1, <2>1
<1> QED
  BY <1>3, <1>4

(* What the write of a record does: one write is added to the queue of the *)
(* device, with a new id or with the id of the record that is edited.      *)
LEMMA WriteEffect ==
  ASSUME DetailTypeOK, NEW d \in Devices, NEW k \in Keys \cup {NoKey}, NEW url \in Urls,
         NEW mine \in BOOLEAN, WriteRecord(d, k, url, mine)
  PROVE  \E w \in Writes :
           /\ w.doc.url = url
           /\ \/ k = NoKey /\ w.op = "set" /\ w.key \in Keys \ keys /\ keys' = keys \cup {w.key}
              \/ k # NoKey /\ w.op = "update" /\ w.key = k /\ keys' = keys
           /\ queue' \in [Devices -> Seq(Writes)]
           /\ Adds(queue[d], queue'[d], w)
           /\ \A e \in Devices \ {d} : queue'[e] = queue[e]
<1>0. queue \in [Devices -> Seq(Writes)]
  BY DEF DetailTypeOK
<1>1. ASSUME NEW w \in Writes, queue' = [queue EXCEPT ![d] = Append(queue[d], w)]
      PROVE  /\ queue' \in [Devices -> Seq(Writes)]
             /\ Adds(queue[d], queue'[d], w)
             /\ \A e \in Devices \ {d} : queue'[e] = queue[e]
  <2> DEFINE p == Append(queue[d], w)
  <2>1. p \in Seq(Writes) /\ Adds(queue[d], p, w)
    BY <1>0, AppendAdds
  <2>2. queue' = [queue EXCEPT ![d] = p]
    BY <1>1
  <2> HIDE DEF p
  <2> QED
    BY <1>0, <2>1, <2>2
<1>2. CASE k = NoKey
  <2>1. PICK l \in Keys \ keys, n \in NamesTyped :
          /\ keys' = keys \cup {l}
          /\ Enqueue(d, [op |-> "set", key |-> l, doc |-> [named |-> n, url |-> url],
                         mine |-> mine])
    BY <1>2 DEF WriteRecord, setData
  <2> DEFINE w == [op |-> "set", key |-> l, doc |-> [named |-> n, url |-> url],
                   mine |-> mine]
  <2>2. n \in BOOLEAN
    BY DEF NamesTyped
  <2>3. w \in Writes /\ w.op = "set" /\ w.key = l /\ w.doc.url = url
    BY <2>2 DEF Writes, Docs
  <2>4. queue' = [queue EXCEPT ![d] = Append(queue[d], w)]
    BY <2>1 DEF Enqueue
  <2> HIDE DEF w
  <2> QED
    BY <1>1, <1>2, <2>1, <2>3, <2>4
<1>3. CASE k # NoKey
  <2>1. PICK n \in NamesTyped :
          Enqueue(d, [op |-> "update", key |-> k, doc |-> [named |-> n, url |-> url],
                      mine |-> mine])
    BY <1>3 DEF WriteRecord, updatedata
  <2> DEFINE w == [op |-> "update", key |-> k, doc |-> [named |-> n, url |-> url],
                   mine |-> mine]
  <2>2. n \in BOOLEAN /\ k \in Keys /\ keys' = keys
    BY <1>3 DEF NamesTyped, WriteRecord, updatedata
  <2>3. w \in Writes /\ w.op = "update" /\ w.key = k /\ w.doc.url = url
    BY <2>2 DEF Writes, Docs
  <2>4. queue' = [queue EXCEPT ![d] = Append(queue[d], w)]
    BY <2>1 DEF Enqueue
  <2> HIDE DEF w
  <2> QED
    BY <1>1, <1>3, <2>2, <2>3, <2>4
<1> QED
  BY <1>2, <1>3

(* What the deletion of a record does to the queue of the device.          *)
LEMMA DeleteEffect ==
  ASSUME DetailTypeOK, NEW d \in Devices, NEW r \in arrDetail[d], deleteAction(d, r)
  PROVE  /\ r \in Rows /\ Deletion(r.key) \in Writes
         /\ Deletion(r.key).key = r.key /\ Deletion(r.key).op = "delete"
         /\ Deletion(r.key).doc.url = NoImage
         /\ queue' \in [Devices -> Seq(Writes)]
         /\ Adds(queue[d], queue'[d], Deletion(r.key))
         /\ \A e \in Devices \ {d} : queue'[e] = queue[e]
<1>1. r \in Rows
  BY DEF DetailTypeOK
<1>2. /\ Deletion(r.key) \in Writes /\ Deletion(r.key).key = r.key
      /\ Deletion(r.key).op = "delete" /\ Deletion(r.key).doc.url = NoImage
  BY <1>1 DEF Deletion, Writes, Docs, Urls, Rows
<1> DEFINE p == Append(queue[d], Deletion(r.key))
<1>3. queue' = [queue EXCEPT ![d] = p]
  BY DEF deleteAction, Enqueue
<1>4. p \in Seq(Writes) /\ Adds(queue[d], p, Deletion(r.key))
  BY <1>2, QueuedWrites, AppendAdds
<1> HIDE DEF p
<1>5. /\ queue' \in [Devices -> Seq(Writes)]
      /\ Adds(queue[d], queue'[d], Deletion(r.key))
      /\ \A e \in Devices \ {d} : queue'[e] = queue[e]
  BY <1>3, <1>4 DEF DetailTypeOK
<1> QED
  BY <1>1, <1>2, <1>5

(* The death of a process leaves nothing that was not there.               *)
LEMMA DiesEffect ==
  ASSUME DetailTypeOK, NEW d \in Devices, NEW how \in {"crashed", "killed"}, Dies(d, how)
  PROVE  /\ app' = [app EXCEPT ![d] = how]
         /\ form' = [form EXCEPT ![d] = Closed]
         /\ arrDetail' = [arrDetail EXCEPT ![d] = {}]
         /\ query' = [query EXCEPT ![d] = Quiet]
         /\ uploads' = {u \in uploads : u.dev # d}
         /\ queue' \in [Devices -> Seq(Writes)]
         /\ \A e \in Devices : Keeps(queue[e], queue'[e])
<1>1. queue \in [Devices -> Seq(Writes)]
  BY DEF DetailTypeOK
<1> QED
  BY <1>1, DisownKeeps DEF Dies

(* The server or the app takes the oldest write out of the queue of d.     *)
LEMMA TakeEffect ==
  ASSUME DetailTypeOK, NEW d \in Devices, queue[d] # <<>>,
         \/ queue' = [queue EXCEPT ![d] = Tail(@)]
         \/ queue' = Disown(d, [queue EXCEPT ![d] = Tail(@)])
  PROVE  /\ queue' \in [Devices -> Seq(Writes)]
         /\ Head(queue[d]) = queue[d][1] /\ Head(queue[d]) \in Writes
         /\ 1 \in DOMAIN queue[d]
         /\ Takes(queue[d], queue'[d])
         /\ \A e \in Devices \ {d} : queue'[e] = queue[e]
<1> DEFINE p == Tail(queue[d])
           s == [queue EXCEPT ![d] = p]
<1>1. queue \in [Devices -> Seq(Writes)] /\ queue[d] \in Seq(Writes)
  BY DEF DetailTypeOK
<1>2. /\ p \in Seq(Writes) /\ Takes(queue[d], p)
      /\ Head(queue[d]) = queue[d][1] /\ Head(queue[d]) \in Writes
  BY <1>1, TailTakes
<1>3. queue' = s \/ queue' = Disown(d, s)
  OBVIOUS
<1>4. 1 \in DOMAIN queue[d]
  BY <1>2 DEF Takes
<1> HIDE DEF p
<1>5. /\ s \in [Devices -> Seq(Writes)] /\ s[d] = p
      /\ \A e \in Devices \ {d} : s[e] = queue[e]
  BY <1>1, <1>2
<1> HIDE DEF s
<1>6. CASE queue' = s
  BY <1>2, <1>4, <1>5, <1>6
<1>7. CASE queue' = Disown(d, s)
  <2>1. /\ queue' \in [Devices -> Seq(Writes)] /\ Keeps(s[d], queue'[d])
        /\ \A e \in Devices \ {d} : queue'[e] = s[e]
    BY <1>5, <1>7, DisownKeeps
  <2> QED
    BY <1>2, <1>4, <1>5, <2>1, TakesKeeps
<1> QED
  BY <1>3, <1>6, <1>7

(* Every queue keeps its writes, or one write with made names joins one.   *)
LEMMA DiesKeepsInv ==
  ASSUME DetailInv, NEW d \in Devices, NEW how \in {"crashed", "killed"}, Dies(d, how),
         UNCHANGED <<serverVars, madeVars, removing>>
  PROVE  DetailInv'
<1>1. /\ app' = [app EXCEPT ![d] = how]
      /\ form' = [form EXCEPT ![d] = Closed]
      /\ arrDetail' = [arrDetail EXCEPT ![d] = {}]
      /\ query' = [query EXCEPT ![d] = Quiet]
      /\ uploads' = {u \in uploads : u.dev # d}
      /\ queue' \in [Devices -> Seq(Writes)]
      /\ \A e \in Devices : Keeps(queue[e], queue'[e])
  BY DiesEffect DEF DetailInv
<1>2. DetailTypeOK'
  BY <1>1 DEF DetailInv, DetailTypeOK, serverVars, madeVars, Quiet
<1>3. \A e \in Devices : \A j \in DOMAIN queue'[e] :
        queue'[e][j].key \in keys /\ queue'[e][j].doc.url \in MadeUrls
  <2> SUFFICES ASSUME NEW e \in Devices, NEW j \in DOMAIN queue'[e]
               PROVE  queue'[e][j].key \in keys /\ queue'[e][j].doc.url \in MadeUrls
    OBVIOUS
  <2>1. j \in DOMAIN queue[e] /\ Alike(queue'[e][j], queue[e][j])
    BY <1>1 DEF Keeps
  <2> QED
    BY <2>1 DEF DetailInv, MadeInv, Alike
<1>4. \A e \in Devices : /\ arrDetail'[e] \subseteq arrDetail[e]
                         /\ query'[e].rows \subseteq query[e].rows
                         /\ form'[e] # Closed => form'[e] = form[e]
  BY <1>1 DEF DetailInv, DetailTypeOK, Quiet
<1>5. MadeInv'
  BY <1>1, <1>3, <1>4 DEF DetailInv, MadeInv, Made, MadeUrls, serverVars, madeVars
<1> QED
  BY <1>2, <1>5 DEF DetailInv

(* A new write keeps the invariant when its document and its picture were  *)
(* made.                                                                   *)
LEMMA AddKeepsInv ==
  ASSUME DetailInv, NEW d \in Devices, NEW w \in Writes,
         queue' \in [Devices -> Seq(Writes)],
         Adds(queue[d], queue'[d], w),
         \A e \in Devices \ {d} : queue'[e] = queue[e],
         keys' = keys \cup {w.key}, w.doc.url \in MadeUrls,
         removing' \subseteq stamps, uploads' \subseteq uploads,
         UNCHANGED <<serverVars, stamps, query, form, app>>,
         arrDetail' \in [Devices -> SUBSET Rows],
         \A e \in Devices : arrDetail'[e] \subseteq arrDetail[e]
  PROVE  DetailInv'
<1>0. w.key \in Keys
  BY DEF Writes
<1>1. DetailTypeOK'
  BY <1>0 DEF DetailInv, DetailTypeOK, serverVars
<1>2. \A e \in Devices : \A j \in DOMAIN queue'[e] :
        queue'[e][j].key \in keys' /\ queue'[e][j].doc.url \in MadeUrls
  <2> SUFFICES ASSUME NEW e \in Devices, NEW j \in DOMAIN queue'[e]
               PROVE  queue'[e][j].key \in keys' /\ queue'[e][j].doc.url \in MadeUrls
    OBVIOUS
  <2>1. CASE e # d
    BY <2>1 DEF DetailInv, MadeInv
  <2>2. CASE e = d /\ j \in DOMAIN queue[d]
    BY <2>2 DEF DetailInv, MadeInv, Adds, Alike
  <2>3. CASE e = d /\ j \notin DOMAIN queue[d]
    BY <2>3 DEF Adds
  <2> QED
    BY <2>1, <2>2, <2>3
<1>3. MadeInv'
  BY <1>2 DEF DetailInv, MadeInv, Made, MadeUrls, serverVars
<1> QED
  BY <1>1, <1>3 DEF DetailInv

(* Every step keeps types and ids, one case per action.                    *)
LEMMA DetailInvStep ==
  ASSUME DetailInv, [Next]_vars
  PROVE  DetailInv'
<1> USE DEF serverVars, madeVars
<1>0. DetailTypeOK /\ MadeInv
  BY DEF DetailInv
<1>1. ASSUME NEW d \in Devices, kill(d) PROVE DetailInv'
  BY <1>1, DiesKeepsInv DEF kill
<1>2. ASSUME NEW d \in Devices, launch(d) PROVE DetailInv'
  BY <1>0, <1>2 DEF launch, DetailInv, DetailTypeOK, MadeInv, Made, MadeUrls, Asked
<1>3. ASSUME NEW d \in Devices, getDetail(d) PROVE DetailInv'
  <2>1. \A r \in getdetailLimitedData(d) : r \in Rows /\ Made(r)
    <3> SUFFICES ASSUME NEW r \in getdetailLimitedData(d) PROVE r \in Rows /\ Made(r)
      OBVIOUS
    <3>1. /\ r \in Rows
          /\ \/ docs[r.key] # NoDoc /\ docs[r.key].url = r.url
             \/ \E j \in DOMAIN queue[d] :
                  queue[d][j].key = r.key /\ queue[d][j].doc.url = r.url
      BY <1>0, RowsRead
    <3>2. r.key \in Keys
      BY <3>1 DEF Rows
    <3> QED
      BY <1>0, <3>1, <3>2 DEF MadeInv, Made
  <2> DEFINE R == getdetailLimitedData(d)
  <2>2. /\ UNCHANGED <<serverVars, madeVars, removing, uploads, queue, form, app>>
        /\ \/ arrDetail' = [arrDetail EXCEPT ![d] = R] /\ query' = [query EXCEPT ![d] = Quiet]
           \/ /\ query' = [query EXCEPT ![d] = [at |-> "answered", rows |-> R]]
              /\ UNCHANGED arrDetail
           \/ query' = [query EXCEPT ![d] = Quiet] /\ UNCHANGED arrDetail
    BY <1>3 DEF getDetail
  <2>3. R \subseteq Rows /\ \A r \in R : Made(r)
    BY <2>1
  <2> HIDE DEF R
  <2>a. PICK a \in [at : {"none", "asked", "answered"}, rows : SUBSET Rows] :
          query' = [query EXCEPT ![d] = a] /\ a.rows \subseteq R
    <3>1. /\ [at |-> "answered", rows |-> R]
               \in [at : {"none", "asked", "answered"}, rows : SUBSET Rows]
          /\ [at |-> "answered", rows |-> R].rows \subseteq R
      BY <2>3
    <3>2. /\ Quiet \in [at : {"none", "asked", "answered"}, rows : SUBSET Rows]
          /\ Quiet.rows \subseteq R
      BY DEF Quiet
    <3> QED
      BY <2>2, <3>1, <3>2
  <2>b. /\ arrDetail' \in [Devices -> SUBSET Rows]
        /\ \A e \in Devices : \A r \in arrDetail'[e] : r \in arrDetail[e] \/ r \in R
    BY <1>0, <2>2, <2>3 DEF DetailTypeOK
  <2>c. /\ query' \in [Devices -> [at : {"none", "asked", "answered"}, rows : SUBSET Rows]]
        /\ \A e \in Devices : \A r \in query'[e].rows : r \in query[e].rows \/ r \in R
    BY <1>0, <2>a DEF DetailTypeOK
  <2>4. DetailTypeOK'
    BY <1>0, <2>2, <2>b, <2>c DEF DetailTypeOK
  <2>5. MadeInv'
    BY <1>0, <2>2, <2>3, <2>b, <2>c DEF MadeInv, Made, MadeUrls
  <2> QED
    BY <2>4, <2>5 DEF DetailInv
<1>4. ASSUME NEW d \in Devices, getAlldetail(d) PROVE DetailInv'
  <2>1. DetailTypeOK'
    BY <1>0, <1>4 DEF getAlldetail, DetailTypeOK, Quiet
  <2>2. MadeInv'
    BY <1>0, <1>4 DEF getAlldetail, DetailTypeOK, MadeInv, Made, MadeUrls, Quiet
  <2> QED
    BY <2>1, <2>2 DEF DetailInv
<1>5. ASSUME NEW d \in Devices, NEW r \in Rows \cup {Detail}, r = Detail \/ Made(r),
             OnList(d), form' = [form EXCEPT ![d] = FormFor(r)],
             UNCHANGED <<serverVars, madeVars, removing, uploads, queue, arrDetail, query, app>>
      PROVE  DetailInv'
  <2>a. FormFor(r) \in Forms /\ FormFor(r).data = r
    BY DEF FormFor, Forms
  <2>1. FormFor(r) \in Forms /\ FormFor(r) # Closed /\ FormFor(r).data = r
    BY <2>a, MarkerConstants
  <2>2. DetailTypeOK'
    BY <1>0, <1>5, <2>1 DEF DetailTypeOK, OnList
  <2>3. MadeInv'
    BY <1>0, <1>5, <2>1 DEF DetailTypeOK, MadeInv, Made, MadeUrls
  <2> QED
    BY <2>2, <2>3 DEF DetailInv
<1>6. ASSUME NEW d \in Devices, addbtnclick(d) PROVE DetailInv'
  BY <1>5, <1>6 DEF addbtnclick
<1>7. ASSUME NEW d \in Devices, NEW r \in arrDetail[d], editAction(d, r) PROVE DetailInv'
  <2>1. r \in Rows /\ Made(r)
    BY <1>0 DEF DetailTypeOK, MadeInv
  <2>2. CASE Dies(d, "crashed")
    BY <1>7, <2>2, DiesKeepsInv DEF editAction
  <2>3. CASE ~Dies(d, "crashed")
    BY <1>5, <1>7, <2>1, <2>3 DEF editAction
  <2> QED
    BY <2>2, <2>3
<1>8. ASSUME NEW d \in Devices, NEW r \in arrDetail[d], deleteAction(d, r) PROVE DetailInv'
  <2>1. r \in Rows /\ Made(r)
    BY <1>0 DEF DetailTypeOK, MadeInv
  <2>2. /\ Deletion(r.key) \in Writes /\ Deletion(r.key).key = r.key
        /\ Deletion(r.key).doc.url = NoImage
        /\ queue' \in [Devices -> Seq(Writes)] /\ Adds(queue[d], queue'[d], Deletion(r.key))
        /\ \A e \in Devices \ {d} : queue'[e] = queue[e]
    BY <1>0, <1>8, DeleteEffect
  <2>6. /\ removing' \subseteq stamps /\ keys' = keys \cup {r.key}
        /\ uploads' \subseteq uploads
        /\ UNCHANGED <<serverVars, stamps, query, form, app>>
    BY <1>0, <1>8, <2>1 DEF deleteAction, deleteImageFromFirebase, Made, MadeUrls,
                            DetailTypeOK
  <2>7. /\ arrDetail' \in [Devices -> SUBSET Rows]
        /\ \A e \in Devices : arrDetail'[e] \subseteq arrDetail[e]
    BY <1>0, <1>8 DEF deleteAction, DetailTypeOK
  <2> QED
    BY <2>2, <2>6, <2>7, AddKeepsInv DEF MadeUrls
<1>9. ASSUME NEW d \in Devices, pickimage(d) PROVE DetailInv'
  <2>1. form[d] \in Forms
    BY <1>0, <1>9 DEF pickimage, OnForm, DetailTypeOK
  <2> DEFINE g == [form[d] EXCEPT !.flag = TRUE]
  <2>2. g \in Forms /\ g # Closed /\ g.data = form[d].data
    BY <2>1, MarkerConstants DEF Forms
  <2>3. form' = [form EXCEPT ![d] = g]
    BY <1>9 DEF pickimage
  <2> HIDE DEF g
  <2>a. /\ app[d] = "running" /\ form[d] # Closed
        /\ UNCHANGED <<serverVars, madeVars, removing, uploads, queue, arrDetail, query, app>>
    BY <1>9 DEF pickimage, OnForm
  <2>b. /\ form' \in [Devices -> Forms \cup {Closed}]
        /\ \A e \in Devices : form'[e] = Closed <=> form[e] = Closed
    BY <1>0, <2>2, <2>3, <2>a DEF DetailTypeOK
  <2>c. \A u \in uploads : u.dev \in Devices
    BY <1>0 DEF DetailTypeOK, Uploads
  <2>4. DetailTypeOK'
    BY <1>0, <2>a, <2>b, <2>c DEF DetailTypeOK
  <2>5. MadeInv'
    BY <1>0, <1>9, <2>2, <2>3 DEF pickimage, OnForm, DetailTypeOK, MadeInv, Made, MadeUrls
  <2> QED
    BY <2>4, <2>5 DEF DetailInv
<1>10. ASSUME NEW d \in Devices, form' = [form EXCEPT ![d] = Closed],
              query' = [query EXCEPT ![d] = Asked],
              uploads' = DisownUploads(d, uploads),
              queue' \in [Devices -> Seq(Writes)],
              \A e \in Devices : \A j \in DOMAIN queue'[e] :
                queue'[e][j].key \in keys /\ queue'[e][j].doc.url \in MadeUrls,
              docs' \in [Keys -> Docs \cup {NoDoc}],
              \A k \in Keys : docs'[k] # NoDoc => k \in keys /\ docs'[k].url \in MadeUrls,
              deleted' \subseteq keys,
              UNCHANGED <<files, madeVars, removing, arrDetail, app>>
       PROVE  DetailInv'
  <2>1. uploads \in SUBSET Uploads
    BY <1>0 DEF DetailTypeOK
  <2>2. /\ uploads' \subseteq Uploads
        /\ \A v \in uploads' :
             /\ v.mine => v.dev # d
             /\ \E u \in uploads : v.dev = u.dev /\ v.img = u.img /\ v.key = u.key
                                   /\ (v.mine => u.mine)
    BY <1>10, <2>1, DisownUploadsKeeps
  <2>3. \A u \in uploads' : u.mine => form'[u.dev] # Closed
    BY <1>0, <1>10, <2>1, <2>2 DEF DetailTypeOK, Uploads
  <2>4. DetailTypeOK'
    BY <1>0, <1>10, <2>2, <2>3 DEF DetailTypeOK, Asked
  <2>5. \A v \in uploads' : v.img \in stamps' /\ v.key \in keys' \cup {NoKey}
    BY <1>0, <1>10, <2>2 DEF MadeInv
  <2>6. MadeInv'
    BY <1>0, <1>10, <2>5 DEF DetailTypeOK, MadeInv, Made, MadeUrls, Asked
  <2> QED
    BY <2>4, <2>6 DEF DetailInv
<1>11. ASSUME NEW d \in Devices, goBack(d) PROVE DetailInv'
  <2>1. /\ queue' \in [Devices -> Seq(Writes)]
        /\ \A e \in Devices : Keeps(queue[e], queue'[e])
    BY <1>0, <1>11, DisownKeeps DEF goBack, DetailTypeOK
  <2>2. \A e \in Devices : \A j \in DOMAIN queue'[e] :
          queue'[e][j].key \in keys /\ queue'[e][j].doc.url \in MadeUrls
    BY <1>0, <2>1 DEF MadeInv, Keeps, Alike
  <2> QED
    BY <1>0, <1>10, <1>11, <2>1, <2>2 DEF goBack, DetailTypeOK, MadeInv
<1>12. ASSUME NEW d \in Devices, NEW i \in Images, saveUploads(d, i) PROVE DetailInv'
  <2> DEFINE u == [dev |-> d, img |-> i, key |-> Target(form[d]), stage |-> "put",
                   mine |-> TRUE]
  <2>1. form[d] # Closed /\ form[d] \in Forms
    BY <1>0, <1>12 DEF saveUploads, OnForm, DetailTypeOK
  <2>2. Target(form[d]) \in keys \cup {NoKey}
    BY <1>0, <2>1 DEF Target, MadeInv, Made, Detail
  <2>3. keys \subseteq Keys
    BY <1>0 DEF DetailTypeOK
  <2>4. u \in Uploads /\ u.img = i /\ u.key = Target(form[d]) /\ u.dev = d
    BY <2>2, <2>3 DEF Uploads
  <2>5. /\ uploads' = uploads \cup {u} /\ stamps' = stamps \cup {i}
        /\ UNCHANGED <<serverVars, keys, removing, queue, arrDetail, query, form, app>>
    BY <1>12 DEF saveUploads, uploadImage
  <2> HIDE DEF u
  <2>6. DetailTypeOK'
    BY <1>0, <2>1, <2>4, <2>5 DEF DetailTypeOK
  <2>7. MadeInv'
    BY <1>0, <2>2, <2>4, <2>5 DEF MadeInv, Made, MadeUrls
  <2> QED
    BY <2>6, <2>7 DEF DetailInv
<1>13. ASSUME NEW d \in Devices, NEW k \in Keys \cup {NoKey}, NEW url \in MadeUrls,
              NEW mine \in BOOLEAN, WriteRecord(d, k, url, mine),
              k \in keys \cup {NoKey}, uploads' \subseteq uploads,
              UNCHANGED <<serverVars, stamps, removing, arrDetail, query, form, app>>
       PROVE  DetailInv'
  <2>1. url \in Urls
    BY <1>0 DEF DetailTypeOK, MadeUrls, Urls
  <2>2. PICK w \in Writes :
          /\ w.doc.url = url
          /\ \/ k = NoKey /\ w.op = "set" /\ w.key \in Keys \ keys /\ keys' = keys \cup {w.key}
             \/ k # NoKey /\ w.op = "update" /\ w.key = k /\ keys' = keys
          /\ queue' \in [Devices -> Seq(Writes)]
          /\ Adds(queue[d], queue'[d], w)
          /\ \A e \in Devices \ {d} : queue'[e] = queue[e]
    BY <1>0, <1>13, <2>1, WriteEffect
  <2>3. keys' = keys \cup {w.key}
    BY <1>13, <2>2
  <2>4. removing' \subseteq stamps /\ arrDetail' \in [Devices -> SUBSET Rows]
    BY <1>0, <1>13 DEF DetailTypeOK
  <2> QED
    BY <1>13, <2>2, <2>3, <2>4, AddKeepsInv
<1>14. ASSUME NEW d \in Devices, saveAtOnce(d) PROVE DetailInv'
  <2>1. form[d] # Closed /\ form[d] \in Forms
    BY <1>0, <1>14 DEF saveAtOnce, OnForm, DetailTypeOK
  <2>2. Target(form[d]) \in keys \cup {NoKey} /\ PictureOf(form[d]) \in MadeUrls
    BY <1>0, <2>1 DEF Target, PictureOf, MadeInv, Made, Detail, MadeUrls
  <2>3. keys \subseteq Keys
    BY <1>0 DEF DetailTypeOK
  <2> QED
    BY <1>13, <1>14, <2>2, <2>3 DEF saveAtOnce
<1>15. ASSUME NEW u \in uploads, putDone(u) PROVE DetailInv'
  <2> DEFINE v == [u EXCEPT !.stage = "url"]
  <2>1. /\ v \in Uploads /\ v.dev = u.dev /\ v.img = u.img /\ v.key = u.key
        /\ v.mine = u.mine
    BY <1>0, ZenonT(60) DEF DetailTypeOK, Uploads
  <2>2. uploads' = (uploads \ {u}) \cup {v} /\ files' = files \cup {u.img}
        /\ UNCHANGED <<docs, deleted, madeVars, removing, queue, arrDetail, query, form, app>>
    BY <1>15 DEF putDone
  <2> HIDE DEF v
  <2>3. u.img \in stamps
    BY <1>0 DEF MadeInv
  <2>4. DetailTypeOK'
    BY <1>0, <2>1, <2>2, <2>3 DEF DetailTypeOK
  <2>5. MadeInv'
    BY <1>0, <2>1, <2>2 DEF MadeInv, Made, MadeUrls
  <2> QED
    BY <2>4, <2>5 DEF DetailInv
<1>16. ASSUME NEW u \in uploads
       PROVE  /\ u.dev \in Devices /\ u.key \in keys \cup {NoKey}
              /\ u.key \in Keys \cup {NoKey} /\ u.img \in MadeUrls /\ u.mine \in BOOLEAN
  BY <1>0 DEF DetailTypeOK, MadeInv, Uploads, MadeUrls
<1>17. ASSUME NEW u \in uploads, urlDone(u) PROVE DetailInv'
  BY <1>13, <1>16, <1>17 DEF urlDone
<1>18. ASSUME NEW u \in uploads, uploadFails(u) PROVE DetailInv'
  <2>1. CASE Dies(u.dev, "crashed") /\ UNCHANGED keys
    BY <1>16, <1>18, <2>1, DiesKeepsInv DEF uploadFails
  <2>2. CASE ~(Dies(u.dev, "crashed") /\ UNCHANGED keys)
    <3>1. /\ WriteRecord(u.dev, NoKey, NoImage, u.mine) /\ uploads' \subseteq uploads
          /\ UNCHANGED <<serverVars, stamps, removing, arrDetail, query, form, app>>
      BY <1>18, <2>2 DEF uploadFails, WriteRecord
    <3> QED
      BY <1>13, <1>16, <3>1 DEF MadeUrls
  <2> QED
    BY <2>1, <2>2
<1>19. ASSUME NEW i \in Images, removeFile(i) \/ removeFails(i) PROVE DetailInv'
  <2>1. DetailTypeOK'
    BY <1>0, <1>19 DEF removeFile, removeFails, DetailTypeOK
  <2>2. MadeInv'
    BY <1>0, <1>19 DEF removeFile, removeFails, MadeInv, Made, MadeUrls
  <2> QED
    BY <2>1, <2>2 DEF DetailInv
<1>20. ASSUME NEW d \in Devices, queue[d] # <<>>,
              \/ queue' = [queue EXCEPT ![d] = Tail(@)]
              \/ queue' = Disown(d, [queue EXCEPT ![d] = Tail(@)])
       PROVE  /\ queue' \in [Devices -> Seq(Writes)]
              /\ Head(queue[d]) \in Writes /\ Head(queue[d]).key \in keys
              /\ Head(queue[d]).doc.url \in MadeUrls
              /\ \A e \in Devices : \A j \in DOMAIN queue'[e] :
                   queue'[e][j].key \in keys /\ queue'[e][j].doc.url \in MadeUrls
  <2>1. /\ queue' \in [Devices -> Seq(Writes)]
        /\ Head(queue[d]) = queue[d][1] /\ Head(queue[d]) \in Writes
        /\ 1 \in DOMAIN queue[d]
        /\ Takes(queue[d], queue'[d])
        /\ \A e \in Devices \ {d} : queue'[e] = queue[e]
    BY <1>0, <1>20, TakeEffect
  <2>2. \A e \in Devices : \A j \in DOMAIN queue[e] :
          queue[e][j].key \in keys /\ queue[e][j].doc.url \in MadeUrls
    BY <1>0 DEF MadeInv
  <2>3. \A j \in DOMAIN queue'[d] :
          queue'[d][j].key \in keys /\ queue'[d][j].doc.url \in MadeUrls
    BY <2>1, <2>2 DEF Takes, Alike
  <2> QED
    BY <2>1, <2>2, <2>3
<1>21. ASSUME NEW d \in Devices, commit(d) PROVE DetailInv'
  <2> DEFINE w == Head(queue[d])
  <2>1. /\ queue[d] # <<>> /\ docs' = [docs EXCEPT ![w.key] = Applied(w)]
        /\ deleted' = (IF w.op = "delete" THEN deleted \cup {w.key} ELSE deleted)
        /\ Pops(d, w)
        /\ UNCHANGED <<files, madeVars, removing, arrDetail, app>>
    BY <1>21 DEF commit
  <2>2. \/ queue' = [queue EXCEPT ![d] = Tail(@)]
        \/ queue' = Disown(d, [queue EXCEPT ![d] = Tail(@)])
    BY <2>1 DEF Pops
  <2>3. /\ queue' \in [Devices -> Seq(Writes)]
        /\ w \in Writes /\ w.key \in keys /\ w.doc.url \in MadeUrls
        /\ \A e \in Devices : \A j \in DOMAIN queue'[e] :
             queue'[e][j].key \in keys /\ queue'[e][j].doc.url \in MadeUrls
    BY <1>20, <2>1, <2>2
  <2> HIDE DEF w
  <2>4. w.key \in Keys /\ w.doc \in Docs
    BY <2>3 DEF Writes
  <2>5. /\ docs' \in [Keys -> Docs \cup {NoDoc}]
        /\ \A k \in Keys : docs'[k] # NoDoc => k \in keys /\ docs'[k].url \in MadeUrls
        /\ deleted' \subseteq keys
    BY <1>0, <2>1, <2>3, <2>4 DEF DetailTypeOK, MadeInv, Applied
  <2>6. CASE w.mine
    BY <1>10, <2>1, <2>3, <2>5, <2>6 DEF Pops
  <2>7. CASE ~w.mine
    <3>1. UNCHANGED <<form, query, uploads>>
      BY <2>1, <2>7 DEF Pops
    <3>2. DetailTypeOK'
      BY <1>0, <2>1, <2>3, <2>5, <3>1 DEF DetailTypeOK
    <3>3. MadeInv'
      BY <1>0, <2>1, <2>3, <2>5, <3>1 DEF MadeInv, Made, MadeUrls
    <3> QED
      BY <3>2, <3>3 DEF DetailInv
  <2> QED
    BY <2>6, <2>7
<1>22. ASSUME NEW d \in Devices, reject(d) PROVE DetailInv'
  <2>1. /\ queue' \in [Devices -> Seq(Writes)]
        /\ \A e \in Devices : \A j \in DOMAIN queue'[e] :
             queue'[e][j].key \in keys /\ queue'[e][j].doc.url \in MadeUrls
    BY <1>20, <1>22 DEF reject
  <2>2. DetailTypeOK'
    BY <1>0, <1>22, <2>1 DEF reject, DetailTypeOK
  <2>3. MadeInv'
    BY <1>0, <1>22, <2>1 DEF reject, MadeInv, Made, MadeUrls
  <2> QED
    BY <2>2, <2>3 DEF DetailInv
<1>23. CASE UNCHANGED vars
  BY <1>0, <1>23 DEF vars, DetailInv, DetailTypeOK, MadeInv, Made, MadeUrls
<1> QED
  BY <1>1, <1>2, <1>3, <1>4, <1>6, <1>7, <1>8, <1>9, <1>11, <1>12, <1>14, <1>15, <1>17,
     <1>18, <1>19, <1>21, <1>22, <1>23 DEF Next

(* Types and ids are right always, under every fault.                      *)
LEMMA DetailInvAlways == Spec => []DetailInv
<1>1. Init => DetailInv
  BY DEF Init, DetailInv, DetailTypeOK, MadeInv, Asked
<1>2. DetailInv /\ [Next]_vars => DetailInv'
  BY DetailInvStep
<1> QED
  BY <1>1, <1>2, PTL DEF Spec

(* Whatever fails, and on any number of devices, every variable keeps its  *)
(* type and only closures of an open form may close it.                    *)
THEOREM DetailTypeCorrect == Spec => []DetailTypeOK
<1>1. DetailInv => DetailTypeOK
  BY DEF DetailInv
<1> QED
  BY <1>1, DetailInvAlways, PTL

-----------------------------------------------------------------------------
(* Deleted documents.  A setData that is still queued is the only write    *)
(* that could bring a document back.  The document is then neither on the  *)
(* server nor deleted, no other setData has its id, and only the device    *)
(* with the setData has seen it: a deletion comes from a row of its list   *)
(* and stands behind the setData in the same queue.                        *)
RowsOf(d) == arrDetail[d] \cup query[d].rows
Pending(d, j, k) ==
  /\ k \notin deleted /\ docs[k] = NoDoc
  /\ \A e \in Devices : \A i \in DOMAIN queue[e] : queue[e][i].key = k =>
       /\ queue[e][i].op = "set" => e = d /\ i = j
       /\ queue[e][i].op = "delete" => e = d /\ j < i
  /\ \A e \in Devices : \A r \in RowsOf(e) : r.key = k => e = d
SetPart ==
  \A d \in Devices, k \in Keys : \A j \in DOMAIN queue[d] :
    queue[d][j].op = "set" /\ queue[d][j].key = k => Pending(d, j, k)
SetInv == SetPart /\ DeletedStaysGone

(* A step that leaves the writes alone and shows only rows of documents,   *)
(* or of the device's own new ones, keeps the invariant.                   *)
LEMMA SetKeep ==
  ASSUME DetailInv, SetInv, \A e \in Devices : Keeps(queue[e], queue'[e]),
         docs' = docs, deleted' = deleted,
         \A e \in Devices : \A r \in RowsOf(e)' :
           \/ r \in RowsOf(e)
           \/ docs[r.key] # NoDoc
           \/ Has(e, r.key, "set")
  PROVE  SetInv'
<1> SUFFICES ASSUME NEW d \in Devices, NEW k \in Keys, NEW j \in DOMAIN queue'[d],
                    queue'[d][j].op = "set", queue'[d][j].key = k
             PROVE  Pending(d, j, k)'
  BY DEF SetInv, SetPart, DeletedStaysGone
<1>1. j \in DOMAIN queue[d] /\ Alike(queue'[d][j], queue[d][j])
  BY DEF Keeps
<1>2. queue[d][j].key = k /\ queue[d][j].op = "set"
  BY <1>1 DEF Alike
<1>3. Pending(d, j, k)
  BY <1>1, <1>2 DEF SetInv, SetPart
<1>4. \A e \in Devices : \A i \in DOMAIN queue'[e] : queue'[e][i].key = k =>
        /\ queue'[e][i].op = "set" => e = d /\ i = j
        /\ queue'[e][i].op = "delete" => e = d /\ j < i
  <2> SUFFICES ASSUME NEW e \in Devices, NEW i \in DOMAIN queue'[e], queue'[e][i].key = k
               PROVE  /\ queue'[e][i].op = "set" => e = d /\ i = j
                      /\ queue'[e][i].op = "delete" => e = d /\ j < i
    OBVIOUS
  <2>1. i \in DOMAIN queue[e] /\ Alike(queue'[e][i], queue[e][i])
    BY DEF Keeps
  <2> QED
    BY <1>3, <2>1 DEF Pending, Alike
<1>5. \A e \in Devices : \A r \in RowsOf(e)' : r.key = k => e = d
  <2> SUFFICES ASSUME NEW e \in Devices, NEW r \in RowsOf(e)', r.key = k PROVE e = d
    OBVIOUS
  <2>1. CASE Has(e, k, "set")
    BY <1>3, <2>1 DEF Has, WritesOf, Pending
  <2> QED
    BY <1>3, <2>1 DEF Pending
<1> QED
  BY <1>3, <1>4, <1>5 DEF Pending

(* A write is added: an update, a setData with a new id, or the deletion   *)
(* of a row of the device's list.                                          *)
LEMMA SetAdd ==
  ASSUME DetailInv, SetInv, NEW d \in Devices, NEW w \in Writes,
         Adds(queue[d], queue'[d], w), \A e \in Devices \ {d} : queue'[e] = queue[e],
         docs' = docs, deleted' = deleted,
         \A e \in Devices : RowsOf(e)' \subseteq RowsOf(e),
         \/ w.op = "update"
         \/ w.op = "set" /\ w.key \notin keys
         \/ w.op = "delete" /\ \E r \in RowsOf(d) : r.key = w.key
  PROVE  SetInv'
<1>0. DetailTypeOK /\ MadeInv /\ w.key \in Keys /\ Len(queue[d]) \in Nat
  BY QueuedWrites DEF DetailInv, Writes
<1>a. \A e \in Devices : \A i \in DOMAIN queue'[e] :
        \/ i \in DOMAIN queue[e] /\ Alike(queue'[e][i], queue[e][i])
        \/ e = d /\ i = Len(queue[d]) + 1 /\ queue'[e][i] = w
  BY DEF Adds, Alike
<1>b. \A i \in DOMAIN queue[d] : i < Len(queue[d]) + 1
  BY <1>0 DEF Adds
<1> SUFFICES ASSUME NEW f \in Devices, NEW k \in Keys, NEW j \in DOMAIN queue'[f],
                    queue'[f][j].op = "set", queue'[f][j].key = k
             PROVE  Pending(f, j, k)'
  BY DEF SetInv, SetPart, DeletedStaysGone
<1>1. CASE j \in DOMAIN queue[f] /\ Alike(queue'[f][j], queue[f][j])
  <2>2. queue[f][j].key = k /\ queue[f][j].op = "set"
    BY <1>1 DEF Alike
  <2>3. Pending(f, j, k)
    BY <1>1, <2>2 DEF SetInv, SetPart
  <2>4. k \in keys
    BY <1>0, <1>1, <2>2 DEF MadeInv
  <2>5. ASSUME w.key = k, w.op = "delete" PROVE d = f /\ j < Len(queue[d]) + 1
    <3>1. d = f
      BY <2>3, <2>5 DEF Pending
    <3> QED
      BY <1>1, <1>b, <3>1
  <2>6. \A e \in Devices : \A i \in DOMAIN queue'[e] : queue'[e][i].key = k =>
          /\ queue'[e][i].op = "set" => e = f /\ i = j
          /\ queue'[e][i].op = "delete" => e = f /\ j < i
    <3> SUFFICES ASSUME NEW e \in Devices, NEW i \in DOMAIN queue'[e], queue'[e][i].key = k
                 PROVE  /\ queue'[e][i].op = "set" => e = f /\ i = j
                        /\ queue'[e][i].op = "delete" => e = f /\ j < i
      OBVIOUS
    <3>1. CASE i \in DOMAIN queue[e] /\ Alike(queue'[e][i], queue[e][i])
      BY <2>3, <3>1 DEF Pending, Alike
    <3>2. CASE e = d /\ i = Len(queue[d]) + 1 /\ queue'[e][i] = w
      BY <2>4, <2>5, <3>2
    <3> QED
      BY <1>a, <3>1, <3>2
  <2> QED
    BY <2>3, <2>6 DEF Pending
<1>2. CASE f = d /\ j = Len(queue[d]) + 1 /\ queue'[f][j] = w
  <2>1. w.op = "set" /\ w.key \notin keys /\ w.key = k
    BY <1>2
  <2>2. w.key \notin deleted /\ docs[w.key] = NoDoc
    BY <1>0, <2>1 DEF DetailTypeOK, MadeInv
  <2>3. \A e \in Devices : \A i \in DOMAIN queue'[e] :
          queue'[e][i].key = w.key => e = f /\ i = j /\ queue'[e][i] = w
    BY <1>0, <1>2, <1>a, <2>1 DEF MadeInv, Alike
  <2>4. \A e \in Devices : \A r \in RowsOf(e)' : r.key # w.key
    BY <1>0, <2>1 DEF MadeInv, RowsOf, Made
  <2> QED
    BY <2>1, <2>2, <2>3, <2>4 DEF Pending
<1> QED
  BY <1>1, <1>2, <1>a

(* The oldest write leaves the queue of d, and the server takes it or not. *)
LEMMA SetTake ==
  ASSUME DetailInv, SetInv, NEW d \in Devices, queue' \in [Devices -> Seq(Writes)],
         Takes(queue[d], queue'[d]), \A e \in Devices \ {d} : queue'[e] = queue[e],
         \A e \in Devices : RowsOf(e)' \subseteq RowsOf(e),
         NEW w \in Writes, w = queue[d][1],
         \/ docs' = docs /\ deleted' = deleted
         \/ /\ Succeeds(w)
            /\ docs' = [docs EXCEPT ![w.key] = Applied(w)]
            /\ deleted' = IF w.op = "delete" THEN deleted \cup {w.key} ELSE deleted
  PROVE  SetInv'
<1>0. DetailTypeOK /\ MadeInv /\ w.key \in Keys /\ w.op \in {"set", "update", "delete"}
      /\ 1 \in DOMAIN queue[d]
  BY DEF DetailInv, Writes, Takes
<1>1. SetPart'
  <2> SUFFICES ASSUME NEW f \in Devices, NEW k \in Keys, NEW j \in DOMAIN queue'[f],
                      queue'[f][j].op = "set", queue'[f][j].key = k
               PROVE  Pending(f, j, k)'
    BY DEF SetPart
  <2>1. PICK g \in DOMAIN queue[f] : /\ Alike(queue'[f][j], queue[f][g])
                                     /\ g = IF f = d THEN j + 1 ELSE j
    BY DEF Takes, Alike
  <2>2. queue[f][g].key = k /\ queue[f][g].op = "set"
    BY <2>1 DEF Alike
  <2>3. Pending(f, g, k)
    BY <2>1, <2>2 DEF SetInv, SetPart
  <2>4. ASSUME f = d PROVE g # 1 /\ ~(g < 1)
    <3>1. j \in Nat /\ j + 1 \in DOMAIN queue[d] /\ g = j + 1
      BY <2>1, <2>4 DEF Takes
    <3>2. queue'[f] \in Seq(Writes)
      OBVIOUS
    <3> QED
      BY <3>1, <3>2
  <2>5. w.key = k => w.op = "update"
    BY <1>0, <2>3, <2>4 DEF Pending
  <2>6. k \notin deleted' /\ docs'[k] = NoDoc
    BY <1>0, <2>3, <2>5 DEF Pending, Succeeds, DetailTypeOK
  <2>7. \A e \in Devices : \A i \in DOMAIN queue'[e] : queue'[e][i].key = k =>
          /\ queue'[e][i].op = "set" => e = f /\ i = j
          /\ queue'[e][i].op = "delete" => e = f /\ j < i
    <3> SUFFICES ASSUME NEW e \in Devices, NEW i \in DOMAIN queue'[e], queue'[e][i].key = k
                 PROVE  /\ queue'[e][i].op = "set" => e = f /\ i = j
                        /\ queue'[e][i].op = "delete" => e = f /\ j < i
      OBVIOUS
    <3>1. PICK h \in DOMAIN queue[e] : /\ Alike(queue'[e][i], queue[e][h])
                                       /\ h = IF e = d THEN i + 1 ELSE i
      BY DEF Takes, Alike
    <3>2. /\ queue'[e][i].op = "set" => e = f /\ h = g
          /\ queue'[e][i].op = "delete" => e = f /\ g < h
      BY <2>3, <3>1 DEF Pending, Alike
    <3>3. (e = d => i \in Nat) /\ (f = d => j \in Nat)
      BY DEF Takes
    <3> QED
      BY <2>1, <3>1, <3>2, <3>3
  <2> QED
    BY <2>3, <2>6, <2>7 DEF Pending
<1>2. DeletedStaysGone'
  <2>1. w.op = "set" => w.key \notin deleted
    BY <1>0 DEF SetInv, SetPart, Pending
  <2>2. w.op = "update" /\ docs' # docs => w.key \notin deleted
    BY <1>0 DEF SetInv, DeletedStaysGone, Succeeds
  <2>3. deleted \subseteq Keys
    BY <1>0 DEF DetailTypeOK
  <2> QED
    BY <1>0, <2>1, <2>2, <2>3 DEF SetInv, DeletedStaysGone, DetailTypeOK, Applied
<1> QED
  BY <1>1, <1>2 DEF SetInv

(* What a row that a read returned to the list of d stands for.            *)
LEMMA RowsAfterRead ==
  ASSUME DetailTypeOK, NEW d \in Devices, getDetail(d)
  PROVE  \A e \in Devices : \A r \in RowsOf(e)' :
           r \in RowsOf(e) \/ (e = d /\ r \in getdetailLimitedData(d))
<1> DEFINE R == getdetailLimitedData(d)
<1>1. \/ arrDetail' = [arrDetail EXCEPT ![d] = R] /\ query' = [query EXCEPT ![d] = Quiet]
      \/ /\ query' = [query EXCEPT ![d] = [at |-> "answered", rows |-> R]]
         /\ UNCHANGED arrDetail
      \/ query' = [query EXCEPT ![d] = Quiet] /\ UNCHANGED arrDetail
  BY DEF getDetail
<1> HIDE DEF R
<1>2. Quiet.rows = {} /\ [at |-> "answered", rows |-> R].rows = R
  BY DEF Quiet
<1>3. \A e \in Devices :
        /\ arrDetail'[e] = arrDetail[e] \/ (e = d /\ arrDetail'[e] = R)
        /\ query'[e].rows = query[e].rows \/ query'[e].rows = {}
           \/ (e = d /\ query'[e].rows = R)
  BY <1>1, <1>2 DEF DetailTypeOK
<1> QED
  BY <1>3 DEF RowsOf, R

(* The other steps of the list and of the form read nothing.               *)
LEMMA RowsOtherwise ==
  ASSUME DetailTypeOK, NEW d \in Devices,
         \/ arrDetail' = arrDetail
         \/ \E R \in SUBSET (arrDetail[d] \cup query[d].rows) :
              arrDetail' = [arrDetail EXCEPT ![d] = R],
         query' \in {query, [query EXCEPT ![d] = Quiet], [query EXCEPT ![d] = Asked]}
  PROVE  \A e \in Devices : RowsOf(e)' \subseteq RowsOf(e)
<1>1. Quiet.rows = {} /\ Asked.rows = {}
  BY DEF Quiet, Asked
<1>2. \A e \in Devices : arrDetail'[e] \subseteq arrDetail[e] \cup query[e].rows
  <2>1. CASE arrDetail' = arrDetail
    BY <2>1
  <2>2. CASE arrDetail' # arrDetail
    <3>1. PICK R \in SUBSET (arrDetail[d] \cup query[d].rows) :
            arrDetail' = [arrDetail EXCEPT ![d] = R]
      BY <2>2
    <3> QED
      BY <3>1 DEF DetailTypeOK
  <2> QED
    BY <2>1, <2>2
<1>3. ASSUME NEW e \in Devices PROVE query'[e].rows \subseteq query[e].rows
  <2>1. query'[e] \in {query[e], Quiet, Asked}
    BY DEF DetailTypeOK
  <2> QED
    BY <1>1, <2>1
<1> QED
  BY <1>2, <1>3 DEF RowsOf

(* Every step keeps it: a setData is queued once for each new document,    *)
(* before anybody can delete that document.                                *)
LEMMA SetInvStep ==
  ASSUME DetailInv, SetInv, [Next]_vars
  PROVE  SetInv'
<1> USE DEF serverVars, madeVars
<1>0. DetailTypeOK /\ MadeInv
  BY DEF DetailInv
<1>k. \A e \in Devices : Keeps(queue[e], queue[e])
  BY KeepsSelf
<1>d. ASSUME NEW d \in Devices, NEW how \in {"crashed", "killed"}, Dies(d, how),
             UNCHANGED serverVars
      PROVE  SetInv'
  <2>1. /\ arrDetail' = [arrDetail EXCEPT ![d] = {}]
        /\ query' = [query EXCEPT ![d] = Quiet]
        /\ \A e \in Devices : Keeps(queue[e], queue'[e])
    BY <1>0, <1>d, DiesEffect
  <2>2. \A e \in Devices : RowsOf(e)' \subseteq RowsOf(e)
    BY <1>0, <2>1, RowsOtherwise
  <2> QED
    BY <1>d, <2>1, <2>2, SetKeep
<1>q. ASSUME NEW d \in Devices, queue' = queue, UNCHANGED serverVars,
             arrDetail' = arrDetail \/ arrDetail' = [arrDetail EXCEPT ![d] = query[d].rows],
             query' \in {query, [query EXCEPT ![d] = Quiet], [query EXCEPT ![d] = Asked]}
      PROVE  SetInv'
  <2>1. \A e \in Devices : RowsOf(e)' \subseteq RowsOf(e)
    BY <1>0, <1>q, RowsOtherwise
  <2> QED
    BY <1>k, <1>q, <2>1, SetKeep
<1>w. ASSUME NEW d \in Devices, NEW k \in Keys \cup {NoKey}, NEW url \in Urls,
             NEW mine \in BOOLEAN, WriteRecord(d, k, url, mine),
             UNCHANGED <<serverVars, arrDetail, query>>
      PROVE  SetInv'
  <2>1. PICK w \in Writes :
          /\ w.doc.url = url
          /\ \/ k = NoKey /\ w.op = "set" /\ w.key \in Keys \ keys /\ keys' = keys \cup {w.key}
             \/ k # NoKey /\ w.op = "update" /\ w.key = k /\ keys' = keys
          /\ queue' \in [Devices -> Seq(Writes)]
          /\ Adds(queue[d], queue'[d], w)
          /\ \A e \in Devices \ {d} : queue'[e] = queue[e]
    BY <1>0, <1>w, WriteEffect
  <2>2. \A e \in Devices : RowsOf(e)' \subseteq RowsOf(e)
    BY <1>w DEF RowsOf
  <2> QED
    BY <1>w, <2>1, <2>2, SetAdd
<1>1. ASSUME NEW d \in Devices, kill(d) PROVE SetInv'
  BY <1>1, <1>d DEF kill
<1>2. ASSUME NEW d \in Devices, launch(d) \/ getAlldetail(d) \/ addbtnclick(d) \/ pickimage(d)
      PROVE  SetInv'
  BY <1>2, <1>q DEF launch, getAlldetail, addbtnclick, pickimage
<1>3. ASSUME NEW d \in Devices, getDetail(d) PROVE SetInv'
  <2>1. \A e \in Devices : \A r \in RowsOf(e)' :
          r \in RowsOf(e) \/ docs[r.key] # NoDoc \/ Has(e, r.key, "set")
    <3> SUFFICES ASSUME NEW e \in Devices, NEW r \in RowsOf(e)', r \notin RowsOf(e)
                 PROVE  docs[r.key] # NoDoc \/ Has(e, r.key, "set")
      OBVIOUS
    <3>1. e = d /\ r \in getdetailLimitedData(d)
      BY <1>0, <1>3, RowsAfterRead
    <3> QED
      BY <1>0, <3>1, RowsRead
  <2>2. queue' = queue /\ UNCHANGED serverVars
    BY <1>3 DEF getDetail
  <2> QED
    BY <1>k, <2>1, <2>2, SetKeep
<1>4. ASSUME NEW d \in Devices, NEW r \in arrDetail[d], editAction(d, r) PROVE SetInv'
  <2>1. CASE Dies(d, "crashed")
    BY <1>4, <1>d, <2>1 DEF editAction
  <2>2. CASE ~Dies(d, "crashed")
    BY <1>4, <1>q, <2>2 DEF editAction
  <2> QED
    BY <2>1, <2>2
<1>5. ASSUME NEW d \in Devices, NEW r \in arrDetail[d], deleteAction(d, r) PROVE SetInv'
  <2>2. /\ Deletion(r.key) \in Writes /\ Deletion(r.key).key = r.key
        /\ Deletion(r.key).op = "delete" /\ Adds(queue[d], queue'[d], Deletion(r.key))
        /\ \A e \in Devices \ {d} : queue'[e] = queue[e]
    BY <1>0, <1>5, DeleteEffect
  <2>6. \A e \in Devices : RowsOf(e)' \subseteq RowsOf(e)
    BY <1>0, <1>5, RowsOtherwise DEF deleteAction
  <2>7. docs' = docs /\ deleted' = deleted /\ r \in RowsOf(d)
    BY <1>5 DEF deleteAction, RowsOf
  <2> QED
    BY <2>2, <2>6, <2>7, SetAdd
<1>6. ASSUME NEW d \in Devices, goBack(d) PROVE SetInv'
  <2>1. \A e \in Devices : Keeps(queue[e], queue'[e])
    BY <1>0, <1>6, DisownKeeps DEF goBack, DetailTypeOK
  <2>2. \A e \in Devices : RowsOf(e)' \subseteq RowsOf(e)
    BY <1>0, <1>6, RowsOtherwise DEF goBack
  <2> QED
    BY <1>6, <2>1, <2>2, SetKeep DEF goBack
<1>7. ASSUME NEW d \in Devices, NEW i \in Images, saveUploads(d, i) PROVE SetInv'
  BY <1>7, <1>q DEF saveUploads
<1>8. ASSUME NEW d \in Devices, saveAtOnce(d) PROVE SetInv'
  <2>1. form[d] # Closed /\ form[d] \in Forms
    BY <1>0, <1>8 DEF saveAtOnce, OnForm, DetailTypeOK
  <2>2. form[d].data \in Rows \cup {Detail}
    BY <2>1 DEF Forms
  <2>3. Target(form[d]) \in Keys \cup {NoKey} /\ PictureOf(form[d]) \in Urls
    BY <2>2 DEF Target, PictureOf, Rows, Detail, Urls
  <2> QED
    BY <1>8, <1>w, <2>3 DEF saveAtOnce
<1>9. ASSUME NEW u \in uploads
      PROVE  /\ u.dev \in Devices /\ u.key \in Keys \cup {NoKey} /\ u.img \in Urls
             /\ u.mine \in BOOLEAN
  BY <1>0 DEF DetailTypeOK, Uploads, Urls
<1>10. ASSUME NEW u \in uploads, putDone(u) PROVE SetInv'
  <2>1. UNCHANGED <<docs, deleted, queue, arrDetail, query>>
    BY <1>10 DEF putDone
  <2>2. \A e \in Devices : RowsOf(e)' \subseteq RowsOf(e)
    BY <2>1 DEF RowsOf
  <2> QED
    BY <1>k, <2>1, <2>2, SetKeep
<1>11. ASSUME NEW u \in uploads, urlDone(u) PROVE SetInv'
  BY <1>9, <1>11, <1>w DEF urlDone
<1>12. ASSUME NEW u \in uploads, uploadFails(u) PROVE SetInv'
  <2>1. CASE Dies(u.dev, "crashed")
    BY <1>9, <1>12, <1>d, <2>1 DEF uploadFails
  <2>2. CASE ~Dies(u.dev, "crashed")
    <3>1. /\ WriteRecord(u.dev, NoKey, NoImage, u.mine)
          /\ UNCHANGED <<serverVars, arrDetail, query>>
      BY <1>12, <2>2 DEF uploadFails, WriteRecord
    <3> QED
      BY <1>9, <1>w, <3>1 DEF Urls
  <2> QED
    BY <2>1, <2>2
<1>13. ASSUME NEW i \in Images, removeFile(i) \/ removeFails(i) PROVE SetInv'
  <2>1. UNCHANGED <<docs, deleted, queue, arrDetail, query>>
    BY <1>13 DEF removeFile, removeFails
  <2>2. \A e \in Devices : RowsOf(e)' \subseteq RowsOf(e)
    BY <2>1 DEF RowsOf
  <2> QED
    BY <1>k, <2>1, <2>2, SetKeep
<1>14. ASSUME NEW d \in Devices, commit(d) \/ reject(d) PROVE SetInv'
  <2>1. /\ queue[d] # <<>>
        /\ \/ queue' = [queue EXCEPT ![d] = Tail(@)]
           \/ queue' = Disown(d, [queue EXCEPT ![d] = Tail(@)])
        /\ arrDetail' = arrDetail /\ query' \in {query, [query EXCEPT ![d] = Asked]}
    BY <1>14 DEF commit, reject, Pops
  <2>2. /\ queue' \in [Devices -> Seq(Writes)]
        /\ Head(queue[d]) = queue[d][1] /\ Head(queue[d]) \in Writes
        /\ Takes(queue[d], queue'[d]) /\ \A e \in Devices \ {d} : queue'[e] = queue[e]
    BY <1>0, <2>1, TakeEffect
  <2>3. \A e \in Devices : RowsOf(e)' \subseteq RowsOf(e)
    BY <1>0, <2>1, RowsOtherwise
  <2> DEFINE w == Head(queue[d])
  <2>4. \/ docs' = docs /\ deleted' = deleted
        \/ /\ Succeeds(w)
           /\ docs' = [docs EXCEPT ![w.key] = Applied(w)]
           /\ deleted' = IF w.op = "delete" THEN deleted \cup {w.key} ELSE deleted
    BY <1>14 DEF commit, reject
  <2> HIDE DEF w
  <2> QED
    BY <2>2, <2>3, <2>4, SetTake DEF w
<1>15. CASE UNCHANGED vars
  <2>1. UNCHANGED <<docs, deleted, queue, arrDetail, query>>
    BY <1>15 DEF vars
  <2>2. \A e \in Devices : RowsOf(e)' \subseteq RowsOf(e)
    BY <2>1 DEF RowsOf
  <2> QED
    BY <1>k, <2>1, <2>2, SetKeep
<1> QED
  BY <1>1, <1>2, <1>3, <1>4, <1>5, <1>6, <1>7, <1>8, <1>10, <1>11, <1>12, <1>13, <1>14,
     <1>15 DEF Next

(* It holds always, under every fault.                                     *)
LEMMA SetInvAlways == Spec => []SetInv
<1>1. Init => SetInv
  BY DEF Init, SetInv, SetPart, DeletedStaysGone
<1>2. DetailInv /\ SetInv /\ [Next]_vars => SetInv'
  BY SetInvStep
<1> QED
  BY <1>1, <1>2, DetailInvAlways, PTL DEF Spec

(* A document that the server deleted never comes back, whatever fails and *)
(* whatever updates and uploads of any number of devices were under way.   *)
THEOREM DetailDeletedForGood == Spec => []DeletedStaysGone
<1>1. SetInv => DeletedStaysGone
  BY DEF SetInv
<1> QED
  BY <1>1, SetInvAlways, PTL

-----------------------------------------------------------------------------
(* Pictures.  A document is linked to a picture when the server, a queue,  *)
(* a list, an answer on its way or a form pairs the two: a later step may  *)
(* then store the picture in the document, or delete it with the document. *)
DocLink(k, i) == docs[k] # NoDoc /\ docs[k].url = i
QueueLink(k, i) ==
  \E d \in Devices : \E j \in DOMAIN queue[d] :
    queue[d][j].key = k /\ queue[d][j].doc.url = i
RowLink(k, i) == \E d \in Devices : \E r \in RowsOf(d) : r.key = k /\ r.url = i
FormLink(k, i) ==
  \E d \in Devices : form[d] # Closed /\ form[d].data.key = k /\ form[d].data.url = i
Link(k, i) == DocLink(k, i) \/ QueueLink(k, i) \/ RowLink(k, i) \/ FormLink(k, i)

(* At the start nothing names a picture.                                   *)
LEMMA InitLinksNothing ==
  ASSUME Init, NEW k \in Keys, NEW i
  PROVE  ~Link(k, i)
<1>1. docs[k] = NoDoc /\ \A d \in Devices : form[d] = Closed /\ DOMAIN queue[d] = {}
  BY DEF Init
<1>2. \A d \in Devices : arrDetail[d] = {} /\ query[d].rows = {}
  BY DEF Init, Asked
<1> QED
  BY <1>1, <1>2 DEF Link, DocLink, QueueLink, RowLink, RowsOf, FormLink

(* Writes that are kept link nothing new.                                  *)
LEMMA QueueKeepLink ==
  ASSUME \A e \in Devices : Keeps(queue[e], queue'[e]), NEW k, NEW i, QueueLink(k, i)'
  PROVE  QueueLink(k, i)
<1>0. PICK d \in Devices : \E j \in DOMAIN queue'[d] :
        queue'[d][j].key = k /\ queue'[d][j].doc.url = i
  BY DEF QueueLink
<1>1. PICK j \in DOMAIN queue'[d] :
        queue'[d][j].key = k /\ queue'[d][j].doc.url = i
  BY <1>0
<1>2. j \in DOMAIN queue[d] /\ Alike(queue'[d][j], queue[d][j])
  BY DEF Keeps
<1> QED
  BY <1>1, <1>2 DEF QueueLink, Alike

(* Taking a write links nothing new.                                       *)
LEMMA QueueTakeLink ==
  ASSUME NEW d \in Devices, Takes(queue[d], queue'[d]),
         \A e \in Devices \ {d} : queue'[e] = queue[e],
         NEW k, NEW i, QueueLink(k, i)'
  PROVE  QueueLink(k, i)
<1>0. PICK e \in Devices : \E j \in DOMAIN queue'[e] :
        queue'[e][j].key = k /\ queue'[e][j].doc.url = i
  BY DEF QueueLink
<1>1. PICK j \in DOMAIN queue'[e] :
        queue'[e][j].key = k /\ queue'[e][j].doc.url = i
  BY <1>0
<1>2. PICK h \in DOMAIN queue[e] : Alike(queue'[e][j], queue[e][h])
  BY DEF Takes, Alike
<1> QED
  BY <1>1, <1>2 DEF QueueLink, Alike

(* A new write links its own picture to its own document.                  *)
LEMMA QueueAddLink ==
  ASSUME NEW d \in Devices, NEW w, Adds(queue[d], queue'[d], w),
         \A e \in Devices \ {d} : queue'[e] = queue[e],
         NEW k, NEW i, QueueLink(k, i)'
  PROVE  QueueLink(k, i) \/ (w.key = k /\ w.doc.url = i)
<1>0. PICK e \in Devices : \E j \in DOMAIN queue'[e] :
        queue'[e][j].key = k /\ queue'[e][j].doc.url = i
  BY DEF QueueLink
<1>1. PICK j \in DOMAIN queue'[e] :
        queue'[e][j].key = k /\ queue'[e][j].doc.url = i
  BY <1>0
<1>2. \/ j \in DOMAIN queue[e] /\ Alike(queue'[e][j], queue[e][j])
      \/ queue'[e][j] = w
  BY DEF Adds, Alike
<1> QED
  BY <1>1, <1>2 DEF QueueLink, Alike

(* Fewer rows link nothing new.                                            *)
LEMMA RowLinkKept ==
  ASSUME \A e \in Devices : RowsOf(e)' \subseteq RowsOf(e), NEW k, NEW i, RowLink(k, i)'
  PROVE  RowLink(k, i)
BY DEF RowLink

(* A form that stays or closes links nothing new.                          *)
LEMMA FormLinkKept ==
  ASSUME \A e \in Devices : form'[e] # Closed =>
           form[e] # Closed /\ form'[e].data = form[e].data,
         NEW k, NEW i, FormLink(k, i)'
  PROVE  FormLink(k, i)
BY DEF FormLink

(* A step that keeps documents, queues, rows and forms makes no link.      *)
LEMMA NoNewLink ==
  ASSUME docs' = docs, \A e \in Devices : Keeps(queue[e], queue'[e]),
         \A e \in Devices : RowsOf(e)' \subseteq RowsOf(e),
         \A e \in Devices : form'[e] # Closed =>
           form[e] # Closed /\ form'[e].data = form[e].data,
         NEW k, NEW i, Link(k, i)'
  PROVE  Link(k, i)
BY QueueKeepLink, RowLinkKept, FormLinkKept DEF Link, DocLink

(* The write of a record links its document to its picture.                *)
LEMMA WriteLinks ==
  ASSUME DetailTypeOK, NEW d \in Devices, NEW k \in Keys \cup {NoKey}, NEW url \in Urls,
         NEW mine \in BOOLEAN, WriteRecord(d, k, url, mine),
         UNCHANGED <<docs, arrDetail, query, form>>
  PROVE  \E c \in Keys : /\ k # NoKey => c = k
                         /\ \A l, i : Link(l, i)' => Link(l, i) \/ (l = c /\ i = url)
<1>1. PICK w \in Writes :
        /\ w.doc.url = url
        /\ \/ k = NoKey /\ w.op = "set" /\ w.key \in Keys \ keys /\ keys' = keys \cup {w.key}
           \/ k # NoKey /\ w.op = "update" /\ w.key = k /\ keys' = keys
        /\ queue' \in [Devices -> Seq(Writes)]
        /\ Adds(queue[d], queue'[d], w)
        /\ \A e \in Devices \ {d} : queue'[e] = queue[e]
  BY WriteEffect
<1>2. ASSUME NEW l, NEW i, Link(l, i)' PROVE Link(l, i) \/ (l = w.key /\ i = url)
  <2>1. CASE QueueLink(l, i)'
    BY <1>1, <2>1, QueueAddLink DEF Link
  <2>2. CASE ~QueueLink(l, i)'
    BY <1>2, <2>2 DEF Link, DocLink, RowLink, RowsOf, FormLink
  <2> QED
    BY <2>1, <2>2
<1>3. w.key \in Keys
  BY DEF Writes
<1> QED
  BY <1>1, <1>2, <1>3

(* Only the end of an upload links a document to a picture that it was not *)
(* linked to.                                                              *)
LEMMA LinkStep ==
  ASSUME DetailInv, [Next]_vars, \A u \in uploads : ~urlDone(u),
         NEW k \in Keys, NEW i \in Images, Link(k, i)'
  PROVE  Link(k, i)
<1> USE DEF serverVars, madeVars
<1>0. DetailTypeOK /\ MadeInv /\ i # NoImage /\ k # NoKey
  BY DetailConstants DEF DetailInv
<1>k. \A e \in Devices : Keeps(queue[e], queue[e])
  BY KeepsSelf
<1>d. ASSUME NEW d \in Devices, NEW how \in {"crashed", "killed"}, Dies(d, how), docs' = docs
      PROVE  Link(k, i)
  <2>1. /\ arrDetail' = [arrDetail EXCEPT ![d] = {}]
        /\ query' = [query EXCEPT ![d] = Quiet]
        /\ form' = [form EXCEPT ![d] = Closed]
        /\ \A e \in Devices : Keeps(queue[e], queue'[e])
    BY <1>0, <1>d, DiesEffect
  <2>2. \A e \in Devices : RowsOf(e)' \subseteq RowsOf(e)
    BY <1>0, <2>1, RowsOtherwise
  <2>3. \A e \in Devices : form'[e] # Closed =>
          form[e] # Closed /\ form'[e].data = form[e].data
    BY <1>0, <2>1 DEF DetailTypeOK
  <2> QED
    BY <1>d, <2>1, <2>2, <2>3, NoNewLink
<1>q. ASSUME NEW d \in Devices, queue' = queue, docs' = docs,
             arrDetail' = arrDetail \/ arrDetail' = [arrDetail EXCEPT ![d] = query[d].rows],
             query' \in {query, [query EXCEPT ![d] = Quiet], [query EXCEPT ![d] = Asked]},
             \A e \in Devices : form'[e] # Closed =>
               form[e] # Closed /\ form'[e].data = form[e].data
      PROVE  Link(k, i)
  <2>1. \A e \in Devices : RowsOf(e)' \subseteq RowsOf(e)
    BY <1>0, <1>q, RowsOtherwise
  <2> QED
    BY <1>k, <1>q, <2>1, NoNewLink
<1>w. ASSUME NEW d \in Devices, NEW c \in Keys \cup {NoKey}, NEW url \in Urls,
             NEW mine \in BOOLEAN, WriteRecord(d, c, url, mine),
             UNCHANGED <<docs, arrDetail, query, form>>,
             url = NoImage \/ (c # NoKey /\ Link(c, url))
      PROVE  Link(k, i)
  <2>1. PICK l \in Keys : /\ c # NoKey => l = c
                          /\ \A m, j : Link(m, j)' => Link(m, j) \/ (m = l /\ j = url)
    BY <1>0, <1>w, WriteLinks
  <2> QED
    BY <1>0, <1>w, <2>1
<1>f. ASSUME NEW d \in Devices, NEW r \in Rows \cup {Detail},
             r = Detail \/ r \in RowsOf(d),
             form' = [form EXCEPT ![d] = FormFor(r)],
             UNCHANGED <<docs, queue, arrDetail, query>>
      PROVE  Link(k, i)
  <2>1. CASE FormLink(k, i)'
    <3>1. PICK e \in Devices : form'[e] # Closed /\ form'[e].data.key = k
                               /\ form'[e].data.url = i
      BY <2>1 DEF FormLink
    <3>2. CASE e # d
      BY <1>0, <1>f, <3>1, <3>2 DEF FormLink, Link, DetailTypeOK
    <3>3. CASE e = d
      <4>1. r.key = k /\ r.url = i
        BY <1>0, <1>f, <3>1, <3>3 DEF DetailTypeOK, FormFor
      <4>2. r # Detail
        BY <1>0, <4>1 DEF Detail
      <4> QED
        BY <1>f, <4>1, <4>2 DEF RowLink, Link
    <3> QED
      BY <3>2, <3>3
  <2>2. CASE ~FormLink(k, i)'
    BY <1>f, <2>2 DEF Link, DocLink, QueueLink, RowLink, RowsOf
  <2> QED
    BY <2>1, <2>2
<1>1. ASSUME NEW d \in Devices, kill(d) PROVE Link(k, i)
  BY <1>1, <1>d DEF kill
<1>2. ASSUME NEW d \in Devices, launch(d) \/ getAlldetail(d)
      PROVE  Link(k, i)
  BY <1>2, <1>q DEF launch, getAlldetail
<1>3. ASSUME NEW d \in Devices, getDetail(d) PROVE Link(k, i)
  <2>1. UNCHANGED <<docs, queue, form>>
    BY <1>3 DEF getDetail
  <2>2. CASE RowLink(k, i)'
    <3>0. PICK e \in Devices : \E r \in RowsOf(e)' : r.key = k /\ r.url = i
      BY <2>2 DEF RowLink
    <3>1. PICK r \in RowsOf(e)' : r.key = k /\ r.url = i
      BY <3>0
    <3>2. r \in RowsOf(e) \/ (e = d /\ r \in getdetailLimitedData(d))
      BY <1>0, <1>3, RowsAfterRead
    <3>3. CASE r \in RowsOf(e)
      BY <3>1, <3>3 DEF Link, RowLink
    <3>4. CASE r \in getdetailLimitedData(d)
      <4>1. \/ docs[r.key] # NoDoc /\ docs[r.key].url = r.url
            \/ \E j \in DOMAIN queue[d] :
                 queue[d][j].key = r.key /\ queue[d][j].doc.url = r.url
        BY <1>0, <3>4, RowsRead
      <4> QED
        BY <3>1, <4>1 DEF Link, DocLink, QueueLink
    <3> QED
      BY <3>2, <3>3, <3>4
  <2>3. CASE ~RowLink(k, i)'
    BY <2>1, <2>3 DEF Link, DocLink, QueueLink, FormLink
  <2> QED
    BY <2>2, <2>3
<1>4. ASSUME NEW d \in Devices, addbtnclick(d) PROVE Link(k, i)
  BY <1>4, <1>f DEF addbtnclick
<1>5. ASSUME NEW d \in Devices, NEW r \in arrDetail[d], editAction(d, r) PROVE Link(k, i)
  <2>1. CASE Dies(d, "crashed")
    BY <1>5, <1>d, <2>1 DEF editAction
  <2>2. CASE ~Dies(d, "crashed")
    <3>1. r \in Rows /\ r \in RowsOf(d)
      BY <1>0 DEF DetailTypeOK, RowsOf
    <3> QED
      BY <1>5, <1>f, <2>2, <3>1 DEF editAction
  <2> QED
    BY <2>1, <2>2
<1>6. ASSUME NEW d \in Devices, NEW r \in arrDetail[d], deleteAction(d, r) PROVE Link(k, i)
  <2>2. /\ Deletion(r.key).doc.url = NoImage /\ Adds(queue[d], queue'[d], Deletion(r.key))
        /\ \A e \in Devices \ {d} : queue'[e] = queue[e]
    BY <1>0, <1>6, DeleteEffect
  <2>6. \A e \in Devices : RowsOf(e)' \subseteq RowsOf(e)
    BY <1>0, <1>6, RowsOtherwise DEF deleteAction
  <2>7. docs' = docs /\ form' = form
    BY <1>6 DEF deleteAction
  <2>8. QueueLink(k, i)' => QueueLink(k, i)
    BY <1>0, <2>2, QueueAddLink
  <2>9. RowLink(k, i)' => RowLink(k, i)
    BY <2>6, RowLinkKept
  <2> QED
    BY <2>7, <2>8, <2>9 DEF Link, DocLink, FormLink
<1>7. ASSUME NEW d \in Devices, pickimage(d) PROVE Link(k, i)
  <2>1. form[d] \in Forms /\ form[d] # Closed
    BY <1>0, <1>7 DEF pickimage, OnForm, DetailTypeOK
  <2> DEFINE g == [form[d] EXCEPT !.flag = TRUE]
  <2>2. g.data = form[d].data
    BY <2>1 DEF Forms
  <2>3. form' = [form EXCEPT ![d] = g]
    BY <1>7 DEF pickimage
  <2> HIDE DEF g
  <2>4. \A e \in Devices : form'[e] # Closed =>
          form[e] # Closed /\ form'[e].data = form[e].data
    BY <1>0, <2>1, <2>2, <2>3 DEF DetailTypeOK
  <2> QED
    BY <1>7, <1>q, <2>4 DEF pickimage
<1>8. ASSUME NEW d \in Devices, goBack(d) PROVE Link(k, i)
  <2>1. \A e \in Devices : Keeps(queue[e], queue'[e])
    BY <1>0, <1>8, DisownKeeps DEF goBack, DetailTypeOK
  <2>2. \A e \in Devices : RowsOf(e)' \subseteq RowsOf(e)
    BY <1>0, <1>8, RowsOtherwise DEF goBack
  <2>3. \A e \in Devices : form'[e] # Closed =>
          form[e] # Closed /\ form'[e].data = form[e].data
    BY <1>0, <1>8 DEF goBack, DetailTypeOK
  <2> QED
    BY <1>8, <2>1, <2>2, <2>3, NoNewLink DEF goBack
<1>9. ASSUME NEW d \in Devices, NEW j \in Images, saveUploads(d, j) PROVE Link(k, i)
  BY <1>9, <1>q DEF saveUploads
<1>10. ASSUME NEW d \in Devices, saveAtOnce(d) PROVE Link(k, i)
  <2>1. form[d] # Closed /\ form[d] \in Forms
    BY <1>0, <1>10 DEF saveAtOnce, OnForm, DetailTypeOK
  <2>2. form[d].data \in Rows \cup {Detail}
    BY <2>1 DEF Forms
  <2>3. Target(form[d]) \in Keys \cup {NoKey} /\ PictureOf(form[d]) \in Urls
    BY <2>2 DEF Target, PictureOf, Rows, Detail, Urls
  <2>4. \/ PictureOf(form[d]) = NoImage
        \/ Target(form[d]) # NoKey /\ Link(Target(form[d]), PictureOf(form[d]))
    BY <2>1 DEF Target, PictureOf, Link, FormLink
  <2> QED
    BY <1>10, <1>w, <2>3, <2>4 DEF saveAtOnce
<1>11. ASSUME NEW u \in uploads
       PROVE  u.dev \in Devices /\ u.mine \in BOOLEAN
  BY <1>0 DEF DetailTypeOK, Uploads
<1>12. CASE UNCHANGED <<docs, queue, arrDetail, query, form>>
  BY <1>12 DEF Link, DocLink, QueueLink, RowLink, RowsOf, FormLink
<1>13. ASSUME NEW u \in uploads, putDone(u) PROVE Link(k, i)
  BY <1>12, <1>13 DEF putDone
<1>14. ASSUME NEW u \in uploads, uploadFails(u) PROVE Link(k, i)
  <2>1. CASE Dies(u.dev, "crashed")
    BY <1>11, <1>14, <1>d, <2>1 DEF uploadFails
  <2>2. CASE ~Dies(u.dev, "crashed")
    <3>1. /\ WriteRecord(u.dev, NoKey, NoImage, u.mine)
          /\ UNCHANGED <<docs, arrDetail, query, form>>
      BY <1>14, <2>2 DEF uploadFails, WriteRecord
    <3> QED
      BY <1>11, <1>w, <3>1 DEF Urls
  <2> QED
    BY <2>1, <2>2
<1>15. ASSUME NEW j \in Images, removeFile(j) \/ removeFails(j) PROVE Link(k, i)
  BY <1>12, <1>15 DEF removeFile, removeFails
<1>16. ASSUME NEW d \in Devices, commit(d) \/ reject(d) PROVE Link(k, i)
  <2>1. /\ queue[d] # <<>>
        /\ \/ queue' = [queue EXCEPT ![d] = Tail(@)]
           \/ queue' = Disown(d, [queue EXCEPT ![d] = Tail(@)])
        /\ arrDetail' = arrDetail /\ query' \in {query, [query EXCEPT ![d] = Asked]}
        /\ form' \in {form, [form EXCEPT ![d] = Closed]}
    BY <1>16 DEF commit, reject, Pops
  <2>2. /\ Head(queue[d]) = queue[d][1] /\ Head(queue[d]) \in Writes
        /\ 1 \in DOMAIN queue[d]
        /\ Takes(queue[d], queue'[d]) /\ \A e \in Devices \ {d} : queue'[e] = queue[e]
    BY <1>0, <2>1, TakeEffect
  <2>3. \A e \in Devices : RowsOf(e)' \subseteq RowsOf(e)
    BY <1>0, <2>1, RowsOtherwise
  <2>4. \A e \in Devices : form'[e] # Closed =>
          form[e] # Closed /\ form'[e].data = form[e].data
    BY <1>0, <2>1 DEF DetailTypeOK
  <2>5. CASE DocLink(k, i)'
    <3> DEFINE w == Head(queue[d])
    <3>1. docs' = docs \/ docs' = [docs EXCEPT ![w.key] = Applied(w)]
      BY <1>16 DEF commit, reject
    <3> HIDE DEF w
    <3>2. docs'[k] = docs[k] \/ (w.key = k /\ docs'[k] = w.doc)
      BY <1>0, <2>5, <3>1 DEF DetailTypeOK, Applied, DocLink
    <3>3. w = queue[d][1]
      BY <2>2 DEF w
    <3> QED
      BY <2>2, <2>5, <3>2, <3>3 DEF DocLink, QueueLink, Link
  <2>6. QueueLink(k, i)' => QueueLink(k, i)
    BY <2>2, QueueTakeLink
  <2>7. RowLink(k, i)' => RowLink(k, i)
    BY <2>3, RowLinkKept
  <2>8. FormLink(k, i)' => FormLink(k, i)
    BY <2>4, FormLinkKept
  <2> QED
    BY <2>5, <2>6, <2>7, <2>8 DEF Link
<1>17. CASE UNCHANGED vars
  BY <1>12, <1>17 DEF vars
<1> QED
  BY <1>1, <1>2, <1>3, <1>4, <1>5, <1>6, <1>7, <1>8, <1>9, <1>10, <1>13, <1>14, <1>15,
     <1>16, <1>17 DEF Next

(* Whatever is linked has been made.                                       *)
LEMMA LinkMade ==
  ASSUME DetailInv, NEW k \in Keys, NEW i \in Images, Link(k, i)
  PROVE  i \in stamps
<1>0. i # NoImage
  BY DetailConstants
<1>1. CASE DocLink(k, i)
  BY <1>0, <1>1 DEF DocLink, DetailInv, MadeInv, MadeUrls
<1>2. CASE QueueLink(k, i)
  BY <1>0, <1>2 DEF QueueLink, DetailInv, MadeInv, MadeUrls
<1>3. CASE RowLink(k, i)
  BY <1>0, <1>3 DEF RowLink, RowsOf, DetailInv, MadeInv, Made, MadeUrls
<1>4. CASE FormLink(k, i)
  BY <1>0, <1>4 DEF FormLink, DetailInv, MadeInv, Made, MadeUrls, Detail
<1> QED
  BY <1>1, <1>2, <1>3, <1>4 DEF Link

(* A picture is linked to one document at most, and while it is uploaded   *)
(* to none; no two uploads have the same picture.                          *)
UploadsDiffer == \A u, v \in uploads : u.img = v.img => u = v
OwnPictures ==
  /\ \A k, l \in Keys, i \in Images : Link(k, i) /\ Link(l, i) => k = l
  /\ \A u \in uploads, k \in Keys : ~Link(k, u.img)
  /\ UploadsDiffer

(* Where the uploads after a step come from.                               *)
Uploaded(v, u) == /\ v.img = u.img
                  /\ v.stage = "url" => u.stage = "url" \/ v.img \in files'

(* An upload was under way before or has a picture that is new; it waits   *)
(* for the url only when its picture is stored.                            *)
LEMMA UploadStep ==
  ASSUME DetailInv, UploadsDiffer, [Next]_vars
  PROVE  /\ \A v \in uploads' : \/ \E u \in uploads : Uploaded(v, u)
                                \/ v.img \in Images \ stamps /\ v.stage = "put"
         /\ UploadsDiffer'
<1> USE DEF serverVars, madeVars
<1> DEFINE Goal == /\ \A v \in uploads' : \/ \E u \in uploads : Uploaded(v, u)
                                          \/ v.img \in Images \ stamps /\ v.stage = "put"
                   /\ UploadsDiffer'
<1>0. DetailTypeOK /\ MadeInv /\ uploads \in SUBSET Uploads
  BY DEF DetailInv, DetailTypeOK
<1>s. ASSUME uploads' \subseteq uploads PROVE Goal
  BY <1>s DEF Uploaded, UploadsDiffer
<1>o. ASSUME NEW d \in Devices, uploads' = DisownUploads(d, uploads) PROVE Goal
  <2>1. ASSUME NEW v \in uploads'
        PROVE  \E u \in uploads : v.img = u.img /\ v.stage = u.stage /\ v = Disowned(d, u)
    BY <1>0, <1>o, <2>1, DisownUploadsKeeps
  <2>2. ASSUME NEW v \in uploads', NEW x \in uploads', v.img = x.img PROVE v = x
    <3>1. PICK u \in uploads : v.img = u.img /\ v = Disowned(d, u)
      BY <2>1
    <3>2. PICK y \in uploads : x.img = y.img /\ x = Disowned(d, y)
      BY <2>1
    <3> QED
      BY <2>2, <3>1, <3>2 DEF UploadsDiffer
  <2> QED
    BY <2>1, <2>2 DEF Uploaded, UploadsDiffer
<1>d. ASSUME NEW d \in Devices, NEW how, Dies(d, how) PROVE Goal
  BY <1>d, <1>s DEF Dies
<1>1. ASSUME NEW d \in Devices,
             kill(d) \/ launch(d) \/ getDetail(d) \/ getAlldetail(d) \/ addbtnclick(d)
               \/ pickimage(d) \/ saveAtOnce(d) \/ reject(d)
      PROVE  Goal
  BY <1>1, <1>s, <1>d DEF kill, launch, getDetail, getAlldetail, addbtnclick, pickimage,
                          saveAtOnce, reject
<1>2. ASSUME NEW d \in Devices, NEW r \in arrDetail[d], editAction(d, r) \/ deleteAction(d, r)
      PROVE  Goal
  BY <1>2, <1>s, <1>d DEF editAction, deleteAction
<1>3. ASSUME NEW d \in Devices, goBack(d) \/ commit(d) PROVE Goal
  BY <1>3, <1>o, <1>s DEF goBack, commit, Pops
<1>4. ASSUME NEW d \in Devices, NEW i \in Images, saveUploads(d, i) PROVE Goal
  <2>1. i \in Images \ stamps /\ \A u \in uploads : u.img # i
    BY <1>0, <1>4 DEF saveUploads, MadeInv
  <2> DEFINE u == [dev |-> d, img |-> i, key |-> Target(form[d]), stage |-> "put",
                   mine |-> TRUE]
  <2>2. uploads' = uploads \cup {u} /\ u.img = i /\ u.stage = "put"
    BY <1>4 DEF saveUploads, uploadImage
  <2> HIDE DEF u
  <2> QED
    BY <2>1, <2>2 DEF Uploaded, UploadsDiffer
<1>5. ASSUME NEW u \in uploads, putDone(u) PROVE Goal
  <2> DEFINE v == [u EXCEPT !.stage = "url"]
  <2>1. v.img = u.img /\ u.img \in files' /\ uploads' = (uploads \ {u}) \cup {v}
    BY <1>0, <1>5 DEF putDone, Uploads
  <2> HIDE DEF v
  <2> QED
    BY <2>1 DEF Uploaded, UploadsDiffer
<1>6. ASSUME NEW u \in uploads, urlDone(u) PROVE Goal
  BY <1>6, <1>s DEF urlDone
<1>7. ASSUME NEW u \in uploads, uploadFails(u) PROVE Goal
  BY <1>0, <1>7, <1>s, <1>d DEF uploadFails, Uploads
<1>8. ASSUME NEW i \in Images, removeFile(i) \/ removeFails(i) PROVE Goal
  BY <1>8, <1>s DEF removeFile, removeFails
<1>9. CASE UNCHANGED vars
  BY <1>9, <1>s DEF vars
<1> SUFFICES Goal
  OBVIOUS
<1> QED
  BY <1>1, <1>2, <1>3, <1>4, <1>5, <1>6, <1>7, <1>8, <1>9, Zenon DEF Next

(* What the end of an upload links.                                        *)
LEMMA UrlLinks ==
  ASSUME DetailInv, NEW u \in uploads, urlDone(u)
  PROVE  \E c \in Keys : \A l, i : Link(l, i)' => Link(l, i) \/ (l = c /\ i = u.img)
<1>1. /\ u.dev \in Devices /\ u.key \in Keys \cup {NoKey} /\ u.img \in Urls
      /\ u.mine \in BOOLEAN /\ DetailTypeOK
  BY DEF DetailInv, DetailTypeOK, Uploads, Urls
<1>2. /\ WriteRecord(u.dev, u.key, u.img, u.mine)
      /\ UNCHANGED <<docs, arrDetail, query, form>>
  BY DEF urlDone, serverVars
<1> QED
  BY <1>1, <1>2, WriteLinks

(* Every step leaves each picture to one document.                         *)
LEMMA OwnPicturesStep ==
  ASSUME DetailInv, DetailInv', OwnPictures, [Next]_vars
  PROVE  OwnPictures'
<1>0. /\ UploadsDiffer'
      /\ \A v \in uploads' : (\E u \in uploads : v.img = u.img) \/ v.img \in Images \ stamps
  BY UploadStep DEF OwnPictures, Uploaded
<1>i. \A v \in uploads' : v.img \in Images
  BY DEF DetailInv, DetailTypeOK, Uploads
<1>1. CASE \A u \in uploads : ~urlDone(u)
  <2>1. \A k \in Keys, i \in Images : Link(k, i)' => Link(k, i)
    BY <1>1, LinkStep
  <2>2. \A v \in uploads', k \in Keys : ~Link(k, v.img)
    BY <1>0, LinkMade DEF OwnPictures
  <2>3. \A k \in Keys, i \in Images :
          Link(k, i)' => \A v \in uploads' : v.img # i
    BY <2>1, <2>2
  <2>4. \A v \in uploads', k \in Keys : ~Link(k, v.img)'
    <3> SUFFICES ASSUME NEW v \in uploads', NEW k \in Keys, Link(k, v.img)' PROVE FALSE
      OBVIOUS
    <3>1. PICK i \in Images : i = v.img
      BY <1>i
    <3> QED
      BY <2>3, <3>1
  <2> QED
    BY <1>0, <2>1, <2>4 DEF OwnPictures
<1>2. ASSUME NEW u \in uploads, urlDone(u) PROVE OwnPictures'
  <2>1. PICK c \in Keys : \A l, i : Link(l, i)' => Link(l, i) \/ (l = c /\ i = u.img)
    BY <1>2, UrlLinks
  <2>2. uploads' = uploads \ {u}
    BY <1>2 DEF urlDone
  <2>3. \A v \in uploads' : v \in uploads /\ v.img # u.img
    BY <2>2 DEF OwnPictures, UploadsDiffer
  <2>4. \A v \in uploads', k \in Keys : ~Link(k, v.img)'
    BY <2>1, <2>3 DEF OwnPictures
  <2>5. \A k, l \in Keys, i \in Images : Link(k, i)' /\ Link(l, i)' => k = l
    BY <2>1 DEF OwnPictures
  <2> QED
    BY <1>0, <2>4, <2>5 DEF OwnPictures
<1> QED
  BY <1>1, <1>2

(* Each picture belongs to one document at most, always.                   *)
LEMMA OwnPicturesAlways == Spec => []OwnPictures
<1>1. Init => OwnPictures
  <2> SUFFICES ASSUME Init PROVE OwnPictures
    OBVIOUS
  <2>1. \A k \in Keys, i \in Images : ~Link(k, i)
    BY InitLinksNothing
  <2>2. uploads = {}
    BY DEF Init
  <2> QED
    BY <2>1, <2>2 DEF OwnPictures, UploadsDiffer
<1>2. DetailInv /\ DetailInv' /\ OwnPictures /\ [Next]_vars => OwnPictures'
  BY OwnPicturesStep
<1> QED
  BY <1>1, <1>2, DetailInvAlways, PTL DEF Spec

(* Two documents never have the same picture, whatever fails: deleting one *)
(* record with its picture leaves every other record its own.              *)
THEOREM PicturesNeverShared == Spec => []NoSharedPicture
<1>1. DetailInv /\ OwnPictures => NoSharedPicture
  <2> SUFFICES ASSUME DetailInv, OwnPictures, NEW k \in Keys, NEW l \in Keys, k # l,
                      docs[k] # NoDoc, docs[l] # NoDoc, docs[k].url = docs[l].url,
                      docs[k].url # NoImage
               PROVE  FALSE
    BY DEF NoSharedPicture
  <2>1. docs[k].url \in Images
    BY DEF DetailInv, DetailTypeOK, Docs, Urls
  <2> QED
    BY <2>1 DEF OwnPictures, Link, DocLink
<1> QED
  BY <1>1, DetailInvAlways, OwnPicturesAlways, PTL

-----------------------------------------------------------------------------
(* Files.  While no write is refused by the server, a document whose       *)
(* picture was deleted, or may be at any moment, is deleted or about to    *)
(* be.                                                                     *)
Doomed(k) == k \in deleted \/ DeletionQueued(k)
FileInv ==
  /\ \A u \in uploads : u.img \notin removing /\ (u.stage = "url" => u.img \in files)
  /\ \A k \in Keys, i \in Images : Link(k, i) => i \in files \ removing \/ Doomed(k)

(* A deletion in a queue stays there until the server takes it.            *)
LEMMA DoomedStep ==
  ASSUME DetailInv, "writeFails" \notin Env, [Next]_vars, NEW k \in Keys, Doomed(k)
  PROVE  Doomed(k)'
<1> USE DEF serverVars, madeVars
<1>0. DetailTypeOK
  BY DEF DetailInv
<1>a. ASSUME \A e \in Devices : \A j \in DOMAIN queue[e] :
               \E h \in DOMAIN queue'[e] : Alike(queue'[e][h], queue[e][j]),
             deleted \subseteq deleted'
      PROVE  Doomed(k)'
  <2>1. CASE DeletionQueued(k)
    <3>1. PICK d \in Devices : Has(d, k, "delete")
      BY <2>1 DEF DeletionQueued
    <3>2. PICK j \in DOMAIN queue[d] : queue[d][j].key = k /\ queue[d][j].op = "delete"
      BY <3>1 DEF Has, WritesOf
    <3>3. PICK h \in DOMAIN queue'[d] : Alike(queue'[d][h], queue[d][j])
      BY <1>a
    <3>4. Has(d, k, "delete")'
      BY <3>2, <3>3 DEF Has, WritesOf, Alike
    <3> QED
      BY <3>4 DEF Doomed, DeletionQueued
  <2> QED
    BY <1>a, <2>1 DEF Doomed
<1>k. ASSUME \A e \in Devices : Keeps(queue[e], queue'[e]), deleted' = deleted
      PROVE  Doomed(k)'
  <2>1. ASSUME NEW e \in Devices, NEW j \in DOMAIN queue[e]
        PROVE  \E h \in DOMAIN queue'[e] : Alike(queue'[e][h], queue[e][j])
    BY <1>k DEF Keeps
  <2> QED
    BY <1>a, <1>k, <2>1
<1>u. ASSUME queue' = queue, deleted' = deleted PROVE Doomed(k)'
  BY <1>k, <1>u, KeepsSelf
<1>d. ASSUME NEW d \in Devices, NEW how \in {"crashed", "killed"}, Dies(d, how),
             deleted' = deleted
      PROVE  Doomed(k)'
  BY <1>0, <1>d, <1>k, DiesEffect
<1>w. ASSUME NEW d \in Devices, NEW w, Adds(queue[d], queue'[d], w),
             \A e \in Devices \ {d} : queue'[e] = queue[e], deleted' = deleted
      PROVE  Doomed(k)'
  <2>1. ASSUME NEW e \in Devices, NEW j \in DOMAIN queue[e]
        PROVE  \E h \in DOMAIN queue'[e] : Alike(queue'[e][h], queue[e][j])
    BY <1>w DEF Adds, Alike
  <2> QED
    BY <1>a, <1>w, <2>1
<1>r. ASSUME NEW d \in Devices, NEW c \in Keys \cup {NoKey}, NEW url \in Urls,
             NEW mine \in BOOLEAN, WriteRecord(d, c, url, mine), deleted' = deleted
      PROVE  Doomed(k)'
  <2>1. PICK w \in Writes : /\ Adds(queue[d], queue'[d], w)
                            /\ \A e \in Devices \ {d} : queue'[e] = queue[e]
    BY <1>0, <1>r, WriteEffect
  <2> QED
    BY <1>r, <1>w, <2>1
<1>1. ASSUME NEW d \in Devices, kill(d) PROVE Doomed(k)'
  BY <1>1, <1>d DEF kill
<1>2. ASSUME NEW d \in Devices, launch(d) \/ getDetail(d) \/ getAlldetail(d)
               \/ addbtnclick(d) \/ pickimage(d)
      PROVE  Doomed(k)'
  BY <1>2, <1>u DEF launch, getDetail, getAlldetail, addbtnclick, pickimage
<1>3. ASSUME NEW d \in Devices, NEW r \in arrDetail[d], editAction(d, r) PROVE Doomed(k)'
  BY <1>3, <1>d, <1>u DEF editAction
<1>4. ASSUME NEW d \in Devices, NEW r \in arrDetail[d], deleteAction(d, r) PROVE Doomed(k)'
  <2>1. /\ Adds(queue[d], queue'[d], Deletion(r.key))
        /\ \A e \in Devices \ {d} : queue'[e] = queue[e]
    BY <1>0, <1>4, DeleteEffect
  <2> QED
    BY <1>4, <1>w, <2>1 DEF deleteAction
<1>5. ASSUME NEW d \in Devices, goBack(d) PROVE Doomed(k)'
  <2>1. \A e \in Devices : Keeps(queue[e], queue'[e])
    BY <1>0, <1>5, DisownKeeps DEF goBack, DetailTypeOK
  <2> QED
    BY <1>5, <1>k, <2>1 DEF goBack
<1>6. ASSUME NEW d \in Devices, NEW i \in Images, saveUploads(d, i) PROVE Doomed(k)'
  BY <1>6, <1>u DEF saveUploads
<1>7. ASSUME NEW d \in Devices, saveAtOnce(d) PROVE Doomed(k)'
  <2>1. form[d] # Closed /\ form[d] \in Forms
    BY <1>0, <1>7 DEF saveAtOnce, OnForm, DetailTypeOK
  <2>2. form[d].data \in Rows \cup {Detail}
    BY <2>1 DEF Forms
  <2>3. Target(form[d]) \in Keys \cup {NoKey} /\ PictureOf(form[d]) \in Urls
    BY <2>2 DEF Target, PictureOf, Rows, Detail, Urls
  <2> QED
    BY <1>7, <1>r, <2>3 DEF saveAtOnce
<1>8. ASSUME NEW u \in uploads
      PROVE  /\ u.dev \in Devices /\ u.key \in Keys \cup {NoKey} /\ u.img \in Urls
             /\ u.mine \in BOOLEAN
  BY <1>0 DEF DetailTypeOK, Uploads, Urls
<1>9. ASSUME NEW u \in uploads, putDone(u) PROVE Doomed(k)'
  BY <1>9, <1>u DEF putDone
<1>10. ASSUME NEW u \in uploads, urlDone(u) PROVE Doomed(k)'
  BY <1>8, <1>10, <1>r DEF urlDone
<1>11. ASSUME NEW u \in uploads, uploadFails(u) PROVE Doomed(k)'
  <2>1. CASE Dies(u.dev, "crashed")
    BY <1>8, <1>11, <1>d, <2>1 DEF uploadFails
  <2>2. CASE ~Dies(u.dev, "crashed")
    <3>1. WriteRecord(u.dev, NoKey, NoImage, u.mine) /\ deleted' = deleted
      BY <1>11, <2>2 DEF uploadFails, WriteRecord
    <3> QED
      BY <1>8, <1>r, <3>1 DEF Urls
  <2> QED
    BY <2>1, <2>2
<1>12. ASSUME NEW i \in Images, removeFile(i) \/ removeFails(i) PROVE Doomed(k)'
  BY <1>12, <1>u DEF removeFile, removeFails
<1>13. ASSUME NEW d \in Devices, commit(d) \/ reject(d) PROVE Doomed(k)'
  <2> DEFINE w == Head(queue[d])
  <2>1. /\ queue[d] # <<>>
        /\ \/ queue' = [queue EXCEPT ![d] = Tail(@)]
           \/ queue' = Disown(d, [queue EXCEPT ![d] = Tail(@)])
        /\ deleted \subseteq deleted'
        /\ w.op = "delete" => w.key \in deleted'
    BY <1>13 DEF commit, reject, Pops, Succeeds
  <2>2. /\ w = queue[d][1]
        /\ Takes(queue[d], queue'[d]) /\ \A e \in Devices \ {d} : queue'[e] = queue[e]
    BY <1>0, <2>1, TakeEffect
  <2> HIDE DEF w
  <2>3. CASE k \in deleted
    BY <2>1, <2>3 DEF Doomed
  <2>4. CASE k \notin deleted
    <3>1. PICK e \in Devices : Has(e, k, "delete")
      BY <2>4 DEF Doomed, DeletionQueued
    <3>2. PICK j \in DOMAIN queue[e] : queue[e][j].key = k /\ queue[e][j].op = "delete"
      BY <3>1 DEF Has, WritesOf
    <3>3. CASE e = d /\ j = 1
      BY <2>1, <2>2, <3>2, <3>3 DEF Doomed
    <3>4. CASE e # d \/ j # 1
      <4>1. PICK h \in DOMAIN queue'[e] : Alike(queue'[e][h], queue[e][j])
        BY <2>2, <3>4 DEF Takes, Alike
      <4>2. Has(e, k, "delete")'
        BY <3>2, <4>1 DEF Has, WritesOf, Alike
      <4> QED
        BY <4>2 DEF Doomed, DeletionQueued
    <3> QED
      BY <3>3, <3>4
  <2> QED
    BY <2>3, <2>4
<1>14. CASE UNCHANGED vars
  BY <1>14, <1>u DEF vars
<1> QED
  BY <1>1, <1>2, <1>3, <1>4, <1>5, <1>6, <1>7, <1>9, <1>10, <1>11, <1>12, <1>13, <1>14
     DEF Next

(* Only deleteAction asks for the deletion of a file, and it queues the    *)
(* deletion of the document in the same step; only files whose deletion    *)
(* was asked go.                                                           *)
LEMMA RemovingStep ==
  ASSUME DetailInv, [Next]_vars, NEW i \in Images
  PROVE  /\ i \in removing' => i \in removing \/ \E k \in Keys : Link(k, i) /\ Doomed(k)'
         /\ i \in files \ removing => i \in files'
<1> USE DEF serverVars, madeVars
<1>0. DetailTypeOK /\ i # NoImage
  BY DetailConstants DEF DetailInv
<1>1. ASSUME NEW d \in Devices, NEW r \in arrDetail[d], deleteAction(d, r),
             i \in removing', i \notin removing
      PROVE  \E k \in Keys : Link(k, i) /\ Doomed(k)'
  <2>1. /\ r \in Rows /\ Deletion(r.key).key = r.key /\ Deletion(r.key).op = "delete"
        /\ Adds(queue[d], queue'[d], Deletion(r.key))
    BY <1>0, <1>1, DeleteEffect
  <2>2. PICK k \in Keys : k = r.key
    BY <2>1 DEF Rows
  <2>3. i = r.url
    BY <1>1 DEF deleteAction, deleteImageFromFirebase
  <2>4. Link(k, i)
    BY <2>2, <2>3 DEF Link, RowLink, RowsOf
  <2>5. PICK h \in DOMAIN queue'[d] : queue'[d][h] = Deletion(r.key)
    BY <2>1 DEF Adds
  <2>6. Has(d, k, "delete")'
    BY <2>1, <2>2, <2>5 DEF Has, WritesOf
  <2> QED
    BY <2>4, <2>6 DEF Doomed, DeletionQueued
<1>2. ASSUME NEW d \in Devices, NEW r \in arrDetail[d], deleteAction(d, r)
      PROVE  files' = files
  BY <1>2 DEF deleteAction
<1>3. CASE UNCHANGED <<files, removing>>
  BY <1>3
<1>4. ASSUME NEW j \in Images, removeFile(j) \/ removeFails(j)
      PROVE  /\ i \in removing' => i \in removing
             /\ i \in files \ removing => i \in files'
  BY <1>4 DEF removeFile, removeFails
<1>5. ASSUME NEW u \in uploads, putDone(u)
      PROVE  removing' = removing /\ files \subseteq files'
  BY <1>5 DEF putDone
<1>6. ASSUME NEW d \in Devices,
             \/ kill(d) \/ launch(d) \/ getDetail(d) \/ getAlldetail(d) \/ addbtnclick(d)
             \/ \E r \in arrDetail[d] : editAction(d, r)
             \/ pickimage(d) \/ goBack(d) \/ \E j \in Images : saveUploads(d, j)
             \/ saveAtOnce(d) \/ commit(d) \/ reject(d)
      PROVE  UNCHANGED <<files, removing>>
  BY <1>6 DEF kill, launch, getDetail, getAlldetail, addbtnclick, editAction, pickimage,
              goBack, saveUploads, saveAtOnce, commit, reject
<1>7. ASSUME NEW u \in uploads, urlDone(u) \/ uploadFails(u)
      PROVE  UNCHANGED <<files, removing>>
  BY <1>7 DEF urlDone, uploadFails
<1>8. CASE UNCHANGED vars
  BY <1>3, <1>8 DEF vars
<1> QED
  BY <1>1, <1>2, <1>3, <1>4, <1>5, <1>6, <1>7, <1>8 DEF Next

(* Every step keeps the files of living documents.                         *)
LEMMA FileInvStep ==
  ASSUME DetailInv, DetailInv', OwnPictures, FileInv, "writeFails" \notin Env, [Next]_vars
  PROVE  FileInv'
<1>0. DetailTypeOK /\ DetailTypeOK'
  BY DEF DetailInv
<1>1. ASSUME NEW v \in uploads'
      PROVE  v.img \notin removing' /\ (v.stage = "url" => v.img \in files')
  <2>1. PICK i \in Images : i = v.img
    BY <1>0 DEF DetailTypeOK, Uploads
  <2>2. /\ i \in removing' => i \in removing \/ \E k \in Keys : Link(k, i)
        /\ i \in files \ removing => i \in files'
    BY RemovingStep
  <2>3. \/ \E u \in uploads : Uploaded(v, u)
        \/ v.img \in Images \ stamps /\ v.stage = "put"
    BY <1>1, UploadStep DEF OwnPictures
  <2>4. ASSUME NEW u \in uploads, Uploaded(v, u)
        PROVE  v.img \notin removing' /\ (v.stage = "url" => v.img \in files')
    BY <2>1, <2>2, <2>4 DEF Uploaded, OwnPictures, FileInv
  <2>5. ASSUME v.img \in Images \ stamps, v.stage = "put" PROVE v.img \notin removing'
    <3>1. i \notin removing
      BY <1>0, <2>1, <2>5 DEF DetailTypeOK
    <3>2. \A k \in Keys : ~Link(k, i)
      BY <2>1, <2>5, LinkMade
    <3> QED
      BY <2>1, <2>2, <3>1, <3>2
  <2> QED
    BY <2>3, <2>4, <2>5
<1>2. ASSUME NEW k \in Keys, NEW i \in Images, Link(k, i)'
      PROVE  i \in files' \ removing' \/ Doomed(k)'
  <2>1. CASE Link(k, i)
    <3>1. CASE Doomed(k)
      BY <3>1, DoomedStep
    <3>2. CASE ~Doomed(k)
      <4>1. i \in files \ removing
        BY <2>1, <3>2 DEF FileInv
      <4>2. i \in files'
        BY <4>1, RemovingStep
      <4>3. i \in removing' => \E l \in Keys : Link(l, i) /\ Doomed(l)'
        BY <4>1, RemovingStep
      <4>4. \A l \in Keys : Link(l, i) => l = k
        BY <2>1 DEF OwnPictures
      <4> QED
        BY <4>2, <4>3, <4>4
    <3> QED
      BY <3>1, <3>2
  <2>2. CASE ~Link(k, i)
    <3>1. PICK u \in uploads : urlDone(u)
      BY <1>2, <2>2, LinkStep
    <3>2. PICK c \in Keys : \A l, j : Link(l, j)' => Link(l, j) \/ (l = c /\ j = u.img)
      BY <3>1, UrlLinks
    <3>3. i = u.img
      BY <1>2, <2>2, <3>2
    <3>4. u.stage = "url" /\ UNCHANGED <<files, removing>>
      BY <3>1 DEF urlDone, serverVars
    <3> QED
      BY <3>3, <3>4 DEF FileInv
  <2> QED
    BY <2>1, <2>2
<1> QED
  BY <1>1, <1>2 DEF FileInv

(* As long as the server refuses no write, whatever else fails, the        *)
(* picture of every document that is not about to be deleted is in         *)
(* Storage.                                                                *)
THEOREM PicturesBehindUrls ==
  ASSUME "writeFails" \notin Env
  PROVE  Spec => []ImageBehindUrl
<1>1. Init => FileInv
  <2> SUFFICES ASSUME Init PROVE FileInv
    OBVIOUS
  <2>1. \A k \in Keys, i \in Images : ~Link(k, i)
    BY InitLinksNothing
  <2>2. uploads = {}
    BY DEF Init
  <2> QED
    BY <2>1, <2>2 DEF FileInv
<1>2. DetailInv /\ DetailInv' /\ OwnPictures /\ FileInv /\ [Next]_vars => FileInv'
  BY FileInvStep
<1>3. DetailInv /\ SetInv /\ FileInv => ImageBehindUrl
  <2> SUFFICES ASSUME DetailInv, SetInv, FileInv, NEW k \in Keys, docs[k] # NoDoc,
                      ~DeletionQueued(k), docs[k].url # NoImage
               PROVE  docs[k].url \in files
    BY DEF ImageBehindUrl
  <2>1. docs[k].url \in Images
    BY DEF DetailInv, DetailTypeOK, Docs, Urls
  <2>2. k \notin deleted
    BY DEF SetInv, DeletedStaysGone
  <2>3. Link(k, docs[k].url) /\ ~Doomed(k)
    BY <2>2 DEF Link, DocLink, Doomed
  <2> QED
    BY <2>1, <2>3 DEF FileInv
<1> QED
  BY <1>1, <1>2, <1>3, DetailInvAlways, SetInvAlways, OwnPicturesAlways, PTL DEF Spec

=============================================================================
