---------------------------- MODULE DetailRecords ----------------------------
(***************************************************************************)
(* The records of the collection "detail", each with a picture in Storage: *)
(* the list of ViewController.swift and the form of passDataVC.swift of    *)
(* the FirebasePractise app, with the parts of DataManager.swift they use. *)
(*                                                                         *)
(* All users share the collection, so several devices work on it at once.  *)
(* Three services answer each at its own time: the Firestore queue of a    *)
(* device (writes in order, kept over the death of the process, seen by    *)
(* its own reads at once), Storage (an upload is a putData followed by a   *)
(* downloadURL; a deletion is a request that may fail), and the query of   *)
(* the list, whose answer hops through the main queue.                     *)
(*                                                                         *)
(* Of a record only its key, whether its name is empty and its picture     *)
(* matter to the control; age, gender, marks and time are left out.  A     *)
(* file name is the time of the tap and is taken to be new each time.      *)
(***************************************************************************)
EXTENDS Naturals, Sequences, FiniteSets

CONSTANTS
  Devices,
  Keys,       \* document ids
  Images,     \* file names
  NoImage,    \* no url: null in the document, "" in the app
  NoDoc,      \* there is no such document
  NoKey,      \* the key "" of Detail()
  Closed,     \* there is no form
  MaxWrites,  \* bound: length of a queue of writes
  Env         \* what may fail, and what users and the system do beside that

DetailHazards == {"uploadFails", "writeFails", "getFails", "nameless", "kill"}

ASSUME DetailConstants ==
  /\ NoImage \notin Images
  /\ NoKey \notin Keys
  /\ MaxWrites \in Nat
  /\ Env \subseteq DetailHazards

Urls == Images \cup {NoImage}
Docs == [named : BOOLEAN, url : Urls]
Rows == [key : Keys, named : BOOLEAN, url : Urls]
Detail == [key |-> NoKey, named |-> FALSE, url |-> NoImage]
Forms == [data : Rows \cup {Detail}, flag : BOOLEAN]
Writes == [op : {"set", "update", "delete"}, key : Keys, doc : Docs, mine : BOOLEAN]
Uploads == [dev : Devices, img : Images, key : Keys \cup {NoKey},
            stage : {"put", "url"}, mine : BOOLEAN]

ASSUME MarkerConstants == NoDoc \notin Docs /\ Closed \notin Forms

VARIABLES
  docs,       \* the documents of the server
  files,      \* the files in Storage
  keys,       \* ids that document() has made
  stamps,     \* file names that were made
  deleted,    \* history: documents that the server has deleted
  removing,   \* files whose deletion was asked of Storage
  uploads,    \* uploads under way; mine: of the form that is open
  queue,      \* the writes of a device; mine: of the form that is open
  arrDetail,  \* the list of a device
  query,      \* its query: "none", "asked" or "answered" with these rows
  form,       \* its form, or Closed
  app         \* "running", "crashed" (by the code) or "killed"

serverVars == <<docs, files, deleted>>
madeVars == <<keys, stamps>>
vars == <<serverVars, madeVars, removing, uploads, queue, arrDetail, query, form, app>>

Quiet == [at |-> "none", rows |-> {}]
Asked == [at |-> "asked", rows |-> {}]

Init ==
  /\ docs = [k \in Keys |-> NoDoc]
  /\ files = {} /\ deleted = {} /\ removing = {} /\ uploads = {}
  /\ keys = {} /\ stamps = {}
  /\ queue = [d \in Devices |-> <<>>]
  /\ arrDetail = [d \in Devices |-> {}]
  /\ query = [d \in Devices |-> Asked]
  /\ form = [d \in Devices |-> Closed]
  /\ app = [d \in Devices |-> "running"]

OnList(d) == app[d] = "running" /\ form[d] = Closed
OnForm(d) == app[d] = "running" /\ form[d] # Closed

(* The form of d is gone: its closures go on without it.                   *)
Disown(d, q) == [q EXCEPT ![d] = [i \in DOMAIN q[d] |-> [q[d][i] EXCEPT !.mine = FALSE]]]
OwnUploads(d, U) == U
DisownUploads(d, U) == {IF u.dev = d THEN [u EXCEPT !.mine = FALSE] ELSE u : u \in U}

(* The process of d dies; its queue stays, its uploads stop.               *)
Dies(d, how) ==
  /\ app' = [app EXCEPT ![d] = how]
  /\ form' = [form EXCEPT ![d] = Closed]
  /\ arrDetail' = [arrDetail EXCEPT ![d] = {}]
  /\ query' = [query EXCEPT ![d] = Quiet]
  /\ uploads' = {u \in uploads : u.dev # d}
  /\ queue' = Disown(d, queue)

kill(d) ==
  /\ app[d] = "running" /\ "kill" \in Env
  /\ Dies(d, "killed")
  /\ UNCHANGED <<serverVars, madeVars, removing>>

(* viewDidLoad and viewWillAppear of the list.                             *)
launch(d) ==
  /\ app[d] # "running"
  /\ app' = [app EXCEPT ![d] = "running"]
  /\ query' = [query EXCEPT ![d] = Asked]
  /\ UNCHANGED <<serverVars, madeVars, removing, uploads, queue, arrDetail, form>>

-----------------------------------------------------------------------------
(* The list.                                                               *)

(* What a read on device d sees: its queue on top of the server.           *)
WritesOf(d, k) == {i \in DOMAIN queue[d] : queue[d][i].key = k}
Has(d, k, op) == \E i \in WritesOf(d, k) : queue[d][i].op = op
Exists(d, k) == (docs[k] # NoDoc \/ Has(d, k, "set")) /\ ~Has(d, k, "delete")
View(d, k) == IF WritesOf(d, k) = {} THEN docs[k]
              ELSE queue[d][CHOOSE i \in WritesOf(d, k) : \A j \in WritesOf(d, k) : j =< i].doc
getdetailLimitedData(d) ==
  {[key |-> k, named |-> View(d, k).named, url |-> View(d, k).url] :
     k \in {l \in Keys : Exists(d, l)}}

(* The query is answered and the answer handed to the main queue; a failed *)
(* one never calls the completion.                                         *)
getDetail(d) ==
  /\ app[d] = "running" /\ query[d].at = "asked"
  /\ \/ query' = [query EXCEPT ![d] = [at |-> "answered", rows |-> getdetailLimitedData(d)]]
     \/ "getFails" \in Env /\ query' = [query EXCEPT ![d] = Quiet]
  /\ UNCHANGED <<serverVars, madeVars, removing, uploads, queue, arrDetail, form, app>>

getAlldetail(d) ==
  /\ app[d] = "running" /\ query[d].at = "answered"
  /\ arrDetail' = [arrDetail EXCEPT ![d] = query[d].rows]
  /\ query' = [query EXCEPT ![d] = Quiet]
  /\ UNCHANGED <<serverVars, madeVars, removing, uploads, queue, form, app>>

FormFor(r) == [data |-> r, flag |-> FALSE]
addbtnclick(d) ==
  /\ OnList(d)
  /\ form' = [form EXCEPT ![d] = FormFor(Detail)]
  /\ UNCHANGED <<serverVars, madeVars, removing, uploads, queue, arrDetail, query, app>>

(* The form of a record with a name unwraps the URL of its picture.        *)
Opens(r) == r.named => r.url # NoImage
editAction(d, r) ==
  /\ OnList(d) /\ r \in arrDetail[d]
  /\ \/ /\ Opens(r)
        /\ form' = [form EXCEPT ![d] = FormFor(r)]
        /\ UNCHANGED <<uploads, queue, arrDetail, query, app>>
     \/ ~Opens(r) /\ Dies(d, "crashed")
  /\ UNCHANGED <<serverVars, madeVars, removing>>

Full(d) == Len(queue[d]) >= MaxWrites
Enqueue(d, w) == ~Full(d) /\ queue' = [queue EXCEPT ![d] = Append(@, w)]
Deletion(k) == [op |-> "delete", key |-> k, doc |-> [named |-> FALSE, url |-> NoImage],
                mine |-> FALSE]
deleteImageFromFirebase(url) == removing' = removing \cup ({url} \ {NoImage})
deleteAction(d, r) ==
  /\ OnList(d) /\ r \in arrDetail[d]
  /\ deleteImageFromFirebase(r.url)
  /\ Enqueue(d, Deletion(r.key))
  /\ arrDetail' = [arrDetail EXCEPT ![d] = @ \ {r}]
  /\ UNCHANGED <<serverVars, madeVars, uploads, query, form, app>>

-----------------------------------------------------------------------------
(* The form.                                                               *)

pickimage(d) ==
  /\ OnForm(d)
  /\ form' = [form EXCEPT ![d].flag = TRUE]
  /\ UNCHANGED <<serverVars, madeVars, removing, uploads, queue, arrDetail, query, app>>

goBack(d) ==
  /\ OnForm(d)
  /\ form' = [form EXCEPT ![d] = Closed]
  /\ query' = [query EXCEPT ![d] = Asked]
  /\ uploads' = DisownUploads(d, uploads)
  /\ queue' = Disown(d, queue)
  /\ UNCHANGED <<serverVars, madeVars, removing, arrDetail, app>>

(* The write of a record, with the name that the field holds at this       *)
(* moment: setData of a new document, or updateData of document k.         *)
NamesTyped == IF "nameless" \in Env THEN BOOLEAN ELSE {TRUE}
setData(d, url, mine) ==
  \E k \in Keys \ keys, n \in NamesTyped :
    /\ keys' = keys \cup {k}
    /\ Enqueue(d, [op |-> "set", key |-> k, doc |-> [named |-> n, url |-> url], mine |-> mine])
updateOrCreate(d, k, url, mine) ==
  /\ \E n \in NamesTyped :
       Enqueue(d, [op |-> "set", key |-> k, doc |-> [named |-> n, url |-> url], mine |-> mine])
  /\ UNCHANGED keys
updatedata(d, k, url, mine) ==
  /\ \E n \in NamesTyped :
       Enqueue(d, [op |-> "update", key |-> k, doc |-> [named |-> n, url |-> url], mine |-> mine])
  /\ UNCHANGED keys
WriteRecord(d, k, url, mine) ==
  IF k = NoKey THEN setData(d, url, mine) ELSE updatedata(d, k, url, mine)

uploadImage(d, k, i) ==
  /\ stamps' = stamps \cup {i}
  /\ uploads' = uploads \cup
       {[dev |-> d, img |-> i, key |-> k, stage |-> "put", mine |-> TRUE]}

(* A record without a name is opened like a new one and saved as one.      *)
Target(f) == IF f.data.named THEN f.data.key ELSE NoKey
PictureKept(f) == f.data.url
PictureOf(f) == IF Target(f) = NoKey THEN NoImage ELSE f.data.url
saveUploads(d, i) ==
  /\ OnForm(d) /\ form[d].flag
  /\ i \in Images \ stamps
  /\ uploadImage(d, Target(form[d]), i)
  /\ UNCHANGED <<serverVars, keys, removing, queue, arrDetail, query, form, app>>
saveAtOnce(d) ==
  /\ OnForm(d) /\ ~form[d].flag
  /\ WriteRecord(d, Target(form[d]), PictureOf(form[d]), TRUE)
  /\ UNCHANGED <<serverVars, stamps, removing, uploads, arrDetail, query, form, app>>

-----------------------------------------------------------------------------
(* Storage and Firestore.                                                  *)

(* putData succeeds and downloadURL is asked.                              *)
putDone(u) ==
  /\ u \in uploads /\ u.stage = "put"
  /\ files' = files \cup {u.img}
  /\ uploads' = (uploads \ {u}) \cup {[u EXCEPT !.stage = "url"]}
  /\ UNCHANGED <<docs, deleted, madeVars, removing, queue, arrDetail, query, form, app>>

urlDoneCleans(u) ==
  /\ u \in uploads /\ u.stage = "url"
  /\ uploads' = uploads \ {u}
  /\ WriteRecord(u.dev, u.key, u.img, u.mine)
  /\ removing' = removing \cup
       ({docs[k].url : k \in {l \in Keys : l = u.key /\ docs[l] # NoDoc}} \ {NoImage})
  /\ UNCHANGED <<serverVars, stamps, arrDetail, query, form, app>>
urlDone(u) ==
  /\ u \in uploads /\ u.stage = "url"
  /\ uploads' = uploads \ {u}
  /\ WriteRecord(u.dev, u.key, u.img, u.mine)
  /\ UNCHANGED <<serverVars, stamps, removing, arrDetail, query, form, app>>

(* One of the two fails: a debug build traps in assertionFailure after a   *)
(* failed putData; otherwise the completion gets nil, which an update      *)
(* unwraps and a new record stores.                                        *)
uploadFails(u) ==
  /\ u \in uploads
  /\ "uploadFails" \in Env
  /\ \/ /\ u.key = NoKey
        /\ uploads' = uploads \ {u}
        /\ setData(u.dev, NoImage, u.mine)
        /\ UNCHANGED <<arrDetail, query, form, app>>
     \/ (u.key # NoKey \/ u.stage = "put") /\ Dies(u.dev, "crashed") /\ UNCHANGED keys
  /\ UNCHANGED <<serverVars, stamps, removing>>

removeFile(i) ==
  /\ i \in removing
  /\ removing' = removing \ {i}
  /\ files' = files \ {i}
  /\ UNCHANGED <<docs, deleted, madeVars, uploads, queue, arrDetail, query, form, app>>

removeFails(i) ==
  /\ i \in removing
  /\ removing' = removing \ {i}
  /\ UNCHANGED <<serverVars, madeVars, uploads, queue, arrDetail, query, form, app>>

(* The server takes the oldest write of d: updateData of a document that   *)
(* is gone fails.  The closure of a form's write closes the form.          *)
Succeeds(w) == w.op # "update" \/ docs[w.key] # NoDoc
Applied(w) == IF w.op = "delete" THEN NoDoc ELSE w.doc
Pops(d, w) ==
  IF w.mine
  THEN /\ form' = [form EXCEPT ![d] = Closed]
       /\ query' = [query EXCEPT ![d] = Asked]
       /\ uploads' = DisownUploads(d, uploads)
       /\ queue' = Disown(d, [queue EXCEPT ![d] = Tail(@)])
  ELSE /\ queue' = [queue EXCEPT ![d] = Tail(@)]
       /\ UNCHANGED <<form, query, uploads>>
commit(d) ==
  /\ app[d] = "running" /\ queue[d] # <<>>
  /\ Succeeds(Head(queue[d]))
  /\ LET w == Head(queue[d]) IN
     /\ docs' = [docs EXCEPT ![w.key] = Applied(w)]
     /\ deleted' = IF w.op = "delete" THEN deleted \cup {w.key} ELSE deleted
     /\ Pops(d, w)
  /\ UNCHANGED <<files, madeVars, removing, arrDetail, app>>

(* A failed write is taken back and an error printed.                      *)
reject(d) ==
  /\ app[d] = "running" /\ queue[d] # <<>>
  /\ ~Succeeds(Head(queue[d])) \/ "writeFails" \in Env
  /\ queue' = [queue EXCEPT ![d] = Tail(@)]
  /\ UNCHANGED <<serverVars, madeVars, removing, uploads, arrDetail, query, form, app>>

Next ==
  \/ \E d \in Devices :
       \/ kill(d) \/ launch(d)
       \/ getDetail(d) \/ getAlldetail(d) \/ addbtnclick(d)
       \/ \E r \in arrDetail[d] : editAction(d, r) \/ deleteAction(d, r)
       \/ pickimage(d) \/ goBack(d)
       \/ \E i \in Images : saveUploads(d, i)
       \/ saveAtOnce(d)
       \/ commit(d) \/ reject(d)
  \/ \E u \in uploads : putDone(u) \/ urlDone(u) \/ uploadFails(u)
  \/ \E i \in Images : removeFile(i) \/ removeFails(i)

Spec == Init /\ [][Next]_vars

-----------------------------------------------------------------------------
(* Properties.                                                             *)

(* Every variable keeps its type, and only closures of a form that is on   *)
(* the screen of a running app may close one.                              *)
DetailTypeOK ==
  /\ docs \in [Keys -> Docs \cup {NoDoc}]
  /\ files \subseteq stamps /\ removing \subseteq stamps /\ stamps \subseteq Images
  /\ deleted \subseteq keys /\ keys \subseteq Keys
  /\ uploads \subseteq Uploads
  /\ queue \in [Devices -> Seq(Writes)]
  /\ arrDetail \in [Devices -> SUBSET Rows]
  /\ query \in [Devices -> [at : {"none", "asked", "answered"}, rows : SUBSET Rows]]
  /\ form \in [Devices -> Forms \cup {Closed}]
  /\ app \in [Devices -> {"running", "crashed", "killed"}]
  /\ \A d \in Devices : app[d] # "running" => form[d] = Closed
  /\ \A u \in uploads : u.mine => form[u.dev] # Closed

(* The picture of a document is in Storage unless the document is about to *)
(* be deleted, although the list deletes a picture before its document     *)
(* (ViewController.swift:39-49) and a form on another device may write an  *)
(* old url back (passDataVC.swift:111).                                    *)
DeletionQueued(k) == \E d \in Devices : Has(d, k, "delete")
ImageBehindUrl ==
  \A k \in Keys : docs[k] # NoDoc /\ ~DeletionQueued(k)
                    => docs[k].url \in files \cup {NoImage}

(* Two documents never have the same picture, so that deleting one cannot  *)
(* take the picture of the other.                                          *)
NoSharedPicture ==
  \A k, l \in Keys : k # l /\ docs[k] # NoDoc /\ docs[l] # NoDoc
                       /\ docs[k].url = docs[l].url => docs[k].url = NoImage

(* A deleted document is not brought back by an update that was under way, *)
(* on this or another device, when it was deleted (passDataVC.swift:142).  *)
DeletedStaysGone == \A k \in deleted : docs[k] = NoDoc

(* No tap and no answer makes the app trap while nothing fails: the list   *)
(* expects records without a picture ("if arrDetail[indexPath.row].url !=  *)
(* """, ViewController.swift:96).                                          *)
NeverTraps == \A d \in Devices : app[d] # "crashed"

=============================================================================
