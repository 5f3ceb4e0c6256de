---------------------------- MODULE CellPictures ----------------------------
(***************************************************************************)
(* The pictures in the list of details of the FirebasePractise app:        *)
(* cellForRowAt of ViewController.swift and downloadedFrom of              *)
(* DataManager.swift.                                                      *)
(*                                                                         *)
(* The table has few cells and uses them again for other rows.  A cell     *)
(* that is used again keeps its picture until a download puts another one  *)
(* into it; a row without a picture asks for none and leaves the old one.  *)
(* Downloads are never cancelled: each one ends in the cell that asked for *)
(* it, whatever row the cell shows by then, in any order, or it fails.     *)
(* The texts of a cell are set together with its row and are left out.     *)
(***************************************************************************)
EXTENDS Naturals, Sequences

CONSTANTS
  Records,    \* the documents that may be listed
  Pictures,   \* what their urls lead to
  NoPicture,  \* url = "", and a cell without a picture
  NotListed,  \* the record is not in the list
  Cells,      \* the cells of the table
  NoRow,      \* the cell waits to be used
  MaxLoads    \* bound: downloads under way for one cell

ASSUME CellAssumption ==
  /\ NoPicture \notin Pictures /\ NotListed \notin Pictures
  /\ NotListed # NoPicture
  /\ NoRow \notin Records
  /\ MaxLoads \in Nat

VARIABLES
  url,        \* arrDetail: the url of every record, NotListed for the others
  cellRow,    \* the record that a cell shows
  cellImage,  \* the picture in it
  loads,      \* the downloads it waits for, in the order they were started
  spoiled     \* history: the download of its row failed or overtook another

cellVars == <<url, cellRow, cellImage, loads, spoiled>>

Lists == {f \in [Records -> Pictures \cup {NoPicture, NotListed}] :
            \A r, s \in Records : f[r] = f[s] /\ f[r] \in Pictures => r = s}

CellInit ==
  /\ url = [r \in Records |-> NotListed]
  /\ cellRow = [c \in Cells |-> NoRow]
  /\ cellImage = [c \in Cells |-> NoPicture]
  /\ loads = [c \in Cells |-> <<>>]
  /\ spoiled = [c \in Cells |-> FALSE]

(* A new list, or one that lost a row: reloadData takes every cell back.   *)
reloadDetails ==
  /\ url' \in Lists
  /\ cellRow' = [c \in Cells |-> NoRow]
  /\ UNCHANGED <<cellImage, loads, spoiled>>

(* A row comes onto the screen in a cell that is free.                     *)
LoadOnlyIfEmpty(c, r) ==
  IF url[r] = NoPicture \/ cellImage[c] # NoPicture THEN loads[c]
  ELSE Append(loads[c], url[r])
downloadedFrom(c, r) ==
  IF url[r] = NoPicture THEN loads[c] ELSE Append(loads[c], url[r])
detailCellForRowAt(c, r) ==
  /\ cellRow[c] = NoRow
  /\ url[r] # NotListed
  /\ \A d \in Cells : cellRow[d] # r
  /\ Len(loads[c]) < MaxLoads
  /\ cellRow' = [cellRow EXCEPT ![c] = r]
  /\ loads' = [loads EXCEPT ![c] = downloadedFrom(c, r)]
  /\ spoiled' = [spoiled EXCEPT ![c] = FALSE]
  /\ UNCHANGED <<url, cellImage>>

scrollOff(c) ==
  /\ cellRow[c] # NoRow
  /\ cellRow' = [cellRow EXCEPT ![c] = NoRow]
  /\ UNCHANGED <<url, cellImage, loads, spoiled>>

(* A download ends.  One that fails never calls the completion.  The       *)
(* download of the row on show is the last of the line; a row loses it     *)
(* when it fails, or when it ends before an older one, which will end      *)
(* after it.                                                               *)
Without(s, i) == SubSeq(s, 1, i - 1) \o SubSeq(s, i + 1, Len(s))
Spoils(c, i, failed) == spoiled[c] \/ (i = Len(loads[c]) /\ (failed \/ i > 1))
downloadEnds(c, i) ==
  /\ i \in DOMAIN loads[c]
  /\ \E failed \in BOOLEAN :
       /\ cellImage' = IF failed THEN cellImage
                       ELSE [cellImage EXCEPT ![c] = loads[c][i]]
       /\ spoiled' = [spoiled EXCEPT ![c] = Spoils(c, i, failed)]
  /\ loads' = [loads EXCEPT ![c] = Without(loads[c], i)]
  /\ UNCHANGED <<url, cellRow>>

CellNext ==
  \/ reloadDetails
  \/ \E c \in Cells, r \in Records : detailCellForRowAt(c, r)
  \/ \E c \in Cells : scrollOff(c)
  \/ \E c \in Cells, i \in 1..MaxLoads : downloadEnds(c, i)

(***************************************************************************)
(* Every download ends, in a picture or an error: the session's requests   *)
(* time out.  A request that keeps its place in the line is served in the  *)
(* end, also when answers overtake each other.                             *)
(***************************************************************************)
CellFairness == \A c \in Cells : WF_cellVars(\E i \in 1..MaxLoads : downloadEnds(c, i))

CellSpec == CellInit /\ [][CellNext]_cellVars /\ CellFairness

-----------------------------------------------------------------------------
(* Properties.                                                             *)

(* A cell that waits for no download shows the picture of its own row,     *)
(* however often it was used for other rows, scrolled away or reloaded     *)
(* before and whatever became of their downloads.  There are two ways to   *)
(* another row's picture: the row has none, so that nothing replaces the   *)
(* old one (ViewController.swift:96-100 has no else), or its own download  *)
(* failed or overtook an older one of the same cell.                       *)
SettledCellShowsItsRow ==
  \A c \in Cells :
    cellRow[c] # NoRow /\ loads[c] = <<>> =>
      \/ cellImage[c] = url[cellRow[c]]
      \/ url[cellRow[c]] = NoPicture
      \/ spoiled[c]

(* A row that stays on the screen gets its own picture in the end, unless  *)
(* its download is spoiled in one of these ways (DataManager.swift:589).   *)
OwnPictureComes ==
  \A c \in Cells, r \in Records, p \in Pictures :
    cellRow[c] = r /\ url[r] = p
      ~> cellImage[c] = p \/ spoiled[c] \/ cellRow[c] # r \/ url[r] # p

=============================================================================
