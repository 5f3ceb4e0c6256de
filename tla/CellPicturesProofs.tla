-------------------------- MODULE CellPicturesProofs --------------------------
(***************************************************************************)
(* Theorem about the pictures in reused cells.  What a settled cell shows  *)
(* depends on what it waited for: the last download that was started for   *)
(* the row it shows is still on its way, behind all the others, or it was  *)
(* the last one that ended.                                                *)
(***************************************************************************)
EXTENDS CellPictures, QueueLemmas, TLAPS

CellTypeOK ==
  /\ url \in [Records -> Pictures \cup {NoPicture, NotListed}]
  /\ cellRow \in [Cells -> Records \cup {NoRow}]
  /\ cellImage \in [Cells -> Pictures \cup {NoPicture}]
  /\ loads \in [Cells -> Seq(Pictures)]
  /\ spoiled \in [Cells -> BOOLEAN]

(* Unless it is spoiled, the picture of the row is in the cell and nothing *)
(* will replace it, or it is the last one that the cell waits for.         *)
OnItsWay(c) ==
  ~spoiled[c] /\ cellRow[c] # NoRow /\ url[cellRow[c]] # NoPicture =>
    IF loads[c] = <<>>
    THEN cellImage[c] = url[cellRow[c]]
    ELSE loads[c][Len(loads[c])] = url[cellRow[c]]

CellInv == CellTypeOK /\ \A c \in Cells : OnItsWay(c)

(* A row comes onto the screen: its download is the last of the cell.      *)
LEMMA CellForRowKeeps ==
  ASSUME CellInv, NEW d \in Cells, NEW r \in Records, detailCellForRowAt(d, r)
  PROVE  CellInv'
  <1> USE DEF CellInv
  <1> DEFINE q == loads[d]
  <1>1. q \in Seq(Pictures)
    BY DEF CellTypeOK
  <1>2. url[r] \in Pictures \cup {NoPicture}
    BY DEF detailCellForRowAt, CellTypeOK
  <1>3. downloadedFrom(d, r) = IF url[r] = NoPicture THEN q ELSE Append(q, url[r])
    BY DEF downloadedFrom
  <1>4. url[r] # NoPicture =>
          /\ downloadedFrom(d, r) \in Seq(Pictures)
          /\ Len(downloadedFrom(d, r)) = Len(q) + 1
          /\ downloadedFrom(d, r)[Len(q) + 1] = url[r]
    BY <1>1, <1>2, <1>3
  <1>5. downloadedFrom(d, r) \in Seq(Pictures)
    BY <1>1, <1>3, <1>4
  <1>6. CellTypeOK'
    BY <1>5 DEF detailCellForRowAt, CellTypeOK
  <1>7. ASSUME NEW c \in Cells, c # d PROVE OnItsWay(c)'
    BY <1>7 DEF detailCellForRowAt, OnItsWay, CellTypeOK
  <1>8. OnItsWay(d)'
    <2>1. /\ cellRow'[d] = r /\ loads'[d] = downloadedFrom(d, r)
          /\ url' = url /\ cellImage' = cellImage
      BY DEF detailCellForRowAt, CellTypeOK
    <2>2. SUFFICES ASSUME url[r] # NoPicture
                   PROVE  loads'[d] # <<>> /\ loads'[d][Len(loads'[d])] = url[r]
      BY <2>1 DEF OnItsWay
    <2>3. Len(loads'[d]) = Len(q) + 1 /\ loads'[d][Len(q) + 1] = url[r]
      BY <2>1, <2>2, <1>4
    <2>4. Len(q) \in Nat
      BY <1>1
    <2> QED
      BY <2>3, <2>4
  <1> QED
    BY <1>6, <1>7, <1>8

(* A download ends.  One that is not the last of the line leaves the last  *)
(* one to come; the last one spoils the row unless it succeeds alone.      *)
LEMMA DownloadKeeps ==
  ASSUME CellInv, NEW d \in Cells, NEW i, downloadEnds(d, i)
  PROVE  CellInv'
  <1> USE DEF CellInv
  <1> DEFINE q == loads[d]
             t == Without(q, i)
  <1>1. q \in Seq(Pictures) /\ Len(q) \in Nat
    BY DEF CellTypeOK
  <1>2. i \in 1..Len(q)
    BY <1>1 DEF downloadEnds
  <1>3. t = Cut(q, i)
    BY DEF Without, Cut
  <1>4. /\ t \in Seq(Pictures) /\ Len(t) = Len(q) - 1
        /\ \A k \in 1..(Len(q) - 1) : t[k] = IF k < i THEN q[k] ELSE q[k + 1]
    BY <1>1, <1>2, <1>3, CutPlaces
  <1>5. q[i] \in Pictures
    BY <1>1, <1>2
  <1>6. loads' = [loads EXCEPT ![d] = t]
    BY DEF downloadEnds
  <1>7. PICK failed \in BOOLEAN :
          /\ cellImage' = IF failed THEN cellImage
                          ELSE [cellImage EXCEPT ![d] = q[i]]
          /\ spoiled' = [spoiled EXCEPT ![d] = Spoils(d, i, failed)]
    BY DEF downloadEnds
  <1>8. url' = url /\ cellRow' = cellRow
    BY DEF downloadEnds
  <1>9. /\ Spoils(d, i, failed) \in BOOLEAN
        /\ ~Spoils(d, i, failed) =>
             /\ ~spoiled[d]
             /\ i = Len(q) => ~failed /\ ~(i > 1)
    BY DEF Spoils, CellTypeOK
  <1> HIDE DEF t, q
  <1>10. CellTypeOK'
    BY <1>4, <1>5, <1>6, <1>7, <1>8, <1>9 DEF CellTypeOK
  <1>11. ASSUME NEW c \in Cells, c # d PROVE OnItsWay(c)'
    BY <1>11, <1>6, <1>7, <1>8 DEF OnItsWay, CellTypeOK
  <1>12. OnItsWay(d)'
    <2>1. loads'[d] = t /\ spoiled'[d] = Spoils(d, i, failed)
      BY <1>6, <1>7 DEF CellTypeOK
    <2>2. SUFFICES ASSUME ~Spoils(d, i, failed), cellRow[d] # NoRow,
                          url[cellRow[d]] # NoPicture
                   PROVE  IF t = <<>> THEN cellImage'[d] = url[cellRow[d]]
                          ELSE t[Len(t)] = url[cellRow[d]]
      BY <2>1, <1>8 DEF OnItsWay
    <2>3. q # <<>>
      BY <1>1, <1>2
    <2>4. q[Len(q)] = url[cellRow[d]]
      BY <2>2, <2>3, <1>9 DEF OnItsWay, q
    <2>5. PICK n \in Nat : n = Len(q)
      BY <1>1
    <2>6. CASE i = n
      <3>1. ~failed /\ i = 1 /\ n = 1
        BY <2>2, <2>5, <2>6, <1>2, <1>9
      <3>2. Len(t) = 0
        BY <3>1, <2>5, <1>4
      <3>3. t = <<>>
        BY <3>2, <1>4
      <3>4. cellImage'[d] = q[i]
        BY <3>1, <1>7 DEF CellTypeOK
      <3> QED
        BY <3>1, <3>3, <3>4, <2>4, <2>5
    <2>7. CASE i # n
      <3>1. n - 1 \in 1..(n - 1) /\ ~(n - 1 < i) /\ (n - 1) + 1 = n
        BY <2>5, <2>7, <1>2
      <3>2. t[n - 1] = q[n]
        BY <3>1, <2>5, <1>4
      <3>3. Len(t) = n - 1
        BY <2>5, <1>4
      <3>4. t # <<>>
        BY <3>1, <3>3
      <3> QED
        BY <3>2, <3>3, <3>4, <2>4, <2>5
    <2> QED
      BY <2>6, <2>7
  <1> QED
    BY <1>10, <1>11, <1>12

(* The invariant is kept by every step; a cell that is taken back has      *)
(* nothing to show.                                                        *)
LEMMA CellStep ==
  ASSUME CellInv, [CellNext]_cellVars PROVE CellInv'
  <1>1. CASE reloadDetails
    <2>1. CellTypeOK'
      BY <1>1 DEF reloadDetails, CellInv, CellTypeOK, Lists
    <2>2. \A c \in Cells : OnItsWay(c)'
      BY <1>1 DEF reloadDetails, OnItsWay
    <2> QED
      BY <2>1, <2>2 DEF CellInv
  <1>2. ASSUME NEW d \in Cells, scrollOff(d) PROVE CellInv'
    <2>1. CellTypeOK'
      BY <1>2 DEF scrollOff, CellInv, CellTypeOK
    <2>2. \A c \in Cells : OnItsWay(c)'
      BY <1>2 DEF scrollOff, CellInv, CellTypeOK, OnItsWay
    <2> QED
      BY <2>1, <2>2 DEF CellInv
  <1>3. CASE UNCHANGED cellVars
    BY <1>3 DEF cellVars, CellInv, CellTypeOK, OnItsWay
  <1> QED
    BY <1>1, <1>2, <1>3, CellForRowKeeps, DownloadKeeps DEF CellNext

(* THEOREM: for every number of cells, records and downloads under way, in *)
(* whatever order they end or fail, a cell that waits for nothing shows    *)
(* the picture of its own row, unless that row has none or its own         *)
(* download failed or overtook an older one (ViewController.swift:96-100). *)
THEOREM SettledAlwaysShowsItsRow == CellSpec => []SettledCellShowsItsRow
  <1>1. CellInit => CellInv
    BY DEF CellInit, CellInv, CellTypeOK, OnItsWay
  <1>2. CellInv /\ [CellNext]_cellVars => CellInv'
    BY CellStep
  <1>3. CellInv => SettledCellShowsItsRow
    BY DEF CellInv, OnItsWay, SettledCellShowsItsRow
  <1> QED
    BY <1>1, <1>2, <1>3, PTL DEF CellSpec

=============================================================================
