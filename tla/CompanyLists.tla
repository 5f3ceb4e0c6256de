---------------------------- MODULE CompanyLists ----------------------------
(***************************************************************************)
(* The TblCollDemo app: a table of companies (ViewController.swift) whose  *)
(* rows can be dragged and deleted in three ways, and a collection of the  *)
(* same companies (CollectionListVC.swift) with an array of its own.       *)
(*                                                                         *)
(* UIKit keeps its own idea of the rows: a drag moves the row on the       *)
(* screen before the app is told, and deleteRows makes UIKit compare its   *)
(* row count with the app's array and trap when they differ.  A context    *)
(* menu is modal, and the index path it was opened with is used when an    *)
(* item of it is tapped.                                                   *)
(***************************************************************************)
EXTENDS Naturals, Sequences

CONSTANT Companies   \* the list that setDataToList puts in place

ASSUME CompanyAssumption == Companies \in Seq(STRING)

VARIABLES
  companyApp,  \* "running" or "crashed"
  companyScreen,   \* "table" or "collection"
  isEditing,   \* of the table
  menu,        \* the row whose context menu is open, 0 for none
  tblList,     \* arrList of ViewController
  tblRows,     \* what the table shows
  collList,    \* arrList of CollectionListVC
  collItems    \* what the collection shows

tblVars == <<tblList, tblRows>>
collVars == <<collList, collItems>>
companyVars == <<companyApp, companyScreen, isEditing, menu, tblVars, collVars>>

CompanyInit ==
  /\ companyApp = "running"
  /\ companyScreen = "table"
  /\ isEditing = FALSE
  /\ menu = 0
  /\ tblList = Companies /\ tblRows = Companies
  /\ collList = <<>> /\ collItems = <<>>

(* Array.remove(at:) and Array.insert(_:at:), counting from 1.             *)
RemovedAt(s, i) == [k \in 1..Len(s) - 1 |-> IF k < i THEN s[k] ELSE s[k + 1]]
InsertedAt(s, i, e) ==
  [k \in 1..Len(s) + 1 |->
     IF k < i THEN s[k] ELSE IF k = i THEN e ELSE s[k - 1]]

(* What dragging row i to place j does on the screen: the rows in between  *)
(* make room.                                                              *)
Dragged(s, i, j) ==
  [k \in 1..Len(s) |->
     CASE k = j -> s[i]
       [] k # j /\ i =< k /\ k < j -> s[k + 1]
       [] k # j /\ j < k /\ k =< i -> s[k - 1]
       [] OTHER -> s[k]]

OnScreen(s) == companyApp = "running" /\ companyScreen = s /\ menu = 0

-----------------------------------------------------------------------------
(* The table.                                                              *)

MovedBeforeRemoval(s, i, j) ==
  LET t == InsertedAt(s, j, s[i]) IN RemovedAt(t, IF j =< i THEN i + 1 ELSE i)
Moved(s, i, j) == InsertedAt(RemovedAt(s, i), j, s[i])
moveRowAt(i, j) ==
  /\ OnScreen("table") /\ isEditing
  /\ i \in DOMAIN tblRows /\ j \in DOMAIN tblRows
  /\ tblRows' = Dragged(tblRows, i, j)
  /\ tblList' = Moved(tblList, i, j)
  /\ UNCHANGED <<companyApp, companyScreen, isEditing, menu, collVars>>

(* arrList.remove(at: i), then deleteRows(at: i).                          *)
DeletesRow(i) ==
  /\ tblList' = RemovedAt(tblList, i)
  /\ tblRows' = RemovedAt(tblRows, i)
  /\ companyApp' = IF Len(tblList') = Len(tblRows') THEN "running" ELSE "crashed"

commitDelete(i) ==
  /\ OnScreen("table") /\ isEditing /\ i \in DOMAIN tblRows
  /\ DeletesRow(i)
  /\ UNCHANGED <<companyScreen, isEditing, menu, collVars>>

swipeDelete(i) ==
  /\ OnScreen("table") /\ ~isEditing /\ i \in DOMAIN tblRows
  /\ DeletesRow(i)
  /\ UNCHANGED <<companyScreen, isEditing, menu, collVars>>

click_onEditTableBtn ==
  /\ OnScreen("table")
  /\ isEditing' = ~isEditing
  /\ UNCHANGED <<companyApp, companyScreen, menu, tblVars, collVars>>

setDataToList == tblList' = Companies /\ tblRows' = Companies
refreshTable ==
  /\ OnScreen("table")
  /\ setDataToList
  /\ UNCHANGED <<companyApp, companyScreen, isEditing, menu, collVars>>

-----------------------------------------------------------------------------
(* Context menus, of the table and of the collection.                      *)

openMenu(i) ==
  /\ \/ OnScreen("table") /\ i \in DOMAIN tblRows
     \/ OnScreen("collection") /\ i \in DOMAIN collItems
  /\ menu' = i
  /\ UNCHANGED <<companyApp, companyScreen, isEditing, tblVars, collVars>>

closeMenu ==
  /\ menu # 0
  /\ menu' = 0
  /\ UNCHANGED <<companyApp, companyScreen, isEditing, tblVars, collVars>>

menuDelete ==
  /\ menu # 0
  /\ menu' = 0
  /\ \/ /\ companyScreen = "table"
        /\ DeletesRow(menu)
        /\ UNCHANGED collVars
     \/ /\ companyScreen = "collection"
        /\ collList' = RemovedAt(collList, menu)
        /\ collItems' = RemovedAt(collItems, menu)
        /\ companyApp' = IF Len(collList') = Len(collItems') THEN "running" ELSE "crashed"
        /\ UNCHANGED tblVars
  /\ UNCHANGED <<companyScreen, isEditing>>

-----------------------------------------------------------------------------
(* The collection: a new one each time, with the whole list.               *)

click_onCollectionList ==
  /\ OnScreen("table")
  /\ companyScreen' = "collection"
  /\ collList' = Companies /\ collItems' = Companies
  /\ UNCHANGED <<companyApp, isEditing, menu, tblVars>>

refreshCollection ==
  /\ OnScreen("collection")
  /\ collList' = Companies /\ collItems' = Companies
  /\ UNCHANGED <<companyApp, companyScreen, isEditing, menu, tblVars>>

backToTable ==
  /\ OnScreen("collection")
  /\ companyScreen' = "table"
  /\ collList' = <<>> /\ collItems' = <<>>
  /\ UNCHANGED <<companyApp, isEditing, menu, tblVars>>

CompanyNext ==
  \/ \E i, j \in 1..Len(Companies) : moveRowAt(i, j)
  \/ \E i \in 1..Len(Companies) :
       commitDelete(i) \/ swipeDelete(i) \/ openMenu(i)
  \/ closeMenu \/ menuDelete
  \/ click_onEditTableBtn \/ refreshTable
  \/ click_onCollectionList \/ refreshCollection \/ backToTable

CompanySpec == CompanyInit /\ [][CompanyNext]_companyVars

-----------------------------------------------------------------------------
(* Property.                                                               *)

(* What the user sees is what the arrays hold, row by row, after any mix   *)
(* of drags, deletions and refreshes: the row that is tapped, deleted or   *)
(* dragged next is the one that was meant, and no deletion makes UIKit     *)
(* find another number of rows than it expects (ViewController.swift:      *)
(* 143-159, 178, 218, CollectionListVC.swift:152).                         *)
RowsMatchArrays ==
  /\ companyApp = "running"
  /\ tblRows = tblList
  /\ collItems = collList

=============================================================================
