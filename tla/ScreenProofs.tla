---------------------------- MODULE ScreenProofs ----------------------------
(***************************************************************************)
(* Theorems about two apps with one screen or two: the picker form and the *)
(* company lists.                                                          *)
(***************************************************************************)
EXTENDS PickerForm, CompanyLists, TLAPS

-----------------------------------------------------------------------------
(* The picker form.                                                        *)

(* The toolbar goes by the tag of the field that began editing last, and   *)
(* that is the field with the focus whenever there is one.                 *)
TagIsFocus == focus # 0 => selectedTag = focus

(* Cancel would go back to what the field shows.                           *)
CancelMatchesText == txt_pickerView = oldselectedRow /\ txt_date = oldSelectedDate

PickerInv ==
  /\ TagIsFocus
  /\ WheelShowsSelection
  /\ CancelMatchesText
  /\ SelectionMatchesText
  /\ ConfirmedDateStays
  /\ BarMatchesText

(* The tag follows the focus in every step: only the begin of editing sets *)
(* either of them, and the focus is otherwise given up.                    *)
LEMMA TagStep ==
  ASSUME TagIsFocus, [PickerNext]_pickerVars PROVE TagIsFocus'
  BY DEF TagIsFocus, PickerNext, pickerVars, textFieldDidBeginEditing,
         textFieldShouldReturn, turnWheel, didSelectRow, Click_onSelectDate,
         doneRow, doneDate, doneTraps, cancelClick, editProgress,
         click_onSetProgressValue

(* A wheel that rests shows the selection after every step: it is turned   *)
(* to it when its field begins editing, and a Cancel, which changes the    *)
(* selection and leaves the wheel alone, takes the field away.             *)
LEMMA WheelStep ==
  ASSUME WheelShowsSelection, [PickerNext]_pickerVars
  PROVE  WheelShowsSelection'
  <1>1. ASSUME NEW f \in 1..3, textFieldDidBeginEditing(f)
        PROVE  WheelShowsSelection'
    BY <1>1 DEF WheelShowsSelection, textFieldDidBeginEditing, WheelsSet
  <1>2. CASE UNCHANGED pickerVars
    BY <1>2 DEF WheelShowsSelection, pickerVars, rowVars, dateVars
  <1>3. CASE textFieldShouldReturn \/ doneRow \/ doneDate \/ cancelClick
    BY <1>3 DEF WheelShowsSelection, textFieldShouldReturn, doneRow, doneDate,
                cancelClick
  <1>4. CASE \/ \E r \in MarkRows : turnWheel(r)
             \/ didSelectRow
             \/ \E d \in Dates : Click_onSelectDate(d)
    BY <1>4 DEF WheelShowsSelection, turnWheel, didSelectRow,
                Click_onSelectDate, dateVars, rowVars
  <1>5. CASE \/ doneTraps
             \/ \E t \in Texts : editProgress(t)
             \/ click_onSetProgressValue
    BY <1>5 DEF WheelShowsSelection, doneTraps, editProgress,
                click_onSetProgressValue, dateVars, rowVars
  <1> QED
    BY <1>1, <1>2, <1>3, <1>4, <1>5 DEF PickerNext

(* Done stores the selection in the text and in the old selection at once, *)
(* and nothing else changes either of the two.                             *)
LEMMA CancelStep ==
  ASSUME CancelMatchesText, [PickerNext]_pickerVars
  PROVE  CancelMatchesText'
  BY DEF CancelMatchesText, PickerNext, pickerVars, rowVars, dateVars,
         textVars, textFieldDidBeginEditing, textFieldShouldReturn, turnWheel,
         didSelectRow, Click_onSelectDate, doneRow, doneDate, Remembers,
         doneTraps, cancelClick, editProgress, click_onSetProgressValue

(* A field in focus is under change; the step that takes the focus away is *)
(* Done, which stores the selection, Cancel, which goes back to the text,  *)
(* or one that leaves the field astray.                                    *)
LEMMA SelectionStep ==
  ASSUME TagIsFocus, CancelMatchesText, SelectionMatchesText,
         [PickerNext]_pickerVars
  PROVE  SelectionMatchesText'
  <1>1. CASE \/ \E f \in 1..3 : textFieldDidBeginEditing(f)
             \/ textFieldShouldReturn
    BY <1>1 DEF SelectionMatchesText, textFieldDidBeginEditing, LeftBehind,
                textFieldShouldReturn, rowVars, dateVars, textVars
  <1>2. CASE doneRow \/ doneDate
    BY <1>2 DEF SelectionMatchesText, doneRow, doneDate, rowVars, dateVars
  <1>3. CASE cancelClick
    BY <1>3 DEF SelectionMatchesText, CancelMatchesText, TagIsFocus, cancelClick,
                CancelRestores, textVars
  <1>4. CASE \/ \E r \in MarkRows : turnWheel(r)
             \/ didSelectRow
             \/ \E d \in Dates : Click_onSelectDate(d)
    BY <1>4 DEF SelectionMatchesText, turnWheel, didSelectRow,
                Click_onSelectDate, rowVars, dateVars, textVars
  <1>5. CASE \/ doneTraps
             \/ \E t \in Texts : editProgress(t)
             \/ click_onSetProgressValue
             \/ UNCHANGED pickerVars
    BY <1>5 DEF SelectionMatchesText, doneTraps, editProgress, pickerVars,
                click_onSetProgressValue, rowVars, dateVars, textVars
  <1> QED
    BY <1>1, <1>2, <1>3, <1>4, <1>5 DEF PickerNext

(* A Cancel goes back to the date in the text, so it can take back to nil  *)
(* only a selection that was never confirmed.                              *)
LEMMA ConfirmedStep ==
  ASSUME CancelMatchesText, ConfirmedDateStays, [PickerNext]_pickerVars
  PROVE  ConfirmedDateStays'
  <1>1. CASE \E d \in Dates : Click_onSelectDate(d)
    BY <1>1, PickerAssumption DEF ConfirmedDateStays, Click_onSelectDate, textVars
  <1>2. CASE doneDate \/ cancelClick
    BY <1>2 DEF ConfirmedDateStays, CancelMatchesText, doneDate, cancelClick,
                CancelRestores, textVars
  <1>3. CASE \/ \E f \in 1..3 : textFieldDidBeginEditing(f)
             \/ textFieldShouldReturn
             \/ \E r \in MarkRows : turnWheel(r)
             \/ didSelectRow \/ doneRow \/ doneTraps
             \/ \E t \in Texts : editProgress(t)
             \/ click_onSetProgressValue
             \/ UNCHANGED pickerVars
    BY <1>3 DEF ConfirmedDateStays, textFieldDidBeginEditing,
                textFieldShouldReturn, turnWheel, didSelectRow, doneRow,
                doneTraps, editProgress, click_onSetProgressValue,
                pickerVars, dateVars, textVars
  <1> QED
    BY <1>1, <1>2, <1>3 DEF PickerNext

(* Field 3 sets the bar when it loses the focus, and its text changes only *)
(* while it has the focus.                                                 *)
LEMMA BarStep ==
  ASSUME BarMatchesText, [PickerNext]_pickerVars
  PROVE  BarMatchesText'
  <1>1. CASE \/ \E f \in 1..3 : textFieldDidBeginEditing(f)
             \/ textFieldShouldReturn
    BY <1>1 DEF BarMatchesText, textFieldDidBeginEditing,
                textFieldShouldReturn, textFieldDidEndEditing, Percent
  <1>2. CASE \/ \E r \in MarkRows : turnWheel(r)
             \/ didSelectRow
             \/ \E d \in Dates : Click_onSelectDate(d)
             \/ doneRow \/ doneDate \/ doneTraps \/ cancelClick
             \/ UNCHANGED pickerVars
    BY <1>2 DEF BarMatchesText, turnWheel, didSelectRow, Click_onSelectDate,
                doneRow, doneDate, doneTraps, cancelClick, pickerVars, barVars,
                Percent
  <1>3. CASE (\E t \in Texts : editProgress(t)) \/ click_onSetProgressValue
    BY <1>3 DEF BarMatchesText, editProgress, click_onSetProgressValue, Percent
  <1> QED
    BY <1>1, <1>2, <1>3 DEF PickerNext

(* The invariant of the form holds at the start, where the bar shows the   *)
(* number that field 3 begins with, and every step keeps it.               *)
LEMMA PickerInvAlways == PickerSpec => []PickerInv
  <1>1. PickerInit => PickerInv
    BY PickerAssumption
       DEF PickerInit, PickerInv, TagIsFocus, WheelShowsSelection,
           CancelMatchesText, SelectionMatchesText, ConfirmedDateStays,
           BarMatchesText, Percent
  <1>2. PickerInv /\ [PickerNext]_pickerVars => PickerInv'
    BY TagStep, WheelStep, CancelStep, SelectionStep, ConfirmedStep, BarStep
       DEF PickerInv
  <1> QED
    BY <1>1, <1>2, PTL DEF PickerSpec

(* THEOREM: in every order of taps, turns, Done and Cancel, a wheel that   *)
(* rests on the screen shows what Done would store (ViewController.swift:  *)
(* 97-102, 119-126, 178), for every number of rows and every set of dates. *)
THEOREM WheelAlwaysShowsSelection == PickerSpec => []WheelShowsSelection
  <1>1. PickerInv => WheelShowsSelection
    BY DEF PickerInv
  <1> QED
    BY <1>1, PickerInvAlways, PTL

(* THEOREM: after Done or Cancel what is selected is what the field shows, *)
(* however the fields were switched and turned before, until the field is  *)
(* left in another way or its wheel stops late (ViewController.swift:      *)
(* 70-107, 111-130, 178).                                                  *)
THEOREM SelectionAlwaysMatchesText == PickerSpec => []SelectionMatchesText
  <1>1. PickerInv => SelectionMatchesText
    BY DEF PickerInv
  <1> QED
    BY <1>1, PickerInvAlways, PTL

(* THEOREM: once a date was confirmed no Cancel takes the selection back   *)
(* to nil, which Done would unwrap (ViewController.swift:82, 102).         *)
THEOREM ConfirmedDateAlwaysStays == PickerSpec => []ConfirmedDateStays
  <1>1. PickerInv => ConfirmedDateStays
    BY DEF PickerInv
  <1> QED
    BY <1>1, PickerInvAlways, PTL

(* THEOREM: the bar shows the number in field 3 whenever that field is not *)
(* being edited, whichever way it was left (ViewController.swift:132-138). *)
THEOREM BarAlwaysMatchesText == PickerSpec => []BarMatchesText
  <1>1. PickerInv => BarMatchesText
    BY DEF PickerInv
  <1> QED
    BY <1>1, PickerInvAlways, PTL

-----------------------------------------------------------------------------
(* The company lists.                                                      *)

(* Array.remove(at:) of a list is a list that is shorter by one.           *)
LEMMA RemovedIsList ==
  ASSUME NEW S, NEW s \in Seq(S), NEW i \in 1..Len(s)
  PROVE  /\ RemovedAt(s, i) \in Seq(S)
         /\ Len(RemovedAt(s, i)) = Len(s) - 1
  <1>1. Len(s) - 1 \in Nat
    OBVIOUS
  <1>2. RemovedAt(s, i) \in [1..Len(s) - 1 -> S]
    BY DEF RemovedAt
  <1> QED
    BY <1>1, <1>2

(* The app takes the company out and puts it in again with the indices     *)
(* that the table counts before and after the move; that is the list in    *)
(* which the rows between the two places made room, in both directions.    *)
LEMMA MovedIsDragged ==
  ASSUME NEW S, NEW s \in Seq(S), NEW i \in 1..Len(s), NEW j \in 1..Len(s)
  PROVE  Moved(s, i, j) = Dragged(s, i, j)
  <1> DEFINE r == RemovedAt(s, i)
  <1>1. r \in Seq(S) /\ Len(r) = Len(s) - 1
    BY RemovedIsList
  <1>2. \A k \in 1..Len(s) - 1 : r[k] = IF k < i THEN s[k] ELSE s[k + 1]
    BY DEF RemovedAt
  <1>3. Moved(s, i, j) = [k \in 1..Len(s) |->
                            IF k < j THEN r[k] ELSE IF k = j THEN s[i] ELSE r[k - 1]]
    BY <1>1 DEF Moved, InsertedAt
  <1> HIDE DEF r
  <1>4. ASSUME NEW k \in 1..Len(s)
        PROVE  (IF k < j THEN r[k] ELSE IF k = j THEN s[i] ELSE r[k - 1])
                 = (CASE k = j -> s[i]
                      [] k # j /\ i =< k /\ k < j -> s[k + 1]
                      [] k # j /\ j < k /\ k =< i -> s[k - 1]
                      [] OTHER -> s[k])
    <2>1. CASE k < j
      <3>1. k \in 1..Len(s) - 1
        BY <2>1
      <3> QED
        BY <2>1, <3>1, <1>2
    <2>2. CASE k = j
      BY <2>2
    <2>3. CASE k > j
      <3>1. k - 1 \in 1..Len(s) - 1
        BY <2>3
      <3>2. r[k - 1] = IF k - 1 < i THEN s[k - 1] ELSE s[k]
        BY <3>1, <1>2
      <3> QED
        BY <2>3, <3>2
    <2> QED
      BY <2>1, <2>2, <2>3
  <1> QED
    BY <1>3, <1>4 DEF Dragged

(* A drag gives a list again, as long as before.                           *)
LEMMA DraggedIsList ==
  ASSUME NEW S, NEW s \in Seq(S), NEW i \in 1..Len(s), NEW j \in 1..Len(s)
  PROVE  Dragged(s, i, j) \in Seq(S)
  <1>1. Len(s) \in Nat
    OBVIOUS
  <1>2. Dragged(s, i, j) \in [1..Len(s) -> S]
    BY DEF Dragged
  <1> QED
    BY <1>1, <1>2

(* An open menu is that of a row of the list on the screen.                *)
MenuInRange ==
  menu # 0 => /\ companyScreen = "table" => menu \in 1..Len(tblList)
              /\ companyScreen = "collection" => menu \in 1..Len(collList)

CompanyInv ==
  /\ tblList \in Seq(STRING) /\ collList \in Seq(STRING)
  /\ menu \in Nat
  /\ MenuInRange
  /\ RowsMatchArrays

(* Every deletion of the table, by the edit button, by a swipe or by the   *)
(* menu, takes the same row out of the array and off the screen.           *)
LEMMA DeletesRowKeeps ==
  ASSUME CompanyInv, NEW i \in 1..Len(tblList), DeletesRow(i),
         menu' = 0, UNCHANGED collVars
  PROVE  CompanyInv'
  <1>1. tblRows' = tblList' /\ companyApp' = "running"
    BY DEF DeletesRow, CompanyInv, RowsMatchArrays
  <1>2. tblList' \in Seq(STRING)
    BY RemovedIsList DEF DeletesRow, CompanyInv
  <1> QED
    BY <1>1, <1>2 DEF CompanyInv, MenuInRange, RowsMatchArrays, collVars

(* The invariant of the lists is kept by every step.                       *)
LEMMA CompanyStep ==
  ASSUME CompanyInv, [CompanyNext]_companyVars
  PROVE  CompanyInv'
  <1>0. tblRows = tblList /\ collItems = collList /\ companyApp = "running"
    BY DEF CompanyInv, RowsMatchArrays
  <1>d. DOMAIN tblList = 1..Len(tblList) /\ DOMAIN collList = 1..Len(collList)
    BY DEF CompanyInv
  <1>c. Companies \in Seq(STRING)
    BY CompanyAssumption
  <1>1. ASSUME NEW i \in 1..Len(Companies), NEW j \in 1..Len(Companies),
               moveRowAt(i, j)
        PROVE  CompanyInv'
    <2>1. i \in 1..Len(tblList) /\ j \in 1..Len(tblList)
      BY <1>1, <1>0, <1>d DEF moveRowAt
    <2>2. tblList \in Seq(STRING)
      BY DEF CompanyInv
    <2>3. tblList' = tblRows'
      BY <1>1, <1>0, <2>1, <2>2, MovedIsDragged DEF moveRowAt
    <2>4. tblList' \in Seq(STRING)
      BY <1>1, <1>0, <2>1, <2>2, <2>3, DraggedIsList DEF moveRowAt
    <2> QED
      BY <1>1, <2>3, <2>4
         DEF moveRowAt, OnScreen, CompanyInv, MenuInRange, RowsMatchArrays,
             collVars
  <1>2. ASSUME NEW i \in 1..Len(Companies), commitDelete(i) \/ swipeDelete(i)
        PROVE  CompanyInv'
    BY <1>2, <1>0, <1>d, DeletesRowKeeps DEF commitDelete, swipeDelete, OnScreen
  <1>3. ASSUME NEW i \in 1..Len(Companies), openMenu(i)
        PROVE  CompanyInv'
    BY <1>3, <1>0, <1>d
       DEF openMenu, OnScreen, CompanyInv, MenuInRange, RowsMatchArrays,
           tblVars, collVars
  <1>4. CASE closeMenu
    BY <1>4 DEF closeMenu, CompanyInv, MenuInRange, RowsMatchArrays, tblVars,
                collVars
  <1>5. CASE menuDelete
    <2>1. CASE companyScreen = "table"
      <3>1. menu \in 1..Len(tblList)
        BY <1>5, <2>1 DEF menuDelete, CompanyInv, MenuInRange
      <3> QED
        BY <1>5, <2>1, <3>1, DeletesRowKeeps DEF menuDelete
    <2>2. CASE companyScreen = "collection"
      <3>1. menu \in 1..Len(collList)
        BY <1>5, <2>2 DEF menuDelete, CompanyInv, MenuInRange
      <3>2. collItems' = collList' /\ companyApp' = "running"
        BY <1>5, <2>2, <1>0 DEF menuDelete
      <3>3. collList' \in Seq(STRING)
        BY <1>5, <2>2, <3>1, RemovedIsList DEF menuDelete, CompanyInv
      <3> QED
        BY <1>5, <2>2, <3>2, <3>3
           DEF menuDelete, CompanyInv, MenuInRange, RowsMatchArrays, tblVars
    <2> QED
      BY <1>5, <2>1, <2>2 DEF menuDelete
  <1>6. CASE click_onEditTableBtn
    BY <1>6 DEF click_onEditTableBtn, CompanyInv, MenuInRange, RowsMatchArrays,
                tblVars, collVars
  <1>7. CASE refreshTable
    BY <1>7, <1>c DEF refreshTable, OnScreen, setDataToList, CompanyInv,
                      MenuInRange, RowsMatchArrays, collVars
  <1>8. CASE click_onCollectionList \/ refreshCollection
    BY <1>8, <1>c DEF click_onCollectionList, refreshCollection, OnScreen,
                      CompanyInv, MenuInRange, RowsMatchArrays, tblVars
  <1>9. CASE backToTable
    BY <1>9 DEF backToTable, OnScreen, CompanyInv, MenuInRange,
                RowsMatchArrays, tblVars
  <1>10. CASE UNCHANGED companyVars
    BY <1>10 DEF companyVars, CompanyInv, MenuInRange, RowsMatchArrays,
                 tblVars, collVars
  <1> QED
    BY <1>1, <1>2, <1>3, <1>4, <1>5, <1>6, <1>7, <1>8, <1>9, <1>10
       DEF CompanyNext

(* THEOREM: for every list of companies, the table and the collection show *)
(* what their arrays hold, row by row, after any mix of drags, deletions   *)
(* and refreshes, and no deletion makes UIKit trap (ViewController.swift:  *)
(* 143-159, 178, 218, CollectionListVC.swift:152).                         *)
THEOREM RowsAlwaysMatch == CompanySpec => []RowsMatchArrays
  <1>1. CompanyInit => CompanyInv
    BY CompanyAssumption
       DEF CompanyInit, CompanyInv, MenuInRange, RowsMatchArrays
  <1>2. CompanyInv /\ [CompanyNext]_companyVars => CompanyInv'
    BY CompanyStep
  <1>3. CompanyInv => RowsMatchArrays
    BY DEF CompanyInv
  <1> QED
    BY <1>1, <1>2, <1>3, PTL DEF CompanySpec

=============================================================================
