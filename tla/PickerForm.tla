----------------------------- MODULE PickerForm -----------------------------
(***************************************************************************)
(* The form of the PickerViewDemo app (Demo1/ViewController.swift): field  *)
(* 1 takes a number from a wheel, field 2 a date from a date picker, field *)
(* 3 the value of a progress bar.  Fields 1 and 2 share the two handlers   *)
(* of a toolbar, Done and Cancel, which go by the tag of the field that    *)
(* began editing last.                                                     *)
(*                                                                         *)
(* A wheel goes on turning after the finger has left it and reports its    *)
(* row when it stops, which may be after Done, after Cancel or when        *)
(* another field has the focus.  Dates are minutes, as the text shows      *)
(* them.  The texts of fields 1 and 2 are changed by the toolbar only.     *)
(***************************************************************************)
EXTENDS Integers

CONSTANTS
  Marks,     \* how many rows the wheel has (arrmark)
  Dates,     \* the dates of the date picker
  NoDate,    \* selectedDate = nil, and the empty text of field 2
  Texts,     \* what field 3 may contain: numbers, and NoNumber
  NoNumber   \* a text that is not an integer

ASSUME PickerAssumption ==
  /\ Marks \in Nat \ {0}
  /\ NoDate \notin Dates
  /\ NoNumber \in Texts /\ NoNumber \notin Int
  /\ Texts \ {NoNumber} \subseteq Int

MarkRows == 0..Marks - 1

VARIABLES
  pickerApp,        \* "running" or "crashed"
  focus,            \* the field that is edited, 0 for none
  selectedTag,      \* the field that began editing last
  selectedRow,      \* -1 when nothing was chosen
  oldselectedRow,
  wheelRow,         \* the row that the wheel shows
  turning,          \* the wheel has not reported it yet
  selectedDate,
  oldSelectedDate,
  wheelDate,        \* the date that the date picker shows
  txt_pickerView,   \* the row whose title is in field 1, -1 when it is empty
  txt_date,         \* the date in field 2
  txt_progressValue,
  progress,         \* of the bar, in percent
  astray            \* history: fields that were left without Done or Cancel
                    \* since, and field 1 when its wheel stopped after either

rowVars == <<selectedRow, oldselectedRow, wheelRow, turning>>
dateVars == <<selectedDate, oldSelectedDate, wheelDate>>
textVars == <<txt_pickerView, txt_date>>
barVars == <<txt_progressValue, progress>>
pickerVars == <<pickerApp, focus, selectedTag, rowVars, dateVars, textVars, barVars,
                astray>>

(* What the bar shows for a text: Int(text) ?? 0, kept between 0 and 100   *)
(* by UIProgressView.                                                      *)
Percent(t) == CASE t = NoNumber -> 0
                [] t # NoNumber /\ t < 0 -> 0
                [] t # NoNumber /\ t > 100 -> 100
                [] OTHER -> t

PickerInit ==
  /\ pickerApp = "running"
  /\ focus = 0 /\ selectedTag = 0
  /\ selectedRow = -1 /\ oldselectedRow = -1
  /\ wheelRow = 0 /\ turning = FALSE
  /\ selectedDate = NoDate /\ oldSelectedDate = NoDate
  /\ wheelDate \in Dates
  /\ txt_pickerView = -1 /\ txt_date = NoDate
  /\ txt_progressValue = 10 /\ progress = 10
  /\ astray = {}

Alive == pickerApp = "running"

(* Field 3 sets the bar when it is left.                                   *)
BarKept == progress' = progress
textFieldDidEndEditing ==
  progress' = IF focus = 3 THEN Percent(txt_progressValue) ELSE progress

(* The field that had the focus was left by neither Done nor Cancel.       *)
LeftBehind == astray' = astray \cup ({focus} \cap {1, 2})

(* Field f is tapped: the field that had the focus ends editing, f begins. *)
WheelsKept(f) == UNCHANGED <<wheelRow, wheelDate>>
WheelsSet(f) ==
  /\ wheelRow' = IF f # 1 THEN wheelRow
                 ELSE IF selectedRow # -1 THEN selectedRow ELSE 0
  /\ IF f = 2
     THEN IF selectedDate # NoDate THEN wheelDate' = selectedDate
                                   ELSE wheelDate' \in Dates
     ELSE UNCHANGED wheelDate
textFieldDidBeginEditing(f) ==
  /\ Alive /\ focus # f
  /\ textFieldDidEndEditing
  /\ focus' = f
  /\ selectedTag' = f
  /\ WheelsSet(f)
  /\ turning' = (turning /\ f # 1)
  /\ LeftBehind
  /\ UNCHANGED <<pickerApp, selectedRow, oldselectedRow, selectedDate,
                 oldSelectedDate, textVars, txt_progressValue>>

(* Return, or the next screen: the field gives up the focus.               *)
textFieldShouldReturn ==
  /\ Alive /\ focus # 0
  /\ textFieldDidEndEditing
  /\ focus' = 0
  /\ LeftBehind
  /\ UNCHANGED <<pickerApp, selectedTag, rowVars, dateVars, textVars,
                 txt_progressValue>>

turnWheel(r) ==
  /\ Alive /\ focus = 1
  /\ wheelRow' = r
  /\ turning' = TRUE
  /\ UNCHANGED <<pickerApp, focus, selectedTag, selectedRow, oldselectedRow,
                 dateVars, textVars, barVars, astray>>

didSelectRow ==
  /\ Alive /\ turning
  /\ selectedRow' = wheelRow
  /\ turning' = FALSE
  /\ astray' = IF focus = 1 THEN astray ELSE astray \cup {1}
  /\ UNCHANGED <<pickerApp, focus, selectedTag, oldselectedRow, wheelRow,
                 dateVars, textVars, barVars>>

Click_onSelectDate(d) ==
  /\ Alive /\ focus = 2
  /\ wheelDate' = d
  /\ selectedDate' = d
  /\ UNCHANGED <<pickerApp, focus, selectedTag, rowVars, oldSelectedDate,
                 textVars, barVars, astray>>

(* The toolbar is above the keyboard of fields 1 and 2.                    *)
doneRow ==
  /\ Alive /\ focus = 1 /\ selectedTag = 1
  /\ txt_pickerView' = selectedRow
  /\ oldselectedRow' = selectedRow
  /\ focus' = 0
  /\ astray' = astray \ {1}
  /\ UNCHANGED <<pickerApp, selectedTag, selectedRow, wheelRow, turning,
                 dateVars, txt_date, barVars>>

RemembersNothing == oldSelectedDate' = oldSelectedDate
Remembers == oldSelectedDate' = selectedDate
doneDate ==
  /\ Alive /\ focus = 2 /\ selectedTag = 2
  /\ selectedDate # NoDate
  /\ txt_date' = selectedDate
  /\ Remembers
  /\ focus' = 0
  /\ astray' = astray \ {2}
  /\ UNCHANGED <<pickerApp, selectedTag, rowVars, selectedDate, wheelDate,
                 txt_pickerView, barVars>>

(* dateFormater.string(from: selectedDate) unwraps nil.                    *)
doneTraps ==
  /\ Alive /\ focus = 2 /\ selectedTag = 2
  /\ selectedDate = NoDate
  /\ pickerApp' = "crashed"
  /\ UNCHANGED <<focus, selectedTag, rowVars, dateVars, textVars, barVars, astray>>

CancelForgets == selectedDate' = NoDate
CancelRestores == selectedDate' = oldSelectedDate
cancelClick ==
  /\ Alive /\ focus \in {1, 2}
  /\ \/ /\ selectedTag = 1
        /\ selectedRow' = oldselectedRow
        /\ UNCHANGED selectedDate
     \/ /\ selectedTag = 2
        /\ CancelRestores
        /\ UNCHANGED selectedRow
  /\ focus' = 0
  /\ astray' = astray \ {selectedTag}
  /\ UNCHANGED <<pickerApp, selectedTag, oldselectedRow, wheelRow, turning,
                 oldSelectedDate, wheelDate, textVars, barVars>>

editProgress(t) ==
  /\ Alive /\ focus = 3
  /\ txt_progressValue' = t
  /\ UNCHANGED <<pickerApp, focus, selectedTag, rowVars, dateVars, textVars,
                 progress, astray>>

click_onSetProgressValue ==
  /\ Alive
  /\ progress' = Percent(txt_progressValue)
  /\ UNCHANGED <<pickerApp, focus, selectedTag, rowVars, dateVars, textVars,
                 txt_progressValue, astray>>

PickerNext ==
  \/ \E f \in 1..3 : textFieldDidBeginEditing(f)
  \/ textFieldShouldReturn
  \/ \E r \in MarkRows : turnWheel(r)
  \/ didSelectRow
  \/ \E d \in Dates : Click_onSelectDate(d)
  \/ doneRow \/ doneDate \/ doneTraps \/ cancelClick
  \/ \E t \in Texts : editProgress(t)
  \/ click_onSetProgressValue

PickerSpec == PickerInit /\ [][PickerNext]_pickerVars

-----------------------------------------------------------------------------
(* Properties.                                                             *)

(* While a wheel is on the screen and rests, it shows what Done would      *)
(* store, unless nothing was ever chosen: after a Cancel, after the field  *)
(* was left for another one, and when the wheel stopped after it was       *)
(* closed (ViewController.swift:97-102, 119-126, 178).                     *)
WheelShowsSelection ==
  /\ focus = 1 /\ ~turning /\ selectedRow # -1 => wheelRow = selectedRow
  /\ focus = 2 /\ selectedDate # NoDate => wheelDate = selectedDate

(* After Done or Cancel what is selected is what the field shows, until    *)
(* the field is left in another way or its wheel stops late: no Cancel     *)
(* goes back further than the last Done, and neither handler touches the   *)
(* other field, in every order in which the fields are switched, turned    *)
(* and left (ViewController.swift:70-107, 111-130, 178).                   *)
SelectionMatchesText ==
  /\ focus # 1 /\ 1 \notin astray => selectedRow = txt_pickerView
  /\ focus # 2 /\ 2 \notin astray => selectedDate = txt_date

(* Done on the date can trap only before the first date was confirmed: no  *)
(* Cancel after that takes the selection back to nil                       *)
(* (ViewController.swift:82, 102).                                         *)
ConfirmedDateStays == txt_date # NoDate => selectedDate # NoDate

(* The bar shows the number in field 3 whenever that field is not being    *)
(* edited, whichever way it was left (ViewController.swift:132-138).       *)
BarMatchesText == focus # 3 => progress = Percent(txt_progressValue)

=============================================================================
