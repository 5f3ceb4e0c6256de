----------------------------- MODULE MCScreens -----------------------------
(***************************************************************************)
(* The apps and screens with small state spaces, in one run: front is      *)
(* chosen at the start and only that one acts.  They share nothing, so the *)
(* states of the run are the sum of theirs, not the product.  Nothing that *)
(* a fairness condition names is enabled in the initial state of an app,   *)
(* so the conditions of the others hold.                                   *)
(***************************************************************************)
EXTENDS CellPictures, PickerForm, CompanyLists, ApiList, LocalNotice,
        StudentRecords

VARIABLE front

screenVars == <<front, cellVars, pickerVars, companyVars, apiVars, localVars,
                studentVars>>

ThreeCompanies == <<"Apple", "Google", "Samsung">>
FourTexts == {10, -5, 250, NoNumber}

ScreensInit ==
  /\ front \in {"cells", "picker", "companies", "api", "local", "students"}
  /\ CellInit /\ PickerInit /\ CompanyInit /\ ApiInit /\ LocalInit
  /\ StudentInit
  /\ front # "picker" => wheelDate = CHOOSE d \in Dates : TRUE

ScreensNext ==
  /\ front' = front
  /\ \/ /\ front = "cells" /\ CellNext
        /\ UNCHANGED <<pickerVars, companyVars, apiVars, localVars, studentVars>>
     \/ /\ front = "picker" /\ PickerNext
        /\ UNCHANGED <<cellVars, companyVars, apiVars, localVars, studentVars>>
     \/ /\ front = "companies" /\ CompanyNext
        /\ UNCHANGED <<cellVars, pickerVars, apiVars, localVars, studentVars>>
     \/ /\ front = "api" /\ ApiNext
        /\ UNCHANGED <<cellVars, pickerVars, companyVars, localVars, studentVars>>
     \/ /\ front = "local" /\ LocalNext
        /\ UNCHANGED <<cellVars, pickerVars, companyVars, apiVars, studentVars>>
     \/ /\ front = "students" /\ StudentNext
        /\ UNCHANGED <<cellVars, pickerVars, companyVars, apiVars, localVars>>

ScreensSpec ==
  /\ ScreensInit /\ [][ScreensNext]_screenVars
  /\ CellFairness /\ ApiFairness /\ LocalFairness

=============================================================================
