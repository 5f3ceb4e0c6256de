------------------------------- MODULE ApiList -------------------------------
(***************************************************************************)
(* The list of the ApiDemo app (ViewController.swift): viewDidLoad asks    *)
(* the weather service once; the closure decodes the answer on a           *)
(* background thread, appends to arrDetail there, and sends the main       *)
(* thread a reloadData.  The main thread reads arrDetail when it lays the  *)
(* table out for the first time, when it draws a row and at the reload.    *)
(*                                                                         *)
(* Nothing keeps the two threads apart.  A count that is read while the    *)
(* append is under way may be the old or the new one, and drawing a row    *)
(* then may read an element that is not there yet.                         *)
(***************************************************************************)
EXTENDS Naturals

VARIABLES
  apiApp,     \* "off", "running" or "crashed"
  request,    \* "asked", "appending", "appended", "over"
  arrDetail,  \* how many elements the array has
  apiRows,    \* how many rows the table knows of
  laidOut,    \* the table was laid out
  reloadDue   \* the main queue holds a reloadData

apiVars == <<apiApp, request, arrDetail, apiRows, laidOut, reloadDue>>

ApiInit ==
  /\ apiApp = "off"
  /\ request = "over"
  /\ arrDetail = 0 /\ apiRows = 0
  /\ laidOut = FALSE /\ reloadDue = FALSE

ApiRuns == apiApp = "running"

(* viewDidLoad.                                                            *)
fetchApi ==
  /\ apiApp = "off"
  /\ apiApp' = "running"
  /\ request' = "asked"
  /\ UNCHANGED <<arrDetail, apiRows, laidOut, reloadDue>>

-----------------------------------------------------------------------------
(* The background thread.                                                  *)

(* No data, or none that decodes: the closure returns.                     *)
answerFails ==
  /\ ApiRuns /\ request = "asked"
  /\ request' = "over"
  /\ UNCHANGED <<apiApp, arrDetail, apiRows, laidOut, reloadDue>>

appendBegins ==
  /\ ApiRuns /\ request = "asked"
  /\ request' = "appending"
  /\ UNCHANGED <<apiApp, arrDetail, apiRows, laidOut, reloadDue>>

appendEnds ==
  /\ ApiRuns /\ request = "appending"
  /\ request' = "appended"
  /\ arrDetail' = arrDetail + 1
  /\ UNCHANGED <<apiApp, apiRows, laidOut, reloadDue>>

DoesNotSend == UNCHANGED reloadDue
SendsReload == reloadDue' = TRUE
closureEnds ==
  /\ ApiRuns /\ request = "appended"
  /\ request' = "over"
  /\ SendsReload
  /\ UNCHANGED <<apiApp, arrDetail, apiRows, laidOut>>

-----------------------------------------------------------------------------
(* The main thread.                                                        *)

numberOfRowsInSection ==
  IF request = "appending" THEN {arrDetail, arrDetail + 1} ELSE {arrDetail}

layout ==
  /\ ApiRuns /\ ~laidOut
  /\ laidOut' = TRUE
  /\ apiRows' \in numberOfRowsInSection
  /\ UNCHANGED <<apiApp, request, arrDetail, reloadDue>>

reloadData ==
  /\ ApiRuns /\ reloadDue
  /\ reloadDue' = FALSE
  /\ laidOut' = TRUE
  /\ apiRows' \in numberOfRowsInSection
  /\ UNCHANGED <<apiApp, request, arrDetail>>

(* A row is drawn; one that the array does not have yet may trap.          *)
apiCellForRowAt ==
  /\ ApiRuns /\ apiRows > 0
  /\ apiApp' \in IF apiRows > arrDetail THEN {"running", "crashed"} ELSE {"running"}
  /\ UNCHANGED <<request, arrDetail, apiRows, laidOut, reloadDue>>

ApiNext ==
  \/ fetchApi \/ answerFails \/ appendBegins \/ appendEnds \/ closureEnds
  \/ layout \/ reloadData \/ apiCellForRowAt

(***************************************************************************)
(* The closure runs to its end and the main queue runs what it was given.  *)
(* The service need not answer.                                            *)
(***************************************************************************)
ApiFairness ==
  /\ WF_apiVars(appendEnds) /\ WF_apiVars(closureEnds)
  /\ WF_apiVars(layout) /\ WF_apiVars(reloadData)

ApiSpec == ApiInit /\ [][ApiNext]_apiVars /\ ApiFairness

-----------------------------------------------------------------------------
(* Properties.                                                             *)

(* An answer that was decoded comes onto the screen, whenever the first    *)
(* layout happens, unless the race traps (ViewController.swift:76-80).     *)
AnswerShown ==
  request = "appending" ~> (apiRows = 1 /\ arrDetail = 1) \/ ~ApiRuns

=============================================================================
