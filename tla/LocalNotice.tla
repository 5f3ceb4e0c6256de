----------------------------- MODULE LocalNotice -----------------------------
(***************************************************************************)
(* The Local Notification Demo app (AppDelegate.swift): every launch asks  *)
(* for the settings, asks the user when there is no answer yet, and        *)
(* schedules one notification five seconds ahead when it is allowed.       *)
(*                                                                         *)
(* Three closures follow each other (settings, authorization, add), each   *)
(* after an answer of the system, and a kill may come between any two; the *)
(* user may change the permission in the settings at any moment.           *)
(***************************************************************************)
EXTENDS Naturals

VARIABLES
  localApp,  \* the step of this launch: "off", "settings", "prompt",
             \* "allowed" (about to schedule), "idle", or "addFailed" (idle
             \* after an error of add, which is only printed)
  status,    \* authorizationStatus: "notDetermined", "authorized", "denied"
  pending,   \* the request "cocoacasts_local_notification" waits
  noticed    \* a notification was shown since the process started

localVars == <<localApp, status, pending, noticed>>

LocalInit ==
  /\ localApp = "off"
  /\ status = "notDetermined"
  /\ pending = FALSE
  /\ noticed = FALSE

launchLocal ==
  /\ localApp = "off"
  /\ localApp' = "settings"
  /\ noticed' = FALSE
  /\ UNCHANGED <<status, pending>>

killLocal ==
  /\ localApp # "off"
  /\ localApp' = "off"
  /\ UNCHANGED <<status, pending, noticed>>

(* The closure of getNotificationSettings, with the status of the moment.  *)
AfterSettings ==
  CASE status = "notDetermined" -> "prompt"
    [] status = "authorized" -> "allowed"
    [] status = "denied" -> "idle"
getRequestToAccessToShowNotification ==
  /\ localApp = "settings"
  /\ localApp' = AfterSettings
  /\ UNCHANGED <<status, pending, noticed>>

(* The user answers the prompt, or the request fails and the question      *)
(* stays open; the completion schedules on success only.                   *)
requestAuthorization(s) ==
  /\ localApp = "prompt"
  /\ status' = s
  /\ localApp' = IF s = "authorized" THEN "allowed" ELSE "idle"
  /\ UNCHANGED <<pending, noticed>>

changeSettings(s) ==
  /\ status # "notDetermined" /\ localApp # "prompt"
  /\ status' = s
  /\ UNCHANGED <<localApp, pending, noticed>>

(* The request replaces the one that an earlier launch left pending, or    *)
(* the notification center refuses it.                                     *)
AddsNothing == pending' = pending
AddsRequest == pending' = TRUE
scheduleLocalNotification ==
  /\ localApp = "allowed"
  /\ \/ AddsRequest /\ localApp' = "idle"
     \/ UNCHANGED pending /\ localApp' = "addFailed"
  /\ UNCHANGED <<status, noticed>>

(* Five seconds are over: the request is gone, its notification is shown,  *)
(* also inside the app (willPresent), if that is still allowed.            *)
present ==
  /\ pending
  /\ pending' = FALSE
  /\ noticed' = (noticed \/ status = "authorized")
  /\ UNCHANGED <<localApp, status>>

LocalNext ==
  \/ launchLocal \/ killLocal
  \/ getRequestToAccessToShowNotification
  \/ \E s \in {"notDetermined", "authorized", "denied"} : requestAuthorization(s)
  \/ \E s \in {"authorized", "denied"} : changeSettings(s)
  \/ scheduleLocalNotification
  \/ present

(***************************************************************************)
(* The system answers the question for the settings, the closures run, and *)
(* five seconds pass.  Nothing is assumed of the user.                     *)
(***************************************************************************)
LocalFairness ==
  /\ WF_localVars(getRequestToAccessToShowNotification)
  /\ WF_localVars(scheduleLocalNotification)
  /\ WF_localVars(present)

LocalSpec == LocalInit /\ [][LocalNext]_localVars /\ LocalFairness

-----------------------------------------------------------------------------
(* Properties.                                                             *)

(* A launch of an app that may notify shows its notification, also when    *)
(* the launch before was killed between any two of its closures.  It does  *)
(* not when it is killed, when the user is asked or takes the permission   *)
(* back first, or when add answers with an error, which is printed and     *)
(* never tried again (AppDelegate.swift:23-45, 79-104).                    *)
LaunchNotifies ==
  localApp = "settings" ~>
    noticed \/ localApp \in {"off", "prompt", "addFailed"} \/ status # "authorized"

=============================================================================
