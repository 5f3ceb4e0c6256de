--------------------------- MODULE MeetingNotices ---------------------------
(***************************************************************************)
(* The notiDemo app: viewDidLoad of ViewController.swift sets up two       *)
(* repeating notifications one after the other, each with a category of    *)
(* two actions; AppDelegate.swift answers the actions.                     *)
(*                                                                         *)
(* The notification centre of the system is modelled as the code uses it:  *)
(* setNotificationCategories replaces the set of categories, a request     *)
(* replaces the pending one with the same identifier, both outlive the     *)
(* process, and a notification offers the actions of its category only     *)
(* when that category is registered.  Both kinds fire again and again.     *)
(***************************************************************************)
EXTENDS Naturals

Kinds == {"MEETING_INVITATION", "DELETE_INVITATION"}
ActionsOf(k) == IF k = "MEETING_INVITATION" THEN {"ACCEPT_ACTION", "DECLINE_ACTION"}
                                            ELSE {"YES_ACTION", "NO_ACTION"}
Nothing == "none"

VARIABLES
  noticeApp,    \* "off", "loading", "half" (one kind set up) or "ready"
  permission,   \* "unknown", "granted" or "denied"
  categories,   \* the registered categories
  requests,     \* the pending requests
  banner        \* the notification on the screen, Nothing if there is none

noticeVars == <<noticeApp, permission, categories, requests, banner>>

NoticeInit ==
  /\ noticeApp = "off"
  /\ permission = "unknown"
  /\ categories = {} /\ requests = {}
  /\ banner = Nothing

(* didFinishLaunching asks for the permission; viewDidLoad follows.        *)
launchNotices ==
  /\ noticeApp = "off"
  /\ noticeApp' = "loading"
  /\ UNCHANGED <<permission, categories, requests, banner>>

(* The user answers the question, or changes the answer in the settings.   *)
answerPermission(p) ==
  /\ noticeApp # "off" \/ permission # "unknown"
  /\ permission' = p
  /\ UNCHANGED <<noticeApp, categories, requests, banner>>

setNotificationCategories(k) == categories' = {k}
SetUp(k) ==
  /\ setNotificationCategories(k)
  /\ requests' = requests \cup {k}

sendNotidfication ==
  /\ noticeApp = "loading"
  /\ SetUp("MEETING_INVITATION")
  /\ noticeApp' = "half"
  /\ UNCHANGED <<permission, banner>>

sendNoti2dfication ==
  /\ noticeApp = "half"
  /\ SetUp("DELETE_INVITATION")
  /\ noticeApp' = "ready"
  /\ UNCHANGED <<permission, banner>>

killNotices ==
  /\ noticeApp # "off"
  /\ noticeApp' = "off"
  /\ UNCHANGED <<permission, categories, requests, banner>>

(* A request fires; its notification is shown only outside the app, which  *)
(* has no willPresent.                                                     *)
fire(k) ==
  /\ k \in requests /\ permission = "granted"
  /\ banner' = k
  /\ UNCHANGED <<noticeApp, permission, categories, requests>>

(* The user answers: by an action that is offered, or by a tap on the      *)
(* notification itself.  AppDelegate prints and changes nothing.           *)
Offered(k) == IF k \in categories THEN ActionsOf(k) ELSE {}
didReceive(a) ==
  /\ noticeApp \in {"loading", "ready"} /\ banner # Nothing
  /\ a \in Offered(banner) \cup {Nothing}
  /\ banner' = Nothing
  /\ UNCHANGED <<noticeApp, permission, categories, requests>>

NoticeNext ==
  \/ launchNotices \/ killNotices
  \/ \E p \in {"granted", "denied"} : answerPermission(p)
  \/ sendNotidfication \/ sendNoti2dfication
  \/ \E k \in Kinds : fire(k)
  \/ \E a \in UNION {ActionsOf(k) : k \in Kinds} \cup {Nothing} : didReceive(a)

NoticeSpec == NoticeInit /\ [][NoticeNext]_noticeVars

-----------------------------------------------------------------------------
(* Property.                                                               *)

(* When the app has finished its set up, every notification that it sends  *)
(* offers the actions that were defined for it: both notification types    *)
(* are registered ("Register the notification type.",                      *)
(* ViewController.swift:35 and 78).                                        *)
TypesRegistered ==
  noticeApp = "ready" => \A k \in requests : Offered(k) = ActionsOf(k)

=============================================================================
