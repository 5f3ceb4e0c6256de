--------------------------- MODULE FirebaseSession ---------------------------
(***************************************************************************)
(* Who is signed in to the FirebasePractise app: LoginVC.swift,            *)
(* SignupVC.swift, the log out of SignupmainVC.swift and the start of the  *)
(* app in AppDelegate.swift.                                               *)
(*                                                                         *)
(* The same question is answered by four pieces of state that different    *)
(* steps write: the global userID, the two user defaults, the current user *)
(* of the Firebase SDK and the root screen.  A request to the SDK is a     *)
(* call: it is started by a tap, answered by the SDK (which changes its    *)
(* current user first) and finished by its closure on the main thread.     *)
(* What the closures print and the alerts, which change no state, are left *)
(* out, and so are taps with an empty field, which only show one.          *)
(***************************************************************************)
EXTENDS Naturals, FiniteSets

CONSTANTS
  Uids,     \* users; the email of an account is identified with its uid
  NoUser,   \* nobody
  Anon,     \* the value "1234" that userID has when nothing is saved
  Calls,    \* bound: requests that can be under way at the same time
  Env       \* what users and the environment may do beside kills

SessionHazards == {"overlap", "killMidWrite", "writeFails", "signOutFails"}

ASSUME UserAssumption == NoUser \notin Uids /\ Anon \notin Uids /\ Anon # NoUser

VARIABLES
  app,          \* "running", "crashed" (by the code) or "killed"
  userID,       \* the global of Constant.swift
  login,        \* UserDefaultsKeys.login is set
  savedID,      \* UserDefaultsKeys.userID, NoUser when it is not set
  currentUser,  \* Auth.auth().currentUser, kept in the keychain
  accounts,     \* the accounts of the Firebase project
  screen,       \* "login", "signup" or "home"
  op,           \* what the call is: "idle" when there is none
  who,          \* the user it is about
  live,         \* the view controller that made it still exists
  ans           \* "none", "ok" or "error"

defaultsVars == <<login, savedID>>
sdkVars == <<currentUser, accounts>>
callVars == <<op, who, live, ans>>
sessionVars == <<app, userID, defaultsVars, sdkVars, screen, callVars>>

Busy(c) == op[c] # "idle"

(* The user acts on screen s; without "overlap" nobody acts before the     *)
(* last request is answered.                                               *)
Free == "overlap" \in Env \/ \A c \in Calls : ~Busy(c)
ActingOn(s) == app = "running" /\ screen = s /\ Free

Start(c, o, u) ==
  /\ ~Busy(c)
  /\ op' = [op EXCEPT ![c] = o]
  /\ who' = [who EXCEPT ![c] = u]
  /\ live' = [live EXCEPT ![c] = TRUE]
  /\ ans' = [ans EXCEPT ![c] = "none"]

(* The closure of call c has run; keep is where the other calls still find *)
(* the view controller that made them.                                     *)
Finish(c, keep) ==
  /\ op' = [op EXCEPT ![c] = "idle"]
  /\ who' = [who EXCEPT ![c] = NoUser]
  /\ live' = [d \in Calls |-> live[d] /\ d \in keep \ {c}]
  /\ ans' = [ans EXCEPT ![c] = "none"]

(* The process dies: its closures die with it, but a request to create an  *)
(* account may still reach the server.                                     *)
Creating == {who[c] : c \in {d \in Calls : op[d] = "createUser" /\ ans[d] = "none"}}
NoCalls ==
  /\ op' = [c \in Calls |-> "idle"]
  /\ who' = [c \in Calls |-> NoUser]
  /\ live' = [c \in Calls |-> FALSE]
  /\ ans' = [c \in Calls |-> "none"]
Die(how) ==
  /\ app' = how
  /\ NoCalls
  /\ \E S \in SUBSET Creating : accounts' = accounts \cup S
  /\ UNCHANGED <<currentUser, screen>>

SessionInit ==
  /\ app = "running"
  /\ userID = Anon
  /\ login = FALSE
  /\ savedID = NoUser
  /\ currentUser = NoUser
  /\ accounts = {}
  /\ screen = "login"
  /\ op = [c \in Calls |-> "idle"]
  /\ who = [c \in Calls |-> NoUser]
  /\ live = [c \in Calls |-> FALSE]
  /\ ans = [c \in Calls |-> "none"]

-----------------------------------------------------------------------------
(* What the user taps.                                                     *)

loginbtnclick(c, u) ==
  /\ ActingOn("login")
  /\ Start(c, "signIn", u)
  /\ UNCHANGED <<app, userID, defaultsVars, sdkVars, screen>>

click_onSignupBtn ==
  /\ ActingOn("login")
  /\ screen' = "signup"
  /\ UNCHANGED <<app, userID, defaultsVars, sdkVars, callVars>>

clickonsignup(c, u) ==
  /\ ActingOn("signup")
  /\ Start(c, "createUser", u)
  /\ UNCHANGED <<app, userID, defaultsVars, sdkVars, screen>>

(* The two Google buttons: the first writes a profile afterwards.          *)
googlebtnclick(c, u) ==
  /\ ActingOn("signup")
  /\ Start(c, "googleSignup", u)
  /\ UNCHANGED <<app, userID, defaultsVars, sdkVars, screen>>

loginwithgooglebtnclick(c, u) ==
  /\ ActingOn("signup")
  /\ Start(c, "googleLogin", u)
  /\ UNCHANGED <<app, userID, defaultsVars, sdkVars, screen>>

(* Back from the sign up screen.  Its closures for createUser hold the     *)
(* screen, those for Google do not.                                        *)
backToLogin ==
  /\ ActingOn("signup")
  /\ screen' = "login"
  /\ live' = [c \in Calls |->
                live[c] /\ op[c] \notin {"googleSignup", "googleLogin"}]
  /\ UNCHANGED <<app, userID, defaultsVars, sdkVars, op, who, ans>>

(* Log out: the global userID keeps its value.  A sign out that throws is  *)
(* only printed.                                                           *)
ForgetsUser == login' = login /\ savedID' = NoUser
Forgets == login' = FALSE /\ savedID' = NoUser
click_onLogoutBtn ==
  /\ ActingOn("home")
  /\ Forgets
  /\ \/ currentUser' = NoUser
     \/ "signOutFails" \in Env /\ UNCHANGED currentUser
  /\ screen' = "login"
  /\ live' = [c \in Calls |-> FALSE]
  /\ UNCHANGED <<app, userID, accounts, op, who, ans>>

-----------------------------------------------------------------------------
(* What the SDK answers.                                                   *)

Accepts(c) ==
  \/ op[c] = "signIn" /\ who[c] \in accounts
  \/ op[c] = "createUser" /\ who[c] \notin accounts
  \/ op[c] \in {"googleSignup", "googleLogin"}
serveAuth(c) ==
  /\ app = "running" /\ Busy(c) /\ ans[c] = "none"
  /\ Accepts(c)
  /\ ans' = [ans EXCEPT ![c] = "ok"]
  /\ currentUser' = who[c]
  /\ accounts' = accounts \cup {who[c]}
  /\ UNCHANGED <<app, userID, defaultsVars, screen, op, who, live>>

(* The profile document of a new user is written.                          *)
serveProfile(c) ==
  /\ app = "running" /\ op[c] = "profile" /\ ans[c] = "none"
  /\ \/ ans' = [ans EXCEPT ![c] = "ok"]
     \/ "writeFails" \in Env /\ ans' = [ans EXCEPT ![c] = "error"]
  /\ UNCHANGED <<app, userID, defaultsVars, sdkVars, screen, op, who, live>>

(* A refusal or an error of the network; an account may have been created  *)
(* although its answer was lost.                                           *)
refuse(c) ==
  /\ app = "running" /\ Busy(c) /\ op[c] # "profile" /\ ans[c] = "none"
  /\ ans' = [ans EXCEPT ![c] = "error"]
  /\ \/ UNCHANGED accounts
     \/ op[c] = "createUser" /\ accounts' = accounts \cup {who[c]}
  /\ UNCHANGED <<app, userID, defaultsVars, currentUser, screen, op, who, live>>

-----------------------------------------------------------------------------
(* The closures.                                                           *)

Answered(c, o, a) == app = "running" /\ op[c] = o /\ ans[c] = a

(* LoginVC: an error is shown on self!, which may be gone.                 *)
loginFailed(c) ==
  /\ Answered(c, "signIn", "error")
  /\ IF live[c]
     THEN Finish(c, Calls) /\ UNCHANGED <<app, sdkVars, screen>>
     ELSE Die("crashed")
  /\ UNCHANGED <<userID, defaultsVars>>

(* LoginVC: userID and both defaults are written, then the home screen is  *)
(* taken from the storyboard of self, and "as!" traps when self is gone.   *)
HomeIfAlive(c) ==
  IF live[c]
  THEN screen' = "home" /\ Finish(c, {}) /\ UNCHANGED <<app, sdkVars>>
  ELSE Finish(c, Calls) /\ UNCHANGED <<app, sdkVars, screen>>
Home(c) ==
  IF live[c]
  THEN screen' = "home" /\ Finish(c, {}) /\ UNCHANGED <<app, sdkVars>>
  ELSE Die("crashed")
loginDone(c) ==
  /\ Answered(c, "signIn", "ok")
  /\ userID' = who[c]
  /\ savedID' = who[c]
  /\ \/ login' = TRUE /\ Home(c)
     \/ "killMidWrite" \in Env /\ login' = login /\ Die("killed")

(* SignupVC: an error is only printed; else the profile is written.        *)
KeepsUser(c) == userID' = userID
TakesUser(c) == userID' = who[c]
createUserDone(c) ==
  /\ \/ /\ Answered(c, "createUser", "error")
        /\ Finish(c, Calls)
        /\ UNCHANGED userID
     \/ /\ Answered(c, "createUser", "ok")
        /\ TakesUser(c)
        /\ op' = [op EXCEPT ![c] = "profile"]
        /\ ans' = [ans EXCEPT ![c] = "none"]
        /\ UNCHANGED <<who, live>>
  /\ UNCHANGED <<app, defaultsVars, sdkVars, screen>>

(* SignupVC: the inner closure tests the error of the outer one, which is  *)
(* nil here, so that both answers take the branch of success.  What is     *)
(* saved is the global userID of this moment.                              *)
profileDone(c) ==
  /\ \E a \in {"ok", "error"} : Answered(c, "profile", a)
  /\ login' = TRUE
  /\ \/ savedID' = userID /\ screen' = "home" /\ Finish(c, {})
        /\ UNCHANGED <<app, sdkVars>>
     \/ "killMidWrite" \in Env /\ UNCHANGED savedID /\ Die("killed")
  /\ UNCHANGED userID

(* Google: nothing but the SDK learns of the user.  After a sign up the    *)
(* closure reaches for db through the unowned self.                        *)
googleDone(c) ==
  /\ \E o \in {"googleSignup", "googleLogin"}, a \in {"ok", "error"} :
       Answered(c, o, a)
  /\ IF op[c] = "googleSignup" /\ ans[c] = "ok" /\ ~live[c]
     THEN Die("crashed")
     ELSE Finish(c, Calls) /\ UNCHANGED <<app, sdkVars, screen>>
  /\ UNCHANGED <<userID, defaultsVars>>

-----------------------------------------------------------------------------

kill ==
  /\ app = "running"
  /\ Die("killed")
  /\ UNCHANGED <<userID, defaultsVars>>

(* The global userID of a new process: the saved one ?? "1234".            *)
LaunchUserSaved == savedID
LaunchUser == IF savedID # NoUser THEN savedID ELSE Anon
launch ==
  /\ app # "running"
  /\ app' = "running"
  /\ userID' = LaunchUser
  /\ screen' = IF login THEN "home" ELSE "login"
  /\ UNCHANGED <<defaultsVars, sdkVars, callVars>>

Taps ==
  \/ \E c \in Calls, u \in Uids :
       \/ loginbtnclick(c, u)
       \/ clickonsignup(c, u)
       \/ googlebtnclick(c, u)
       \/ loginwithgooglebtnclick(c, u)
  \/ click_onSignupBtn
  \/ backToLogin

Answers == \E c \in Calls : serveAuth(c) \/ serveProfile(c) \/ refuse(c)

Closures ==
  \E c \in Calls : loginFailed(c) \/ loginDone(c) \/ createUserDone(c)
                     \/ profileDone(c) \/ googleDone(c)

SessionNext ==
  Taps \/ click_onLogoutBtn \/ Answers \/ Closures \/ kill \/ launch
SessionSpec == SessionInit /\ [][SessionNext]_sessionVars

-----------------------------------------------------------------------------
(* Properties.                                                             *)

(* Every variable keeps its type, and a call that is over leaves nothing   *)
(* behind for the closure of the next one.                                 *)
SessionTypeOK ==
  /\ app \in {"running", "crashed", "killed"}
  /\ userID \in Uids \cup {Anon}
  /\ login \in BOOLEAN
  /\ savedID \in Uids \cup {Anon, NoUser}
  /\ currentUser \in Uids \cup {NoUser}
  /\ accounts \in SUBSET Uids
  /\ screen \in {"login", "signup", "home"}
  /\ op \in [Calls -> {"idle", "signIn", "createUser", "profile",
                       "googleSignup", "googleLogin"}]
  /\ who \in [Calls -> Uids \cup {NoUser}]
  /\ live \in [Calls -> BOOLEAN]
  /\ ans \in [Calls -> {"none", "ok", "error"}]
  /\ \A c \in Calls : Busy(c) <=> who[c] # NoUser
  /\ \A c \in Calls : ~Busy(c) => ans[c] = "none" /\ ~live[c]

(* On the home screen the four answers to "who is signed in" agree: the    *)
(* global userID, the saved one, the current user of the SDK and the login *)
(* flag that the next launch reads (AppDelegate.swift:24-30).              *)
SessionConsistent ==
  app = "running" /\ screen = "home" =>
    login /\ savedID = userID /\ currentUser = userID

(* The screen and the login flag agree whenever the app runs, whatever     *)
(* overlaps or fails: the home screen would come back after a kill, the    *)
(* others would not turn into it (LoginVC.swift:40-44).                    *)
RootMatchesLogin == app = "running" => (screen = "home" <=> login)

(* Whoever is sent to the home screen by the next launch has a saved user, *)
(* even when a sign up and a log in overlap: the launch never falls back   *)
(* on "1234" there (Constant.swift:12).                                    *)
LoginImpliesSavedUser == login => savedID \in Uids

(***************************************************************************)
(* Why SessionConsistent holds for a user who waits for every answer and a *)
(* process that is not killed between two writes of the defaults.          *)
(***************************************************************************)
Patient == Env \cap {"overlap", "killMidWrite"} = {}

(* There is at most one call; it belongs to the screen on show, and the    *)
(* SDK already has the user whom its closure is about to announce.         *)
CallPart ==
  \A c \in Calls : Busy(c) =>
    /\ app = "running"
    /\ \A d \in Calls \ {c} : ~Busy(d)
    /\ live[c]
    /\ screen = IF op[c] = "signIn" THEN "login" ELSE "signup"
    /\ ans[c] = "ok" \/ op[c] = "profile" => currentUser = who[c]
    /\ op[c] = "profile" => userID = who[c]

(* The inductive invariant: screen, flag, saved user, global and SDK agree *)
(* while calls are started, answered and finished and between two launches *)
(* (LoginVC.swift:38-44, SignupVC.swift:46-67, AppDelegate.swift:24-36).   *)
SessionInv ==
  /\ CallPart
  /\ RootMatchesLogin
  /\ login => savedID \in Uids /\ savedID = currentUser
  /\ SessionConsistent

(***************************************************************************)
(* The session as a signed-in user: the defaults say who it is, the home   *)
(* screen of a running app whose it is.                                    *)
(***************************************************************************)
SignedIn == INSTANCE SignedInUser WITH
  registered <- accounts,
  user <- IF login THEN savedID ELSE NoUser,
  shown <- IF app = "running" /\ screen = "home" THEN userID ELSE NoUser

(* For a patient user the session implements that: nobody signs in without *)
(* an account, the user changes only by signing out from the home screen,  *)
(* and every launch brings back the user who signed in, whatever was lost  *)
(* or killed in between (LoginVC.swift:24-48, SignupVC.swift:37-71,        *)
(* SignupmainVC.swift:142-164, AppDelegate.swift:24-36).                   *)
ImplementsSignedIn == SignedIn!UserSpec

(* A failed write of the profile is an error of the sign up, which stays   *)
(* where it is (SignupVC.swift:55-58).                                     *)
FailedSignupStays ==
  [][\A c \in Calls :
       Answered(c, "profile", "error") /\ ~Busy(c)' /\ app' = "running"
         => screen' = screen]_sessionVars

=============================================================================
