----------------------- MODULE FirebaseSessionProofs -----------------------
(***************************************************************************)
(* Proofs about the session of FirebasePractise, for any number of users   *)
(* and of requests under way.                                              *)
(***************************************************************************)
EXTENDS FirebaseSession, TLAPS

(* Every tap, answer and closure keeps the type of what it assigns, and a  *)
(* call that is over leaves nothing behind.                                *)
LEMMA SessionTypeStep ==
  ASSUME SessionTypeOK, [SessionNext]_sessionVars
  PROVE  SessionTypeOK'
<1> USE UserAssumption DEF SessionTypeOK, defaultsVars, sdkVars, callVars, Busy
<1>1. \A c \in Calls : who[c] # NoUser => who[c] \in Uids
  OBVIOUS
<1>2. Creating \subseteq Uids
  BY <1>1 DEF Creating
<1>3. ASSUME NEW how \in {"crashed", "killed"}, Die(how),
             userID' \in Uids \cup {Anon}, login' \in BOOLEAN,
             savedID' \in Uids \cup {Anon, NoUser}
      PROVE  SessionTypeOK'
  BY <1>2, <1>3 DEF Die, NoCalls
<1>4. ASSUME NEW c \in Calls, NEW keep, Finish(c, keep)
      PROVE  /\ op' \in [Calls -> {"idle", "signIn", "createUser", "profile",
                                   "googleSignup", "googleLogin"}]
             /\ who' \in [Calls -> Uids \cup {NoUser}]
             /\ live' \in [Calls -> BOOLEAN]
             /\ ans' \in [Calls -> {"none", "ok", "error"}]
             /\ \A d \in Calls : op'[d] # "idle" <=> who'[d] # NoUser
             /\ \A d \in Calls : op'[d] = "idle" => ans'[d] = "none" /\ ~live'[d]
  BY <1>4 DEF Finish
<1>5. ASSUME NEW c \in Calls, NEW u \in Uids,
             loginbtnclick(c, u) \/ clickonsignup(c, u)
               \/ googlebtnclick(c, u) \/ loginwithgooglebtnclick(c, u)
      PROVE  SessionTypeOK'
  <2>1. PICK o \in {"signIn", "createUser", "googleSignup", "googleLogin"} :
          Start(c, o, u)
    BY <1>5 DEF loginbtnclick, clickonsignup, googlebtnclick,
                loginwithgooglebtnclick
  <2>2. UNCHANGED <<app, userID, login, savedID, currentUser, accounts, screen>>
    BY <1>5 DEF loginbtnclick, clickonsignup, googlebtnclick,
                loginwithgooglebtnclick
  <2>3. /\ op' \in [Calls -> {"idle", "signIn", "createUser", "profile",
                              "googleSignup", "googleLogin"}]
        /\ who' \in [Calls -> Uids \cup {NoUser}]
        /\ live' \in [Calls -> BOOLEAN]
        /\ ans' \in [Calls -> {"none", "ok", "error"}]
    BY <2>1 DEF Start
  <2>4. /\ \A d \in Calls : op'[d] # "idle" <=> who'[d] # NoUser
        /\ \A d \in Calls : op'[d] = "idle" => ans'[d] = "none" /\ ~live'[d]
    BY <2>1 DEF Start
  <2> QED
    BY <2>2, <2>3, <2>4
<1>6. CASE click_onSignupBtn
  BY <1>6 DEF click_onSignupBtn
<1>7. CASE backToLogin
  BY <1>7 DEF backToLogin
<1>8. CASE click_onLogoutBtn
  BY <1>8 DEF click_onLogoutBtn, Forgets
<1>9. ASSUME NEW c \in Calls, serveAuth(c) \/ serveProfile(c) \/ refuse(c)
      PROVE  SessionTypeOK'
  <2>1. Busy(c) /\ who[c] \in Uids
    BY <1>9, <1>1 DEF serveAuth, serveProfile, refuse
  <2>2. ans' \in [Calls -> {"none", "ok", "error"}]
        /\ \A d \in Calls : d # c => ans'[d] = ans[d]
    BY <1>9 DEF serveAuth, serveProfile, refuse
  <2> QED
    BY <1>9, <2>1, <2>2 DEF serveAuth, serveProfile, refuse
<1>10. ASSUME NEW c \in Calls, loginFailed(c) PROVE SessionTypeOK'
  BY <1>3, <1>4, <1>10 DEF loginFailed
<1>11. ASSUME NEW c \in Calls, loginDone(c) PROVE SessionTypeOK'
  <2>1. who[c] \in Uids
    BY <1>1, <1>11 DEF loginDone, Answered
  <2> QED
    BY <1>3, <1>4, <1>11, <2>1 DEF loginDone, Home
<1>12. ASSUME NEW c \in Calls, createUserDone(c) PROVE SessionTypeOK'
  <2>1. who[c] \in Uids
    BY <1>1, <1>12 DEF createUserDone, Answered
  <2> QED
    BY <1>4, <1>12, <2>1 DEF createUserDone, TakesUser, Answered
<1>13. ASSUME NEW c \in Calls, profileDone(c) PROVE SessionTypeOK'
  BY <1>3, <1>4, <1>13 DEF profileDone
<1>14. ASSUME NEW c \in Calls, googleDone(c) PROVE SessionTypeOK'
  BY <1>3, <1>4, <1>14 DEF googleDone
<1>15. CASE kill
  BY <1>3, <1>15 DEF kill
<1>16. CASE launch
  BY <1>16 DEF launch, LaunchUser
<1>17. CASE UNCHANGED sessionVars
  BY <1>17 DEF sessionVars
<1> QED
  BY <1>5, <1>6, <1>7, <1>8, <1>9, <1>10, <1>11, <1>12, <1>13, <1>14, <1>15,
     <1>16, <1>17 DEF SessionNext, Taps, Answers, Closures

(* Type correctness whatever overlaps or fails.                            *)
THEOREM SessionTypeCorrect == SessionSpec => []SessionTypeOK
<1>1. SessionInit => SessionTypeOK
  BY UserAssumption DEF SessionInit, SessionTypeOK, Busy
<1>2. SessionTypeOK /\ [SessionNext]_sessionVars => SessionTypeOK'
  BY SessionTypeStep
<1> QED
  BY <1>1, <1>2, PTL DEF SessionSpec

(* The screen and the login flag agree whenever the app runs, whatever     *)
(* overlaps or fails.                                                      *)
THEOREM RootAlwaysMatches == SessionSpec => []RootMatchesLogin
<1>1. SessionInit => RootMatchesLogin
  BY DEF SessionInit, RootMatchesLogin
<1>2. SessionTypeOK /\ RootMatchesLogin /\ [SessionNext]_sessionVars
      => RootMatchesLogin'
  BY DEF SessionTypeOK, RootMatchesLogin, SessionNext, sessionVars, defaultsVars, Taps,
     Answers, Closures, loginbtnclick, clickonsignup, googlebtnclick,
     loginwithgooglebtnclick, click_onSignupBtn, backToLogin, click_onLogoutBtn,
     Forgets, serveAuth, serveProfile, refuse, loginFailed, loginDone, Home,
     createUserDone, profileDone, googleDone, kill, launch, Die, ActingOn
<1> QED
  BY <1>1, <1>2, SessionTypeCorrect, PTL DEF SessionSpec

-----------------------------------------------------------------------------
(* The invariant of a patient user.                                        *)

(* When the last call is finished nothing is under way.                    *)
LEMMA FinishLast ==
  ASSUME SessionTypeOK, CallPart, NEW c \in Calls, Busy(c), NEW keep, Finish(c, keep)
  PROVE  \A d \in Calls : ~Busy(d)'
BY DEF Finish, CallPart, Busy, SessionTypeOK

(* When the process dies nothing is under way.                             *)
LEMMA DeadIsIdle ==
  ASSUME NEW how, Die(how)
  PROVE  app' = how /\ currentUser' = currentUser /\ \A d \in Calls : ~Busy(d)'
BY DEF Die, NoCalls, Busy

(* Without overlapping requests every step keeps the call to the screen    *)
(* that made it, also when the process is killed between two writes.       *)
LEMMA CallPartStep ==
  ASSUME "overlap" \notin Env, SessionTypeOK, CallPart, [SessionNext]_sessionVars
  PROVE  CallPart'
<1> USE DEF defaultsVars, sdkVars, callVars
<1>f. Free => \A c \in Calls : ~Busy(c)
  BY DEF Free
<1>d. ASSUME \A d \in Calls : ~Busy(d)' PROVE CallPart'
  BY <1>d DEF CallPart
<1>1. ASSUME NEW c \in Calls, NEW u \in Uids,
             loginbtnclick(c, u) \/ clickonsignup(c, u)
               \/ googlebtnclick(c, u) \/ loginwithgooglebtnclick(c, u)
      PROVE  CallPart'
  <2>1. PICK o \in {"signIn", "createUser", "googleSignup", "googleLogin"} :
          /\ Start(c, o, u)
          /\ screen = IF o = "signIn" THEN "login" ELSE "signup"
    BY <1>1 DEF loginbtnclick, clickonsignup, googlebtnclick,
                loginwithgooglebtnclick, ActingOn
  <2>2. /\ UNCHANGED <<app, userID, currentUser, screen>>
        /\ app = "running" /\ \A d \in Calls : ~Busy(d)
    BY <1>1, <1>f DEF loginbtnclick, clickonsignup, googlebtnclick,
                      loginwithgooglebtnclick, ActingOn
  <2>3. /\ op'[c] = o /\ who'[c] = u /\ live'[c] /\ ans'[c] = "none"
        /\ \A d \in Calls \ {c} : op'[d] = "idle"
    BY <2>1, <2>2 DEF Start, SessionTypeOK, Busy
  <2> QED
    BY <2>1, <2>2, <2>3 DEF CallPart, Busy
<1>2. CASE click_onSignupBtn \/ backToLogin \/ click_onLogoutBtn
  BY <1>2, <1>d, <1>f DEF click_onSignupBtn, backToLogin, click_onLogoutBtn,
                          ActingOn, Busy
<1>3. ASSUME NEW c \in Calls, serveAuth(c) \/ serveProfile(c) \/ refuse(c)
      PROVE  CallPart'
  <2>1. /\ Busy(c) /\ app = "running"
        /\ UNCHANGED <<app, userID, screen, op, who, live>>
        /\ currentUser' = IF serveAuth(c) THEN who[c] ELSE currentUser
    BY <1>3 DEF serveAuth, serveProfile, refuse, Busy
  <2>2. /\ \A d \in Calls \ {c} : op[d] = "idle"
        /\ live[c] /\ screen = IF op[c] = "signIn" THEN "login" ELSE "signup"
        /\ op[c] = "profile" => userID = who[c] /\ currentUser = who[c]
    BY <2>1 DEF CallPart, Busy
  <2>3. ans'[c] = "ok" \/ op[c] = "profile" => currentUser' = who[c]
    <3>1. CASE serveAuth(c)
      BY <2>1, <3>1
    <3>2. CASE serveProfile(c)
      BY <2>1, <2>2, <3>2 DEF serveProfile
    <3>3. CASE refuse(c)
      BY <3>3 DEF refuse, SessionTypeOK
    <3> QED
      BY <1>3, <3>1, <3>2, <3>3
  <2> QED
    BY <2>1, <2>2, <2>3 DEF CallPart, Busy
<1>4. ASSUME NEW c \in Calls, loginFailed(c) \/ loginDone(c) \/ profileDone(c)
                                \/ googleDone(c)
      PROVE  CallPart'
  <2>1. Busy(c)
    BY <1>4 DEF loginFailed, loginDone, profileDone, googleDone, Answered, Busy
  <2>2. \/ \E keep : Finish(c, keep)
        \/ \E how : Die(how)
    BY <1>4 DEF loginFailed, loginDone, profileDone, googleDone, Home
  <2> QED
    BY <1>d, <2>1, <2>2, FinishLast, DeadIsIdle
<1>5. ASSUME NEW c \in Calls, createUserDone(c) PROVE CallPart'
  <2>1. /\ Busy(c) /\ app = "running" /\ op[c] = "createUser"
        /\ UNCHANGED <<app, currentUser, screen>>
    BY <1>5 DEF createUserDone, Answered, Busy
  <2>2. screen = "signup" /\ live[c] /\ \A d \in Calls \ {c} : op[d] = "idle"
    BY <2>1 DEF CallPart, Busy
  <2>3. CASE ans[c] = "error"
    <3>1. Finish(c, Calls)
      BY <1>5, <2>3 DEF createUserDone, Answered
    <3> QED
      BY <1>d, <2>1, <3>1, FinishLast
  <2>4. CASE ans[c] # "error"
    <3>1. /\ ans[c] = "ok" /\ userID' = who[c] /\ UNCHANGED <<who, live>>
          /\ op' = [op EXCEPT ![c] = "profile"]
      BY <1>5, <2>4 DEF createUserDone, Answered, TakesUser
    <3>2. currentUser = who[c]
      BY <2>1, <3>1 DEF CallPart
    <3> QED
      BY <2>1, <2>2, <3>1, <3>2 DEF CallPart, Busy, SessionTypeOK
  <2> QED
    BY <2>3, <2>4
<1>6. CASE kill
  BY <1>6, <1>d, DeadIsIdle DEF kill
<1>7. CASE launch
  BY <1>7, <1>d DEF launch, CallPart, Busy
<1>8. CASE UNCHANGED sessionVars
  BY <1>8 DEF sessionVars, CallPart, Busy
<1> QED
  BY <1>1, <1>2, <1>3, <1>4, <1>5, <1>6, <1>7, <1>8
     DEF SessionNext, Taps, Answers, Closures

(* A user who waits for every answer never has two requests under way, and *)
(* none of them outlives its screen or its process.                        *)
THEOREM CallPartAlways ==
  ASSUME "overlap" \notin Env PROVE SessionSpec => []CallPart
<1>1. SessionInit => CallPart
  BY DEF SessionInit, CallPart, Busy
<1>2. SessionTypeOK /\ CallPart /\ [SessionNext]_sessionVars => CallPart'
  BY CallPartStep
<1> QED
  BY <1>1, <1>2, SessionTypeCorrect, PTL DEF SessionSpec

(* The rest of the invariant of a patient user follows the call from its   *)
(* answer to what its closure saves.                                       *)
LEMMA SessionInvStep ==
  ASSUME Patient, SessionTypeOK, SessionInv, [SessionNext]_sessionVars
  PROVE  SessionInv'
<1> USE UserAssumption DEF defaultsVars, sdkVars, callVars, RootMatchesLogin,
                           SessionConsistent
<1>0. "overlap" \notin Env /\ "killMidWrite" \notin Env
  BY DEF Patient
<1>c. CallPart'
  BY <1>0, CallPartStep DEF SessionInv
<1>d. ASSUME NEW how \in {"crashed", "killed"}, Die(how),
             login' => savedID' \in Uids /\ savedID' = currentUser
      PROVE  SessionInv'
  BY <1>c, <1>d, DeadIsIdle DEF SessionInv
<1>1. CASE Taps \/ click_onLogoutBtn
  BY <1>1, <1>c DEF Taps, loginbtnclick, clickonsignup, googlebtnclick,
                    loginwithgooglebtnclick, click_onSignupBtn, backToLogin,
                    click_onLogoutBtn, ActingOn, Forgets, SessionInv
<1>2. ASSUME NEW c \in Calls, serveAuth(c) \/ serveProfile(c) \/ refuse(c)
      PROVE  SessionInv'
  <2>1. /\ Busy(c) /\ app = "running"
        /\ UNCHANGED <<app, userID, login, savedID, screen>>
    BY <1>2 DEF serveAuth, serveProfile, refuse, Busy
  <2>2. screen # "home" /\ ~login
    BY <2>1 DEF SessionInv, CallPart
  <2> QED
    BY <1>c, <2>1, <2>2 DEF SessionInv
<1>3. ASSUME NEW c \in Calls, loginFailed(c) \/ googleDone(c) PROVE SessionInv'
  <2>1. Busy(c) /\ UNCHANGED <<userID, login, savedID>> /\ app = "running"
    BY <1>3 DEF loginFailed, googleDone, Answered, Busy
  <2>2. live[c]
    BY <2>1 DEF SessionInv, CallPart
  <2>3. UNCHANGED <<app, currentUser, screen>>
    BY <1>3, <2>2 DEF loginFailed, googleDone
  <2> QED
    BY <1>c, <2>1, <2>3 DEF SessionInv
<1>4. ASSUME NEW c \in Calls, loginDone(c) PROVE SessionInv'
  <2>1. /\ Busy(c) /\ app = "running" /\ op[c] = "signIn" /\ ans[c] = "ok"
        /\ userID' = who[c] /\ savedID' = who[c]
    BY <1>4 DEF loginDone, Answered, Busy
  <2>2. live[c] /\ currentUser = who[c] /\ who[c] \in Uids
    BY <2>1 DEF SessionInv, CallPart, SessionTypeOK
  <2>3. login' /\ screen' = "home" /\ UNCHANGED <<app, currentUser>>
    BY <1>0, <1>4, <2>2 DEF loginDone, Home
  <2> QED
    BY <1>c, <2>1, <2>2, <2>3 DEF SessionInv
<1>5. ASSUME NEW c \in Calls, createUserDone(c) PROVE SessionInv'
  <2>1. /\ Busy(c) /\ app = "running" /\ op[c] = "createUser"
        /\ UNCHANGED <<app, login, savedID, currentUser, screen>>
    BY <1>5 DEF createUserDone, Answered, Busy
  <2>2. screen = "signup" /\ ~login
    BY <2>1 DEF SessionInv, CallPart
  <2> QED
    BY <1>c, <2>1, <2>2 DEF SessionInv
<1>6. ASSUME NEW c \in Calls, profileDone(c) PROVE SessionInv'
  <2>1. Busy(c) /\ app = "running" /\ op[c] = "profile" /\ login' /\ userID' = userID
    BY <1>6 DEF profileDone, Answered, Busy
  <2>2. currentUser = who[c] /\ userID = who[c] /\ who[c] \in Uids
    BY <2>1 DEF SessionInv, CallPart, SessionTypeOK
  <2>3. savedID' = userID /\ screen' = "home" /\ UNCHANGED <<app, currentUser>>
    BY <1>0, <1>6 DEF profileDone
  <2> QED
    BY <1>c, <2>1, <2>2, <2>3 DEF SessionInv
<1>7. CASE kill
  BY <1>7, <1>d DEF kill, SessionInv
<1>8. CASE launch
  BY <1>8, <1>c DEF launch, LaunchUser, SessionInv, SessionTypeOK
<1>9. CASE UNCHANGED sessionVars
  BY <1>9, <1>c DEF sessionVars, SessionInv
<1> QED
  BY <1>1, <1>2, <1>3, <1>4, <1>5, <1>6, <1>7, <1>8, <1>9
     DEF SessionNext, Answers, Closures

(* For a user who waits for every answer, screen, login flag, saved user,  *)
(* global userID and the SDK always fit together, whatever fails.          *)
THEOREM SessionInvAlways == ASSUME Patient PROVE SessionSpec => []SessionInv
<1>1. SessionInit => SessionInv
  BY DEF SessionInit, SessionInv, CallPart, Busy, RootMatchesLogin, SessionConsistent
<1>2. SessionTypeOK /\ SessionInv /\ [SessionNext]_sessionVars => SessionInv'
  BY SessionInvStep
<1> QED
  BY <1>1, <1>2, SessionTypeCorrect, PTL DEF SessionSpec

(* On the home screen all agree on who is signed in.                       *)
THEOREM SessionAlwaysConsistent ==
  ASSUME Patient PROVE SessionSpec => []SessionConsistent
<1>1. SessionInv => SessionConsistent
  BY DEF SessionInv
<1> QED
  BY <1>1, SessionInvAlways, PTL

-----------------------------------------------------------------------------
(* What holds for hasty users too, as long as the process is not killed    *)
(* between the two writes of the defaults.                                 *)

(* Whom the SDK has accepted, whom a closure is about to announce, whom    *)
(* the defaults name and who is on the home screen all have an account;    *)
(* and no call survives the process (LoginVC.swift:38-44,                  *)
(* SignupVC.swift:46-67, AppDelegate.swift:24-36).                         *)
AccountInv ==
  /\ \A c \in Calls : Busy(c) => app = "running"
  /\ \A c \in Calls :
       Busy(c) /\ (ans[c] = "ok" \/ op[c] = "profile") => who[c] \in accounts
  /\ \A c \in Calls : op[c] = "profile" => userID \in accounts
  /\ login => savedID \in accounts
  /\ app = "running" /\ screen = "home" => userID \in accounts

(* A tap, an answer, a closure, a kill and a launch keep it.               *)
LEMMA AccountInvStep ==
  ASSUME "killMidWrite" \notin Env, SessionTypeOK, RootMatchesLogin, AccountInv,
         [SessionNext]_sessionVars
  PROVE  AccountInv'
<1> USE UserAssumption DEF defaultsVars, sdkVars, callVars, Busy
<1>d. ASSUME NEW how \in {"crashed", "killed"}, Die(how),
             login' => savedID' \in accounts
      PROVE  AccountInv'
  <2>1. /\ app' = how /\ accounts \subseteq accounts'
        /\ \A d \in Calls : op'[d] = "idle"
    BY <1>d DEF Die, NoCalls
  <2> QED
    BY <1>d, <2>1 DEF AccountInv
<1>e. ASSUME NEW c \in Calls, NEW keep, Finish(c, keep), accounts' = accounts,
             app = "running", app' = app,
             login' => savedID' \in accounts,
             screen' = "home" => userID' \in accounts,
             userID' \in accounts \/ userID' = userID
      PROVE  AccountInv'
  <2>1. /\ op'[c] = "idle"
        /\ \A d \in Calls \ {c} : /\ op'[d] = op[d] /\ who'[d] = who[d]
                                  /\ ans'[d] = ans[d]
    BY <1>e DEF Finish, SessionTypeOK
  <2> QED
    BY <1>e, <2>1 DEF AccountInv
<1>1. ASSUME NEW c \in Calls, NEW u \in Uids,
             loginbtnclick(c, u) \/ clickonsignup(c, u)
               \/ googlebtnclick(c, u) \/ loginwithgooglebtnclick(c, u)
      PROVE  AccountInv'
  <2>1. PICK o \in {"signIn", "createUser", "googleSignup", "googleLogin"} :
          Start(c, o, u)
    BY <1>1 DEF loginbtnclick, clickonsignup, googlebtnclick,
                loginwithgooglebtnclick
  <2>2. /\ UNCHANGED <<app, userID, login, savedID, accounts, screen>>
        /\ app = "running"
    BY <1>1 DEF loginbtnclick, clickonsignup, googlebtnclick,
                loginwithgooglebtnclick, ActingOn
  <2>3. /\ op'[c] = o /\ ans'[c] = "none"
        /\ \A d \in Calls \ {c} : /\ op'[d] = op[d] /\ who'[d] = who[d]
                                  /\ ans'[d] = ans[d]
    BY <2>1 DEF Start, SessionTypeOK
  <2> QED
    BY <2>1, <2>2, <2>3 DEF AccountInv
<1>2. CASE click_onSignupBtn \/ backToLogin \/ click_onLogoutBtn
  BY <1>2 DEF click_onSignupBtn, backToLogin, click_onLogoutBtn, ActingOn,
              Forgets, AccountInv
<1>3. ASSUME NEW c \in Calls, serveAuth(c) \/ serveProfile(c) \/ refuse(c)
      PROVE  AccountInv'
  <2>1. /\ UNCHANGED <<app, userID, login, savedID, screen, op, who>>
        /\ accounts \subseteq accounts' /\ app = "running"
    BY <1>3 DEF serveAuth, serveProfile, refuse
  <2>2. \A d \in Calls \ {c} : ans'[d] = ans[d]
    BY <1>3 DEF serveAuth, serveProfile, refuse, SessionTypeOK
  <2>3. ans'[c] = "ok" \/ op[c] = "profile" => who[c] \in accounts'
    <3>1. CASE serveAuth(c)
      BY <3>1 DEF serveAuth
    <3>2. CASE serveProfile(c)
      BY <2>1, <3>2 DEF serveProfile, AccountInv
    <3>3. CASE refuse(c)
      BY <3>3 DEF refuse, SessionTypeOK
    <3> QED
      BY <1>3, <3>1, <3>2, <3>3
  <2> QED
    BY <2>1, <2>2, <2>3 DEF AccountInv
<1>4. ASSUME NEW c \in Calls, loginFailed(c) \/ googleDone(c) PROVE AccountInv'
  BY <1>4, <1>d, <1>e DEF loginFailed, googleDone, Answered, AccountInv
<1>5. ASSUME NEW c \in Calls, loginDone(c) PROVE AccountInv'
  <2>1. who[c] \in accounts
    BY <1>5 DEF loginDone, Answered, AccountInv
  <2> QED
    BY <1>5, <1>d, <1>e, <2>1 DEF loginDone, Home, Answered
<1>6. ASSUME NEW c \in Calls, createUserDone(c) PROVE AccountInv'
  <2>1. CASE Answered(c, "createUser", "error")
    BY <1>6, <1>e, <2>1 DEF createUserDone, Answered, AccountInv
  <2>2. CASE Answered(c, "createUser", "ok")
    <3>1. /\ who[c] \in accounts
          /\ UNCHANGED <<app, login, savedID, accounts, screen, who>>
          /\ userID' = who[c]
      BY <1>6, <2>2 DEF createUserDone, Answered, TakesUser, AccountInv
    <3>2. \A d \in Calls \ {c} : op'[d] = op[d] /\ ans'[d] = ans[d]
      BY <1>6, <2>2 DEF createUserDone, Answered, SessionTypeOK
    <3> QED
      BY <2>2, <3>1, <3>2 DEF Answered, AccountInv
  <2> QED
    BY <1>6, <2>1, <2>2 DEF createUserDone
<1>7. ASSUME NEW c \in Calls, profileDone(c) PROVE AccountInv'
  <2>1. userID \in accounts /\ app = "running"
    BY <1>7 DEF profileDone, Answered, AccountInv
  <2> QED
    BY <1>7, <1>e, <2>1 DEF profileDone
<1>8. CASE kill
  BY <1>8, <1>d DEF kill, AccountInv
<1>9. CASE launch
  <2>1. savedID \in accounts => savedID # NoUser
    BY DEF SessionTypeOK
  <2> QED
    BY <1>9, <2>1 DEF launch, LaunchUser, AccountInv
<1>10. CASE UNCHANGED sessionVars
  BY <1>10 DEF sessionVars, AccountInv
<1> QED
  BY <1>1, <1>2, <1>3, <1>4, <1>5, <1>6, <1>7, <1>8, <1>9, <1>10
     DEF SessionNext, Taps, Answers, Closures

(* However requests overlap, whoever is signed in, or about to be, has an  *)
(* account.                                                                *)
THEOREM AccountInvAlways ==
  ASSUME "killMidWrite" \notin Env PROVE SessionSpec => []AccountInv
<1>1. SessionInit => AccountInv
  BY DEF SessionInit, AccountInv, Busy
<1>2. SessionTypeOK /\ RootMatchesLogin /\ AccountInv /\ [SessionNext]_sessionVars
      => AccountInv'
  BY AccountInvStep
<1> QED
  BY <1>1, <1>2, SessionTypeCorrect, RootAlwaysMatches, PTL DEF SessionSpec

(* A launch that goes to the home screen finds a saved user there, even    *)
(* when a sign up and a log in overlapped.                                 *)
THEOREM LaunchFindsUser ==
  ASSUME "killMidWrite" \notin Env PROVE SessionSpec => []LoginImpliesSavedUser
<1>1. SessionTypeOK /\ AccountInv => LoginImpliesSavedUser
  BY DEF SessionTypeOK, AccountInv, LoginImpliesSavedUser
<1> QED
  BY <1>1, SessionTypeCorrect, AccountInvAlways, PTL

-----------------------------------------------------------------------------
(* The session implements the signed-in user.                              *)

(* A step of the app is a step of the signed-in user, or hidden from it.   *)
LEMMA SessionStepSimulates ==
  ASSUME Patient, SessionTypeOK, SessionInv, AccountInv, SessionTypeOK', SessionInv',
         [SessionNext]_sessionVars
  PROVE  [SignedIn!UserNext]_SignedIn!userVars
<1> USE UserAssumption DEF defaultsVars, sdkVars, callVars
<1> DEFINE usr == IF login THEN savedID ELSE NoUser
           shw == IF app = "running" /\ screen = "home" THEN userID ELSE NoUser
<1>0. "overlap" \notin Env /\ "killMidWrite" \notin Env
  BY DEF Patient
<1>a. ASSUME accounts' = accounts, usr' = usr, shw' = shw
      PROVE  UNCHANGED SignedIn!userVars
  BY <1>a DEF SignedIn!userVars
<1>b. ASSUME NEW S \in SUBSET Uids, accounts' = accounts \cup S,
             usr' = usr, shw' = shw
      PROVE  SignedIn!UserNext
  BY <1>b DEF SignedIn!UserNext, SignedIn!Register
<1>c. ASSUME NEW u \in accounts, usr = NoUser, usr' = u, shw' = u,
             accounts' = accounts
      PROVE  SignedIn!UserNext
  BY <1>c DEF SignedIn!UserNext, SignedIn!SignIn, SessionTypeOK
<1>d. ASSUME NEW how \in {"crashed", "killed"}, Die(how), usr' = usr
      PROVE  SignedIn!UserNext
  <2>1. PICK S \in SUBSET Creating : accounts' = accounts \cup S
    BY <1>d DEF Die
  <2>2. Creating \subseteq Uids
    BY DEF Creating, SessionTypeOK, Busy
  <2>3. app' # "running"
    BY <1>d DEF Die
  <2>4. CASE shw = NoUser
    BY <1>b, <1>d, <2>1, <2>2, <2>3, <2>4
  <2>5. CASE shw # NoUser
    <3>1. \A c \in Calls : ~Busy(c)
      BY <2>5 DEF SessionInv, CallPart
    <3>2. accounts' = accounts
      BY <2>1, <3>1 DEF Creating, Busy
    <3> QED
      BY <1>d, <2>3, <3>2 DEF SignedIn!UserNext, SignedIn!GoAway
  <2> QED
    BY <2>4, <2>5
<1>1. ASSUME NEW c \in Calls, NEW u \in Uids,
             loginbtnclick(c, u) \/ clickonsignup(c, u)
               \/ googlebtnclick(c, u) \/ loginwithgooglebtnclick(c, u)
      PROVE  UNCHANGED SignedIn!userVars
  BY <1>1, <1>a DEF loginbtnclick, clickonsignup, googlebtnclick,
                    loginwithgooglebtnclick
<1>2. CASE click_onSignupBtn \/ backToLogin
  BY <1>2, <1>a DEF click_onSignupBtn, backToLogin, ActingOn
<1>3. CASE click_onLogoutBtn
  <2>1. shw # NoUser /\ shw' = NoUser /\ usr' = NoUser /\ accounts' = accounts
    BY <1>3 DEF click_onLogoutBtn, ActingOn, Forgets, SessionTypeOK
  <2> QED
    BY <2>1 DEF SignedIn!UserNext, SignedIn!SignOut
<1>4. ASSUME NEW c \in Calls, serveAuth(c) \/ refuse(c)
      PROVE  SignedIn!UserNext
  <2>1. /\ UNCHANGED <<app, userID, login, savedID, screen>> /\ Busy(c)
        /\ accounts' = accounts \cup {} \/ accounts' = accounts \cup {who[c]}
    BY <1>4 DEF serveAuth, refuse
  <2>2. who[c] \in Uids
    BY <2>1 DEF SessionTypeOK
  <2>3. usr' = usr /\ shw' = shw
    BY <2>1
  <2>4. PICK S \in SUBSET Uids : accounts' = accounts \cup S
    BY <2>1, <2>2
  <2> QED
    BY <1>b, <2>3, <2>4
<1>5. ASSUME NEW c \in Calls, serveProfile(c) PROVE UNCHANGED SignedIn!userVars
  BY <1>5, <1>a DEF serveProfile
<1>6. ASSUME NEW c \in Calls, loginFailed(c) \/ googleDone(c)
      PROVE  UNCHANGED SignedIn!userVars
  <2>1. live[c]
    BY <1>6 DEF loginFailed, googleDone, Answered, SessionInv, CallPart, Busy
  <2> QED
    BY <1>6, <1>a, <2>1 DEF loginFailed, googleDone
<1>7. ASSUME NEW c \in Calls, loginDone(c) PROVE SignedIn!UserNext
  <2>1. /\ Busy(c) /\ app = "running" /\ op[c] = "signIn" /\ ans[c] = "ok"
        /\ userID' = who[c] /\ savedID' = who[c]
    BY <1>7 DEF loginDone, Answered, Busy
  <2>2. live[c] /\ who[c] \in accounts /\ ~login
    BY <2>1 DEF SessionInv, CallPart, AccountInv, RootMatchesLogin
  <2>3. login' /\ screen' = "home" /\ UNCHANGED <<app, accounts>>
    BY <1>0, <1>7, <2>2 DEF loginDone, Home
  <2> QED
    BY <1>c, <2>1, <2>2, <2>3
<1>8. ASSUME NEW c \in Calls, createUserDone(c) PROVE UNCHANGED SignedIn!userVars
  <2>1. Busy(c) /\ op[c] = "createUser"
    BY <1>8 DEF createUserDone, Answered, Busy
  <2>2. screen # "home" /\ UNCHANGED <<app, login, savedID, accounts, screen>>
    BY <1>8, <2>1 DEF createUserDone, SessionInv, CallPart
  <2> QED
    BY <1>a, <2>2
<1>9. ASSUME NEW c \in Calls, profileDone(c) PROVE SignedIn!UserNext
  <2>1. Busy(c) /\ app = "running" /\ op[c] = "profile" /\ login' /\ userID' = userID
    BY <1>9 DEF profileDone, Answered, Busy
  <2>2. userID \in accounts /\ ~login
    BY <2>1 DEF SessionInv, CallPart, AccountInv, RootMatchesLogin
  <2>3. savedID' = userID /\ screen' = "home" /\ UNCHANGED <<app, accounts>>
    BY <1>0, <1>9 DEF profileDone
  <2> QED
    BY <1>c, <2>1, <2>2, <2>3
<1>10. CASE kill
  BY <1>10, <1>d DEF kill
<1>11. CASE launch
  <2>1. usr' = usr /\ accounts' = accounts /\ shw' = usr
    BY <1>11 DEF launch, LaunchUser, SessionInv
  <2> QED
    BY <2>1 DEF SignedIn!UserNext, SignedIn!ComeBack
<1>12. CASE UNCHANGED sessionVars
  BY <1>12, <1>a DEF sessionVars
<1> QED
  BY <1>1, <1>2, <1>3, <1>4, <1>5, <1>6, <1>7, <1>8, <1>9, <1>10, <1>11, <1>12
     DEF SessionNext, Taps, Answers, Closures

(* For a patient user the app is the signed-in user: it signs in nobody    *)
(* without an account, changes the user only by signing out from the home  *)
(* screen, and brings the same user back at every launch.                  *)
THEOREM SessionRefinesSignedIn ==
  ASSUME Patient PROVE SessionSpec => ImplementsSignedIn
<1>0. "killMidWrite" \notin Env
  BY DEF Patient
<1>1. SessionInit => SignedIn!UserInit
  BY DEF SessionInit, SignedIn!UserInit
<1>2. /\ SessionTypeOK /\ SessionInv /\ AccountInv
      /\ SessionTypeOK' /\ SessionInv' /\ [SessionNext]_sessionVars
      => [SignedIn!UserNext]_SignedIn!userVars
  BY SessionStepSimulates
<1>3. SessionSpec => []AccountInv
  BY <1>0, AccountInvAlways
<1> QED
  BY <1>1, <1>2, <1>3, SessionTypeCorrect, SessionInvAlways, PTL
     DEF SessionSpec, ImplementsSignedIn, SignedIn!UserSpec

=============================================================================
