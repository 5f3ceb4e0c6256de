---------------------------- MODULE SignedInUser ----------------------------
(***************************************************************************)
(* What a session promises: somebody who has registered signs in, stays    *)
(* the one and only user over any number of launches, and signs out.  The  *)
(* app may be away (killed, or not yet launched); when it shows the home   *)
(* screen it shows it to the user who signed in.                           *)
(***************************************************************************)
CONSTANTS Uids, NoUser

VARIABLES
  registered,  \* who has an account
  user,        \* who is signed in, or NoUser
  shown        \* whose home screen is on show, or NoUser

userVars == <<registered, user, shown>>

UserInit ==
  /\ registered = {}
  /\ user = NoUser
  /\ shown = NoUser

Register ==
  /\ \E S \in SUBSET Uids : registered' = registered \cup S
  /\ UNCHANGED <<user, shown>>

SignIn(u) ==
  /\ user = NoUser
  /\ u \in registered
  /\ user' = u
  /\ shown' = u
  /\ UNCHANGED registered

SignOut ==
  /\ shown # NoUser
  /\ user' = NoUser
  /\ shown' = NoUser
  /\ UNCHANGED registered

GoAway == shown' = NoUser /\ UNCHANGED <<registered, user>>
ComeBack == shown' = user /\ UNCHANGED <<registered, user>>

UserNext ==
  \/ Register
  \/ \E u \in Uids : SignIn(u)
  \/ SignOut
  \/ GoAway
  \/ ComeBack

UserSpec == UserInit /\ [][UserNext]_userVars

=============================================================================
