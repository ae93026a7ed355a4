------------------------------ MODULE MCSignIn ------------------------------
(* Instance for TLC of who may act and as whom: a member's sanctions and      *)
(* sign-ins, the session of a browser and an administrator's failed sign-ins. *)
(* A behaviour is about one of the three modules, chosen in the initial       *)
(* state; the others stay as they start, where none of their fair actions is  *)
(* enabled.                                                                   *)
EXTENDS Accounts, Sessions, AdminSignIn

VARIABLE focus

signInVars == <<focus, accountVars, sessionVars, adminVars>>

SignInInit ==
    /\ focus \in {"account", "session", "admin"}
    /\ AccountInit /\ AdminSignInInit
    /\ SessionsInit
    /\ focus # "session" => app = "member" /\ locks

SignInNext ==
    /\ UNCHANGED focus
    /\ \/ focus = "account" /\ AccountNext /\ UNCHANGED <<sessionVars, adminVars>>
       \/ focus = "session" /\ SessionsNext /\ UNCHANGED <<accountVars, adminVars>>
       \/ focus = "admin" /\ AdminSignInNext /\ UNCHANGED <<accountVars, sessionVars>>

SignInSpec ==
    SignInInit /\ [][SignInNext]_signInVars /\ AccountFairness /\ SessionsFairness
=============================================================================
