------------------------------ MODULE MCScreens ------------------------------
(* Instance for TLC of what members and administrators see: the pages and     *)
(* their cached queries, and one conversation. A behaviour is about one of    *)
(* the two, chosen in the initial state; the other one stays as it starts.    *)
EXTENDS Screens, Messaging

VARIABLE focus

viewVars == <<focus, screenVars, messagingVars>>

\* Queries that no mutation changes (cities, logs) have no saved change to show.
ViewInit ==
    /\ focus \in {"pages", "conversation"}
    /\ ScreensInit /\ MessagingInit
    /\ \E m \in DOMAIN Mutations : query \in Mutations[m].writes \ Mutations[m].lags
    /\ focus = "conversation" => app = "web" /\ query = "messages"

\* Behaviours end with the session of the last visitor.
ViewNext ==
    /\ UNCHANGED focus
    /\ \/ focus = "pages" /\ (SignedIn \/ signIns < MaxSignIns) /\ ScreensNext /\ UNCHANGED messagingVars
       \/ focus = "conversation" /\ MessagingNext /\ UNCHANGED screenVars

ViewSpec == ViewInit /\ [][ViewNext]_viewVars

\* The sender's calls are interchangeable.
Interchangeable == Permutations(Calls)
=============================================================================
