------------------------------ MODULE MCSafety ------------------------------
(* Instance for TLC of the safety of two members: what connects them, and the *)
(* reports about one of them. A behaviour is about one of the two modules,    *)
(* chosen in the initial state; the other one stays as it starts.             *)
EXTENDS Connections, Moderation, TLC

VARIABLE focus

safetyVars == <<focus, vars, moderationVars>>

SafetyInit == focus \in {"connections", "moderation"} /\ Init /\ ModerationInit

SafetyNext ==
    /\ UNCHANGED focus
    /\ \/ focus = "connections" /\ Next /\ UNCHANGED moderationVars
       \/ focus = "moderation" /\ ModerationNext /\ UNCHANGED vars

SafetySpec == SafetyInit /\ [][SafetyNext]_safetyVars

\* The members of the pair and the handlers are interchangeable, and so are the reporters.
\* The requests and the messages of Moderation are the same model values as the handlers and
\* the members of Connections: the two modules never meet, and the group stays small.
Interchangeable == Permutations(Members) \cup Permutations(Slots) \cup Permutations(Reporters)
=============================================================================
