----------------------------- MODULE MCProviders -----------------------------
(* Instance for TLC of what is asked of providers whose answers may be late   *)
(* or lost: codes of Firebase, the messages of one notification, which Meta   *)
(* and the SMS gateway take, and the reminders that become such messages. A   *)
(* behaviour is about one of them, chosen in the initial state; the others    *)
(* stay as they start.                                                        *)
EXTENDS PhoneSignIn, Deliveries, TLC

VARIABLE focus

providerVars == <<focus, phoneVars, deliveryVars>>

Interchangeable == Permutations(Phones) \cup Permutations(Checks) \cup Permutations(Notes)

ProvidersInit ==
    /\ focus \in {"sign-in", "messages", "reminders"}
    /\ PhoneInit /\ DeliveriesInit
    /\ focus # "reminders" => starts = WindowTicks /\ \A m, n \in Notes : kind[m] = kind[n]
    /\ focus # "messages" => optIn /\ \A n \in Notes : kind[n] = "event_reminder"

\* The messages are those of one notification; reminders are made and nobody is sent one.
OneNote == Cardinality({n \in Notes : made[n] = 1}) <= 1
NoneSent == \A a \in attempts : a.stage = "chosen"

ProvidersNext ==
    /\ UNCHANGED focus
    /\ \/ focus = "sign-in" /\ PhoneNext /\ UNCHANGED deliveryVars
       \/ focus = "messages" /\ DeliveriesNext /\ OneNote' /\ UNCHANGED <<starts, phoneVars>>
       \/ focus = "reminders" /\ DeliveriesNext /\ NoneSent' /\ UNCHANGED <<optIn, phoneVars>>

ProvidersSpec == ProvidersInit /\ [][ProvidersNext]_providerVars
=============================================================================
