----------------------------- MODULE SeatLedger -----------------------------
(***************************************************************************)
(* What the sale of an event's passes promises, without orders, payments,  *)
(* webhooks, jobs or a clock: every claim on seats is free, held, lapsed,  *)
(* sold or returned, a seat is given only when it is there, and what was   *)
(* sold can only be returned.                                              *)
(***************************************************************************)
EXTENDS Integers, FiniteSets

CONSTANTS Owners,      \* who can claim seats
          Slots,       \* the claims of one owner
          MaxPasses,   \* the most passes of one claim
          Limits,      \* the capacities the event can have
          Unlimited

VARIABLES capacity,  \* passes on sale, or Unlimited
          claims     \* per claim: its state and its passes

ledger == <<capacity, claims>>

Claims == Owners \X Slots

In(states) == {c \in Claims : claims[c].state \in states}

\* The seats of a set of claims, one element per seat.
SeatsOf(S) == {seat \in S \X (1 .. MaxPasses) : seat[2] <= claims[seat[1]].passes}

FitsBeside(S, passes) ==
  capacity # Unlimited => Cardinality(SeatsOf(S)) + passes <= capacity

LedgerInit ==
  /\ capacity \in Limits \cup {Unlimited}
  /\ claims = [c \in Claims |-> [state |-> "free", passes |-> 0]]

Move(S, state) ==
  /\ claims' = [c \in Claims |-> IF c \in S THEN [claims[c] EXCEPT !.state = state] ELSE claims[c]]
  /\ UNCHANGED capacity

\* Seats are held for a new claim; the owner's earlier hold ends with it.
HoldSeats(c, passes) ==
  LET replaced == {d \in In({"held"}) : d[1] = c[1]}
  IN  /\ c \in In({"free"})
      /\ FitsBeside(In({"held", "sold"}) \ replaced, passes)
      /\ claims' = [d \in Claims |->
            IF d = c THEN [state |-> "held", passes |-> passes]
            ELSE IF d \in replaced THEN [claims[d] EXCEPT !.state = "lapsed"]
            ELSE claims[d]]
      /\ UNCHANGED capacity

\* Holds end: their time is up, or the checkout failed.
Lapse(S) == S # {} /\ S \subseteq In({"held"}) /\ Move(S, "lapsed")

\* A held claim can always be sold, a lapsed one when its seats are still there.
Sell(c) ==
  /\ \/ c \in In({"held"})
     \/ c \in In({"lapsed"}) /\ FitsBeside(In({"held", "sold"}), claims[c].passes)
  /\ Move({c}, "sold")

\* A paid claim that cannot be honoured, or a sale that is undone: the money goes back.
GiveBack(c) == c \in In({"held", "lapsed", "sold"}) /\ Move({c}, "returned")

SetCapacity(limit) ==
  /\ limit # Unlimited => Cardinality(SeatsOf(In({"held", "sold"}))) <= limit
  /\ capacity' = limit
  /\ UNCHANGED claims

LedgerNext ==
  \/ \E c \in Claims :
       \/ \E passes \in 1 .. MaxPasses : HoldSeats(c, passes)
       \/ Sell(c)
       \/ GiveBack(c)
  \/ \E S \in SUBSET Claims : Lapse(S)
  \/ \E limit \in Limits \cup {Unlimited} : SetCapacity(limit)

LedgerSpec == LedgerInit /\ [][LedgerNext]_ledger

=============================================================================
