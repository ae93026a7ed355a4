----------------------------- MODULE RateLimits -----------------------------
(* The in-memory sliding-window limiter of chat messages and socket events,   *)
(* for one key. take() is synchronous; it reads the clock twice.              *)
EXTENDS Naturals, Sequences, FiniteSets, FiniteSetsExt

CONSTANTS
    Limit, WindowMs,   \* createSlidingWindowLimiter()'s options
    SecondMs,          \* a second, in ticks of the clock
    LastMs             \* bound: the clock

ASSUME RateLimitsAssumption ==
    /\ Limit \in Nat \ {0} /\ WindowMs \in Nat \ {0} /\ SecondMs \in Nat \ {0}
    /\ LastMs \in Nat

VARIABLES
    clockMs,     \* Date.now()
    admitted,    \* every time take() returned true (at), in order
    hits         \* the key's list of hits: which of those it still holds

limiterVars == <<clockMs, hits, admitted>>

RateLimitsInit == clockMs = 0 /\ hits = {} /\ admitted = <<>>

\* recent(): hits that are still in the window at time t.
RecentTooFew(t) == {i \in hits : admitted[i] + WindowMs > t + 1}
Recent(t) == {i \in hits : admitted[i] + WindowMs > t}

\* take(): the clock may move between the check and the hit.
Take(later) ==
    /\ later >= clockMs
    /\ clockMs' = later
    /\ IF Cardinality(Recent(clockMs)) >= Limit
       THEN hits' = Recent(clockMs) /\ UNCHANGED admitted
       ELSE /\ admitted' = Append(admitted, later)
            /\ hits' = Recent(clockMs) \cup {Len(admitted) + 1}

\* retryAfterSeconds().
RetryAfterSeconds ==
    IF Recent(clockMs) = {} THEN 0
    ELSE LET left == admitted[Min(Recent(clockMs))] + WindowMs - clockMs
             seconds == (left + SecondMs - 1) \div SecondMs
         IN  IF seconds > 1 THEN seconds ELSE 1

MillisecondPasses ==
    /\ clockMs < LastMs
    /\ clockMs' = clockMs + 1
    /\ UNCHANGED <<hits, admitted>>

RateLimitsNext ==
    \/ \E later \in clockMs..(IF clockMs < LastMs THEN clockMs + 1 ELSE clockMs) : Take(later)
    \/ MillisecondPasses

-----------------------------------------------------------------------------
(* Properties *)

\* No window of WindowMs, wherever it starts, holds more than Limit hits that were let through,
\* and whoever waits for retryAfterSeconds() is let through (sliding-window.ts).
LimitHolds ==
    /\ \A t \in 0..LastMs :
         Cardinality({i \in DOMAIN admitted : admitted[i] <= t /\ admitted[i] + WindowMs > t}) <= Limit
    /\ Cardinality(Recent(clockMs + RetryAfterSeconds * SecondMs)) < Limit

=============================================================================
