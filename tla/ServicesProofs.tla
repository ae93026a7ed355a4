--------------------------- MODULE ServicesProofs ---------------------------
(* What the services that stand on their own promise, for any number of       *)
(* notifications, pushes, restarts, pictures, organizers and tabs:            *)
(* deliveries, a member's profile and photo, events and their badges, the     *)
(* browser's tabs that share one session, the limiter and the request log,    *)
(* who is shown to whom, lists read page by page, and the dashboard's bars.   *)
EXTENDS Deliveries, Profiles, Catalogue, Sessions, RateLimits, ApiLogs, Discovery, Paging, Dashboard,
        SequenceTheorems, FiniteSetTheorems, WellFoundedInduction, TLAPS

\* What EXCEPT does to one entry of a table with two keys.
LEMMA OneEntry ==
  ASSUME NEW S, NEW T, NEW V, NEW f \in [S -> [T -> V]], NEW s \in S, NEW t \in T, NEW v \in V,
         NEW g, g = [f EXCEPT ![s][t] = v]
  PROVE  /\ g \in [S -> [T -> V]] /\ g[s][t] = v
         /\ \A x \in S, y \in T : x # s \/ y # t => g[x][y] = f[x][y]
  OBVIOUS

-----------------------------------------------------------------------------
(* Deliveries: who sends, and what the provider has taken *)

DeliveriesSpec == DeliveriesInit /\ [][DeliveriesNext]_deliveryVars

PastClaim == {"claimed", "sent", "threw"}

Attempt ==
    [note: Notes, push: Nat, channel: Channels, stage: {"chosen", "allowed"} \cup PastClaim,
     tries: 0..(MaxTries - 1)]

DeliveryRow ==
    [status: {"none", "pending", "sent", "failed", "delivered", "read"}, known: BOOLEAN]

Pending == [status |-> "pending", known |-> FALSE]

DeliveriesTyped ==
    /\ attempts \subseteq Attempt
    /\ pushed \in [Notes -> Nat]
    /\ row \in [Notes -> [Channels -> DeliveryRow]]
    /\ accepted \in [Notes -> [Channels -> Nat]]
    /\ masked \in [Notes -> [Channels -> Nat]]
    /\ reported \in [Notes -> Nat]

\* The unique reference_key lets one attempt pass for each notification and channel.
OneSender ==
    \A a, b \in attempts :
        /\ a.stage \in PastClaim /\ b.stage \in PastClaim
        /\ a.note = b.note /\ a.channel = b.channel
        => a = b

Unanswered(a) ==
    /\ accepted[a.note][a.channel] = masked[a.note][a.channel]
    /\ masked[a.note][a.channel] <= a.tries

\* While the attempt that has claimed the row is under way, nobody else touches the row. What
\* the provider has before the next request, it has of requests that a gateway answered.
SendersPending ==
    \A a \in attempts : a.stage \in PastClaim =>
        /\ row[a.note][a.channel] = Pending
        /\ a.stage = "claimed" => Unanswered(a)
        /\ a.stage = "sent" => accepted[a.note][a.channel] > 0

\* Nothing is sent without a row, nor again after an answer that told the truth.
TakenOnce ==
    \A n \in Notes, c \in Channels :
        /\ accepted[n][c] <= 1 + masked[n][c] /\ accepted[n][c] <= MaxTries
        /\ c = "sms" => masked[n][c] = 0
        /\ row[n][c] = NoDelivery => accepted[n][c] = 0 /\ masked[n][c] = 0

\* A report is applied to a row that knows its message ID, and to no other.
ReportsKnown ==
    \A n \in Notes :
        IF row[n]["whatsapp"].known
        THEN Rank(row[n]["whatsapp"].status) >= reported[n] /\ accepted[n]["whatsapp"] > 0
        ELSE reported[n] = 0

DeliveryInv == DeliveriesTyped /\ OneSender /\ SendersPending /\ TakenOnce /\ ReportsKnown

LEMMA RankTyped == \A status : Rank(status) \in Nat /\ Rank("sent") = 1
  BY DEF Rank

\* What moving an attempt to another stage does.
LEMMA StageMoves ==
  ASSUME DeliveriesTyped, NEW a \in attempts, NEW stage \in {"allowed"} \cup PastClaim, Stage(a, stage)
  PROVE  \E b \in Attempt :
           /\ attempts' = (attempts \ {a}) \cup {b}
           /\ b.note = a.note /\ b.channel = a.channel /\ b.stage = stage /\ b.tries = a.tries
  <1> DEFINE b == [a EXCEPT !.stage = stage]
  <1>1. a \in Attempt
    BY DEF DeliveriesTyped
  <1>2. b \in Attempt /\ b.note = a.note /\ b.channel = a.channel /\ b.stage = stage
        /\ b.tries = a.tries
    BY <1>1 DEF Attempt
  <1>3. attempts' = (attempts \ {a}) \cup {b}
    BY DEF Stage
  <1> QED BY <1>2, <1>3

\* Attempts that have not claimed anything come and go without effect.
LEMMA UnclaimedMove ==
  ASSUME DeliveryInv, attempts' \subseteq Attempt, pushed' \in [Notes -> Nat],
         UNCHANGED <<row, accepted, masked, reported>>,
         \A b \in attempts' : b.stage \in PastClaim => b \in attempts
  PROVE  DeliveryInv'
  BY DEF DeliveryInv, DeliveriesTyped, OneSender, SendersPending, TakenOnce, ReportsKnown,
         Unanswered

LEMMA PushKeeps ==
  ASSUME DeliveryInv, NEW n \in Notes, Push(n), UNCHANGED <<row, accepted, masked, reported>>
  PROVE  DeliveryInv'
  <1>1. /\ pushed \in [Notes -> Nat] /\ attempts \subseteq Attempt
        /\ attempts' = attempts \cup Deliver(n) /\ pushed' = [pushed EXCEPT ![n] = @ + 1]
    BY DEF DeliveryInv, DeliveriesTyped, Push
  <1>2. Deliver(n) \subseteq Attempt /\ \A b \in Deliver(n) : b.stage = "chosen"
    BY <1>1, DeliveriesAssumption DEF Deliver, Attempt, Channels
  <1>3. attempts' \subseteq Attempt /\ \A b \in attempts' : b.stage \in PastClaim => b \in attempts
    BY <1>1, <1>2 DEF PastClaim
  <1>4. pushed' \in [Notes -> Nat]
    BY <1>1
  <1> QED BY <1>3, <1>4, UnclaimedMove

LEMMA CheckRecipientKeeps ==
  ASSUME DeliveryInv, NEW a \in attempts, CheckRecipient(a)
  PROVE  DeliveryInv'
  <1>1. /\ DeliveriesTyped /\ UNCHANGED <<pushed, row, accepted, masked, reported>>
        /\ attempts' = attempts \ {a} \/ Stage(a, "allowed")
    BY DEF DeliveryInv, CheckRecipient
  <1>2. attempts' \subseteq Attempt /\ \A b \in attempts' : b.stage \in PastClaim => b \in attempts
    <2>1. CASE attempts' = attempts \ {a}
      BY <1>1, <2>1 DEF DeliveriesTyped
    <2>2. CASE Stage(a, "allowed")
      BY <1>1, <2>2, StageMoves DEF DeliveriesTyped, PastClaim
    <2> QED BY <1>1, <2>1, <2>2
  <1>3. pushed' \in [Notes -> Nat]
    BY <1>1 DEF DeliveriesTyped
  <1> QED BY <1>1, <1>2, <1>3, UnclaimedMove

LEMMA ClaimKeeps ==
  ASSUME DeliveryInv, NEW a \in attempts, Claim(a)
  PROVE  DeliveryInv'
  <1>1. /\ DeliveriesTyped /\ UNCHANGED <<pushed, accepted, masked, reported>>
        /\ a \in Attempt /\ a.note \in Notes /\ a.channel \in Channels /\ a.stage = "allowed"
    BY DEF DeliveryInv, DeliveriesTyped, Attempt, Claim
  <1>2. CASE ~Claimable(a)
    <2>1. attempts' = attempts \ {a} /\ UNCHANGED row
      BY <1>2 DEF Claim
    <2> QED BY <1>1, <2>1, UnclaimedMove DEF DeliveriesTyped
  <1>3. CASE Claimable(a)
    <2>1. row[a.note][a.channel] = NoDelivery /\ Stage(a, "claimed") /\ Write(a, "pending", FALSE)
      BY <1>3 DEF Claim, Claimable
    <2>2. PICK b \in Attempt :
             /\ attempts' = (attempts \ {a}) \cup {b}
             /\ b.note = a.note /\ b.channel = a.channel /\ b.stage = "claimed"
      BY <1>1, <2>1, StageMoves DEF PastClaim
    <2>3. Pending \in DeliveryRow /\ row' = [row EXCEPT ![a.note][a.channel] = Pending]
      BY <2>1 DEF Pending, DeliveryRow, Write
    <2>4. /\ row' \in [Notes -> [Channels -> DeliveryRow]] /\ row'[a.note][a.channel] = Pending
          /\ \A n \in Notes, c \in Channels : n # a.note \/ c # a.channel => row'[n][c] = row[n][c]
      BY <1>1, <2>3, OneEntry DEF DeliveriesTyped
    <2>5. \A o \in attempts : o.stage \in PastClaim => o.note # a.note \/ o.channel # a.channel
      BY <2>1 DEF DeliveryInv, SendersPending, Pending, NoDelivery
    <2>6. DeliveriesTyped' /\ OneSender'
      BY <1>1, <2>2, <2>4, <2>5 DEF DeliveryInv, DeliveriesTyped, OneSender
    <2>7. accepted[a.note][a.channel] = 0 /\ masked[a.note][a.channel] = 0 /\ b.tries \in Nat
      BY <1>1, <2>1, <2>2, DeliveriesAssumption DEF DeliveryInv, TakenOnce, Attempt
    <2>8. SendersPending'
      <3> SUFFICES ASSUME NEW o \in attempts', o.stage \in PastClaim
                   PROVE  /\ row'[o.note][o.channel] = Pending
                          /\ o.stage = "claimed" => Unanswered(o)
                          /\ o.stage = "sent" => accepted[o.note][o.channel] > 0
        BY <1>1 DEF SendersPending, Unanswered
      <3>1. CASE o = b
        BY <2>2, <2>4, <2>7, <3>1 DEF Unanswered
      <3>2. CASE o # b
        <4>1. o \in attempts /\ o.note \in Notes /\ o.channel \in Channels
          BY <1>1, <2>2, <3>2 DEF DeliveriesTyped, Attempt
        <4> QED BY <2>4, <2>5, <4>1 DEF DeliveryInv, SendersPending
      <3> QED BY <3>1, <3>2
    <2>9. TakenOnce'
      BY <1>1, <2>4, <2>7 DEF DeliveryInv, TakenOnce, Pending, NoDelivery
    <2>10. ReportsKnown'
      BY <1>1, <2>1, <2>4 DEF DeliveryInv, ReportsKnown, Pending, NoDelivery, Channels
    <2> QED BY <2>6, <2>8, <2>9, <2>10 DEF DeliveryInv
  <1> QED BY <1>2, <1>3

\* What the claiming attempt knows of its row.
LEMMA SenderKnows ==
  ASSUME DeliveryInv, NEW a \in attempts, a.stage \in PastClaim
  PROVE  /\ DeliveriesTyped /\ a \in Attempt /\ a.note \in Notes /\ a.channel \in Channels
         /\ row[a.note][a.channel] = Pending
         /\ a.stage = "claimed" => Unanswered(a)
         /\ a.stage = "sent" => accepted[a.note][a.channel] > 0
         /\ \A o \in attempts \ {a} : o.stage \in PastClaim => o.note # a.note \/ o.channel # a.channel
  BY DEF DeliveryInv, DeliveriesTyped, Attempt, SendersPending, OneSender

LEMMA ProviderSendKeeps ==
  ASSUME DeliveryInv, NEW a \in attempts, NEW taken \in BOOLEAN, NEW answer \in Answers,
         ProviderSend(a, taken, answer)
  PROVE  DeliveryInv'
  <1>1. PICK one \in {0, 1}, hidden \in {0, 1} :
           /\ one = (IF taken THEN 1 ELSE 0)
           /\ hidden = (IF taken /\ answer = "gateway" THEN 1 ELSE 0)
    OBVIOUS
  <1>2. /\ a.stage = "claimed" /\ UNCHANGED <<pushed, row, reported>> /\ Answerable(a, taken, answer)
        /\ accepted' = [accepted EXCEPT ![a.note][a.channel] = @ + one]
        /\ masked' = [masked EXCEPT ![a.note][a.channel] = @ + hidden]
        /\ IF Retried(a, answer)
           THEN attempts' = (attempts \ {a}) \cup {[a EXCEPT !.tries = @ + 1]}
           ELSE Stage(a, IF answer = "accepted" THEN "sent" ELSE "threw")
    BY <1>1 DEF ProviderSend
  <1>3. /\ DeliveriesTyped /\ a \in Attempt /\ a.note \in Notes /\ a.channel \in Channels
        /\ row[a.note][a.channel] = Pending /\ Unanswered(a)
        /\ \A o \in attempts \ {a} : o.stage \in PastClaim => o.note # a.note \/ o.channel # a.channel
    BY <1>2, SenderKnows DEF PastClaim
  <1>4. PICK before \in Nat, tries \in Nat :
           /\ before = accepted[a.note][a.channel] /\ before = masked[a.note][a.channel]
           /\ tries = a.tries /\ before <= tries /\ tries < MaxTries
    BY <1>3, DeliveriesAssumption DEF DeliveriesTyped, Attempt, Unanswered
  <1>5. /\ accepted' \in [Notes -> [Channels -> Nat]]
        /\ accepted'[a.note][a.channel] = before + one
        /\ \A n \in Notes, c \in Channels :
              n # a.note \/ c # a.channel => accepted'[n][c] = accepted[n][c]
    <2>1. accepted \in [Notes -> [Channels -> Nat]] /\ before + one \in Nat
      BY <1>3 DEF DeliveriesTyped
    <2>2. accepted' = [accepted EXCEPT ![a.note][a.channel] = before + one]
      BY <1>2, <1>3, <1>4, <2>1
    <2> HIDE DEF Channels
    <2> QED BY <1>3, <2>1, <2>2, OneEntry
  <1>6. /\ masked' \in [Notes -> [Channels -> Nat]]
        /\ masked'[a.note][a.channel] = before + hidden
        /\ \A n \in Notes, c \in Channels :
              n # a.note \/ c # a.channel => masked'[n][c] = masked[n][c]
    <2>1. masked \in [Notes -> [Channels -> Nat]] /\ before + hidden \in Nat
      BY <1>3 DEF DeliveriesTyped
    <2>2. masked' = [masked EXCEPT ![a.note][a.channel] = before + hidden]
      BY <1>2, <1>3, <1>4, <2>1
    <2> HIDE DEF Channels
    <2> QED BY <1>3, <2>1, <2>2, OneEntry
  <1>7. \E b \in Attempt :
           /\ attempts' = (attempts \ {a}) \cup {b}
           /\ b.note = a.note /\ b.channel = a.channel /\ b.stage \in PastClaim
           /\ b.stage = "sent" => taken
           /\ b.stage = "claimed" => one = hidden /\ before + hidden <= b.tries
    <2>1. CASE Retried(a, answer)
      <3> DEFINE b == [a EXCEPT !.tries = @ + 1]
      <3>1. attempts' = (attempts \ {a}) \cup {b}
        BY <1>2, <2>1
      <3>2. tries + 1 < MaxTries /\ answer \in {"busy", "gateway"}
        BY <1>4, <2>1 DEF Retried
      <3>3. /\ b \in Attempt /\ b.note = a.note /\ b.channel = a.channel
            /\ b.stage = "claimed" /\ b.tries = tries + 1
        BY <1>2, <1>3, <1>4, <3>2, DeliveriesAssumption DEF Attempt, PastClaim
      <3>4. one = hidden
        BY <1>1, <1>2, <3>2 DEF Answerable
      <3>5. before + hidden <= tries + 1
        BY <1>1, <1>4
      <3>6. /\ b.stage \in PastClaim
            /\ b.stage = "sent" => taken
            /\ b.stage = "claimed" => one = hidden /\ before + hidden <= b.tries
        BY <3>3, <3>4, <3>5 DEF PastClaim
      <3> HIDE DEF b
      <3> QED BY <3>1, <3>3, <3>6
    <2>2. CASE ~Retried(a, answer)
      <3>1. PICK stage \in {"sent", "threw"} : stage = IF answer = "accepted" THEN "sent" ELSE "threw"
        OBVIOUS
      <3>2. Stage(a, stage)
        BY <1>2, <2>2, <3>1
      <3>3. stage = "sent" => taken
        BY <1>2, <3>1 DEF Answerable
      <3> QED BY <1>3, <3>1, <3>2, <3>3, StageMoves DEF PastClaim
    <2> QED BY <2>1, <2>2
  <1>8. PICK b \in Attempt :
           /\ attempts' = (attempts \ {a}) \cup {b}
           /\ b.note = a.note /\ b.channel = a.channel /\ b.stage \in PastClaim
           /\ b.stage = "sent" => taken
           /\ b.stage = "claimed" => one = hidden /\ before + hidden <= b.tries
    BY <1>7
  <1>9. DeliveriesTyped' /\ OneSender'
    BY <1>2, <1>3, <1>5, <1>6, <1>8 DEF DeliveryInv, DeliveriesTyped, OneSender
  <1>10. SendersPending'
    <2> SUFFICES ASSUME NEW o \in attempts', o.stage \in PastClaim
                 PROVE  /\ row[o.note][o.channel] = Pending
                        /\ o.stage = "claimed" =>
                             /\ accepted'[o.note][o.channel] = masked'[o.note][o.channel]
                             /\ masked'[o.note][o.channel] <= o.tries
                        /\ o.stage = "sent" => accepted'[o.note][o.channel] > 0
      BY <1>2 DEF SendersPending, Unanswered
    <2>1. CASE o = b
      BY <1>1, <1>3, <1>5, <1>6, <1>8, <2>1
    <2>2. CASE o # b
      <3>1. o \in attempts \ {a} /\ o.note \in Notes /\ o.channel \in Channels
        BY <1>3, <1>8, <2>2 DEF DeliveriesTyped, Attempt
      <3> QED BY <1>3, <1>5, <1>6, <3>1 DEF DeliveryInv, SendersPending, Unanswered
    <2> QED BY <2>1, <2>2
  <1>11. TakenOnce'
    <2> SUFFICES ASSUME NEW n \in Notes, NEW c \in Channels
                 PROVE  /\ accepted'[n][c] <= 1 + masked'[n][c] /\ accepted'[n][c] <= MaxTries
                        /\ c = "sms" => masked'[n][c] = 0
                        /\ row[n][c] = NoDelivery => accepted'[n][c] = 0 /\ masked'[n][c] = 0
      BY <1>2 DEF TakenOnce
    <2>1. /\ accepted[n][c] <= 1 + masked[n][c] /\ accepted[n][c] <= MaxTries
          /\ c = "sms" => masked[n][c] = 0
          /\ row[n][c] = NoDelivery => accepted[n][c] = 0 /\ masked[n][c] = 0
      BY DEF DeliveryInv, TakenOnce
    <2>2. CASE n = a.note /\ c = a.channel
      <3>1. row[n][c] # NoDelivery
        BY <1>3, <2>2 DEF Pending, NoDelivery
      <3>2. c = "sms" => hidden = 0
        BY <1>1, <1>2, <2>2 DEF Answerable
      <3>3. c = "sms" => before = 0
        BY <1>4, <2>1, <2>2
      <3>4. before + one <= 1 + (before + hidden) /\ before + one <= MaxTries
        BY <1>1, <1>4, DeliveriesAssumption
      <3> QED BY <1>5, <1>6, <2>2, <3>1, <3>2, <3>3, <3>4
    <2>3. CASE n # a.note \/ c # a.channel
      BY <1>5, <1>6, <2>1, <2>3
    <2> QED BY <2>2, <2>3
  <1>12. ReportsKnown'
    BY <1>2, <1>3, <1>5 DEF DeliveryInv, ReportsKnown, Pending, Channels
  <1> QED BY <1>9, <1>10, <1>11, <1>12 DEF DeliveryInv

\* The claiming attempt ends, and writes how the delivery went or nothing at all.
LEMMA AttemptEnds ==
  ASSUME DeliveryInv, NEW a \in attempts, a.stage \in PastClaim, attempts' = attempts \ {a},
         NEW status \in {"sent", "failed"}, NEW known \in BOOLEAN,
         Write(a, status, known) \/ UNCHANGED row,
         known => status = "sent" /\ a.stage = "sent",
         UNCHANGED <<pushed, accepted, masked, reported>>
  PROVE  DeliveryInv'
  <1>1. /\ DeliveriesTyped /\ a.note \in Notes /\ a.channel \in Channels
        /\ row[a.note][a.channel] = Pending
        /\ a.stage = "sent" => accepted[a.note][a.channel] > 0
        /\ \A o \in attempts \ {a} : o.stage \in PastClaim => o.note # a.note \/ o.channel # a.channel
    BY SenderKnows
  <1>2. CASE UNCHANGED row
    BY <1>1, <1>2
       DEF DeliveryInv, DeliveriesTyped, OneSender, SendersPending, TakenOnce, ReportsKnown,
           Unanswered
  <1>3. CASE Write(a, status, known)
    <2>1. PICK r \in DeliveryRow : r = [status |-> status, known |-> known]
      BY DEF DeliveryRow
    <2>2. /\ row' \in [Notes -> [Channels -> DeliveryRow]] /\ row'[a.note][a.channel] = r
          /\ \A n \in Notes, c \in Channels : n # a.note \/ c # a.channel => row'[n][c] = row[n][c]
      <3>1. row' = [row EXCEPT ![a.note][a.channel] = r] /\ row \in [Notes -> [Channels -> DeliveryRow]]
        BY <1>1, <1>3, <2>1 DEF Write, DeliveriesTyped
      <3> QED BY <1>1, <3>1, OneEntry
    <2>3. DeliveriesTyped' /\ OneSender'
      BY <1>1, <2>2 DEF DeliveryInv, DeliveriesTyped, OneSender
    <2>4. SendersPending'
      <3> SUFFICES ASSUME NEW o \in attempts \ {a}, o.stage \in PastClaim
                   PROVE  /\ row'[o.note][o.channel] = Pending
                          /\ o.stage = "claimed" => Unanswered(o)
                          /\ o.stage = "sent" => accepted[o.note][o.channel] > 0
        BY DEF SendersPending, Unanswered
      <3>1. o.note \in Notes /\ o.channel \in Channels
        BY <1>1 DEF DeliveriesTyped, Attempt
      <3> QED BY <1>1, <2>2, <3>1 DEF DeliveryInv, SendersPending
    <2>5. TakenOnce'
      BY <1>1, <2>1, <2>2 DEF DeliveryInv, TakenOnce, NoDelivery
    <2>6. ReportsKnown'
      <3> SUFFICES ASSUME NEW n \in Notes
                   PROVE  IF row'[n]["whatsapp"].known
                          THEN /\ Rank(row'[n]["whatsapp"].status) >= reported[n]
                               /\ accepted[n]["whatsapp"] > 0
                          ELSE reported[n] = 0
        BY DEF ReportsKnown
      <3>1. CASE n = a.note /\ a.channel = "whatsapp"
        <4>1. reported[n] = 0
          BY <1>1, <3>1 DEF DeliveryInv, ReportsKnown, Pending
        <4>2. row'[n]["whatsapp"].known = known /\ row'[n]["whatsapp"].status = status
          BY <2>1, <2>2, <3>1
        <4> QED BY <1>1, <3>1, <4>1, <4>2, RankTyped
      <3>2. CASE n # a.note \/ a.channel # "whatsapp"
        BY <2>2, <3>2 DEF DeliveryInv, ReportsKnown, Channels
      <3> QED BY <3>1, <3>2
    <2> QED BY <2>3, <2>4, <2>5, <2>6 DEF DeliveryInv
  <1> QED BY <1>2, <1>3

LEMMA RecordSentKeeps ==
  ASSUME DeliveryInv, NEW a \in attempts, NEW fails \in BOOLEAN, RecordSent(a, fails)
  PROVE  DeliveryInv'
  <1>1. a.stage = "sent" /\ a.stage \in PastClaim /\ UNCHANGED <<pushed, accepted, masked, reported>>
    BY DEF RecordSent, PastClaim
  <1>2. CASE ~fails
    BY <1>1, <1>2, AttemptEnds DEF RecordSent
  <1>3. CASE fails
    <2>1. Stage(a, "threw") /\ UNCHANGED row /\ DeliveriesTyped
      BY <1>3 DEF RecordSent, DeliveryInv
    <2>2. PICK b \in Attempt :
             /\ attempts' = (attempts \ {a}) \cup {b}
             /\ b.note = a.note /\ b.channel = a.channel /\ b.stage = "threw"
      BY <2>1, StageMoves DEF PastClaim
    <2>3. DeliveriesTyped' /\ OneSender'
      BY <1>1, <2>1, <2>2 DEF DeliveryInv, DeliveriesTyped, OneSender
    <2>4. SendersPending' /\ TakenOnce' /\ ReportsKnown'
      BY <1>1, <2>1, <2>2 DEF DeliveryInv, SendersPending, TakenOnce, ReportsKnown, Unanswered
    <2> QED BY <2>3, <2>4 DEF DeliveryInv
  <1> QED BY <1>2, <1>3

LEMMA RecordFailedKeeps ==
  ASSUME DeliveryInv, NEW a \in attempts, NEW fails \in BOOLEAN, RecordFailed(a, fails)
  PROVE  DeliveryInv'
  <1>1. /\ a.stage \in PastClaim /\ UNCHANGED <<pushed, accepted, masked, reported>>
        /\ attempts' = attempts \ {a} /\ (Write(a, "failed", FALSE) \/ UNCHANGED row)
    BY DEF RecordFailed, PastClaim
  <1> QED BY <1>1, AttemptEnds

LEMMA ApplyReportKeeps ==
  ASSUME DeliveryInv, NEW n \in Notes, NEW status \in {"sent", "delivered", "read", "failed"},
         ApplyReport(n, status)
  PROVE  DeliveryInv'
  <1> DEFINE r == row[n]["whatsapp"]
  <1>1. /\ DeliveriesTyped /\ UNCHANGED <<attempts, pushed, accepted, masked>>
        /\ accepted[n]["whatsapp"] > 0 /\ r \in DeliveryRow
        /\ row' = IF Applies(r, status) THEN [row EXCEPT ![n]["whatsapp"].status = status] ELSE row
        /\ reported' = IF r.known /\ Rank(status) > reported[n]
                       THEN [reported EXCEPT ![n] = Rank(status)] ELSE reported
    BY DEF DeliveryInv, DeliveriesTyped, ApplyReport, Channels
  <1>2. CASE ~r.known
    BY <1>1, <1>2 DEF Applies, DeliveryInv, DeliveriesTyped, OneSender, SendersPending, TakenOnce,
                      ReportsKnown, Unanswered
  <1>3. CASE r.known
    <2>1. PICK new \in DeliveryRow :
             /\ new = IF Rank(r.status) < Rank(status) THEN [r EXCEPT !.status = status] ELSE r
             /\ new.known /\ new.status = IF Rank(r.status) < Rank(status) THEN status ELSE r.status
      <3> DEFINE next == [r EXCEPT !.status = status]
      <3>1. next \in DeliveryRow /\ next.known /\ next.status = status
        BY <1>1, <1>3 DEF DeliveryRow
      <3>2. CASE Rank(r.status) < Rank(status)
        <4> HIDE DEF next
        <4>1. next = IF Rank(r.status) < Rank(status) THEN next ELSE r
          BY <3>2
        <4> USE DEF next
        <4> QED BY <3>1, <3>2, <4>1
      <3>3. CASE ~(Rank(r.status) < Rank(status))
        BY <1>1, <1>3, <3>3
      <3> QED BY <3>2, <3>3
    <2>2. row' = [row EXCEPT ![n]["whatsapp"] = new]
      BY <1>1, <1>3, <2>1 DEF Applies, DeliveriesTyped, Channels
    <2>3. /\ row' \in [Notes -> [Channels -> DeliveryRow]] /\ row'[n]["whatsapp"] = new
          /\ \A m \in Notes, c \in Channels : m # n \/ c # "whatsapp" => row'[m][c] = row[m][c]
      <3>1. row \in [Notes -> [Channels -> DeliveryRow]] /\ "whatsapp" \in Channels
        BY <1>1 DEF DeliveriesTyped, Channels
      <3> QED BY <2>2, <3>1, OneEntry
    <2>4. /\ reported' \in [Notes -> Nat] /\ \A m \in Notes : m # n => reported'[m] = reported[m]
          /\ reported'[n] = IF Rank(status) > reported[n] THEN Rank(status) ELSE reported[n]
      BY <1>1, <1>3, RankTyped DEF DeliveriesTyped
    <2>5. DeliveriesTyped' /\ OneSender'
      BY <1>1, <2>3, <2>4 DEF DeliveryInv, DeliveriesTyped, OneSender
    <2>6. SendersPending'
      <3> SUFFICES ASSUME NEW o \in attempts, o.stage \in PastClaim
                   PROVE  row'[o.note][o.channel] = Pending
        BY <1>1 DEF DeliveryInv, SendersPending, Unanswered
      <3>1. o.note \in Notes /\ o.channel \in Channels /\ row[o.note][o.channel] = Pending
        BY <1>1 DEF DeliveriesTyped, Attempt, DeliveryInv, SendersPending
      <3> QED BY <1>3, <2>3, <3>1 DEF Pending
    <2>7. TakenOnce'
      BY <1>1, <2>1, <2>3 DEF DeliveryInv, TakenOnce, NoDelivery
    <2>8. ReportsKnown'
      <3>1. Rank(r.status) >= reported[n]
        BY <1>3 DEF DeliveryInv, ReportsKnown
      <3>2. PICK old \in Nat, now \in Nat, far \in Nat :
               old = Rank(r.status) /\ now = Rank(status) /\ far = reported[n]
        BY <1>1, RankTyped DEF DeliveriesTyped
      <3>3. Rank(new.status) = IF old < now THEN now ELSE old
        BY <2>1, <3>2
      <3>4. Rank(new.status) >= reported'[n]
        BY <2>4, <3>1, <3>2, <3>3
      <3> QED BY <1>1, <2>1, <2>3, <2>4, <3>4 DEF DeliveryInv, ReportsKnown, Channels
    <2> QED BY <2>5, <2>6, <2>7, <2>8 DEF DeliveryInv
  <1> QED BY <1>1, <1>2, <1>3 DEF DeliveryRow

LEMMA NextDelivery ==
  ASSUME DeliveryInv, [DeliveriesNext]_deliveryVars
  PROVE  DeliveryInv'
  <1>1. ASSUME NEW n \in Notes, NotifyMember(n) \/ CreateEventReminder(n) PROVE DeliveryInv'
    BY <1>1, PushKeeps DEF NotifyMember, CreateEventReminder
  <1>2. CASE UNCHANGED <<attempts, pushed, row, accepted, masked, reported>>
    BY <1>2, UnclaimedMove DEF DeliveryInv, DeliveriesTyped
  <1>3. ASSUME NEW n \in Notes, PurgeOldNotification(n) PROVE DeliveryInv'
    BY <1>2, <1>3 DEF PurgeOldNotification, sendVars
  <1>4. CASE \/ ClockTicks \/ \E tick \in 0..LastTick : RedateEvent(tick)
             \/ \E on \in BOOLEAN : SetConsent(on)
    BY <1>2, <1>4 DEF ClockTicks, RedateEvent, SetConsent, sendVars
  <1>5. CASE StopDeliveries
    BY <1>5, UnclaimedMove DEF StopDeliveries, DeliveryInv, DeliveriesTyped
  <1>6. CASE UNCHANGED deliveryVars
    BY <1>2, <1>6 DEF deliveryVars, sendVars
  <1> QED BY <1>1, <1>3, <1>4, <1>5, <1>6, CheckRecipientKeeps, ClaimKeeps, ProviderSendKeeps,
             RecordSentKeeps, RecordFailedKeeps, ApplyReportKeeps DEF DeliveriesNext

-----------------------------------------------------------------------------
(* Deliveries: one reminder of each date of an event *)

Reminders == {n \in Notes : kind[n] = "event_reminder"}

\* A reminder is made within the window before the date it is of, and rows are kept for longer
\* than the window: when it is purged, its date has passed, and any later one is of a later date.
ReminderInv ==
    /\ clock \in 0..LastTick
    /\ starts \in 0..LastTick
    /\ kind \in [Notes -> {"event_reminder", "other"}]
    /\ stored \in [Notes -> 0..Absent]
    /\ made \in [Notes -> 0..1]
    /\ remindsOf \in [Notes -> 0..LastTick]
    /\ \A n \in Reminders :
          IF stored[n] = Absent
          THEN made[n] = 1 => remindsOf[n] < clock
          ELSE remindsOf[n] <= stored[n] + WindowTicks
    /\ \A m, n \in Reminders :
          made[m] = 1 /\ made[n] = 1 /\ m # n => remindsOf[m] # remindsOf[n]

LEMMA NextReminder ==
  ASSUME ReminderInv, [DeliveriesNext]_deliveryVars
  PROVE  ReminderInv'
  <1> USE DeliveriesAssumption
  <1>1. ASSUME NEW n \in Notes, NotifyMember(n) PROVE ReminderInv'
    <2>1. /\ kind[n] = "other" /\ UNCHANGED <<clock, starts, kind, remindsOf>>
          /\ stored' = [stored EXCEPT ![n] = clock]
          /\ made' = made \/ made' = [made EXCEPT ![n] = 1]
      BY <1>1 DEF NotifyMember, Insert
    <2>2. /\ stored' \in [Notes -> 0..Absent] /\ made' \in [Notes -> 0..1]
          /\ \A m \in Notes : m # n => stored'[m] = stored[m] /\ made'[m] = made[m]
      BY <2>1 DEF ReminderInv, Absent
    <2>3. Reminders' = Reminders /\ n \notin Reminders /\ Reminders \subseteq Notes
      BY <2>1 DEF Reminders
    <2> QED BY <2>1, <2>2, <2>3 DEF ReminderInv
  <1>2. ASSUME NEW n \in Notes, CreateEventReminder(n) PROVE ReminderInv'
    <2>1. /\ UNCHANGED <<clock, starts, kind>> /\ kind[n] = "event_reminder" /\ made[n] = 0
          /\ NoReminder /\ clock < starts /\ starts <= clock + WindowTicks
          /\ stored' = [stored EXCEPT ![n] = clock] /\ made' = [made EXCEPT ![n] = 1]
          /\ remindsOf' = [remindsOf EXCEPT ![n] = starts]
      BY <1>2 DEF CreateEventReminder, Insert
    <2>2. /\ stored' \in [Notes -> 0..Absent] /\ made' \in [Notes -> 0..1]
          /\ remindsOf' \in [Notes -> 0..LastTick]
          /\ stored'[n] = clock /\ stored'[n] # Absent /\ remindsOf'[n] = starts
          /\ \A m \in Notes : m # n =>
                stored'[m] = stored[m] /\ made'[m] = made[m] /\ remindsOf'[m] = remindsOf[m]
      BY <2>1 DEF ReminderInv, Absent
    <2>3. Reminders' = Reminders /\ Reminders \subseteq Notes
      BY <2>1 DEF Reminders
    <2>4. \A m \in Reminders : made[m] = 1 => remindsOf[m] < starts
      BY <2>1, <2>3 DEF ReminderInv, NoReminder, Reminders
    <2>5. \A m \in Reminders : m # n /\ made'[m] = 1 => remindsOf'[m] # remindsOf'[n]
      <3> SUFFICES ASSUME NEW m \in Reminders, m # n, made'[m] = 1
                   PROVE  remindsOf'[m] # remindsOf'[n]
        OBVIOUS
      <3>1. remindsOf'[m] \in Nat /\ remindsOf'[m] < starts /\ starts \in Nat
        BY <2>2, <2>3, <2>4 DEF ReminderInv
      <3> QED BY <2>2, <3>1
    <2> QED BY <2>1, <2>2, <2>3, <2>5 DEF ReminderInv
  <1>3. ASSUME NEW n \in Notes, PurgeOldNotification(n) PROVE ReminderInv'
    <2>1. /\ UNCHANGED <<clock, starts, kind, made, remindsOf>> /\ stored[n] # Absent
          /\ stored[n] + RetentionTicks < clock /\ stored' = [stored EXCEPT ![n] = Absent]
      BY <1>3 DEF PurgeOldNotification, Expired
    <2>2. /\ stored' \in [Notes -> 0..Absent] /\ stored'[n] = Absent
          /\ \A m \in Notes : m # n => stored'[m] = stored[m]
      BY <2>1 DEF ReminderInv, Absent
    <2>3. Reminders' = Reminders /\ Reminders \subseteq Notes
      BY <2>1 DEF Reminders
    <2>4. n \in Reminders => remindsOf[n] < clock
      <3>1. /\ stored[n] \in Nat /\ clock \in Nat /\ WindowTicks \in Nat /\ WindowTicks <= RetentionTicks
            /\ remindsOf[n] \in Nat
        BY DEF ReminderInv, Absent
      <3>2. n \in Reminders => remindsOf[n] <= stored[n] + WindowTicks
        BY <2>1 DEF ReminderInv
      <3> QED BY <2>1, <3>1, <3>2
    <2> QED BY <2>1, <2>2, <2>3, <2>4 DEF ReminderInv
  <1>4. CASE ClockTicks
    <2>1. /\ UNCHANGED <<starts, kind, made, stored, remindsOf>>
          /\ clock' = clock + 1 /\ clock' \in 0..LastTick
      BY <1>4 DEF ClockTicks, ReminderInv
    <2>2. \A m \in Notes : remindsOf[m] < clock => remindsOf[m] < clock'
      BY <2>1 DEF ReminderInv
    <2>3. Reminders' = Reminders /\ Reminders \subseteq Notes
      BY <2>1 DEF Reminders
    <2> QED BY <2>1, <2>2, <2>3 DEF ReminderInv, Absent
  <1>5. ASSUME NEW tick \in 0..LastTick, RedateEvent(tick) PROVE ReminderInv'
    <2>1. starts' = tick /\ UNCHANGED <<clock, kind, made, stored, remindsOf>>
      BY <1>5 DEF RedateEvent
    <2>2. Reminders' = Reminders
      BY <2>1 DEF Reminders
    <2> QED BY <2>1, <2>2 DEF ReminderInv, Absent
  <1>6. CASE UNCHANGED <<clock, starts, kind, stored, made, remindsOf>>
    BY <1>6 DEF ReminderInv, Reminders
  <1>7. CASE \/ \E on \in BOOLEAN : SetConsent(on)
             \/ \E a \in attempts : CheckRecipient(a) \/ Claim(a)
             \/ \E a \in attempts : \E taken \in BOOLEAN, answer \in Answers :
                   ProviderSend(a, taken, answer)
             \/ \E a \in attempts : \E fails \in BOOLEAN : RecordSent(a, fails) \/ RecordFailed(a, fails)
             \/ StopDeliveries
             \/ \E n \in Notes : \E status \in {"sent", "delivered", "read", "failed"} : ApplyReport(n, status)
    BY <1>6, <1>7 DEF SetConsent, CheckRecipient, Claim, ProviderSend, RecordSent, RecordFailed,
                      StopDeliveries, ApplyReport, noteVars
  <1>8. CASE UNCHANGED deliveryVars
    BY <1>6, <1>8 DEF deliveryVars, noteVars
  <1> QED BY <1>1, <1>2, <1>3, <1>4, <1>5, <1>7, <1>8 DEF DeliveriesNext

LEMMA DeliveriesAlways == DeliveriesSpec => [](DeliveryInv /\ ReminderInv)
  <1>1. DeliveriesInit => DeliveryInv
    <2> SUFFICES ASSUME DeliveriesInit PROVE DeliveryInv
      OBVIOUS
    <2>1. DeliveriesTyped
      BY DEF DeliveriesInit, DeliveriesTyped, DeliveryRow, NoDelivery
    <2>2. OneSender /\ SendersPending
      BY DEF DeliveriesInit, OneSender, SendersPending
    <2>3. /\ \A n \in Notes, c \in Channels :
                row[n][c] = NoDelivery /\ accepted[n][c] = 0 /\ masked[n][c] = 0
          /\ \A n \in Notes : reported[n] = 0
      BY DEF DeliveriesInit
    <2>4. TakenOnce
      BY <2>3, DeliveriesAssumption DEF TakenOnce
    <2>5. ReportsKnown
      BY <2>3 DEF ReportsKnown, NoDelivery, Channels
    <2> QED BY <2>1, <2>2, <2>4, <2>5 DEF DeliveryInv
  <1>2. DeliveriesInit => ReminderInv
    BY DeliveriesAssumption DEF DeliveriesInit, ReminderInv, Absent, Reminders
  <1> QED BY <1>1, <1>2, NextDelivery, NextReminder, PTL DEF DeliveriesSpec

\* The provider takes a notification once per channel, and more often only where a gateway's
\* error page hid that it had, for any number of notifications, pushes, restarts and requests
\* (channel-notifier.ts: attempt; whatsapp.client.ts: sendTemplate).
THEOREM NothingSentTwice == DeliveriesSpec => []SentOnceUnlessMasked
  <1>1. DeliveryInv => SentOnceUnlessMasked
    <2> SUFFICES ASSUME DeliveryInv, NEW n \in Notes, NEW c \in Channels
                 PROVE  /\ accepted[n][c] <= 1 + masked[n][c]
                        /\ accepted[n][c] <= IF c = "whatsapp" THEN MaxTries ELSE 1
      BY DEF SentOnceUnlessMasked
    <2>1. /\ accepted[n][c] <= 1 + masked[n][c] /\ accepted[n][c] <= MaxTries
          /\ c # "whatsapp" => masked[n][c] = 0
      BY DEF DeliveryInv, TakenOnce, Channels
    <2> QED BY <2>1
  <1> QED BY <1>1, DeliveriesAlways, PTL

\* No two reminders are of the same date of an event, however often its date changes, for every
\* retention that is no shorter than the reminder's window (notification-jobs.ts).
THEOREM RemindersDiffer == DeliveriesSpec => []OneReminderPerDate
  <1>1. ReminderInv => OneReminderPerDate
    BY DEF ReminderInv, Reminders, OneReminderPerDate
  <1> QED BY <1>1, DeliveriesAlways, PTL

\* A WhatsApp delivery is never behind its furthest report, in whatever order and how often the
\* reports arrive (whatsapp-webhook.service.ts: apply).
THEOREM ReportsNeverGoBack == DeliveriesSpec => []FurthestReportKept
  <1>1. DeliveryInv => FurthestReportKept
    BY DEF DeliveryInv, ReportsKnown, FurthestReportKept
  <1> QED BY <1>1, DeliveriesAlways, PTL

-----------------------------------------------------------------------------
(* Pictures: a row, the media storage and the requests in between *)

\* What a request may do to the row, the storage and its own file.
PictureStep ==
    \/ \E fails \in BOOLEAN : MediaUpload(fails)
    \/ \E u \in uploads : SavePicture(u) \/ SaveRefused(u)
    \/ \E u \in uploads, fails \in BOOLEAN : DestroyQuietly(u, fails)
    \/ ClearPicture
    \/ StopUploads

PicturesTyped ==
    /\ uploaded \in Nat
    /\ image \in 0..uploaded
    /\ storage \subseteq 1..uploaded /\ leaked \subseteq 1..uploaded
    /\ uploads \subseteq [picture: 1..uploaded, stage: {"stored", "destroy"}]

\* A file is in the hands of one request at most, and no longer once the row shows it.
OneHolder ==
    /\ \A u, v \in uploads : u.picture = v.picture => u = v
    /\ \A u \in uploads : u.picture # image

\* A file that is to be shown is there, and is not given up on.
StoredThere == \A u \in uploads : u.stage = "stored" => u.picture \in storage /\ u.picture \notin leaked

PictureInv == PicturesTyped /\ OneHolder /\ StoredThere /\ PicturesAgree

LEMMA PictureStepKeeps ==
  ASSUME PictureInv, [PictureStep]_pictureVars
  PROVE  PictureInv'
  <1> USE DEF PictureInv, NoPicture
  <1>1. ASSUME NEW fails \in BOOLEAN, MediaUpload(fails) PROVE PictureInv'
    <2>1. PICK p \in Nat : p = uploaded + 1
      BY DEF PicturesTyped
    <2>2. /\ uploaded' = p /\ image' = image /\ storage' = storage \cup {p}
          /\ \/ leaked' = leaked \cup {p} /\ uploads' = uploads
             \/ leaked' = leaked /\ uploads' = uploads \cup {InStorage(p)}
      BY <1>1, <2>1 DEF MediaUpload
    <2>3. /\ p \in 1..p /\ 0..uploaded \subseteq 0..p /\ 1..uploaded \subseteq 1..p
          /\ p \notin 0..uploaded /\ p \notin 1..uploaded
      BY <2>1 DEF PicturesTyped
    <2>4. /\ InStorage(p) \in [picture: 1..p, stage: {"stored", "destroy"}]
          /\ InStorage(p).picture = p /\ InStorage(p).stage = "stored"
      BY <2>3 DEF InStorage
    <2>5. \A u \in uploads : u.picture \in 1..uploaded /\ u \in [picture: 1..p, stage: {"stored", "destroy"}]
      BY <2>3 DEF PicturesTyped
    <2>6. PicturesTyped'
      BY <2>2, <2>3, <2>4, <2>5 DEF PicturesTyped
    <2>7. OneHolder' /\ StoredThere'
      BY <2>2, <2>3, <2>4, <2>5 DEF OneHolder, StoredThere, PicturesTyped
    <2>8. PicturesAgree'
      BY <2>2, <2>3, <2>4 DEF PicturesAgree, PicturesTyped
    <2> QED BY <2>6, <2>7, <2>8
  <1>2. ASSUME NEW u \in uploads, SavePicture(u) PROVE PictureInv'
    <2>1. /\ u.stage = "stored" /\ image' = u.picture /\ UNCHANGED <<storage, uploaded, leaked>>
          /\ uploads' = (uploads \ {u}) \cup Replaced /\ u.picture \in 1..uploaded
      BY <1>2 DEF SavePicture, PicturesTyped
    <2>2. \A d \in Replaced : /\ d \in [picture: 1..uploaded, stage: {"stored", "destroy"}]
                              /\ d.picture = image /\ d.stage = "destroy"
      BY DEF Replaced, Doomed, PicturesTyped
    <2>3. PicturesTyped'
      BY <2>1, <2>2 DEF PicturesTyped
    <2>4. OneHolder'
      BY <2>1, <2>2 DEF OneHolder, Replaced
    <2>5. StoredThere'
      BY <2>1, <2>2 DEF StoredThere
    <2>6. PicturesAgree'
      <3>1. image # 0 => \E d \in uploads' : d.picture = image
        BY <2>1, <2>2 DEF Replaced
      <3>2. \A f \in storage : f = u.picture \/ f \in leaked \/ \E d \in uploads' : d.picture = f
        BY <2>1, <3>1 DEF PicturesAgree, PicturesTyped
      <3> QED BY <2>1, <3>2 DEF PicturesAgree, StoredThere
    <2> QED BY <2>3, <2>4, <2>5, <2>6
  <1>3. ASSUME NEW u \in uploads, SaveRefused(u) PROVE PictureInv'
    <2>1. /\ u.stage = "stored" /\ UNCHANGED <<image, storage, uploaded, leaked>>
          /\ uploads' = (uploads \ {u}) \cup {Doomed(u.picture)}
      BY <1>3 DEF SaveRefused
    <2>2. /\ Doomed(u.picture) \in [picture: 1..uploaded, stage: {"stored", "destroy"}]
          /\ Doomed(u.picture).picture = u.picture /\ Doomed(u.picture).stage = "destroy"
      BY DEF Doomed, PicturesTyped
    <2>3. PicturesTyped' /\ OneHolder' /\ StoredThere'
      BY <2>1, <2>2 DEF PicturesTyped, OneHolder, StoredThere
    <2>4. PicturesAgree'
      BY <2>1, <2>2 DEF PicturesAgree
    <2> QED BY <2>3, <2>4
  <1>4. ASSUME NEW u \in uploads, NEW fails \in BOOLEAN, DestroyQuietly(u, fails) PROVE PictureInv'
    <2>1. /\ uploads' = uploads \ {u} /\ UNCHANGED <<image, uploaded>>
          /\ u.picture \in 1..uploaded /\ u.picture # image
          /\ \/ leaked' = leaked \cup {u.picture} /\ storage' = storage
             \/ leaked' = leaked /\ storage' = storage \ {u.picture}
      BY <1>4 DEF DestroyQuietly, PicturesTyped, OneHolder
    <2>2. PicturesTyped'
      BY <2>1 DEF PicturesTyped
    <2>3. OneHolder' /\ StoredThere'
      BY <2>1 DEF OneHolder, StoredThere
    <2>4. PicturesAgree'
      BY <2>1 DEF PicturesAgree
    <2> QED BY <2>2, <2>3, <2>4
  <1>5. CASE ClearPicture
    <2>1. /\ image # 0 /\ image' = 0 /\ uploads' = uploads \cup {Doomed(image)}
          /\ UNCHANGED <<storage, uploaded, leaked>>
      BY <1>5 DEF ClearPicture, Replaced
    <2>2. /\ Doomed(image) \in [picture: 1..uploaded, stage: {"stored", "destroy"}]
          /\ Doomed(image).picture = image /\ Doomed(image).stage = "destroy"
      BY <2>1 DEF Doomed, PicturesTyped
    <2>3. PicturesTyped' /\ StoredThere'
      BY <2>1, <2>2 DEF PicturesTyped, StoredThere
    <2>4. OneHolder'
      <3>1. \A u \in uploads : u.picture # 0 /\ u.picture # image
        BY DEF PicturesTyped, OneHolder
      <3> QED BY <2>1, <2>2, <3>1 DEF OneHolder
    <2>5. PicturesAgree'
      <3>1. 0 \notin leaked
        BY DEF PicturesTyped
      <3> QED BY <2>1, <2>2, <3>1 DEF PicturesAgree
    <2> QED BY <2>3, <2>4, <2>5
  <1>6. CASE StopUploads
    <2>1. /\ leaked' = leaked \cup {u.picture : u \in uploads} /\ uploads' = {}
          /\ UNCHANGED <<image, storage, uploaded>>
      BY <1>6 DEF StopUploads
    <2>2. \A u \in uploads : u.picture \in 1..uploaded /\ u.picture # image
      BY DEF PicturesTyped, OneHolder
    <2>3. PicturesTyped' /\ OneHolder' /\ StoredThere'
      BY <2>1, <2>2 DEF PicturesTyped, OneHolder, StoredThere
    <2>4. PicturesAgree'
      BY <2>1, <2>2 DEF PicturesAgree
    <2> QED BY <2>3, <2>4
  <1>7. CASE UNCHANGED pictureVars
    BY <1>7 DEF pictureVars, PicturesTyped, OneHolder, StoredThere, PicturesAgree
  <1> QED BY <1>1, <1>2, <1>3, <1>4, <1>5, <1>6, <1>7 DEF PictureStep

LEMMA NoPictures == PicturesInit => PictureInv
  BY DEF PicturesInit, PictureInv, PicturesTyped, OneHolder, StoredThere, PicturesAgree, NoPicture

-----------------------------------------------------------------------------
(* Profiles *)

ProfilesSpec ==
    PicturesInit /\ ProfilesInit /\ [][ProfilesNext]_<<profileVars, pictureVars>>

ProfilesTyped ==
    /\ profile \in [city: Cities \cup {NoArea}, area: Cities \cup {NoArea}]
    /\ prefs \in [min: Ages \cup {0}, max: Ages \cup {0}, discoverable: BOOLEAN]
    /\ prefs # NoPrefs => prefs.min \in Ages /\ prefs.max \in Ages
    /\ underage \in BOOLEAN /\ onboarded \in BOOLEAN

ProfileInv == PictureInv /\ ProfilesTyped /\ ProfileHonest

\* Every step is one of the pictures', and a new photo is a file that was uploaded.
LEMMA ProfilePictures ==
  ASSUME PictureInv, [ProfilesNext]_<<profileVars, pictureVars>>
  PROVE  /\ PictureInv' /\ uploaded' \in Nat /\ uploaded \in Nat /\ uploaded <= uploaded'
         /\ image # NoPicture => uploaded > 0
         /\ image' # NoPicture => uploaded' > 0
  <1>1. [PictureStep]_pictureVars
    BY DEF ProfilesNext, CreateProfile, UpdateProfile, UpdatePreferences, UploadPhoto, SavePhoto,
           DeletePhoto, VerifyPhoto, PictureStep, pictureVars
  <1>2. PictureInv'
    BY <1>1, PictureStepKeeps
  <1>3. uploaded' = uploaded \/ uploaded' = uploaded + 1
    BY <1>1 DEF PictureStep, pictureVars, MediaUpload, SavePicture, SaveRefused, DestroyQuietly,
                ClearPicture, StopUploads
  <1> QED BY <1>2, <1>3 DEF PictureInv, PicturesTyped, NoPicture

\* syncOnboarding() completes the onboarding of nobody who has no photo.
LEMMA SyncOnboardingKeeps ==
  ASSUME onboarded \in BOOLEAN, NEW p, NEW picture, SyncOnboarding(p, picture)
  PROVE  onboarded' \in BOOLEAN /\ (onboarded' => onboarded \/ picture # NoPicture)
  BY DEF SyncOnboarding, CompletionStatus

LEMMA NextProfile ==
  ASSUME ProfileInv, [ProfilesNext]_<<profileVars, pictureVars>>
  PROVE  ProfileInv'
  <1>1. /\ PictureInv' /\ uploaded' \in Nat /\ uploaded \in Nat /\ uploaded <= uploaded'
        /\ image # NoPicture => uploaded > 0
        /\ image' # NoPicture => uploaded' > 0
    BY ProfilePictures DEF ProfileInv
  <1>2. ASSUME UNCHANGED profileVars, image' = image PROVE ProfileInv'
    BY <1>1, <1>2 DEF ProfileInv, ProfilesTyped, ProfileHonest, profileVars, ValidLocation
  <1>3. ASSUME NEW city \in Cities, NEW area \in Cities \cup {NoArea}, NEW adult \in BOOLEAN,
               CreateProfile(city, area, adult)
        PROVE  ProfileInv'
    <2>1. ~underage /\ profile = NoProfile /\ UNCHANGED <<badge, image>>
      BY <1>3 DEF CreateProfile, MayCreateProfile, pictureVars
    <2>2. CASE ~adult
      <3>1. underage' = TRUE /\ UNCHANGED <<profile, prefs, onboarded>>
        BY <1>3, <2>2 DEF CreateProfile
      <3> QED BY <1>1, <2>1, <3>1 DEF ProfileInv, ProfilesTyped, ProfileHonest, ValidLocation
    <2>3. CASE adult
      <3>1. /\ ValidLocation(city, area) /\ profile' = [city |-> city, area |-> area]
            /\ SyncOnboarding(profile', image) /\ underage' = underage
        BY <1>3, <2>3 DEF CreateProfile
      <3>2. PICK min, max \in Ages :
               /\ \A a \in Ages : min <= a /\ a <= max
               /\ prefs' = [min |-> min, max |-> max, discoverable |-> FALSE]
        BY <1>3, <2>3 DEF CreateProfile
      <3>3. min <= max /\ min \in Nat \ {0} /\ max \in Nat
        BY <3>2, ProfilesAssumption
      <3>4. profile' # NoProfile /\ prefs' # NoPrefs
        BY <3>1, <3>2, <3>3, ProfilesAssumption DEF NoProfile, NoPrefs
      <3>5. onboarded' \in BOOLEAN /\ (onboarded' => onboarded \/ image # NoPicture)
        BY <3>1, SyncOnboardingKeeps DEF ProfileInv, ProfilesTyped
      <3>6. ProfilesTyped'
        BY <3>1, <3>2, <3>5 DEF ProfileInv, ProfilesTyped
      <3>7. ProfileHonest'
        BY <1>1, <2>1, <3>1, <3>2, <3>3, <3>4, <3>5 DEF ProfileInv, ProfileHonest, ValidLocation
      <3> QED BY <1>1, <3>6, <3>7 DEF ProfileInv
    <2> QED BY <2>2, <2>3
  <1>4. ASSUME NEW newCity \in Cities \cup {"same"}, NEW newArea \in Cities \cup {NoArea, "same"},
               UpdateProfile(newCity, newArea)
        PROVE  ProfileInv'
    <2>1. PICK city, area :
             /\ city = IF newCity = "same" THEN profile.city ELSE newCity
             /\ area = CASE newArea # "same" -> newArea
                         [] newArea = "same" /\ city # profile.city -> NoArea
                         [] OTHER -> profile.area
             /\ profile # NoProfile
             /\ {newCity, newArea} # {"same"} => ValidLocation(city, area)
             /\ profile' = [city |-> city, area |-> area]
      BY <1>4 DEF UpdateProfile
    <2>2. SyncOnboarding(profile', image) /\ UNCHANGED <<prefs, underage, badge, image>>
      BY <1>4 DEF UpdateProfile, pictureVars
    <2>3. ValidLocation(profile.city, profile.area) /\ ~underage
      BY <2>1 DEF ProfileInv, ProfileHonest
    <2>4. ValidLocation(city, area)
      BY <2>1, <2>3
    <2>5. /\ profile' \in [city: Cities \cup {NoArea}, area: Cities \cup {NoArea}]
          /\ profile' # NoProfile /\ profile'.city = city /\ profile'.area = area
      BY <2>1, <2>4, ProfilesAssumption DEF ValidLocation, NoProfile
    <2>6. onboarded' \in BOOLEAN /\ (onboarded' => onboarded \/ image # NoPicture)
      BY <2>2, SyncOnboardingKeeps DEF ProfileInv, ProfilesTyped
    <2>7. ProfilesTyped'
      BY <2>2, <2>5, <2>6 DEF ProfileInv, ProfilesTyped
    <2>8. ProfileHonest'
      BY <1>1, <2>1, <2>2, <2>3, <2>4, <2>5, <2>6 DEF ProfileInv, ProfileHonest, ValidLocation
    <2> QED BY <1>1, <2>7, <2>8 DEF ProfileInv
  <1>5. ASSUME NEW newMin \in Ages \cup {0}, NEW newMax \in Ages \cup {0}, NEW on \in BOOLEAN,
               UpdatePreferences(newMin, newMax, on)
        PROVE  ProfileInv'
    <2>1. PICK min, max \in Ages :
             /\ prefs # NoPrefs /\ min <= max
             /\ prefs' = [min |-> min, max |-> max, discoverable |-> on]
      BY <1>5 DEF UpdatePreferences, ProfileInv, ProfilesTyped
    <2>2. UNCHANGED <<profile, underage, badge, onboarded, image>>
      BY <1>5 DEF UpdatePreferences, pictureVars
    <2>3. prefs' # NoPrefs /\ prefs'.min = min /\ prefs'.max = max
      BY <2>1, ProfilesAssumption DEF NoPrefs
    <2>4. ProfilesTyped'
      BY <2>1, <2>2 DEF ProfileInv, ProfilesTyped
    <2>5. ProfileHonest'
      BY <1>1, <2>1, <2>2, <2>3 DEF ProfileInv, ProfileHonest, ValidLocation
    <2> QED BY <1>1, <2>4, <2>5 DEF ProfileInv
  <1>6. ASSUME NEW fails \in BOOLEAN, UploadPhoto(fails) PROVE ProfileInv'
    BY <1>2, <1>6 DEF UploadPhoto, MediaUpload
  <1>7. ASSUME NEW u \in uploads, SavePhoto(u) PROVE ProfileInv'
    <2>1. badge' = NoPicture /\ SyncOnboarding(profile, image') /\ UNCHANGED <<profile, prefs, underage>>
      BY <1>7 DEF SavePhoto
    <2>2. onboarded' \in BOOLEAN /\ (onboarded' => onboarded \/ image' # NoPicture)
      BY <2>1, SyncOnboardingKeeps DEF ProfileInv, ProfilesTyped
    <2> QED BY <1>1, <2>1, <2>2 DEF ProfileInv, ProfilesTyped, ProfileHonest, ValidLocation
  <1>8. ASSUME NEW u \in uploads, SaveRefused(u), UNCHANGED profileVars PROVE ProfileInv'
    BY <1>2, <1>8 DEF SaveRefused
  <1>9. ASSUME NEW u \in uploads, NEW fails \in BOOLEAN, DestroyQuietly(u, fails), UNCHANGED profileVars
        PROVE  ProfileInv'
    BY <1>2, <1>9 DEF DestroyQuietly
  <1>10. CASE DeletePhoto
    BY <1>1, <1>10 DEF DeletePhoto, ClearPicture, ProfileInv, ProfilesTyped, ProfileHonest, ValidLocation
  <1>11. CASE VerifyPhoto
    BY <1>1, <1>11 DEF VerifyPhoto, pictureVars, ProfileInv, ProfilesTyped, ProfileHonest, ValidLocation
  <1>12. CASE StopUploads /\ UNCHANGED profileVars
    BY <1>2, <1>12 DEF StopUploads
  <1>13. CASE UNCHANGED <<profileVars, pictureVars>>
    BY <1>2, <1>13 DEF pictureVars
  <1> QED BY <1>3, <1>4, <1>5, <1>6, <1>7, <1>8, <1>9, <1>10, <1>11, <1>12, <1>13 DEF ProfilesNext

LEMMA ProfilesAlways == ProfilesSpec => []ProfileInv
  <1>1. PicturesInit /\ ProfilesInit => ProfileInv
    <2> SUFFICES ASSUME PicturesInit, ProfilesInit PROVE ProfileInv
      OBVIOUS
    <2>1. ProfilesTyped
      BY DEF ProfilesInit, ProfilesTyped, NoProfile, NoPrefs
    <2>2. ProfileHonest
      BY DEF ProfilesInit, ProfileHonest, NoPrefs
    <2> QED BY <2>1, <2>2, NoPictures DEF ProfileInv
  <1> QED BY <1>1, NextProfile, PTL DEF ProfilesSpec

\* Whatever a member sends in which order, for any cities, ages and number of photos: an
\* under-age attempt rules a profile out for good, a badge is on the photo that was checked, the
\* area lies in the city, the age range is one and onboarding needs a photo (profile.service.ts).
THEOREM ProfilesStayHonest == ProfilesSpec => []ProfileHonest
  <1>1. ProfileInv => ProfileHonest
    BY DEF ProfileInv
  <1> QED BY <1>1, ProfilesAlways, PTL

\* However many uploads of a member's photo overlap, fail or are cut off, the photo shown is in
\* the storage and no file there is forgotten (profile.service.ts: uploadImage, deleteImage).
THEOREM PhotosAgree == ProfilesSpec => []PicturesAgree
  <1>1. ProfileInv => PicturesAgree
    BY DEF ProfileInv, PictureInv
  <1> QED BY <1>1, ProfilesAlways, PTL

-----------------------------------------------------------------------------
(* Catalogue: events, organizers and their badges *)

CatalogueSpec ==
    PicturesInit /\ CatalogueInit /\ [][CatalogueNext]_<<catalogueVars, pictureVars>>

EventRow ==
    [status: {"none", "draft", "published", "archived"}, organizer: Organizers \cup {"none"},
     date: 0..LastDay, venue: {0, 1}, verified: BOOLEAN, everPublished: BOOLEAN]

OrganizerRow == [status: {"none", "active", "archived"}, verified: BOOLEAN, identity: {0, 1}]

NewValues == [organizer: Organizers, date: 0..LastDay, venue: {0, 1}]

Work ==
    {NoWork} \cup [op: {"update"}, new: NewValues] \cup [op: {"publish"}]
             \cup [op: {"archive"}, organizer: Organizers]

CatalogueTyped ==
    /\ event \in EventRow
    /\ organizers \in [Organizers -> OrganizerRow]
    /\ work \in [Admins -> Work]
    /\ vouched \in [event: {Displayed(e) : e \in EventRow}, organizer: [Organizers -> {0, 1}]]

CatalogueInv == CatalogueTyped /\ BadgesTrue

\* A new row of the event keeps the badge only if it shows what it showed.
LEMMA EventChanges ==
  ASSUME CatalogueInv, event' \in EventRow,
         event'.verified => event.verified /\ Displayed(event') = Displayed(event),
         UNCHANGED <<organizers, vouched>>, work' \in [Admins -> Work]
  PROVE  CatalogueInv'
  BY DEF CatalogueInv, CatalogueTyped, BadgesTrue

\* A new row of an organizer keeps the badge only with the identity it vouches for.
LEMMA OrganizerChanges ==
  ASSUME CatalogueInv, NEW o \in Organizers, organizers' \in [Organizers -> OrganizerRow],
         \A p \in Organizers \ {o} : organizers'[p] = organizers[p],
         organizers'[o].verified =>
             organizers[o].verified /\ organizers'[o].identity = organizers[o].identity,
         UNCHANGED <<event, vouched>>, work' \in [Admins -> Work]
  PROVE  CatalogueInv'
  BY DEF CatalogueInv, CatalogueTyped, BadgesTrue

\* A transaction ends.
LEMMA WorkEnds ==
  ASSUME CatalogueInv, NEW a \in Admins, work' = [work EXCEPT ![a] = NoWork]
  PROVE  work' \in [Admins -> Work]
  BY DEF CatalogueInv, CatalogueTyped, Work

LEMMA EventSteps ==
  ASSUME CatalogueInv
  PROVE  /\ \A o \in Organizers, date \in 0..LastDay : CreateEvent(o, date) => CatalogueInv'
         /\ \A a \in Admins : CommitUpdate(a) \/ CommitPublish(a) => CatalogueInv'
         /\ Unpublish \/ ArchiveEvent \/ RestoreEvent \/ UnverifyEvent \/ RemoveEvent => CatalogueInv'
         /\ VerifyEvent => CatalogueInv'
  <1> USE CatalogueAssumption
  <1>0. event \in EventRow /\ work \in [Admins -> Work]
    BY DEF CatalogueInv, CatalogueTyped
  <1>1. ASSUME NEW o \in Organizers, NEW date \in 0..LastDay, CreateEvent(o, date) PROVE CatalogueInv'
    <2>1. event' \in EventRow /\ ~event'.verified
      BY <1>1 DEF CreateEvent, NoEvent, EventRow
    <2> QED BY <1>0, <1>1, <2>1, EventChanges DEF CreateEvent
  <1>2. ASSUME NEW a \in Admins, CommitUpdate(a) PROVE CatalogueInv'
    <2>1. /\ event' = Changed(event, work[a].new) /\ work' = [work EXCEPT ![a] = NoWork]
          /\ UNCHANGED <<organizers, vouched>> /\ work[a].op = "update"
      BY <1>2 DEF CommitUpdate
    <2>2. PICK v \in NewValues : v = work[a].new
      BY <1>0, <2>1 DEF Work, NoWork
    <2> DEFINE next == [event EXCEPT !.organizer = v.organizer, !.date = v.date, !.venue = v.venue]
    <2>3. next \in EventRow /\ next.verified = event.verified
      BY <1>0, <2>2 DEF NewValues, EventRow
    <2>4. event' = [next EXCEPT !.verified = @ /\ Material(next) = Material(event)]
      BY <2>1, <2>2 DEF Changed
    <2> HIDE DEF next
    <2>5. PICK same \in BOOLEAN : same = (Material(next) = Material(event))
      OBVIOUS
    <2>6. event' = [next EXCEPT !.verified = event.verified /\ same]
      BY <2>3, <2>4, <2>5
    <2>7. /\ event' \in EventRow /\ event'.verified = (event.verified /\ same)
          /\ event'.organizer = next.organizer /\ event'.date = next.date /\ event'.venue = next.venue
      BY <1>0, <2>3, <2>6 DEF EventRow
    <2>8. event'.verified => event.verified /\ Displayed(event') = Displayed(event)
      BY <1>0, <2>5, <2>7 DEF Displayed, Material, EventRow
    <2> QED BY <2>1, <2>7, <2>8, WorkEnds, EventChanges
  <1>3. ASSUME NEW a \in Admins, CommitPublish(a) PROVE CatalogueInv'
    <2>1. event' \in EventRow /\ event'.verified = event.verified /\ Displayed(event') = Displayed(event)
      BY <1>0, <1>3 DEF CommitPublish, EventRow, Displayed
    <2> QED BY <1>3, <2>1, WorkEnds, EventChanges DEF CommitPublish
  <1>4. CASE Unpublish \/ ArchiveEvent \/ RestoreEvent \/ UnverifyEvent
    <2>1. /\ event' \in EventRow /\ (event'.verified => event.verified)
          /\ Displayed(event') = Displayed(event)
      BY <1>0, <1>4 DEF Unpublish, ArchiveEvent, RestoreEvent, UnverifyEvent, EventRow, Displayed
    <2> QED BY <1>0, <1>4, <2>1, EventChanges DEF Unpublish, ArchiveEvent, RestoreEvent, UnverifyEvent
  <1>5. CASE RemoveEvent
    <2>1. event' \in EventRow /\ ~event'.verified
      BY <1>5 DEF RemoveEvent, NoEvent, EventRow
    <2> QED BY <1>0, <1>5, <2>1, EventChanges DEF RemoveEvent
  <1>6. CASE VerifyEvent
    <2>1. event' \in EventRow /\ Displayed(event') = Displayed(event)
      BY <1>0, <1>6 DEF VerifyEvent, EventRow, Displayed
    <2>2. /\ vouched'.event = Displayed(event) /\ vouched'.organizer = vouched.organizer
          /\ vouched' \in [event: {Displayed(e) : e \in EventRow}, organizer: [Organizers -> {0, 1}]]
      BY <1>0, <1>6 DEF VerifyEvent, CatalogueInv, CatalogueTyped
    <2>3. UNCHANGED <<organizers, work>>
      BY <1>6 DEF VerifyEvent
    <2> QED BY <2>1, <2>2, <2>3 DEF CatalogueInv, CatalogueTyped, BadgesTrue
  <1> QED BY <1>1, <1>2, <1>3, <1>4, <1>5, <1>6

LEMMA OrganizerSteps ==
  ASSUME CatalogueInv, NEW o \in Organizers
  PROVE  /\ CreateOrganizer(o) \/ UnverifyOrganizer(o) \/ RestoreOrganizer(o) => CatalogueInv'
         /\ \A identity \in {0, 1} : RenameOrganizer(o, identity) => CatalogueInv'
         /\ \A a \in Admins : CommitArchiveOrganizer(a) => CatalogueInv'
         /\ VerifyOrganizer(o) => CatalogueInv'
  <1>0. /\ organizers \in [Organizers -> OrganizerRow] /\ work \in [Admins -> Work]
        /\ organizers[o] \in OrganizerRow
    BY DEF CatalogueInv, CatalogueTyped
  <1>1. CASE CreateOrganizer(o)
    <2>1. [status |-> "active", verified |-> FALSE, identity |-> 0] \in OrganizerRow
      BY DEF OrganizerRow
    <2>2. /\ organizers' \in [Organizers -> OrganizerRow] /\ ~organizers'[o].verified
          /\ \A p \in Organizers \ {o} : organizers'[p] = organizers[p]
      BY <1>0, <1>1, <2>1 DEF CreateOrganizer
    <2> QED BY <1>0, <1>1, <2>2, OrganizerChanges DEF CreateOrganizer
  <1>2. CASE UnverifyOrganizer(o) \/ RestoreOrganizer(o)
    <2>1. /\ organizers' \in [Organizers -> OrganizerRow]
          /\ organizers'[o].verified => organizers[o].verified
          /\ organizers'[o].identity = organizers[o].identity
          /\ \A p \in Organizers \ {o} : organizers'[p] = organizers[p]
      <3>1. CASE organizers' = [organizers EXCEPT ![o].verified = FALSE]
        BY <1>0, <3>1 DEF OrganizerRow
      <3>2. CASE organizers' = [organizers EXCEPT ![o].status = "active"]
        BY <1>0, <3>2 DEF OrganizerRow
      <3> QED BY <1>2, <3>1, <3>2 DEF UnverifyOrganizer, RestoreOrganizer
    <2> QED BY <1>0, <1>2, <2>1, OrganizerChanges DEF UnverifyOrganizer, RestoreOrganizer
  <1>3. ASSUME NEW identity \in {0, 1}, RenameOrganizer(o, identity) PROVE CatalogueInv'
    <2> DEFINE new == [organizers[o] EXCEPT !.identity = identity, !.verified = FALSE]
    <2>1. new \in OrganizerRow /\ ~new.verified
      BY <1>0 DEF OrganizerRow
    <2>2. organizers' = [organizers EXCEPT ![o] = new]
      BY <1>0, <1>3 DEF RenameOrganizer
    <2> HIDE DEF new
    <2>3. /\ organizers' \in [Organizers -> OrganizerRow] /\ ~organizers'[o].verified
          /\ \A p \in Organizers \ {o} : organizers'[p] = organizers[p]
      BY <1>0, <2>1, <2>2
    <2> QED BY <1>0, <1>3, <2>3, OrganizerChanges DEF RenameOrganizer
  <1>4. ASSUME NEW a \in Admins, CommitArchiveOrganizer(a) PROVE CatalogueInv'
    <2>1. PICK p \in Organizers : p = work[a].organizer
      BY <1>0, <1>4 DEF CommitArchiveOrganizer, Work, NoWork
    <2>2. /\ organizers' = [organizers EXCEPT ![p].status = "archived"]
          /\ UNCHANGED <<event, vouched>> /\ organizers[p] \in OrganizerRow
      BY <1>0, <1>4, <2>1 DEF CommitArchiveOrganizer
    <2>3. /\ organizers' \in [Organizers -> OrganizerRow]
          /\ organizers'[p].verified => organizers[p].verified
          /\ organizers'[p].identity = organizers[p].identity
          /\ \A x \in Organizers \ {p} : organizers'[x] = organizers[x]
      BY <1>0, <2>2 DEF OrganizerRow
    <2>4. work' \in [Admins -> Work]
      BY <1>4, WorkEnds DEF CommitArchiveOrganizer
    <2> QED BY <2>2, <2>3, <2>4, OrganizerChanges
  <1>5. CASE VerifyOrganizer(o)
    <2>1. /\ organizers' \in [Organizers -> OrganizerRow] /\ organizers'[o].identity = organizers[o].identity
          /\ \A p \in Organizers : p # o => organizers'[p] = organizers[p]
      BY <1>0, <1>5 DEF VerifyOrganizer, OrganizerRow
    <2>2. /\ vouched'.event = vouched.event
          /\ vouched' \in [event: {Displayed(e) : e \in EventRow}, organizer: [Organizers -> {0, 1}]]
          /\ vouched'.organizer[o] = organizers[o].identity
          /\ \A p \in Organizers : p # o => vouched'.organizer[p] = vouched.organizer[p]
      <3>1. organizers[o].identity \in {0, 1}
        BY <1>0 DEF OrganizerRow
      <3> QED BY <1>5, <3>1 DEF VerifyOrganizer, CatalogueInv, CatalogueTyped
    <2>3. UNCHANGED <<event, work>>
      BY <1>5 DEF VerifyOrganizer
    <2> QED BY <2>1, <2>2, <2>3 DEF CatalogueInv, CatalogueTyped, BadgesTrue
  <1> QED BY <1>1, <1>2, <1>3, <1>4, <1>5

LEMMA NextCatalogue ==
  ASSUME CatalogueInv, [CatalogueNext]_<<catalogueVars, pictureVars>>
  PROVE  CatalogueInv'
  <1>0. work \in [Admins -> Work]
    BY DEF CatalogueInv, CatalogueTyped
  <1>1. ASSUME UNCHANGED <<event, organizers, vouched>>, work' \in [Admins -> Work] PROVE CatalogueInv'
    BY <1>1 DEF CatalogueInv, CatalogueTyped, BadgesTrue
  <1>2. ASSUME NEW a \in Admins, NEW o \in Organizers, NEW date \in 0..LastDay, NEW venue \in {0, 1},
               BeginUpdate(a, [organizer |-> o, date |-> date, venue |-> venue])
        PROVE  CatalogueInv'
    <2>1. [op |-> "update", new |-> [organizer |-> o, date |-> date, venue |-> venue]] \in Work
      BY DEF Work, NewValues
    <2> QED BY <1>0, <1>1, <1>2, <2>1 DEF BeginUpdate
  <1>3. ASSUME NEW a \in Admins, BeginPublish(a) PROVE CatalogueInv'
    <2>1. [op |-> "publish"] \in Work
      BY DEF Work
    <2> QED BY <1>0, <1>1, <1>3, <2>1 DEF BeginPublish
  <1>4. ASSUME NEW a \in Admins, RollBack(a) PROVE CatalogueInv'
    BY <1>1, <1>4, WorkEnds DEF RollBack
  <1>5. ASSUME NEW a \in Admins, NEW o \in Organizers, BeginArchiveOrganizer(a, o) PROVE CatalogueInv'
    <2>1. [op |-> "archive", organizer |-> o] \in Work
      BY DEF Work
    <2> QED BY <1>0, <1>1, <1>5, <2>1 DEF BeginArchiveOrganizer
  <1>6. ASSUME UNCHANGED catalogueVars PROVE CatalogueInv'
    BY <1>0, <1>1, <1>6 DEF catalogueVars
  <1>7. CASE \/ \E fails \in BOOLEAN : UploadEventImage(fails)
             \/ \E u \in uploads : SaveEventImage(u) \/ (SaveRefused(u) /\ UNCHANGED catalogueVars)
             \/ \E u \in uploads : \E fails \in BOOLEAN : DestroyQuietly(u, fails) /\ UNCHANGED catalogueVars
             \/ DeleteEventImage
             \/ StopUploads /\ UNCHANGED catalogueVars
             \/ UNCHANGED <<catalogueVars, pictureVars>>
    BY <1>6, <1>7 DEF UploadEventImage, SaveEventImage, DeleteEventImage
  <1>8. CASE CheckOpen \/ NextDay \/ \E kept \in BOOLEAN : WriteAttendance(kept)
    BY <1>0, <1>1, <1>8 DEF CheckOpen, NextDay, WriteAttendance
  <1>9. ASSUME NEW a \in Admins, CommitArchiveOrganizer(a) PROVE CatalogueInv'
    <2>1. PICK o : o \in Organizers
      BY CatalogueAssumption
    <2> QED BY <1>9, <2>1, OrganizerSteps
  <1> QED BY <1>2, <1>3, <1>4, <1>5, <1>7, <1>8, <1>9, EventSteps, OrganizerSteps DEF CatalogueNext

\* Every step of the catalogue that touches the event's picture is one of the pictures'.
LEMMA CataloguePictures ==
  ASSUME PictureInv, [CatalogueNext]_<<catalogueVars, pictureVars>>
  PROVE  PictureInv'
  <1>1. [PictureStep]_pictureVars
    BY DEF CatalogueNext, PictureStep, UploadEventImage, SaveEventImage, DeleteEventImage, RemoveEvent,
           CreateEvent, BeginUpdate, CommitUpdate, BeginPublish, CommitPublish, RollBack, Unpublish,
           ArchiveEvent, RestoreEvent, VerifyEvent, UnverifyEvent, CreateOrganizer, VerifyOrganizer,
           UnverifyOrganizer, RenameOrganizer, BeginArchiveOrganizer, CommitArchiveOrganizer,
           RestoreOrganizer, CheckOpen, WriteAttendance, NextDay
  <1> QED BY <1>1, PictureStepKeeps

\* A badge vouches for what is shown beside it, for any number of organizers, admins and days,
\* although publish, update and archive span two steps (admin-events.service.ts: update, verify;
\* admin-organizers.service.ts: update, verify).
THEOREM BadgesStayTrue == CatalogueSpec => []BadgesTrue
  <1>1. CatalogueInit => CatalogueInv
    <2> SUFFICES ASSUME CatalogueInit PROVE CatalogueInv
      OBVIOUS
    <2>1. NoEvent \in EventRow /\ ~NoEvent.verified /\ Nobody \in OrganizerRow /\ ~Nobody.verified
      BY CatalogueAssumption DEF NoEvent, EventRow, Nobody, OrganizerRow
    <2>2. CatalogueTyped
      BY <2>1 DEF CatalogueInit, CatalogueTyped, Work
    <2> QED BY <2>1, <2>2 DEF CatalogueInit, CatalogueInv, BadgesTrue
  <1>2. CatalogueInv => BadgesTrue
    BY DEF CatalogueInv
  <1> QED BY <1>1, <1>2, NextCatalogue, PTL DEF CatalogueSpec

\* The picture an event shows is in the storage and no file there is forgotten, although the
\* event may be archived or removed while a file is being stored (admin-events.service.ts:
\* uploadImage, deleteImage, remove).
THEOREM EventPicturesAgree == CatalogueSpec => []PicturesAgree
  <1>1. PictureInv => PicturesAgree
    BY DEF PictureInv
  <1> QED BY <1>1, NoPictures, CataloguePictures, PTL DEF CatalogueSpec

-----------------------------------------------------------------------------
(* Sessions: tabs that take turns *)

SessionsSpec == SessionsInit /\ [][SessionsNext]_sessionVars

\* Rotations are not bounded here: the bound of the instance plays no part.
AnyToken == [session: 1..MaxLogins, rotation: Nat]

AnyRow ==
    [state: {"absent", "live", "signed_out", "expired", "idle_timeout", "reuse_detected"},
     current: Nat, grace: BOOLEAN, idle: BOOLEAN]

AnyTab ==
    [auth: AuthState, session: 0..MaxLogins, call: {"none", "lock", "sent", "answered"},
     token: AnyToken \cup {None}, answer: AnyToken \cup {None}]

TurnsTyped ==
    /\ locks \in BOOLEAN /\ losses \in Nat
    /\ sessionRows \in [1..MaxLogins -> AnyRow]
    /\ cookie \in AnyToken \cup {None}
    /\ tabs \in [Tabs -> AnyTab]

\* A token is of a session that was opened, and a row that was not has no rotations.
Opened(token) == token # None => RowOf(token).state # "absent"

TokensOpened ==
    /\ Opened(cookie)
    /\ \A t \in Tabs : Opened(tabs[t].token) /\ Opened(tabs[t].answer)
    /\ \A k \in 1..MaxLogins : sessionRows[k].state = "absent" => sessionRows[k].current = 0

Fresh(token) == Known(token) => IsCurrent(token)

Holding(t) == tabs[t].call \in {"sent", "answered"}

\* The tab's answer replaces the cookie: until then the cookie may be the token before.
Replaces(t) == tabs[t].call = "answered" /\ tabs[t].token # None

\* One tab at a time is between sending the cookie and storing the answer, so what it sends is
\* current, and the cookie is stale only while its replacement is on the way.
Turns ==
    /\ \A k \in 1..MaxLogins : sessionRows[k].state # "reuse_detected"
    /\ \A t, u \in Tabs : Holding(t) /\ Holding(u) => t = u
    /\ \A t \in Tabs : tabs[t].call = "sent" => Fresh(tabs[t].token)
    /\ \A t \in Tabs : tabs[t].call = "answered" => Fresh(tabs[t].answer)
    /\ (\A t \in Tabs : ~Replaces(t)) => Fresh(cookie)

TurnsInv == TurnsTyped /\ TokensOpened /\ (locks /\ losses = 0 => Turns)

LEMMA NoneIsNoToken == None \notin AnyToken /\ None.session = 0 /\ \A k \in 1..MaxLogins : k # 0
  BY SessionsAssumption DEF None, AnyToken

\* A nonempty set of numbers has a least one.
LEMMA LeastNumber ==
  ASSUME NEW T, T \subseteq Nat, T # {}
  PROVE  \E n \in T : \A m \in T : n <= m
  <1> DEFINE R == OpToRel(<, Nat)
  <1>1. IsWellFoundedOn(R, Nat)
    BY NatLessThanWellFounded
  <1>2. \A x, y \in Nat : y < x => <<y, x>> \in R
    BY DEF OpToRel
  <1> HIDE DEF R
  <1>3. PICK n \in T : \A y \in T : ~(<<y, n>> \in R)
    BY <1>1, WFMin
  <1>4. ASSUME NEW m \in T PROVE n <= m
    <2>1. m \in Nat /\ n \in Nat
      BY <1>3, <1>4
    <2>2. ~(m < n)
      BY <1>2, <1>3, <1>4, <2>1, Zenon
    <2> QED BY <2>1, <2>2
  <1> QED BY <1>4

\* What happens to a session between refreshes: it ends or ages, and is not rotated.
LEMMA RowsAge ==
  ASSUME TurnsInv, sessionRows' \in [1..MaxLogins -> AnyRow],
         \A k \in 1..MaxLogins :
            /\ sessionRows'[k].current = sessionRows[k].current
            /\ sessionRows'[k].state = "absent" <=> sessionRows[k].state = "absent"
            /\ sessionRows'[k].state \in {"live", "reuse_detected"} =>
                  sessionRows'[k].state = sessionRows[k].state
  PROVE  /\ \A token \in AnyToken \cup {None} :
               (Opened(token) => Opened(token)') /\ (Fresh(token) => Fresh(token)')
         /\ \A k \in 1..MaxLogins : sessionRows'[k].state = "absent" => sessionRows'[k].current = 0
         /\ locks /\ losses = 0 => \A k \in 1..MaxLogins : sessionRows'[k].state # "reuse_detected"
  <1>1. ASSUME NEW token \in AnyToken \cup {None}
        PROVE  (Opened(token) => Opened(token)') /\ (Fresh(token) => Fresh(token)')
    <2>1. CASE token = None
      BY <2>1 DEF Opened, Fresh, Known
    <2>2. CASE token # None
      <3>1. token.session \in 1..MaxLogins
        BY <2>2 DEF AnyToken
      <3> QED BY <2>2, <3>1 DEF Opened, Fresh, Known, IsCurrent, RowOf
    <2> QED BY <2>1, <2>2
  <1> QED BY <1>1 DEF TurnsInv, TokensOpened, Turns


LEMMA StartRefreshKeeps ==
  ASSUME TurnsInv, NEW t \in Tabs, NEW auth \in {"loading", "authenticated"}, StartRefresh(t, auth)
  PROVE  TurnsInv'
  <1>1. /\ UNCHANGED <<locks, sessionRows, cookie, losses>> /\ tabs[t].call = "none"
        /\ tabs' = [tabs EXCEPT ![t].auth = auth, ![t].call = "lock"] /\ tabs[t] \in AnyTab
    BY DEF StartRefresh, TurnsInv, TurnsTyped
  <1>2. /\ tabs' \in [Tabs -> AnyTab] /\ tabs'[t].call = "lock"
        /\ tabs'[t].token = tabs[t].token /\ tabs'[t].answer = tabs[t].answer
        /\ \A u \in Tabs : u # t => tabs'[u] = tabs[u]
    BY <1>1 DEF TurnsInv, TurnsTyped, AnyTab, AuthState
  <1>3. TurnsTyped'
    BY <1>1, <1>2 DEF TurnsInv, TurnsTyped
  <1>4. TokensOpened'
    BY <1>1, <1>2 DEF TurnsInv, TokensOpened, Opened, RowOf
  <1>5. Turns => Turns'
    BY <1>1, <1>2 DEF Turns, Holding, Replaces, Fresh, Known, IsCurrent, RowOf
  <1> QED BY <1>1, <1>3, <1>4, <1>5 DEF TurnsInv

LEMMA SendRefreshKeeps ==
  ASSUME TurnsInv, NEW t \in Tabs, SendRefresh(t)
  PROVE  TurnsInv'
  <1>1. /\ UNCHANGED <<locks, sessionRows, cookie, losses>> /\ (locks => LockFree)
        /\ tabs' = [tabs EXCEPT ![t].call = "sent", ![t].token = cookie] /\ tabs[t] \in AnyTab
        /\ cookie \in AnyToken \cup {None} /\ tabs[t].call = "lock"
    BY DEF SendRefresh, TurnsInv, TurnsTyped
  <1>2. /\ tabs' \in [Tabs -> AnyTab] /\ tabs'[t].call = "sent"
        /\ tabs'[t].token = cookie /\ tabs'[t].answer = tabs[t].answer
        /\ \A u \in Tabs : u # t => tabs'[u] = tabs[u]
    BY <1>1 DEF TurnsInv, TurnsTyped, AnyTab
  <1>3. TurnsTyped'
    BY <1>1, <1>2 DEF TurnsInv, TurnsTyped
  <1>4. TokensOpened'
    BY <1>1, <1>2 DEF TurnsInv, TokensOpened, Opened, RowOf
  <1>5. ASSUME locks, Turns PROVE Turns'
    <2>1. \A u \in Tabs : ~Holding(u) /\ ~Replaces(u)
      BY <1>1, <1>5 DEF LockFree, Holding, Replaces
    <2>2. Fresh(cookie)
      BY <1>5, <2>1 DEF Turns
    <2>3. \A u \in Tabs : Holding(u)' => u = t
      BY <1>2, <2>1 DEF Holding
    <2>4. Fresh(cookie)' /\ tabs'[t].token = cookie'
      BY <1>1, <1>2, <2>2 DEF Fresh, Known, IsCurrent, RowOf
    <2> QED BY <1>1, <1>2, <1>5, <2>3, <2>4 DEF Turns, Holding
  <1> QED BY <1>1, <1>3, <1>4, <1>5 DEF TurnsInv

LEMMA RotateKeeps ==
  ASSUME TurnsInv, NEW t \in Tabs, Rotate(t)
  PROVE  TurnsInv'
  <1> DEFINE token == tabs[t].token
             k == token.session
  <1>1. /\ UNCHANGED <<locks, cookie, losses>> /\ tabs[t].call = "sent" /\ IsCurrent(token)
        /\ sessionRows' = [sessionRows EXCEPT ![k].current = @ + 1, ![k].grace = TRUE, ![k].idle = FALSE]
        /\ Answer(t, [token EXCEPT !.rotation = @ + 1])
        /\ tabs[t] \in AnyTab
    BY DEF Rotate, TurnsInv, TurnsTyped
  <1>2. /\ token # None /\ token \in AnyToken /\ k \in 1..MaxLogins
        /\ sessionRows[k] \in AnyRow /\ sessionRows[k].state = "live"
        /\ token.rotation = sessionRows[k].current
    BY <1>1 DEF IsCurrent, Known, RowOf, AnyTab, AnyToken, TurnsInv, TurnsTyped
  <1>3. /\ sessionRows' \in [1..MaxLogins -> AnyRow]
        /\ sessionRows'[k].current = sessionRows[k].current + 1 /\ sessionRows'[k].state = "live"
        /\ \A j \in 1..MaxLogins : j # k => sessionRows'[j] = sessionRows[j]
    <2>1. PICK s \in 1..MaxLogins, row0 \in AnyRow : s = k /\ row0 = sessionRows[s] /\ row0.state = "live"
      BY <1>2
    <2>2. PICK n \in Nat : n = row0.current + 1
      BY DEF AnyRow
    <2> DEFINE r == [row0 EXCEPT !.current = n, !.grace = TRUE, !.idle = FALSE]
    <2>3. r \in AnyRow /\ r.current = n /\ r.state = row0.state
      BY DEF AnyRow
    <2>4. sessionRows' = [sessionRows EXCEPT ![s] = r] /\ sessionRows \in [1..MaxLogins -> AnyRow]
      BY <1>1, <2>1, <2>2 DEF TurnsInv, TurnsTyped
    <2> HIDE DEF r, k
    <2> QED BY <2>1, <2>2, <2>3, <2>4
  <1>4. PICK next \in AnyToken :
           /\ next = [token EXCEPT !.rotation = @ + 1]
           /\ next.session = k /\ next.rotation = sessionRows[k].current + 1
    <2> DEFINE n == [token EXCEPT !.rotation = @ + 1]
    <2>1. n \in AnyToken /\ n.session = k /\ n.rotation = sessionRows[k].current + 1
      BY <1>2 DEF AnyToken
    <2> QED BY <2>1
  <1>5. /\ tabs' \in [Tabs -> AnyTab] /\ tabs'[t].call = "answered"
        /\ tabs'[t].token = token /\ tabs'[t].answer = next
        /\ \A u \in Tabs : u # t => tabs'[u] = tabs[u]
    BY <1>1, <1>4 DEF Answer, TurnsInv, TurnsTyped, AnyTab
  <1> HIDE DEF token, k
  <1>6. TurnsTyped'
    BY <1>1, <1>3, <1>5 DEF TurnsInv, TurnsTyped
  <1>7. next # None
    BY <1>4, NoneIsNoToken
  <1>8. TokensOpened'
    <2>1. ASSUME NEW x \in AnyToken \cup {None}, Opened(x) PROVE Opened(x)'
      <3>1. x # None => x.session \in 1..MaxLogins
        BY DEF AnyToken
      <3> QED BY <1>3, <2>1, <3>1 DEF Opened, RowOf
    <2>2. Opened(next)'
      BY <1>3, <1>4 DEF Opened, RowOf
    <2>3. Opened(cookie)'
      BY <1>1, <2>1 DEF TurnsInv, TurnsTyped, TokensOpened, Opened, RowOf
    <2>4. ASSUME NEW u \in Tabs PROVE Opened(tabs[u].token)' /\ Opened(tabs[u].answer)'
      <3>1. tabs[u].token \in AnyToken \cup {None} /\ tabs[u].answer \in AnyToken \cup {None}
        BY DEF TurnsInv, TurnsTyped, AnyTab
      <3>2. PICK a, b : a = tabs[u].token /\ b = tabs[u].answer
        OBVIOUS
      <3>3. Opened(a)' /\ Opened(b)'
        BY <2>1, <3>1, <3>2 DEF TurnsInv, TokensOpened
      <3>4. tabs'[u].token = a /\ tabs'[u].answer \in {b, next}
        BY <1>5, <3>2 DEF token
      <3> QED BY <2>2, <3>3, <3>4 DEF Opened, RowOf
    <2>5. \A j \in 1..MaxLogins : sessionRows'[j].state = "absent" => sessionRows'[j].current = 0
      BY <1>3 DEF TurnsInv, TokensOpened
    <2> QED BY <2>3, <2>4, <2>5 DEF TokensOpened
  <1>9. ASSUME Turns PROVE Turns'
    <2>1. \A u \in Tabs : Holding(u) => u = t
      BY <1>1, <1>9 DEF Turns, Holding
    <2>2. \A u \in Tabs : Holding(u)' => u = t
      BY <1>5, <2>1 DEF Holding
    <2>3. Fresh(next)'
      BY <1>3, <1>4, <1>7 DEF Fresh, Known, IsCurrent, RowOf
    <2>4. Replaces(t)'
      BY <1>2, <1>5 DEF Replaces
    <2>5. \A j \in 1..MaxLogins : sessionRows'[j].state # "reuse_detected"
      BY <1>3, <1>9 DEF Turns
    <2>6. tabs'[t].answer = next /\ Fresh(tabs[t].answer)'
      BY <1>5, <2>3 DEF Fresh, Known, IsCurrent, RowOf
    <2> QED BY <1>5, <2>2, <2>4, <2>5, <2>6 DEF Turns, Holding
  <1> QED BY <1>1, <1>6, <1>8, <1>9 DEF TurnsInv

LEMMA RefuseKeeps ==
  ASSUME TurnsInv, NEW t \in Tabs, Refuse(t)
  PROVE  TurnsInv'
  <1>1. PICK token \in AnyToken \cup {None} : token = tabs[t].token
    BY DEF TurnsInv, TurnsTyped, AnyTab
  <1>2. PICK verdict \in {"reuse_detected", "idle_timeout", "keep"} : verdict = Verdict(token)
    BY DEF Verdict
  <1>3. /\ UNCHANGED <<locks, cookie, losses>> /\ tabs[t].call = "sent" /\ tabs[t] \in AnyTab
        /\ sessionRows' = IF verdict = "keep" THEN sessionRows
                          ELSE [sessionRows EXCEPT ![token.session].state = verdict]
        /\ tabs' = [tabs EXCEPT ![t].call = "answered", ![t].answer = None]
    BY <1>1, <1>2 DEF Refuse, Answer, TurnsInv, TurnsTyped
  <1>4. /\ tabs' \in [Tabs -> AnyTab] /\ tabs'[t].call = "answered"
        /\ tabs'[t].token = token /\ tabs'[t].answer = None
        /\ \A u \in Tabs : u # t => tabs'[u] = tabs[u]
    BY <1>1, <1>3 DEF TurnsInv, TurnsTyped, AnyTab
  <1>5. /\ verdict # "keep" => token \in AnyToken /\ RowOf(token).state = "live"
        /\ verdict = "reuse_detected" => IsPrevious(token)
    BY <1>1, <1>2 DEF Verdict, IsPrevious, TooIdle, IsCurrent, Known
  <1>6. /\ sessionRows' \in [1..MaxLogins -> AnyRow]
        /\ \A k \in 1..MaxLogins :
              /\ sessionRows'[k].current = sessionRows[k].current
              /\ sessionRows'[k].state = "absent" <=> sessionRows[k].state = "absent"
              /\ sessionRows'[k].state = "live" => sessionRows[k].state = "live"
              /\ sessionRows'[k].state = "reuse_detected" =>
                    sessionRows[k].state = "reuse_detected" \/ verdict = "reuse_detected"
    <2>1. CASE verdict = "keep"
      BY <1>3, <2>1 DEF TurnsInv, TurnsTyped
    <2>2. CASE verdict # "keep"
      <3>1. PICK s \in 1..MaxLogins : s = token.session /\ sessionRows[s].state = "live"
        BY <1>5, <2>2 DEF RowOf, AnyToken
      <3>2. /\ sessionRows' = [sessionRows EXCEPT ![s].state = verdict]
            /\ sessionRows \in [1..MaxLogins -> AnyRow]
        BY <1>3, <2>2, <3>1 DEF TurnsInv, TurnsTyped
      <3>3. /\ sessionRows' \in [1..MaxLogins -> AnyRow] /\ sessionRows'[s].state = verdict
            /\ sessionRows'[s].current = sessionRows[s].current
            /\ \A k \in 1..MaxLogins : k # s => sessionRows'[k] = sessionRows[k]
        BY <2>2, <3>1, <3>2 DEF AnyRow
      <3> QED BY <2>2, <3>1, <3>3
    <2> QED BY <2>1, <2>2
  <1>7. ASSUME NEW x \in AnyToken \cup {None}
        PROVE  (Opened(x) => Opened(x)') /\ (Fresh(x) => Fresh(x)')
    <2>1. x # None => x.session \in 1..MaxLogins
      BY DEF AnyToken
    <2> QED BY <1>6, <2>1 DEF Opened, Fresh, Known, IsCurrent, RowOf
  <1>8. /\ cookie \in AnyToken \cup {None}
        /\ \A u \in Tabs : /\ tabs[u].token \in AnyToken \cup {None}
                           /\ tabs[u].answer \in AnyToken \cup {None}
    BY DEF TurnsInv, TurnsTyped, AnyTab
  <1>9. TurnsTyped'
    BY <1>3, <1>4, <1>6 DEF TurnsInv, TurnsTyped
  <1>10. TokensOpened'
    <2>1. Opened(cookie)'
      BY <1>3, <1>7, <1>8 DEF TurnsInv, TokensOpened, Opened, RowOf
    <2>2. ASSUME NEW u \in Tabs PROVE Opened(tabs[u].token)' /\ Opened(tabs[u].answer)'
      <3>1. PICK a, b : a = tabs[u].token /\ b = tabs[u].answer
        OBVIOUS
      <3>2. Opened(a)' /\ Opened(b)'
        BY <1>7, <1>8, <3>1 DEF TurnsInv, TokensOpened
      <3>3. tabs'[u].token = a /\ tabs'[u].answer \in {b, None}
        BY <1>1, <1>4, <3>1
      <3> QED BY <3>2, <3>3 DEF Opened, RowOf
    <2>3. \A k \in 1..MaxLogins : sessionRows'[k].state = "absent" => sessionRows'[k].current = 0
      BY <1>6 DEF TurnsInv, TokensOpened
    <2> QED BY <2>1, <2>2, <2>3 DEF TokensOpened
  <1>11. ASSUME Turns PROVE Turns'
    <2>1. Fresh(token)
      BY <1>1, <1>3, <1>11 DEF Turns
    <2>2. verdict # "reuse_detected"
      <3>1. IsPrevious(token) => RowOf(token).current \in Nat /\ token.rotation \in Nat
        <4>1. IsPrevious(token) => token \in AnyToken
          BY <1>1 DEF IsPrevious, Known
        <4> QED BY <4>1 DEF AnyToken, AnyRow, RowOf, TurnsInv, TurnsTyped
      <3> QED BY <1>5, <2>1, <3>1 DEF Fresh, IsPrevious, IsCurrent
    <2>3. \A k \in 1..MaxLogins : sessionRows'[k].state # "reuse_detected"
      BY <1>6, <1>11, <2>2 DEF Turns
    <2>4. \A u \in Tabs : Holding(u)' => u = t
      BY <1>3, <1>4, <1>11 DEF Turns, Holding
    <2>5. Fresh(tabs[t].answer)'
      BY <1>4 DEF Fresh, Known
    <2>6. (\A u \in Tabs : ~Replaces(u)') => Fresh(cookie)'
      <3>1. CASE token # None
        BY <1>4, <3>1 DEF Replaces
      <3>2. CASE token = None
        <4>1. \A u \in Tabs : ~Replaces(u)
          BY <1>1, <1>3, <1>11, <3>2 DEF Turns, Holding, Replaces
        <4>2. Fresh(cookie)
          BY <1>11, <4>1 DEF Turns
        <4> QED BY <1>3, <1>7, <1>8, <4>2 DEF Fresh, Known, IsCurrent, RowOf
      <3> QED BY <3>1, <3>2
    <2> QED BY <1>4, <2>3, <2>4, <2>5, <2>6 DEF Turns, Holding
  <1> QED BY <1>3, <1>9, <1>10, <1>11 DEF TurnsInv

\* A call has ended.
LEMMA SettledTab ==
  ASSUME NEW auth \in AuthState, NEW session \in 0..MaxLogins
  PROVE  /\ Settled(auth, session) \in AnyTab /\ Settled(auth, session).call = "none"
         /\ Settled(auth, session).token = None /\ Settled(auth, session).answer = None
  BY DEF Settled, AnyTab

LEMMA ReceiveKeeps ==
  ASSUME TurnsInv, NEW t \in Tabs, Receive(t)
  PROVE  TurnsInv'
  <1>1. PICK token, answer \in AnyToken \cup {None} : token = tabs[t].token /\ answer = tabs[t].answer
    BY DEF TurnsInv, TurnsTyped, AnyTab
  <1>2. PICK auth \in AuthState : auth = IF answer = None THEN "anonymous" ELSE "authenticated"
    BY DEF AuthState
  <1>3. PICK session \in 0..MaxLogins : session = answer.session
    BY <1>1, SessionsAssumption DEF AnyToken, None
  <1>4. /\ tabs[t].call = "answered" /\ UNCHANGED <<locks, sessionRows, losses>>
        /\ cookie' = IF token = None THEN cookie ELSE answer
        /\ tabs' = [tabs EXCEPT ![t] = Settled(auth, session)]
    BY <1>1, <1>2, <1>3 DEF Receive, Ends
  <1>5. /\ tabs' \in [Tabs -> AnyTab] /\ tabs'[t].call = "none"
        /\ tabs'[t].token = None /\ tabs'[t].answer = None
        /\ \A u \in Tabs : u # t => tabs'[u] = tabs[u]
    <2>1. PICK new \in AnyTab : /\ new = Settled(auth, session) /\ new.call = "none"
                                /\ new.token = None /\ new.answer = None
      BY SettledTab
    <2> QED BY <1>4, <2>1 DEF TurnsInv, TurnsTyped
  <1>6. TurnsTyped'
    BY <1>1, <1>4, <1>5 DEF TurnsInv, TurnsTyped
  <1>7. TokensOpened'
    BY <1>1, <1>4, <1>5 DEF TurnsInv, TokensOpened, Opened, RowOf
  <1>8. ASSUME Turns PROVE Turns'
    <2>1. \A u \in Tabs : ~Holding(u)'
      BY <1>4, <1>5, <1>8 DEF Turns, Holding
    <2>2. Fresh(cookie)'
      <3>1. CASE token = None
        <4>1. \A u \in Tabs : ~Replaces(u)
          BY <1>1, <1>4, <1>8, <3>1 DEF Turns, Holding, Replaces
        <4> QED BY <1>4, <1>8, <3>1, <4>1 DEF Turns, Fresh, Known, IsCurrent, RowOf
      <3>2. CASE token # None
        BY <1>1, <1>4, <1>8, <3>2 DEF Turns, Fresh, Known, IsCurrent, RowOf
      <3> QED BY <3>1, <3>2
    <2> QED BY <1>4, <1>8, <2>1, <2>2 DEF Turns, Holding
  <1> QED BY <1>4, <1>6, <1>7, <1>8 DEF TurnsInv

LEMMA LoseKeeps ==
  ASSUME TurnsInv, NEW t \in Tabs, Lose(t)
  PROVE  TurnsInv'
  <1>1. /\ UNCHANGED <<locks, sessionRows, cookie>> /\ losses' = losses + 1
        /\ tabs' = [tabs EXCEPT ![t] = Settled("anonymous", 0)]
    BY DEF Lose
  <1>2. /\ tabs' \in [Tabs -> AnyTab] /\ tabs'[t].token = None /\ tabs'[t].answer = None
        /\ \A u \in Tabs : u # t => tabs'[u] = tabs[u]
    <2>1. PICK new \in AnyTab : /\ new = Settled("anonymous", 0)
                                /\ new.token = None /\ new.answer = None
      BY SettledTab, SessionsAssumption DEF AuthState
    <2> QED BY <1>1, <2>1 DEF TurnsInv, TurnsTyped
  <1>3. TurnsTyped' /\ losses' # 0
    BY <1>1, <1>2 DEF TurnsInv, TurnsTyped
  <1>4. TokensOpened'
    BY <1>1, <1>2 DEF TurnsInv, TokensOpened, Opened, RowOf
  <1> QED BY <1>3, <1>4 DEF TurnsInv

LEMMA SignInKeeps ==
  ASSUME TurnsInv, NEW t \in Tabs, SignIn(t)
  PROVE  TurnsInv'
  <1>1. PICK k : k = CHOOSE n \in Unused : \A o \in Unused : n <= o
    OBVIOUS
  <1>2. k \in Unused
    <2>1. Unused \subseteq Nat /\ Unused # {}
      BY SessionsAssumption DEF SignIn, Unused
    <2>2. \E n \in Unused : \A o \in Unused : n <= o
      BY <2>1, LeastNumber
    <2> QED BY <1>1, <2>2
  <1>3. /\ UNCHANGED <<locks, losses>> /\ tabs[t].call = "none"
        /\ sessionRows' = [sessionRows EXCEPT ![k].state = "live"]
        /\ cookie' = [session |-> k, rotation |-> 0]
        /\ tabs' = [tabs EXCEPT ![t] = Settled("authenticated", k)]
    BY <1>1 DEF SignIn
  <1>4. /\ k \in 1..MaxLogins /\ sessionRows[k] \in AnyRow
        /\ sessionRows[k].state = "absent" /\ sessionRows[k].current = 0
    BY <1>2 DEF Unused, TurnsInv, TurnsTyped, TokensOpened
  <1>5. /\ sessionRows' \in [1..MaxLogins -> AnyRow]
        /\ sessionRows'[k].state = "live" /\ sessionRows'[k].current = 0
        /\ \A j \in 1..MaxLogins : j # k => sessionRows'[j] = sessionRows[j]
    <2> DEFINE r == [sessionRows[k] EXCEPT !.state = "live"]
    <2>1. r \in AnyRow /\ r.state = "live" /\ r.current = 0
      BY <1>4 DEF AnyRow
    <2>2. sessionRows' = [sessionRows EXCEPT ![k] = r] /\ sessionRows \in [1..MaxLogins -> AnyRow]
      BY <1>3 DEF TurnsInv, TurnsTyped
    <2> HIDE DEF r
    <2> QED BY <1>4, <2>1, <2>2
  <1>6. cookie' \in AnyToken /\ cookie'.session = k /\ cookie'.rotation = 0
    BY <1>3, <1>4 DEF AnyToken
  <1>7. /\ tabs' \in [Tabs -> AnyTab] /\ tabs'[t].call = "none"
        /\ tabs'[t].token = None /\ tabs'[t].answer = None
        /\ \A u \in Tabs : u # t => tabs'[u] = tabs[u]
    <2>1. PICK new \in AnyTab : /\ new = Settled("authenticated", k) /\ new.call = "none"
                                /\ new.token = None /\ new.answer = None
      BY <1>4, SettledTab, SessionsAssumption DEF AuthState
    <2> QED BY <1>3, <2>1 DEF TurnsInv, TurnsTyped
  <1>8. TurnsTyped'
    BY <1>3, <1>5, <1>6, <1>7 DEF TurnsInv, TurnsTyped
  <1>9. ASSUME NEW x \in AnyToken \cup {None}, Opened(x)
        PROVE  Opened(x)' /\ (Fresh(x) => Fresh(x)')
    <2>1. x # None => x.session \in 1..MaxLogins /\ x.session # k
      BY <1>4, <1>9 DEF AnyToken, Opened, RowOf
    <2> QED BY <1>5, <1>9, <2>1 DEF Opened, Fresh, Known, IsCurrent, RowOf
  <1>10. ASSUME NEW u \in Tabs
         PROVE  /\ Opened(tabs[u].token)' /\ Opened(tabs[u].answer)'
                /\ u # t /\ Fresh(tabs[u].token) => Fresh(tabs[u].token)'
                /\ u # t /\ Fresh(tabs[u].answer) => Fresh(tabs[u].answer)'
    <2>1. CASE u = t
      BY <1>7, <2>1 DEF Opened
    <2>2. CASE u # t
      <3>1. PICK a, b \in AnyToken \cup {None} : a = tabs[u].token /\ b = tabs[u].answer
        BY DEF TurnsInv, TurnsTyped, AnyTab
      <3>2. /\ Opened(a)' /\ (Fresh(a) => Fresh(a)')
            /\ Opened(b)' /\ (Fresh(b) => Fresh(b)')
        BY <1>9, <3>1 DEF TurnsInv, TokensOpened
      <3>3. tabs'[u].token = a /\ tabs'[u].answer = b
        BY <1>7, <2>2, <3>1
      <3> QED BY <3>1, <3>2, <3>3 DEF Opened, Fresh, Known, IsCurrent, RowOf
    <2> QED BY <2>1, <2>2
  <1>11. TokensOpened'
    <2>1. Opened(cookie)'
      BY <1>5, <1>6 DEF Opened, RowOf
    <2>2. \A j \in 1..MaxLogins : sessionRows'[j].state = "absent" => sessionRows'[j].current = 0
      BY <1>5 DEF TurnsInv, TokensOpened
    <2> QED BY <1>10, <2>1, <2>2 DEF TokensOpened
  <1>12. ASSUME Turns PROVE Turns'
    <2>1. Fresh(cookie)'
      BY <1>5, <1>6 DEF Fresh, Known, IsCurrent, RowOf
    <2>2. \A j \in 1..MaxLogins : sessionRows'[j].state # "reuse_detected"
      BY <1>5, <1>12 DEF Turns
    <2>3. \A u, v \in Tabs : Holding(u)' /\ Holding(v)' => u = v
      BY <1>7, <1>12 DEF Turns, Holding
    <2>4. \A u \in Tabs : /\ tabs'[u].call = "sent" => Fresh(tabs[u].token)'
                          /\ tabs'[u].call = "answered" => Fresh(tabs[u].answer)'
      BY <1>7, <1>10, <1>12 DEF Turns
    <2> QED BY <2>1, <2>2, <2>3, <2>4 DEF Turns
  <1> QED BY <1>3, <1>8, <1>11, <1>12 DEF TurnsInv

LEMMA SignOutKeeps ==
  ASSUME TurnsInv, NEW t \in Tabs, NEW reached \in BOOLEAN, SignOut(t, reached)
  PROVE  TurnsInv'
  <1>1. /\ tabs[t].call = "none" /\ UNCHANGED locks
        /\ tabs' = [tabs EXCEPT ![t] = Settled("anonymous", 0)]
    BY DEF SignOut
  <1>2. /\ tabs' \in [Tabs -> AnyTab] /\ tabs'[t].call = "none"
        /\ tabs'[t].token = None /\ tabs'[t].answer = None
        /\ \A u \in Tabs : u # t => tabs'[u] = tabs[u]
    <2>1. PICK new \in AnyTab : /\ new = Settled("anonymous", 0) /\ new.call = "none"
                                /\ new.token = None /\ new.answer = None
      BY SettledTab, SessionsAssumption DEF AuthState
    <2> QED BY <1>1, <2>1 DEF TurnsInv, TurnsTyped
  <1>3. CASE ~reached
    <2>1. losses' = losses + 1 /\ UNCHANGED <<sessionRows, cookie>>
      BY <1>3 DEF SignOut
    <2>2. TurnsTyped' /\ losses' # 0
      BY <1>1, <1>2, <2>1 DEF TurnsInv, TurnsTyped
    <2>3. TokensOpened'
      BY <1>2, <2>1 DEF TurnsInv, TokensOpened, Opened, RowOf
    <2> QED BY <2>2, <2>3 DEF TurnsInv
  <1>4. CASE reached
    <2>1. /\ losses' = losses /\ cookie' = None
          /\ sessionRows' = [sessionRows EXCEPT ![tabs[t].session].state =
                IF @ = "live" THEN "signed_out" ELSE @]
      BY <1>4 DEF SignOut
    <2>2. /\ sessionRows' \in [1..MaxLogins -> AnyRow]
          /\ \A k \in 1..MaxLogins :
                /\ sessionRows'[k].current = sessionRows[k].current
                /\ sessionRows'[k].state = "absent" <=> sessionRows[k].state = "absent"
                /\ sessionRows'[k].state \in {"live", "reuse_detected"} =>
                      sessionRows'[k].state = sessionRows[k].state
      <3>1. sessionRows \in [1..MaxLogins -> AnyRow]
        BY DEF TurnsInv, TurnsTyped
      <3>2. PICK s : s = tabs[t].session
        OBVIOUS
      <3>3. CASE s \notin 1..MaxLogins
        BY <2>1, <3>1, <3>2, <3>3
      <3>4. CASE s \in 1..MaxLogins
        <4>1. PICK state : state = IF sessionRows[s].state = "live" THEN "signed_out" ELSE sessionRows[s].state
          OBVIOUS
        <4> DEFINE r == [sessionRows[s] EXCEPT !.state = state]
        <4>2. r \in AnyRow /\ r.current = sessionRows[s].current /\ r.state = state
          <5>1. sessionRows[s] \in AnyRow
            BY <3>1, <3>4
          <5> QED BY <4>1, <5>1 DEF AnyRow
        <4>3. sessionRows' = [sessionRows EXCEPT ![s] = r]
          BY <2>1, <3>1, <3>2, <3>4, <4>1
        <4> HIDE DEF r
        <4> QED BY <3>1, <3>4, <4>1, <4>2, <4>3
      <3> QED BY <3>3, <3>4
    <2>3. /\ \A x \in AnyToken \cup {None} :
                (Opened(x) => Opened(x)') /\ (Fresh(x) => Fresh(x)')
          /\ \A k \in 1..MaxLogins : sessionRows'[k].state = "absent" => sessionRows'[k].current = 0
          /\ locks /\ losses = 0 => \A k \in 1..MaxLogins : sessionRows'[k].state # "reuse_detected"
      BY <2>2, RowsAge
    <2>4. TurnsTyped'
      BY <1>1, <1>2, <2>1, <2>2 DEF TurnsInv, TurnsTyped
    <2>5. ASSUME NEW u \in Tabs
          PROVE  /\ Opened(tabs[u].token)' /\ Opened(tabs[u].answer)'
                 /\ u # t /\ Fresh(tabs[u].token) => Fresh(tabs[u].token)'
                 /\ u # t /\ Fresh(tabs[u].answer) => Fresh(tabs[u].answer)'
      <3>1. CASE u = t
        BY <1>2, <3>1 DEF Opened
      <3>2. CASE u # t
        <4>1. PICK a, b \in AnyToken \cup {None} : a = tabs[u].token /\ b = tabs[u].answer
          BY DEF TurnsInv, TurnsTyped, AnyTab
        <4>2. /\ Opened(a)' /\ (Fresh(a) => Fresh(a)')
              /\ Opened(b)' /\ (Fresh(b) => Fresh(b)')
          BY <2>3, <4>1 DEF TurnsInv, TokensOpened
        <4>3. tabs'[u].token = a /\ tabs'[u].answer = b
          BY <1>2, <3>2, <4>1
        <4> QED BY <4>1, <4>2, <4>3 DEF Opened, Fresh, Known, IsCurrent, RowOf
      <3> QED BY <3>1, <3>2
    <2>6. TokensOpened'
      BY <2>1, <2>3, <2>5 DEF TokensOpened, Opened
    <2>7. ASSUME locks, losses = 0, Turns PROVE Turns'
      <3>1. Fresh(cookie)'
        BY <2>1 DEF Fresh, Known
      <3>2. \A u, v \in Tabs : Holding(u)' /\ Holding(v)' => u = v
        BY <1>2, <2>7 DEF Turns, Holding
      <3>3. \A u \in Tabs : /\ tabs'[u].call = "sent" => Fresh(tabs[u].token)'
                            /\ tabs'[u].call = "answered" => Fresh(tabs[u].answer)'
        BY <1>2, <2>5, <2>7 DEF Turns
      <3> QED BY <2>3, <2>7, <3>1, <3>2, <3>3 DEF Turns
    <2> QED BY <1>1, <2>1, <2>4, <2>6, <2>7 DEF TurnsInv
  <1> QED BY <1>3, <1>4

LEMMA SessionAgesKeeps ==
  ASSUME TurnsInv, NEW k \in 1..MaxLogins, NEW change \in {"grace", "idle", "expired"},
         SessionAges(k, change)
  PROVE  TurnsInv'
  <1>1. UNCHANGED <<locks, cookie, tabs, losses>> /\ sessionRows[k].state = "live"
    BY DEF SessionAges
  <1>2. /\ sessionRows' \in [1..MaxLogins -> AnyRow]
        /\ \A j \in 1..MaxLogins :
              /\ sessionRows'[j].current = sessionRows[j].current
              /\ sessionRows'[j].state = "absent" <=> sessionRows[j].state = "absent"
              /\ sessionRows'[j].state \in {"live", "reuse_detected"} =>
                    sessionRows'[j].state = sessionRows[j].state
    <2>1. sessionRows \in [1..MaxLogins -> AnyRow] /\ sessionRows[k] \in AnyRow
      BY DEF TurnsInv, TurnsTyped
    <2>2. CASE sessionRows' = [sessionRows EXCEPT ![k].grace = FALSE]
      BY <2>1, <2>2 DEF AnyRow
    <2>3. CASE sessionRows' = [sessionRows EXCEPT ![k].idle = TRUE, ![k].grace = FALSE]
      BY <2>1, <2>3 DEF AnyRow
    <2>4. CASE sessionRows' = [sessionRows EXCEPT ![k].state = "expired"]
      BY <1>1, <2>1, <2>4 DEF AnyRow
    <2> QED BY <2>2, <2>3, <2>4 DEF SessionAges
  <1>3. /\ \A x \in AnyToken \cup {None} :
              (Opened(x) => Opened(x)') /\ (Fresh(x) => Fresh(x)')
        /\ \A j \in 1..MaxLogins : sessionRows'[j].state = "absent" => sessionRows'[j].current = 0
        /\ locks /\ losses = 0 => \A j \in 1..MaxLogins : sessionRows'[j].state # "reuse_detected"
    BY <1>2, RowsAge
  <1>4. TurnsTyped'
    BY <1>1, <1>2 DEF TurnsInv, TurnsTyped
  <1>5. ASSUME NEW u \in Tabs
        PROVE  /\ Opened(tabs[u].token)' /\ Opened(tabs[u].answer)'
               /\ Fresh(tabs[u].token) => Fresh(tabs[u].token)'
               /\ Fresh(tabs[u].answer) => Fresh(tabs[u].answer)'
    <2>1. PICK a, b \in AnyToken \cup {None} : a = tabs[u].token /\ b = tabs[u].answer
      BY DEF TurnsInv, TurnsTyped, AnyTab
    <2>2. /\ Opened(a)' /\ (Fresh(a) => Fresh(a)')
          /\ Opened(b)' /\ (Fresh(b) => Fresh(b)')
      BY <1>3, <2>1 DEF TurnsInv, TokensOpened
    <2>3. tabs'[u].token = a /\ tabs'[u].answer = b
      BY <1>1, <2>1
    <2> QED BY <2>1, <2>2, <2>3 DEF Opened, Fresh, Known, IsCurrent, RowOf
  <1>6. Opened(cookie)' /\ (Fresh(cookie) => Fresh(cookie)')
    <2>1. PICK a \in AnyToken \cup {None} : a = cookie
      BY DEF TurnsInv, TurnsTyped
    <2>2. Opened(a)' /\ (Fresh(a) => Fresh(a)') /\ cookie' = a
      BY <1>1, <1>3, <2>1 DEF TurnsInv, TokensOpened
    <2> QED BY <2>1, <2>2 DEF Opened, Fresh, Known, IsCurrent, RowOf
  <1>7. TokensOpened'
    BY <1>3, <1>5, <1>6 DEF TokensOpened
  <1>8. ASSUME locks, losses = 0, Turns PROVE Turns'
    <2>1. \A u, v \in Tabs : Holding(u)' /\ Holding(v)' => u = v
      BY <1>1, <1>8 DEF Turns, Holding
    <2>2. \A u \in Tabs : /\ tabs'[u].call = "sent" => Fresh(tabs[u].token)'
                          /\ tabs'[u].call = "answered" => Fresh(tabs[u].answer)'
      BY <1>1, <1>5, <1>8 DEF Turns
    <2>3. (\A u \in Tabs : ~Replaces(u)') => Fresh(cookie)'
      BY <1>1, <1>6, <1>8 DEF Turns, Replaces
    <2> QED BY <1>3, <1>8, <2>1, <2>2, <2>3 DEF Turns
  <1> QED BY <1>1, <1>4, <1>7, <1>8 DEF TurnsInv

\* However many tabs take turns at the lock, and whatever they do between the refreshes, no
\* session ends as reused and the cookie of a live session is its current token, as long as no
\* answer is lost (api-client.ts: refreshSession; auth.service.ts: refresh).
THEOREM TurnsKeepTheSession == SessionsSpec => []TurnsKeepSession
  <1>1. SessionsInit => TurnsInv
    <2> SUFFICES ASSUME SessionsInit PROVE TurnsInv
      OBVIOUS
    <2>1. NoRow \in AnyRow /\ NoRow.state = "absent" /\ NoRow.current = 0
      BY DEF NoRow, AnyRow
    <2>2. PICK tab \in AnyTab : /\ tab = Settled("anonymous", 0) /\ tab.call = "none"
                                /\ tab.token = None /\ tab.answer = None
      BY SettledTab, SessionsAssumption DEF AuthState
    <2>3. TurnsTyped
      BY <2>1, <2>2 DEF SessionsInit, TurnsTyped
    <2>4. TokensOpened
      BY <2>1, <2>2 DEF SessionsInit, TokensOpened, Opened
    <2>5. Turns
      BY <2>1, <2>2 DEF SessionsInit, Turns, Holding, Fresh, Known
    <2> QED BY <2>3, <2>4, <2>5 DEF TurnsInv
  <1>2. TurnsInv /\ [SessionsNext]_sessionVars => TurnsInv'
    <2>1. TurnsInv /\ UNCHANGED sessionVars => TurnsInv'
      BY DEF sessionVars, TurnsInv, TurnsTyped, TokensOpened, Turns, Opened, Holding, Replaces, Fresh,
             Known, IsCurrent, RowOf
    <2> QED BY <2>1, StartRefreshKeeps, SendRefreshKeeps, RotateKeeps, RefuseKeeps, ReceiveKeeps,
               LoseKeeps, SignInKeeps, SignOutKeeps, SessionAgesKeeps DEF SessionsNext
  <1>3. TurnsInv => TurnsKeepSession
    BY DEF TurnsInv, Turns, TurnsKeepSession, LockFree, Replaces, Fresh
  <1> QED BY <1>1, <1>2, <1>3, PTL DEF SessionsSpec

-----------------------------------------------------------------------------
(* RateLimits: the window *)

LimiterSpec == RateLimitsInit /\ [][RateLimitsNext]_limiterVars

InWindow(t) == {i \in DOMAIN admitted : admitted[i] <= t /\ admitted[i] + WindowMs > t}

\* The key's list holds every hit still in the window, and no window is overfull.
LimiterInv ==
    /\ clockMs \in Nat /\ admitted \in Seq(Nat) /\ hits \subseteq DOMAIN admitted
    /\ \A i, j \in DOMAIN admitted : i <= j => admitted[i] <= admitted[j]
    /\ \A i \in DOMAIN admitted :
         /\ admitted[i] <= clockMs
         /\ admitted[i] + WindowMs > clockMs => i \in hits
    /\ \A t \in Nat : IsFiniteSet(InWindow(t)) /\ Cardinality(InWindow(t)) <= Limit

LEMMA WindowNow ==
  ASSUME LimiterInv
  PROVE  Recent(clockMs) = InWindow(clockMs)
  BY DEF LimiterInv, Recent, InWindow

\* Waiting as many whole seconds as retryAfterSeconds() says is long enough.
LEMMA SecondsCover ==
  ASSUME NEW left \in Nat, NEW second \in Nat \ {0}
  PROVE  /\ (left + second - 1) \div second \in Nat
         /\ ((left + second - 1) \div second) * second >= left
  OBVIOUS

LEMMA TakeKeeps ==
  ASSUME LimiterInv, NEW later \in Nat, Take(later)
  PROVE  LimiterInv'
  <1>1. /\ clockMs \in Nat /\ admitted \in Seq(Nat) /\ later >= clockMs /\ clockMs' = later
        /\ WindowMs \in Nat /\ Limit \in Nat
    BY RateLimitsAssumption DEF LimiterInv, Take
  <1>2. CASE Cardinality(Recent(clockMs)) >= Limit
    <2>1. hits' = Recent(clockMs) /\ admitted' = admitted
      BY <1>2 DEF Take
    <2>2. hits' \subseteq DOMAIN admitted
      BY <2>1 DEF LimiterInv, Recent
    <2>3. ASSUME NEW i \in DOMAIN admitted
          PROVE  admitted[i] <= later /\ (admitted[i] + WindowMs > later => i \in hits')
      <3>1. admitted[i] \in Nat /\ admitted[i] <= clockMs
            /\ (admitted[i] + WindowMs > clockMs => i \in hits)
        BY DEF LimiterInv
      <3>2. admitted[i] + WindowMs > clockMs /\ i \in hits => i \in hits'
        BY <2>1 DEF Recent
      <3> QED BY <1>1, <3>1, <3>2
    <2>4. \A t \in Nat : InWindow(t)' = InWindow(t)
      BY <2>1 DEF InWindow
    <2> QED BY <1>1, <2>1, <2>2, <2>3, <2>4 DEF LimiterInv
  <1>3. CASE Cardinality(Recent(clockMs)) < Limit
    <2>1. PICK n \in Nat : n = Len(admitted)
      BY <1>1
    <2>2. PICK g : g = Append(admitted, later)
      OBVIOUS
    <2>3. admitted' = g /\ hits' = Recent(clockMs) \cup {n + 1}
      <3>1. ~(Cardinality(Recent(clockMs)) >= Limit)
        <4>1. Cardinality(Recent(clockMs)) \in Nat
          BY <1>1, WindowNow, FS_CardinalityType DEF LimiterInv
        <4> QED BY <1>1, <1>3, <4>1
      <3> QED BY <2>1, <2>2, <3>1 DEF Take
    <2>4. /\ g \in Seq(Nat) /\ Len(g) = n + 1 /\ g[n + 1] = later
          /\ \A i \in 1..n : g[i] = admitted[i]
      BY <1>1, <2>1, <2>2, AppendProperties
    <2>5. DOMAIN admitted = 1..n /\ DOMAIN g = (1..n) \cup {n + 1} /\ n + 1 \notin 1..n
      <3>1. DOMAIN g = 1..n + 1
        BY <2>1, <2>4
      <3> QED BY <1>1, <2>1, <3>1
    <2>6. \A i \in 1..n : /\ g[i] \in Nat /\ g[i] <= clockMs /\ g[i] = admitted[i]
                          /\ (g[i] + WindowMs > clockMs => i \in hits)
      BY <1>1, <2>4, <2>5 DEF LimiterInv
    <2>7. hits' \subseteq DOMAIN g
      BY <2>3, <2>5 DEF LimiterInv, Recent
    <2>8. \A i, j \in DOMAIN g : i <= j => g[i] <= g[j]
      <3>1. \A i, j \in 1..n : i <= j => g[i] <= g[j]
        BY <2>5, <2>6 DEF LimiterInv
      <3>2. \A i \in 1..n : g[i] <= g[n + 1] /\ ~(n + 1 <= i)
        BY <1>1, <2>4, <2>6
      <3> QED BY <1>1, <2>4, <2>5, <3>1, <3>2
    <2>9. \A i \in DOMAIN g : g[i] <= later /\ (g[i] + WindowMs > later => i \in hits')
      <3>1. ASSUME NEW i \in 1..n PROVE g[i] <= later /\ (g[i] + WindowMs > later => i \in hits')
        <4>1. g[i] <= later /\ (g[i] + WindowMs > later => g[i] + WindowMs > clockMs)
          BY <1>1, <2>6
        <4>2. g[i] + WindowMs > clockMs => i \in hits'
          BY <2>3, <2>6 DEF Recent
        <4> QED BY <4>1, <4>2
      <3> QED BY <1>1, <2>3, <2>4, <2>5, <3>1
    <2>10. ASSUME NEW t \in Nat
           PROVE  IsFiniteSet(InWindow(t)') /\ Cardinality(InWindow(t)') <= Limit
      <3>1. IsFiniteSet(InWindow(t)) /\ Cardinality(InWindow(t)) <= Limit
        BY DEF LimiterInv
      <3>2. InWindow(t)' = {i \in DOMAIN g : g[i] <= t /\ g[i] + WindowMs > t}
        BY <2>3 DEF InWindow
      <3>3. InWindow(t) = {i \in 1..n : g[i] <= t /\ g[i] + WindowMs > t}
        BY <2>5, <2>6 DEF InWindow
      <3>4. CASE t < later
        <4>1. ~(g[n + 1] <= t)
          BY <1>1, <2>4, <3>4
        <4>2. InWindow(t)' = InWindow(t)
          BY <2>5, <3>2, <3>3, <4>1
        <4> QED BY <3>1, <4>2
      <3>5. CASE t >= later
        <4>1. InWindow(t) \subseteq Recent(clockMs)
          <5> SUFFICES ASSUME NEW i \in InWindow(t) PROVE i \in Recent(clockMs)
            OBVIOUS
          <5>1. i \in 1..n /\ g[i] + WindowMs > t
            BY <3>3
          <5>2. g[i] + WindowMs > clockMs
            BY <1>1, <2>6, <3>5, <5>1
          <5> QED BY <2>6, <5>1, <5>2 DEF Recent
        <4>2. IsFiniteSet(Recent(clockMs))
          BY <1>1, WindowNow DEF LimiterInv
        <4>3. Cardinality(InWindow(t)) <= Cardinality(Recent(clockMs))
          BY <4>1, <4>2, FS_Subset
        <4>4. PICK k \in Nat : k = Cardinality(InWindow(t))
          BY <3>1, FS_CardinalityType
        <4>5. PICK m \in Nat : m = Cardinality(Recent(clockMs))
          BY <4>2, FS_CardinalityType
        <4>6. IsFiniteSet(InWindow(t) \cup {n + 1}) /\ Cardinality(InWindow(t) \cup {n + 1}) <= k + 1
          <5>1. IsFiniteSet(InWindow(t) \cup {n + 1})
                /\ (Cardinality(InWindow(t) \cup {n + 1}) = k
                    \/ Cardinality(InWindow(t) \cup {n + 1}) = k + 1)
            BY <3>1, <4>4, FS_AddElement
          <5> QED BY <5>1
        <4>7. InWindow(t)' = InWindow(t) \/ InWindow(t)' = InWindow(t) \cup {n + 1}
          BY <2>5, <3>2, <3>3
        <4>8. k + 1 <= Limit
          BY <1>1, <1>3, <4>3, <4>4, <4>5
        <4>9. CASE InWindow(t)' = InWindow(t) \cup {n + 1}
          <5>1. PICK c \in Nat : c = Cardinality(InWindow(t) \cup {n + 1})
            BY <4>6, FS_CardinalityType
          <5> QED BY <1>1, <4>6, <4>8, <4>9, <5>1
        <4> QED BY <3>1, <4>7, <4>9
      <3> QED BY <1>1, <3>4, <3>5
    <2> QED BY <1>1, <2>3, <2>4, <2>7, <2>8, <2>9, <2>10 DEF LimiterInv
  <1>4. Cardinality(Recent(clockMs)) \in Nat
    BY <1>1, WindowNow, FS_CardinalityType DEF LimiterInv
  <1> QED BY <1>1, <1>2, <1>3, <1>4

LEMMA NextLimiter ==
  ASSUME LimiterInv, [RateLimitsNext]_limiterVars
  PROVE  LimiterInv'
  <1>1. ASSUME NEW later \in clockMs..(IF clockMs < LastMs THEN clockMs + 1 ELSE clockMs),
               Take(later)
        PROVE  LimiterInv'
    <2>1. later \in Nat
      BY RateLimitsAssumption DEF LimiterInv
    <2> QED BY <1>1, <2>1, TakeKeeps
  <1>2. ASSUME UNCHANGED <<hits, admitted>>, clockMs' = clockMs \/ clockMs' = clockMs + 1
        PROVE  LimiterInv'
    <2>1. clockMs' \in Nat /\ clockMs' >= clockMs /\ WindowMs \in Nat
      BY <1>2, RateLimitsAssumption DEF LimiterInv
    <2>2. \A t \in Nat : InWindow(t)' = InWindow(t)
      BY <1>2 DEF InWindow
    <2>3. ASSUME NEW i \in DOMAIN admitted
          PROVE  admitted[i] <= clockMs' /\ (admitted[i] + WindowMs > clockMs' => i \in hits)
      <3>1. admitted[i] \in Nat /\ admitted[i] <= clockMs /\ clockMs \in Nat
            /\ (admitted[i] + WindowMs > clockMs => i \in hits)
        BY DEF LimiterInv
      <3> QED BY <2>1, <3>1
    <2> QED BY <1>2, <2>1, <2>2, <2>3 DEF LimiterInv
  <1> QED
    BY <1>1, <1>2 DEF RateLimitsNext, MillisecondPasses, limiterVars

\* No window holds more hits than the limit, wherever it starts, and whoever waits for
\* retryAfterSeconds() is let through (sliding-window.ts).
THEOREM LimitsHold == LimiterSpec => []LimitHolds
  <1>1. RateLimitsInit => LimiterInv
    <2> SUFFICES ASSUME RateLimitsInit PROVE LimiterInv
      OBVIOUS
    <2>1. clockMs \in Nat /\ admitted \in Seq(Nat) /\ DOMAIN admitted = {} /\ hits = {}
      BY DEF RateLimitsInit
    <2>2. \A t \in Nat : InWindow(t) = {}
      BY <2>1 DEF InWindow
    <2>3. IsFiniteSet({}) /\ Cardinality({}) = 0 /\ 0 <= Limit
      BY FS_EmptySet, RateLimitsAssumption
    <2> QED BY <2>1, <2>2, <2>3 DEF LimiterInv
  <1>2. LimiterInv /\ [RateLimitsNext]_limiterVars => LimiterInv'
    BY NextLimiter
  <1>3. LimiterInv => LimitHolds
    <2> SUFFICES ASSUME LimiterInv PROVE LimitHolds
      OBVIOUS
    <2>1. ASSUME NEW t \in 0..LastMs PROVE Cardinality(InWindow(t)) <= Limit
      <3>1. t \in Nat
        BY RateLimitsAssumption
      <3> QED BY <3>1 DEF LimiterInv
    <2>2. PICK now : now = Recent(clockMs)
      OBVIOUS
    <2>3. /\ IsFiniteSet(now) /\ Cardinality(now) <= Limit /\ now \subseteq DOMAIN admitted
          /\ clockMs \in Nat /\ WindowMs \in Nat /\ SecondMs \in Nat \ {0} /\ Limit \in Nat \ {0}
          /\ DOMAIN admitted \subseteq Nat
      <3>1. now = InWindow(clockMs)
        BY <2>2, WindowNow
      <3> QED BY <2>2, <3>1, RateLimitsAssumption DEF LimiterInv, InWindow
    <2>4. PICK k \in Nat : k = Cardinality(now)
      BY <2>3, FS_CardinalityType
    <2>5. PICK wait : wait = RetryAfterSeconds
      OBVIOUS
    <2>6. CASE now = {}
      <3>1. wait = 0
        BY <2>2, <2>5, <2>6 DEF RetryAfterSeconds
      <3>2. PICK later : later = clockMs + wait * SecondMs
        OBVIOUS
      <3>3. later = clockMs
        BY <2>3, <3>1, <3>2
      <3>4. Cardinality(Recent(later)) < Limit
        <4>1. Recent(later) = {}
          BY <2>2, <2>6, <3>3
        <4>2. Cardinality({}) = 0 /\ 0 < Limit
          BY <2>3, FS_EmptySet
        <4> QED BY <4>1, <4>2
      <3> QED BY <2>1, <2>5, <3>2, <3>4 DEF LimitHolds, InWindow
    <2>7. CASE now # {}
      <3>1. PICK oldest \in now : oldest = Min(now)
        <4>1. \E least \in now : \A n \in now : least <= n
          BY <2>3, <2>7, LeastNumber
        <4> QED BY <4>1 DEF Min
      <3>2. PICK left : left = admitted[oldest] + WindowMs - clockMs
        OBVIOUS
      <3>3. left \in Nat /\ oldest \in DOMAIN admitted /\ admitted[oldest] \in Nat
        BY <2>2, <2>3, <3>2 DEF LimiterInv, Recent
      <3>4. PICK seconds : seconds = (left + SecondMs - 1) \div SecondMs
        OBVIOUS
      <3>5. seconds \in Nat /\ seconds * SecondMs >= left
        BY <2>3, <3>3, <3>4, SecondsCover
      <3>6. wait = IF seconds > 1 THEN seconds ELSE 1
        BY <2>2, <2>5, <2>7, <3>1, <3>2, <3>4 DEF RetryAfterSeconds
      <3>7. wait \in Nat /\ wait * SecondMs \in Nat /\ wait * SecondMs >= left
        BY <2>3, <3>3, <3>5, <3>6
      <3>8. PICK later \in Nat : later = clockMs + wait * SecondMs
        BY <2>3, <3>7
      <3>9. Recent(later) \subseteq now \ {oldest}
        <4> SUFFICES ASSUME NEW i \in Recent(later) PROVE i \in now /\ i # oldest
          OBVIOUS
        <4>1. i \in hits /\ i \in DOMAIN admitted /\ admitted[i] \in Nat
              /\ admitted[i] + WindowMs > later
          BY DEF LimiterInv, Recent
        <4>2. later >= clockMs /\ later >= admitted[oldest] + WindowMs
          BY <2>3, <3>2, <3>3, <3>7, <3>8
        <4>3. admitted[i] + WindowMs > clockMs /\ i # oldest
          BY <2>3, <3>3, <3>8, <4>1, <4>2
        <4> QED BY <2>2, <4>1, <4>3 DEF Recent
      <3>10. IsFiniteSet(now \ {oldest}) /\ Cardinality(now \ {oldest}) = k - 1
        BY <2>3, <2>4, <3>1, FS_RemoveElement
      <3>11. IsFiniteSet(Recent(later)) /\ Cardinality(Recent(later)) <= k - 1
        BY <3>9, <3>10, FS_Subset
      <3>12. Cardinality(Recent(later)) < Limit
        <4>1. PICK c \in Nat : c = Cardinality(Recent(later))
          BY <3>11, FS_CardinalityType
        <4> QED BY <2>3, <2>4, <3>11, <4>1
      <3> QED BY <2>1, <2>5, <3>8, <3>12 DEF LimitHolds, InWindow
    <2> QED BY <2>6, <2>7
  <1> QED
    BY <1>1, <1>2, <1>3, PTL DEF LimiterSpec

-----------------------------------------------------------------------------
(* ApiLogs: every finished request in one place *)

LogsSpec == ApiLogsInit /\ [][ApiLogsNext]_logVars

Increasing(s) == \A i, j \in DOMAIN s : i < j => s[i] < s[j]

Below(S, T) == \A x \in S, y \in T : x < y

LogsTyped ==
    /\ server \in {"up", "closing", "flushing", "closed", "killed"}
    /\ queue \in Seq(Nat) /\ batch \in Seq(Nat) /\ table \in Seq(Nat)
    /\ entries \in Nat /\ chained \in Nat /\ timer \in BOOLEAN
    /\ writer \in {"idle", "looping", "writing"}

\* Entries move in the order they came: from the queue to the batch, and to the table.
InOrder ==
    /\ Increasing(queue) /\ Increasing(batch) /\ Increasing(table)
    /\ Below(ToSet(table), ToSet(batch) \cup ToSet(queue))
    /\ Below(ToSet(batch), ToSet(queue))

NoneMissing ==
    /\ 1..entries = ToSet(table) \cup ToSet(batch) \cup ToSet(queue) \cup lost
    /\ lost \cap (ToSet(table) \cup ToSet(batch) \cup ToSet(queue)) = {}

\* Somebody comes for what is in the queue; a closed server has nothing left.
Fetched ==
    /\ Len(queue) <= MaxQueue
    /\ batch # <<>> => writer = "writing"
    /\ queue # <<>> /\ server # "killed" => timer \/ chained > 0 \/ writer # "idle"
    /\ server \in {"flushing", "closed"} => ~timer
    /\ server = "closed" => queue = <<>> /\ writer = "idle" /\ chained = 0

LogsInv == LogsTyped /\ InOrder /\ NoneMissing /\ Fetched

\* g is s and then t; s is cut into g and h.
Joins(g, s, t) ==
    /\ g \in Seq(Nat) /\ ToSet(g) = ToSet(s) \cup ToSet(t)
    /\ Increasing(s) /\ Increasing(t) /\ Below(ToSet(s), ToSet(t)) => Increasing(g)

CutInto(s, g, h, k) ==
    /\ g \in Seq(Nat) /\ h \in Seq(Nat) /\ Len(h) = Len(s) - k
    /\ ToSet(s) = ToSet(g) \cup ToSet(h)
    /\ Increasing(g) /\ Increasing(h) /\ Below(ToSet(g), ToSet(h))

LEMMA JoinedSeq ==
  ASSUME NEW s \in Seq(Nat), NEW t \in Seq(Nat), NEW g, g = s \o t
  PROVE  Joins(g, s, t)
  <1>1. /\ g \in Seq(Nat) /\ Len(g) = Len(s) + Len(t)
        /\ \A i \in 1..Len(s) + Len(t) : g[i] = IF i <= Len(s) THEN s[i] ELSE t[i - Len(s)]
    BY ConcatProperties
  <1>2. PICK m \in Nat, n \in Nat : m = Len(s) /\ n = Len(t)
    OBVIOUS
  <1>3. DOMAIN s = 1..m /\ DOMAIN t = 1..n /\ DOMAIN g = 1..m + n
    BY <1>1, <1>2
  <1>4. /\ \A i \in 1..m : i \in DOMAIN g /\ g[i] = s[i]
        /\ \A i \in 1..n : m + i \in DOMAIN g /\ g[m + i] = t[i]
        /\ \A i \in DOMAIN g : i \in 1..m \/ i - m \in 1..n
    BY <1>1, <1>2, <1>3
  <1>5. ToSet(g) = ToSet(s) \cup ToSet(t)
    <2>1. ASSUME NEW i \in DOMAIN g PROVE g[i] \in ToSet(s) \cup ToSet(t)
      BY <1>1, <1>2, <1>3, <1>4 DEF ToSet
    <2>2. ASSUME NEW i \in DOMAIN s PROVE s[i] \in ToSet(g)
      BY <1>3, <1>4 DEF ToSet
    <2>3. ASSUME NEW i \in DOMAIN t PROVE t[i] \in ToSet(g)
      BY <1>3, <1>4 DEF ToSet
    <2> QED BY <2>1, <2>2, <2>3 DEF ToSet
  <1>6. ASSUME Increasing(s), Increasing(t), Below(ToSet(s), ToSet(t)),
               NEW i \in DOMAIN g, NEW j \in DOMAIN g, i < j
        PROVE  g[i] < g[j]
    <2>1. CASE j <= m
      BY <1>1, <1>2, <1>3, <1>6, <2>1 DEF Increasing
    <2>2. CASE i > m
      <3>1. i - m \in DOMAIN t /\ j - m \in DOMAIN t /\ i - m < j - m
            /\ g[i] = t[i - m] /\ g[j] = t[j - m]
        BY <1>1, <1>2, <1>3, <1>6, <2>2
      <3> QED BY <1>6, <3>1 DEF Increasing
    <2>3. CASE i <= m /\ j > m
      <3>1. i \in DOMAIN s /\ j - m \in DOMAIN t /\ g[i] = s[i] /\ g[j] = t[j - m]
        BY <1>1, <1>2, <1>3, <1>6, <2>3
      <3> QED BY <1>6, <3>1 DEF Below, ToSet
    <2> QED BY <1>2, <1>3, <2>1, <2>2, <2>3
  <1> QED BY <1>1, <1>5, <1>6 DEF Increasing, Joins

\* A piece of a sequence, in the same order.
LEMMA Piece ==
  ASSUME NEW s \in Seq(Nat), NEW a \in Nat \ {0}, NEW b \in Nat, b <= Len(s), a <= b + 1,
         NEW g, g = SubSeq(s, a, b)
  PROVE  /\ g \in Seq(Nat) /\ Len(g) = b - a + 1
         /\ ToSet(g) = {s[i] : i \in a..b}
         /\ Increasing(s) => Increasing(g)
  <1>1. PICK n \in Nat : n = Len(s)
    OBVIOUS
  <1>2. DOMAIN s = 1..n /\ \A i \in 1..n : s[i] \in Nat
    BY <1>1
  <1>3. \A i \in a..b : i \in 1..n /\ s[i] \in Nat
    BY <1>1, <1>2
  <1>4. /\ g \in Seq(Nat) /\ Len(g) = IF a <= b THEN b - a + 1 ELSE 0
        /\ \A i \in 1..b - a + 1 : g[i] = s[a + i - 1]
    BY <1>3, SubSeqProperties
  <1>5. Len(g) = b - a + 1 /\ DOMAIN g = 1..b - a + 1
    BY <1>4
  <1>6. ToSet(g) = {s[i] : i \in a..b}
    <2>1. ASSUME NEW i \in DOMAIN g PROVE g[i] \in {s[k] : k \in a..b}
      <3>1. a + i - 1 \in a..b
        BY <1>5
      <3> QED BY <1>4, <1>5, <3>1
    <2>2. ASSUME NEW k \in a..b PROVE s[k] \in ToSet(g)
      <3>1. k - a + 1 \in DOMAIN g /\ a + (k - a + 1) - 1 = k
        BY <1>5
      <3>2. g[k - a + 1] = s[k]
        BY <1>4, <1>5, <3>1
      <3> QED BY <3>1, <3>2 DEF ToSet
    <2> QED BY <2>1, <2>2 DEF ToSet
  <1>7. Increasing(s) => Increasing(g)
    <2> SUFFICES ASSUME Increasing(s), NEW i \in DOMAIN g, NEW j \in DOMAIN g, i < j
                 PROVE  g[i] < g[j]
      BY DEF Increasing
    <2>1. i \in 1..b - a + 1 /\ j \in 1..b - a + 1 /\ b <= n
      BY <1>1, <1>5
    <2>4. \A x \in 1..b - a + 1 : a + x - 1 \in 1..n
      BY <2>1
    <2>3. a + i - 1 \in DOMAIN s /\ a + j - 1 \in DOMAIN s /\ a + i - 1 < a + j - 1
      <3>1. a + i - 1 < a + j - 1
        BY <2>1
      <3> QED BY <1>2, <2>1, <2>4, <3>1
    <2>2. g[i] = s[a + i - 1] /\ g[j] = s[a + j - 1]
      BY <1>4, <1>5
    <2> QED BY <2>2, <2>3 DEF Increasing
  <1> QED BY <1>4, <1>5, <1>6, <1>7

\* An increasing sequence cut after k elements: what comes first is smaller.
LEMMA Cut ==
  ASSUME NEW s \in Seq(Nat), Increasing(s), NEW k \in Nat, k <= Len(s),
         NEW g, g = SubSeq(s, 1, k), NEW h, h = SubSeq(s, k + 1, Len(s))
  PROVE  CutInto(s, g, h, k)
  <1>1. PICK n \in Nat : n = Len(s)
    OBVIOUS
  <1>2. DOMAIN s = 1..n /\ \A i \in 1..n : s[i] \in Nat
    BY <1>1
  <1>3. g \in Seq(Nat) /\ Increasing(g) /\ ToSet(g) = {s[i] : i \in 1..k}
    <2>1. 1 \in Nat \ {0} /\ 1 <= k + 1
      OBVIOUS
    <2> QED BY <2>1, Piece
  <1>4. h \in Seq(Nat) /\ Increasing(h) /\ ToSet(h) = {s[i] : i \in k + 1..n}
        /\ Len(h) = n - k
    <2>1. k + 1 \in Nat \ {0} /\ n <= Len(s) /\ k + 1 <= n + 1 /\ h = SubSeq(s, k + 1, n)
      BY <1>1
    <2>2. h \in Seq(Nat) /\ Len(h) = n - (k + 1) + 1 /\ ToSet(h) = {s[i] : i \in k + 1..n}
          /\ (Increasing(s) => Increasing(h))
      BY <2>1, Piece
    <2> QED BY <2>2
  <1>5. ToSet(s) = ToSet(g) \cup ToSet(h)
    <2>1. DOMAIN s = (1..k) \cup (k + 1..n)
      BY <1>1, <1>2
    <2> QED BY <1>3, <1>4, <2>1 DEF ToSet
  <1>6. Below(ToSet(g), ToSet(h))
    <2> SUFFICES ASSUME NEW i \in 1..k, NEW j \in k + 1..n PROVE s[i] < s[j]
      BY <1>3, <1>4 DEF Below
    <2>1. i \in DOMAIN s /\ j \in DOMAIN s /\ i < j
      BY <1>1, <1>2
    <2> QED BY <2>1 DEF Increasing
  <1> QED BY <1>1, <1>3, <1>4, <1>5, <1>6 DEF CutInto

LEMMA RecordKeeps ==
  ASSUME LogsInv, Record
  PROVE  LogsInv'
  <1>1. /\ queue \in Seq(Nat) /\ entries \in Nat /\ chained \in Nat /\ Len(queue) \in Nat
        /\ MaxQueue \in Nat \ {0} /\ Increasing(queue)
    BY ApiLogsAssumption DEF LogsInv, LogsTyped, InOrder
  <1>3. PICK kept : kept = IF Len(queue) >= MaxQueue THEN Tail(queue) ELSE queue
    OBVIOUS
  <1>4. PICK dropped : dropped = IF Len(queue) >= MaxQueue THEN {Head(queue)} ELSE {}
    OBVIOUS
  <1>5. PICK next : next = Append(kept, entries + 1)
    OBVIOUS
  <1>6. /\ entries' = entries + 1 /\ queue' = next /\ lost' = lost \cup dropped
        /\ IF Len(next) >= MaxBatch THEN timer' = FALSE /\ chained' = chained + 1
           ELSE timer' = TRUE /\ UNCHANGED chained
        /\ UNCHANGED <<server, writer, batch, table>> /\ server \in {"up", "closing"}
    BY <1>3, <1>4, <1>5 DEF Record
  <1>7. /\ kept \in Seq(Nat) /\ Len(kept) <= MaxQueue - 1 /\ Len(kept) \in Nat
        /\ ToSet(queue) = dropped \cup ToSet(kept)
        /\ Increasing(kept) /\ Below(dropped, ToSet(kept))
    <2>1. CASE Len(queue) >= MaxQueue
      <3>1. queue # <<>> /\ Len(queue) >= 1 /\ Len(queue) <= MaxQueue
        BY <1>1, <2>1 DEF LogsInv, Fetched
      <3>2. kept = SubSeq(queue, 1 + 1, Len(queue))
        BY <1>1, <1>3, <2>1, <3>1, TailIsSubSeq
      <3>3. PICK g : g = SubSeq(queue, 1, 1)
        OBVIOUS
      <3>4. /\ g \in Seq(Nat) /\ kept \in Seq(Nat) /\ Len(kept) = Len(queue) - 1
            /\ ToSet(queue) = ToSet(g) \cup ToSet(kept)
            /\ Increasing(kept) /\ Below(ToSet(g), ToSet(kept))
        <4>1. 1 \in Nat /\ 1 <= Len(queue)
          BY <3>1
        <4>2. CutInto(queue, g, kept, 1)
          BY <1>1, <3>2, <3>3, <4>1, Cut
        <4> QED BY <4>2 DEF CutInto
      <3>5. ToSet(g) = {queue[1]}
        <4>1. 1 \in Nat \ {0} /\ 1 \in Nat /\ 1 <= Len(queue) /\ 1 <= 1 + 1
          BY <3>1
        <4>2. ToSet(g) = {queue[i] : i \in 1..1}
          BY <1>1, <3>3, <4>1, Piece
        <4> QED BY <4>2
      <3>6. dropped = {queue[1]}
        BY <1>1, <1>4, <2>1, <3>1
      <3> QED BY <1>1, <3>1, <3>4, <3>5, <3>6
    <2>2. CASE Len(queue) < MaxQueue
      <3>1. kept = queue /\ dropped = {}
        BY <1>1, <1>3, <1>4, <2>2
      <3> QED BY <1>1, <2>2, <3>1 DEF Below
    <2> QED BY <1>1, <2>1, <2>2
  <1>8. ToSet(queue) \subseteq 1..entries /\ ToSet(table) \subseteq 1..entries
        /\ ToSet(batch) \subseteq 1..entries /\ lost \subseteq 1..entries
    BY DEF LogsInv, NoneMissing
  <1>9. /\ next \in Seq(Nat) /\ Len(next) <= MaxQueue /\ next # <<>>
        /\ ToSet(next) = ToSet(kept) \cup {entries + 1} /\ Increasing(next)
    <2>1. entries + 1 \in Nat
      BY <1>1
    <2>2. next = kept \o <<entries + 1>> /\ Len(next) = Len(kept) + 1 /\ next # <<>>
      BY <1>5, <1>7, <2>1, AppendProperties, AppendIsConcat
    <2>3. PICK e : e = <<entries + 1>>
      OBVIOUS
    <2>4. e \in Seq(Nat) /\ ToSet(e) = {entries + 1} /\ Increasing(e)
      BY <2>1, <2>3 DEF ToSet, Increasing
    <2>5. Below(ToSet(kept), ToSet(e))
      BY <1>1, <1>7, <1>8, <2>4 DEF Below
    <2>6. next \in Seq(Nat) /\ ToSet(next) = ToSet(kept) \cup ToSet(e) /\ Increasing(next)
      <3>1. Joins(next, kept, e)
        BY <1>7, <2>2, <2>3, <2>4, JoinedSeq
      <3> QED BY <1>7, <2>4, <2>5, <3>1 DEF Joins
    <2>7. Len(next) <= MaxQueue
      BY <1>1, <1>7, <2>2
    <2> QED BY <2>2, <2>4, <2>6, <2>7
  <1>10. LogsTyped'
    <2>1. entries' \in Nat /\ chained' \in Nat
      BY <1>1, <1>6
    <2>2. timer' = TRUE \/ timer' = FALSE
      BY <1>6
    <2> QED BY <1>6, <1>9, <2>1, <2>2 DEF LogsInv, LogsTyped
  <1>11. InOrder'
    <2>1. /\ Increasing(batch) /\ Increasing(table)
          /\ Below(ToSet(table), ToSet(batch) \cup ToSet(queue))
          /\ Below(ToSet(batch), ToSet(queue))
      BY DEF LogsInv, InOrder
    <2>2. Below(ToSet(table), ToSet(batch) \cup ToSet(next)) /\ Below(ToSet(batch), ToSet(next))
      BY <1>1, <1>7, <1>8, <1>9, <2>1 DEF Below
    <2> QED BY <1>6, <1>9, <2>1, <2>2 DEF InOrder
  <1>12. NoneMissing'
    <2>1. /\ 1..entries = ToSet(table) \cup ToSet(batch) \cup ToSet(queue) \cup lost
          /\ lost \cap (ToSet(table) \cup ToSet(batch) \cup ToSet(queue)) = {}
          /\ Below(ToSet(table), ToSet(batch) \cup ToSet(queue))
          /\ Below(ToSet(batch), ToSet(queue))
      BY DEF LogsInv, NoneMissing, InOrder
    <2>2. 1..entries + 1 = (1..entries) \cup {entries + 1}
      BY <1>1
    <2>3. 1..entries + 1 = ToSet(table) \cup ToSet(batch) \cup ToSet(next) \cup (lost \cup dropped)
      BY <1>7, <1>9, <2>1, <2>2
    <2>4. dropped \cap (ToSet(table) \cup ToSet(batch) \cup ToSet(kept)) = {}
      <3>1. \A x \in dropped : x \in Nat /\ x \in ToSet(queue)
        BY <1>1, <1>7, <1>8
      <3> QED BY <1>7, <2>1, <3>1 DEF Below
    <2>5. entries + 1 \notin lost \cup dropped
      <3>1. dropped \subseteq 1..entries
        BY <1>7, <1>8
      <3> QED BY <1>1, <1>8, <3>1
    <2>6. (lost \cup dropped) \cap (ToSet(table) \cup ToSet(batch) \cup ToSet(next)) = {}
      <3>1. ToSet(kept) \subseteq ToSet(queue) /\ entries + 1 \notin 1..entries
        BY <1>1, <1>7
      <3> QED BY <1>8, <1>9, <2>1, <2>4, <2>5, <3>1
    <2> QED BY <1>6, <2>3, <2>6 DEF NoneMissing
  <1>13. Fetched'
    <2>1. timer' = TRUE \/ chained' > 0
      BY <1>1, <1>6
    <2> QED BY <1>6, <1>9, <2>1 DEF LogsInv, Fetched
  <1> QED BY <1>10, <1>11, <1>12, <1>13 DEF LogsInv

LEMMA TakeBatchKeeps ==
  ASSUME LogsInv, TakeBatch
  PROVE  LogsInv'
  <1>1. /\ queue \in Seq(Nat) /\ Len(queue) \in Nat /\ MaxBatch \in Nat /\ Increasing(queue)
        /\ batch = <<>> /\ MaxBatch > 0
    BY ApiLogsAssumption DEF LogsInv, LogsTyped, InOrder, Fetched, TakeBatch
  <1>2. PICK size \in Nat : size = IF Len(queue) < MaxBatch THEN Len(queue) ELSE MaxBatch
    BY <1>1
  <1>3. /\ batch' = SubSeq(queue, 1, size) /\ queue' = SubSeq(queue, size + 1, Len(queue))
        /\ writer' = IF queue = <<>> THEN "idle" ELSE "writing"
        /\ UNCHANGED <<server, entries, timer, chained, table, lost>>
        /\ server # "killed" /\ writer = "looping"
    BY <1>2 DEF TakeBatch
  <1>4. /\ batch' \in Seq(Nat) /\ queue' \in Seq(Nat) /\ Len(queue') = Len(queue) - size
        /\ ToSet(queue) = ToSet(batch') \cup ToSet(queue')
        /\ Increasing(batch') /\ Increasing(queue') /\ Below(ToSet(batch'), ToSet(queue'))
    <2>1. PICK g, h : g = batch' /\ h = queue'
      OBVIOUS
    <2>2. size <= Len(queue)
      BY <1>1, <1>2
    <2>3. g = SubSeq(queue, 1, size) /\ h = SubSeq(queue, size + 1, Len(queue))
      BY <1>3, <2>1
    <2>4. /\ g \in Seq(Nat) /\ h \in Seq(Nat) /\ Len(h) = Len(queue) - size
          /\ ToSet(queue) = ToSet(g) \cup ToSet(h)
          /\ Increasing(g) /\ Increasing(h) /\ Below(ToSet(g), ToSet(h))
      <3>1. CutInto(queue, g, h, size)
        BY <1>1, <2>2, <2>3, Cut
      <3> QED BY <3>1 DEF CutInto
    <2> QED BY <2>1, <2>4
  <1>5. queue = <<>> => batch' = <<>> /\ queue' = <<>>
    <2> SUFFICES ASSUME queue = <<>> PROVE batch' = <<>> /\ queue' = <<>>
      OBVIOUS
    <2>1. size = 0 /\ Len(queue) = 0
      BY <1>1, <1>2
    <2> QED BY <1>3, <2>1, SubSeqEmpty
  <1>6. ToSet(batch) = {}
    BY <1>1 DEF ToSet
  <1>7. LogsTyped'
    BY <1>3, <1>4 DEF LogsInv, LogsTyped
  <1>8. InOrder'
    <2>1. Increasing(table) /\ Below(ToSet(table), ToSet(batch) \cup ToSet(queue))
      BY DEF LogsInv, InOrder
    <2> QED BY <1>3, <1>4, <1>6, <2>1 DEF InOrder
  <1>9. NoneMissing'
    BY <1>3, <1>4, <1>6 DEF LogsInv, NoneMissing
  <1>10. Fetched'
    <2>1. Len(queue') <= MaxQueue
      <3>1. Len(queue) <= MaxQueue /\ MaxQueue \in Nat
        BY ApiLogsAssumption DEF LogsInv, Fetched
      <3> QED BY <1>1, <1>2, <1>4, <3>1
    <2> QED BY <1>3, <1>5, <2>1 DEF LogsInv, Fetched
  <1> QED BY <1>7, <1>8, <1>9, <1>10 DEF LogsInv

LEMMA WriteBatchKeeps ==
  ASSUME LogsInv, NEW fails \in BOOLEAN, WriteBatch(fails)
  PROVE  LogsInv'
  <1>1. /\ batch \in Seq(Nat) /\ table \in Seq(Nat) /\ Increasing(batch) /\ Increasing(table)
        /\ Below(ToSet(table), ToSet(batch) \cup ToSet(queue)) /\ Below(ToSet(batch), ToSet(queue))
    BY DEF LogsInv, LogsTyped, InOrder
  <1>2. /\ server # "killed" /\ writer = "writing" /\ writer' = "looping" /\ batch' = <<>>
        /\ UNCHANGED <<server, queue, entries, timer, chained>>
        /\ IF fails THEN lost' = lost \cup ToSet(batch) /\ UNCHANGED table
           ELSE table' = table \o batch /\ UNCHANGED lost
    BY DEF WriteBatch
  <1>3. ToSet(batch') = {} /\ batch' \in Seq(Nat) /\ Increasing(batch')
    BY <1>2 DEF ToSet, Increasing
  <1>4. /\ table' \in Seq(Nat) /\ Increasing(table')
        /\ \/ ToSet(table') = ToSet(table) /\ lost' = lost \cup ToSet(batch)
           \/ ToSet(table') = ToSet(table) \cup ToSet(batch) /\ lost' = lost
    <2>1. CASE fails
      BY <1>1, <1>2, <2>1
    <2>2. CASE ~fails
      <3>1. PICK g : g = table \o batch
        OBVIOUS
      <3>2. Below(ToSet(table), ToSet(batch))
        BY <1>1 DEF Below
      <3>3. g \in Seq(Nat) /\ ToSet(g) = ToSet(table) \cup ToSet(batch) /\ Increasing(g)
        <4>1. Joins(g, table, batch)
          BY <1>1, <3>1, JoinedSeq
        <4> QED BY <1>1, <3>2, <4>1 DEF Joins
      <3> QED BY <1>2, <2>2, <3>1, <3>3
    <2> QED BY <2>1, <2>2
  <1>5. LogsTyped'
    BY <1>2, <1>3, <1>4 DEF LogsInv, LogsTyped
  <1>6. InOrder'
    <2>1. Below(ToSet(table'), ToSet(batch') \cup ToSet(queue))
      BY <1>1, <1>3, <1>4 DEF Below
    <2>2. Below(ToSet(batch'), ToSet(queue))
      BY <1>3 DEF Below
    <2>3. Increasing(queue)
      BY DEF LogsInv, InOrder
    <2> QED BY <1>2, <1>3, <1>4, <2>1, <2>2, <2>3 DEF InOrder
  <1>7. NoneMissing'
    <2>1. /\ 1..entries = ToSet(table) \cup ToSet(batch) \cup ToSet(queue) \cup lost
          /\ lost \cap (ToSet(table) \cup ToSet(batch) \cup ToSet(queue)) = {}
      BY DEF LogsInv, NoneMissing
    <2>2. ToSet(batch) \cap (ToSet(table) \cup ToSet(queue)) = {}
      <3>1. ToSet(batch) \subseteq 1..entries /\ ToSet(table) \subseteq 1..entries
            /\ \A x \in 1..entries : x \in Int
        BY <2>1
      <3> QED BY <1>1, <3>1 DEF Below
    <2> QED BY <1>2, <1>3, <1>4, <2>1, <2>2 DEF NoneMissing
  <1>8. Fetched'
    BY <1>2 DEF LogsInv, Fetched
  <1> QED BY <1>5, <1>6, <1>7, <1>8 DEF LogsInv

LEMMA NextLogs ==
  ASSUME LogsInv, [ApiLogsNext]_logVars
  PROVE  LogsInv'
  <1>1. ASSUME UNCHANGED <<queue, entries, batch, table, lost>>, LogsTyped', Fetched'
        PROVE  LogsInv'
    <2>1. InOrder' /\ NoneMissing'
      BY <1>1 DEF LogsInv, InOrder, NoneMissing
    <2> QED BY <1>1, <2>1 DEF LogsInv
  <1>2. chained \in Nat /\ timer \in BOOLEAN
    BY DEF LogsInv, LogsTyped
  <1>3. CASE TimerFlush
    <2>1. chained' \in Nat /\ chained' > 0
      BY <1>2, <1>3 DEF TimerFlush
    <2> QED BY <1>1, <1>3, <2>1 DEF TimerFlush, LogsInv, LogsTyped, Fetched
  <1>4. CASE StartWriter
    <2>1. chained' \in Nat /\ chained # 0
      BY <1>2, <1>4 DEF StartWriter
    <2>2. UNCHANGED <<server, queue, timer, batch>> /\ writer' = "looping" /\ writer = "idle"
          /\ UNCHANGED <<entries, table, lost>>
      BY <1>4 DEF StartWriter
    <2>3. LogsTyped'
      BY <2>1, <2>2 DEF LogsInv, LogsTyped
    <2>4. batch = <<>> /\ server # "closed"
      BY <2>1, <2>2 DEF LogsInv, Fetched
    <2>5. Fetched'
      BY <2>2, <2>4 DEF LogsInv, Fetched
    <2> QED BY <1>1, <2>2, <2>3, <2>5
  <1>5. CASE Shutdown
    BY <1>1, <1>2, <1>5 DEF Shutdown, LogsInv, LogsTyped, Fetched
  <1>6. CASE ServerClosed
    <2>1. chained' \in Nat /\ chained' > 0
      BY <1>2, <1>6 DEF ServerClosed
    <2> QED BY <1>1, <1>6, <2>1 DEF ServerClosed, LogsInv, LogsTyped, Fetched
  <1>7. CASE CloseDatabase
    BY <1>1, <1>2, <1>7 DEF CloseDatabase, Flushed, LogsInv, LogsTyped, Fetched
  <1>8. CASE Kill
    BY <1>1, <1>2, <1>8 DEF Kill, LogsInv, LogsTyped, Fetched
  <1>9. CASE UNCHANGED logVars
    BY <1>1, <1>9 DEF logVars, LogsInv, LogsTyped, Fetched
  <1> QED
    BY <1>3, <1>4, <1>5, <1>6, <1>7, <1>8, <1>9, RecordKeeps, TakeBatchKeeps, WriteBatchKeeps
    DEF ApiLogsNext

\* Every finished request is in the table once and in order, waits where somebody comes for it,
\* or was lost with a failed batch or a full queue; an orderly shutdown leaves nothing behind
\* (api-log.store.ts, server.ts shutdown()).
THEOREM LogsAreKept == LogsSpec => []LogsKept
  <1>1. ApiLogsInit => LogsInv
    <2> SUFFICES ASSUME ApiLogsInit PROVE LogsInv
      OBVIOUS
    <2>1. ToSet(<<>>) = {} /\ <<>> \in Seq(Nat) /\ Increasing(<<>>) /\ Len(<<>>) = 0
      BY DEF ToSet, Increasing
    <2>2. LogsTyped
      BY <2>1 DEF ApiLogsInit, LogsTyped
    <2>3. InOrder
      BY <2>1 DEF ApiLogsInit, InOrder, Below
    <2>4. NoneMissing
      BY <2>1 DEF ApiLogsInit, NoneMissing
    <2>5. Fetched
      BY <2>1, ApiLogsAssumption DEF ApiLogsInit, Fetched
    <2> QED BY <2>2, <2>3, <2>4, <2>5 DEF LogsInv
  <1>2. LogsInv /\ [ApiLogsNext]_logVars => LogsInv'
    BY NextLogs
  <1>3. LogsInv => LogsKept
    <2> SUFFICES ASSUME LogsInv PROVE LogsKept
      OBVIOUS
    <2>1. PICK waiting : waiting = batch \o queue
      OBVIOUS
    <2>2. batch \in Seq(Nat) /\ queue \in Seq(Nat) /\ table \in Seq(Nat)
      BY DEF LogsInv, LogsTyped
    <2>3. ToSet(waiting) = ToSet(batch) \cup ToSet(queue)
      <3>1. Joins(waiting, batch, queue)
        BY <2>1, <2>2, JoinedSeq
      <3> QED BY <3>1 DEF Joins
    <2>4. \A i, j \in DOMAIN table : i < j => table[i] < table[j]
      BY DEF LogsInv, InOrder, Increasing
    <2>5. /\ 1..entries = ToSet(table) \cup ToSet(waiting) \cup lost
          /\ lost \cap (ToSet(table) \cup ToSet(waiting)) = {}
          /\ Below(ToSet(table), ToSet(waiting))
      BY <2>3 DEF LogsInv, NoneMissing, InOrder
    <2>6. ToSet(table) \cap (ToSet(waiting) \cup lost) = {}
      <3>1. \A x \in ToSet(table) : x \in Int
        BY <2>5
      <3> QED BY <2>5, <3>1 DEF Below
    <2>7. server = "closed" => waiting = <<>>
      <3> SUFFICES ASSUME server = "closed" PROVE waiting = <<>>
        OBVIOUS
      <3>1. batch = <<>> /\ queue = <<>>
        BY DEF LogsInv, Fetched
      <3> QED BY <2>1, <2>2, <3>1, ConcatEqualIffEmpty
    <2>8. Len(queue) <= MaxQueue
          /\ (queue # <<>> /\ server # "killed" => timer \/ chained > 0 \/ writer # "idle")
      BY DEF LogsInv, Fetched
    <2> QED BY <2>1, <2>4, <2>5, <2>6, <2>7, <2>8 DEF LogsKept
  <1> QED
    BY <1>1, <1>2, <1>3, PTL DEF LogsSpec

-----------------------------------------------------------------------------
(* Discovery: the age range as dates of birth *)

DiscoverySpec == DiscoveryInit /\ [][DiscoveryNext]_discoveryVars

Date == UNION {DaysOf(y) : y \in Int}

LEMMA DateParts ==
  ASSUME NEW d \in Date
  PROVE  /\ d = <<d[1], d[2], d[3]>> /\ d[1] \in Int
         /\ \/ d[2] = 2 /\ d[3] = 28
            \/ d[2] = 2 /\ d[3] = 29 /\ Leap(d[1])
            \/ d[2] = 3 /\ d[3] = 1
  BY DEF Date, DaysOf

\* Whoever was born no later than n years ago has completed n years.
LEMMA BornBefore ==
  ASSUME NEW born \in Date, NEW now \in Date, NEW n \in Nat
  PROVE  ~Earlier(MinusYears(now, n), born) <=> CalculateAge(born, now) >= n
  <1>1. PICK y \in Int, m \in Int, d \in Int : now = <<y, m, d>>
    BY DateParts
  <1>2. PICK by \in Int, bm \in Int, bd \in Int : born = <<by, bm, bd>>
    BY DateParts
  <1>3. /\ (m = 2 /\ d = 28) \/ (m = 2 /\ d = 29 /\ Leap(y)) \/ (m = 3 /\ d = 1)
        /\ (bm = 2 /\ bd = 28) \/ (bm = 2 /\ bd = 29 /\ Leap(by)) \/ (bm = 3 /\ bd = 1)
    BY <1>1, <1>2, DateParts
  <1>4. CalculateAge(born, now) = y - by - (IF m < bm \/ (m = bm /\ d < bd) THEN 1 ELSE 0)
    BY <1>1, <1>2 DEF CalculateAge
  <1>5. by = y - n /\ Leap(by) => Leap(y - n)
    OBVIOUS
  <1>6. CASE m = 2 /\ d = 29 /\ ~Leap(y - n)
    <2>1. MinusYears(now, n) = <<y - n, 2, 28>>
      BY <1>1, <1>6 DEF MinusYears
    <2>2. Earlier(MinusYears(now, n), born) <=>
            (y - n < by \/ (y - n = by /\ 2 < bm) \/ (y - n = by /\ 2 = bm /\ 28 < bd))
      BY <1>2, <2>1 DEF Earlier
    <2> QED BY <1>3, <1>4, <1>5, <1>6, <2>2
  <1>7. CASE ~(m = 2 /\ d = 29 /\ ~Leap(y - n))
    <2>1. MinusYears(now, n) = <<y - n, m, d>>
      BY <1>1, <1>7 DEF MinusYears
    <2>2. Earlier(MinusYears(now, n), born) <=>
            (y - n < by \/ (y - n = by /\ m < bm) \/ (y - n = by /\ m = bm /\ d < bd))
      BY <1>2, <2>1 DEF Earlier
    <2> QED BY <1>3, <1>4, <2>2
  <1> QED BY <1>6, <1>7

LEMMA AgeIsInteger ==
  ASSUME NEW born \in Date, NEW now \in Date
  PROVE  CalculateAge(born, now) \in Int
  BY DateParts DEF CalculateAge

\* The dates of birth the query asks for are those of the ages it means.
LEMMA BornWithinIsAge ==
  ASSUME NEW born \in Date, today \in Date, NEW min \in Nat, NEW max \in Nat
  PROVE  BornWithin(born, min, max) <=> CalculateAge(born, today) \in min .. max
  <1>1. PICK age \in Int : age = CalculateAge(born, today)
    BY AgeIsInteger
  <1>2. max + 1 \in Nat
    OBVIOUS
  <1>3. BornWithin(born, min, max) <=> age >= min /\ ~(age >= max + 1)
    BY <1>1, <1>2, BornBefore DEF BornWithin
  <1> QED BY <1>1, <1>3

AnyMember ==
    [flags: SUBSET (Anyone \cup {"deleted", "hidden", "restricted", "verified"}),
     gender: Genders, preference: GenderPreferences, born: Date, min: Nat, max: Nat]

AnyFilters == [min: Nat, max: Nat, verifiedOnly: BOOLEAN]

DiscoveryTyped ==
    viewer \in AnyMember /\ candidate \in AnyMember /\ filters \in AnyFilters /\ today \in Date

LEMMA DiscoveryStart == DiscoveryInit => DiscoveryTyped
  <1>1. Youngest \in AgeLimits /\ Oldest \in AgeLimits
    <2>1. PICK youngest \in AgeLimits, oldest \in AgeLimits : AgeLimits \subseteq youngest .. oldest
      BY DiscoveryAssumption
    <2>2. AgeLimits \subseteq Nat
      BY DiscoveryAssumption
    <2>3. \A a \in AgeLimits : youngest <= a /\ oldest >= a
      BY <2>1, <2>2
    <2> QED BY <2>3 DEF Youngest, Oldest
  <1>2. AgeLimits \subseteq Nat /\ Birthdays \subseteq Date /\ Days \subseteq Date
    BY DiscoveryAssumption DEF Birthdays, Days, Date
  <1>3. <<2004, 3, 1>> \in Date /\ <<2004, 2, 29>> \in Date
    BY DEF Date, DaysOf, Leap
  <1>4. \A flags \in SUBSET (Anyone \cup {"deleted", "hidden", "restricted", "verified"}),
           g \in Genders, p \in GenderPreferences, b \in Date, min, max \in Nat :
             Member(flags, g, p, b, min, max) \in AnyMember
    BY DEF Member, AnyMember
  <1>5. People => DiscoveryTyped
    <2> SUFFICES ASSUME People PROVE DiscoveryTyped
      OBVIOUS
    <2>1. PICK g \in Genders, h \in Genders, p \in GenderPreferences, q \in GenderPreferences,
               b \in Birthdays, min \in AgeLimits, max \in AgeLimits :
             /\ viewer = Member(Anyone, g, p, <<2004, 3, 1>>, min, max)
             /\ candidate = Member(Anyone, h, q, b, Youngest, max)
      BY DEF People
    <2>2. viewer \in AnyMember /\ candidate \in AnyMember
      BY <1>1, <1>2, <1>3, <1>4, <2>1
    <2>3. filters \in AnyFilters /\ today \in Date
      <3>1. filters \in [min : AgeLimits, max : {Oldest}, verifiedOnly : {FALSE}]
        BY ZenonT(60) DEF People
      <3>2. [min : AgeLimits, max : {Oldest}, verifiedOnly : {FALSE}] \subseteq AnyFilters
        BY <1>1, <1>2 DEF AnyFilters
      <3>3. today \in Days
        BY ZenonT(60) DEF People
      <3> QED BY <1>2, <3>1, <3>2, <3>3
    <2> QED BY <2>2, <2>3 DEF DiscoveryTyped
  <1>6. States => DiscoveryTyped
    <2>1. "woman" \in Genders /\ "man" \in Genders
          /\ "everyone" \in GenderPreferences /\ "women" \in GenderPreferences
      BY DEF Genders, GenderPreferences
    <2> QED BY <1>1, <1>2, <1>3, <1>4, <2>1 DEF States, DiscoveryTyped, AnyFilters
  <1> QED BY <1>5, <1>6 DEF DiscoveryInit

LEMMA DiscoveryTypes ==
  ASSUME DiscoveryTyped
  PROVE  /\ viewer.born \in Date /\ viewer.min \in Nat /\ viewer.max \in Nat
         /\ viewer.gender \in Genders /\ viewer.preference \in GenderPreferences
         /\ candidate.born \in Date /\ candidate.min \in Nat /\ candidate.max \in Nat
         /\ candidate.gender \in Genders /\ candidate.preference \in GenderPreferences
         /\ filters.min \in Nat /\ filters.max \in Nat /\ today \in Date
  BY DEF DiscoveryTyped, AnyMember, AnyFilters

\* Narrower age limits let nobody in.
LEMMA ListedEligible ==
  ASSUME DiscoveryTyped, Listed
  PROVE  IsEligible
  <1>1. PICK min, max : /\ min = Narrowest(viewer.min, filters.min)
                        /\ max = IF viewer.max < filters.max THEN viewer.max ELSE filters.max
    OBVIOUS
  <1>2. Conditions(viewer, candidate, min, max)
    BY <1>1 DEF Listed
  <1>3. min \in Nat /\ max \in Nat /\ viewer.min <= min /\ max <= viewer.max
    BY <1>1, DiscoveryTypes DEF Narrowest
  <1>4. CalculateAge(candidate.born, today) \in min .. max
    BY <1>2, <1>3, DiscoveryTypes, BornWithinIsAge DEF Conditions
  <1>5. CalculateAge(candidate.born, today) \in viewer.min .. viewer.max
    BY <1>3, <1>4, DiscoveryTypes
  <1>6. BornWithin(candidate.born, viewer.min, viewer.max)
    BY <1>5, DiscoveryTypes, BornWithinIsAge
  <1> QED BY <1>2, <1>6 DEF IsEligible, Conditions

\* The list shows only members who are eligible and not connected to the viewer yet; who is
\* eligible has a page and fits the viewer's preference as the viewer fits theirs, for all dates
\* of birth, days and age limits (candidate-query.ts, matching.ts, profile.service.ts).
THEOREM CandidatesFitEachOther == DiscoverySpec => []CandidatesFit
  <1>1. DiscoveryTyped /\ [DiscoveryNext]_discoveryVars => DiscoveryTyped'
    <2>1. Days \subseteq Date
      BY DiscoveryAssumption DEF Days, Date
    <2>2. ASSUME DiscoveryTyped, NextDate PROVE DiscoveryTyped'
      BY <2>1, <2>2 DEF NextDate, DiscoveryTyped
    <2>3. ASSUME DiscoveryTyped, UNCHANGED discoveryVars PROVE DiscoveryTyped'
      BY <2>3 DEF discoveryVars, DiscoveryTyped
    <2> QED BY <2>2, <2>3 DEF DiscoveryNext
  <1>2. DiscoveryTyped => CandidatesFit
    <2> SUFFICES ASSUME DiscoveryTyped PROVE CandidatesFit
      OBVIOUS
    <2>1. Listed => IsEligible /\ ConnectionStatus \in {"none", "interest_received"}
      <3>1. Listed => ConnectionStatus \in {"none", "interest_received"}
        BY DEF Listed, ConnectionStatus
      <3> QED BY <3>1, ListedEligible
    <2>2. BornWithin(candidate.born, viewer.min, viewer.max)
            <=> CalculateAge(candidate.born, today) \in viewer.min .. viewer.max
      BY DiscoveryTypes, BornWithinIsAge
    <2>3. candidate.preference \in PreferencesAccepting(viewer.gender)
            <=> viewer.gender \in GendersAcceptedBy(candidate.preference)
      BY DiscoveryTypes DEF PreferencesAccepting
    <2>4. IsEligible =>
            /\ ProfileShown
            /\ GenderPreferencesMatch(viewer, candidate)
            /\ CalculateAge(candidate.born, today) \in viewer.min..viewer.max
      <3> SUFFICES ASSUME IsEligible
                   PROVE  /\ ProfileShown
                          /\ GenderPreferencesMatch(viewer, candidate)
                          /\ CalculateAge(candidate.born, today) \in viewer.min..viewer.max
        OBVIOUS
      <3>1. ProfileShown
        BY DEF IsEligible, Conditions, ProfileShown
      <3>2. GenderPreferencesMatch(viewer, candidate)
        BY <2>3 DEF IsEligible, Conditions, GenderPreferencesMatch
      <3> QED BY <2>2, <3>1, <3>2 DEF IsEligible, Conditions
    <2>5. ~IsEligible /\ candidate.flags = Anyone /\ relation = {} =>
            \/ ~GenderPreferencesMatch(viewer, candidate)
            \/ CalculateAge(candidate.born, today) \notin viewer.min..viewer.max
            \/ CalculateAge(viewer.born, today) \notin candidate.min..candidate.max
      BY <2>2, <2>3 DEF IsEligible, Conditions, GenderPreferencesMatch, Separated, Anyone
    <2> QED BY <2>1, <2>4, <2>5 DEF CandidatesFit
  <1> QED
    BY <1>1, <1>2, DiscoveryStart, PTL DEF DiscoverySpec

-----------------------------------------------------------------------------
(* Pages: the list is read to its end *)

PagingSpec == PagingInit /\ [][PagingNext]_pagingVars

ReadableLists ==
    {l \in [keys: {"asc", "desc"}, ids: {"asc", "desc"}, moves: BOOLEAN, precise: BOOLEAN] :
        l.precise \/ l.keys = "desc"}

RowCursor == [at: {"row"}, key: Nat, id: Nat]

WalkTyped ==
    /\ listing \in ReadableLists
    /\ sortKey \in [RowIds -> Nat]
    /\ \A r \in RowIds : sortKey[r] # Unlisted => sortKey[r] \in Keys(listing)
    /\ position \in {FirstPage, LastPage} \cup RowCursor
    /\ shownTimes \in [RowIds -> Nat]
    /\ touched \subseteq RowIds
    /\ position = FirstPage => touched = {}

\* Of the rows that have stayed where they were, those after the cursor are still to be shown and
\* the others have been shown.
WalkedSoFar ==
    \A r \in RowIds \ touched :
       /\ shownTimes[r] <= 1
       /\ shownTimes[r] = 1 => position # FirstPage
       /\ sortKey[r] # Unlisted /\ position.at = "row" =>
            /\ KeysetCondition(listing, position, r) => shownTimes[r] = 0
            /\ ~Ambiguous(r) /\ ~KeysetCondition(listing, position, r) => shownTimes[r] = 1
       /\ sortKey[r] # Unlisted /\ position = LastPage /\ ~Ambiguous(r) => shownTimes[r] = 1

WalkInv == WalkTyped /\ WalkedSoFar

\* A list's order is a strict linear order of its rows.
LEMMA OrderIsLinear ==
  ASSUME listing \in ReadableLists, sortKey \in [RowIds -> Nat]
  PROVE  /\ \A p \in RowIds : ~Before(listing, p, p)
         /\ \A p, q, r \in RowIds :
              Before(listing, p, q) /\ Before(listing, q, r) => Before(listing, p, r)
         /\ \A p, q \in RowIds : p # q => Before(listing, p, q) \/ Before(listing, q, p)
  <1>1. RowIds \subseteq Nat /\ \A r \in RowIds : sortKey[r] \in Nat
    BY PagingAssumption
  <1>2. listing.keys \in {"asc", "desc"} /\ listing.ids \in {"asc", "desc"}
    BY DEF ReadableLists
  <1>3. \A a, b, c \in Nat, d \in {"asc", "desc"} :
           /\ ~Precedes(d, a, a)
           /\ Precedes(d, a, b) /\ Precedes(d, b, c) => Precedes(d, a, c)
           /\ a # b => Precedes(d, a, b) \/ Precedes(d, b, a)
    BY DEF Precedes
  <1>4. \A p \in RowIds : ~Before(listing, p, p)
    BY <1>1, <1>2, <1>3 DEF Before
  <1>5. \A p, q, r \in RowIds :
           Before(listing, p, q) /\ Before(listing, q, r) => Before(listing, p, r)
    BY <1>1, <1>2, <1>3 DEF Before
  <1>6. \A p, q \in RowIds : p # q => Before(listing, p, q) \/ Before(listing, q, p)
    BY <1>1, <1>2, <1>3 DEF Before
  <1> QED BY <1>4, <1>5, <1>6

\* Rows further down a list have more rows before them.
LEMMA RanksGrow ==
  ASSUME listing \in ReadableLists, sortKey \in [RowIds -> Nat],
         NEW p \in Matching, NEW q \in Matching
  PROVE  /\ RowsBefore(p) \in Nat
         /\ Before(listing, p, q) => RowsBefore(p) < RowsBefore(q)
         /\ p # q /\ RowsBefore(p) <= RowsBefore(q) => Before(listing, p, q)
  <1>1. IsFiniteSet(Matching) /\ Matching \subseteq RowIds
    <2>1. Matching \subseteq RowIds
      BY DEF Matching
    <2> QED BY <2>1, PagingAssumption, FS_Subset
  <1>2. ASSUME NEW x \in Matching, NEW y \in Matching
        PROVE  /\ RowsBefore(x) \in Nat
               /\ Before(listing, x, y) => RowsBefore(x) < RowsBefore(y)
    <2> DEFINE A == {z \in Matching : Before(listing, z, x)}
               B == {z \in Matching : Before(listing, z, y)}
    <2>1. IsFiniteSet(A) /\ IsFiniteSet(B)
      BY <1>1, FS_Subset
    <2>2. RowsBefore(x) = Cardinality(A) /\ RowsBefore(y) = Cardinality(B)
      BY DEF RowsBefore
    <2>3. Cardinality(A) \in Nat /\ Cardinality(B) \in Nat
      BY <2>1, FS_CardinalityType
    <2>4. ASSUME Before(listing, x, y) PROVE Cardinality(A) < Cardinality(B)
      <3>1. A \in SUBSET B
        BY <1>1, <2>4, OrderIsLinear
      <3>2. x \in B /\ x \notin A
        BY <1>1, <2>4, OrderIsLinear
      <3>3. Cardinality(A) <= Cardinality(B) /\ Cardinality(A) # Cardinality(B)
        BY <2>1, <3>1, <3>2, FS_Subset
      <3> QED BY <2>3, <3>3
    <2> QED BY <2>2, <2>3, <2>4
  <1>3. p # q /\ RowsBefore(p) <= RowsBefore(q) => Before(listing, p, q)
    <2>1. RowsBefore(p) \in Nat /\ RowsBefore(q) \in Nat
      BY <1>2
    <2>2. Before(listing, q, p) => RowsBefore(q) < RowsBefore(p)
      BY <1>2
    <2>3. p # q => Before(listing, p, q) \/ Before(listing, q, p)
      BY <1>1, OrderIsLinear
    <2> QED BY <2>1, <2>2, <2>3
  <1> QED BY <1>2, <1>3

\* The rows of a list are numbered without a gap.
LEMMA NoRankMissing ==
  ASSUME listing \in ReadableLists, sortKey \in [RowIds -> Nat],
         NEW n \in Nat, NEW r \in Matching, RowsBefore(r) >= n
  PROVE  \E q \in Matching : RowsBefore(q) = n
  <1> DEFINE T == {k \in Nat : k >= n /\ \E q \in Matching : RowsBefore(q) = k}
  <1>1. PICK m \in T : \A k \in T : m <= k
    <2>1. RowsBefore(r) \in T
      BY RanksGrow
    <2>2. T \subseteq Nat /\ T # {}
      BY <2>1
    <2> HIDE DEF T
    <2> QED BY <2>2, LeastNumber
  <1>2. PICK q \in Matching : RowsBefore(q) = m
    BY <1>1
  <1>3. SUFFICES ASSUME m > n PROVE FALSE
    BY <1>1, <1>2
  <1> DEFINE P == {z \in Matching : Before(listing, z, q)}
             Gaps == {k \in Nat : \E z \in P : k = m - RowsBefore(z)}
  <1>4. /\ IsFiniteSet(P) /\ Cardinality(P) = m /\ P # {} /\ Matching \subseteq RowIds
    <2>1. Matching \subseteq RowIds
      BY DEF Matching
    <2>2. IsFiniteSet(P)
      BY <2>1, PagingAssumption, FS_Subset
    <2>3. Cardinality(P) = m
      BY <1>2 DEF RowsBefore
    <2>4. P # {}
      BY <1>1, <1>3, <2>3, FS_EmptySet
    <2> QED BY <2>1, <2>2, <2>3, <2>4
  <1>5. \A z \in P : RowsBefore(z) \in Nat /\ RowsBefore(z) < m
    BY <1>2, RanksGrow
  <1>6. PICK gap \in Gaps : \A k \in Gaps : gap <= k
    <2>1. Gaps \subseteq Nat
      OBVIOUS
    <2>2. Gaps # {}
      <3>1. PICK z : z \in P
        BY <1>4
      <3>2. m - RowsBefore(z) \in Nat
        BY <1>1, <1>5, <3>1
      <3> QED BY <3>1, <3>2
    <2> HIDE DEF Gaps
    <2> QED BY <2>1, <2>2, LeastNumber
  <1>7. PICK p \in P : gap = m - RowsBefore(p)
    BY <1>6
  <1>8. \A z \in P : RowsBefore(z) <= RowsBefore(p)
    <2> TAKE z \in P
    <2>1. m - RowsBefore(z) \in Gaps
      BY <1>1, <1>5
    <2>2. m - RowsBefore(p) <= m - RowsBefore(z)
      BY <1>6, <1>7, <2>1
    <2> QED BY <1>1, <1>5, <2>2
  <1>9. {z \in Matching : Before(listing, z, p)} = P \ {p}
    <2>1. ASSUME NEW z \in Matching, Before(listing, z, p) PROVE z \in P \ {p}
      <3>1. Before(listing, z, q)
        BY <1>4, <1>7, <2>1, OrderIsLinear
      <3>2. z # p
        BY <1>4, <2>1, OrderIsLinear
      <3> QED BY <3>1, <3>2
    <2>2. ASSUME NEW z \in P \ {p} PROVE Before(listing, z, p)
      BY <1>7, <1>8, RanksGrow
    <2> QED BY <2>1, <2>2
  <1>10. RowsBefore(p) = m - 1
    <2>1. Cardinality(P \ {p}) = Cardinality(P) - 1
      BY <1>4, <1>7, FS_RemoveElement
    <2>2. RowsBefore(p) = Cardinality({z \in Matching : Before(listing, z, p)})
      BY DEF RowsBefore
    <2> QED BY <1>4, <1>9, <2>1, <2>2
  <1>11. m - 1 \in T
    BY <1>1, <1>3, <1>7, <1>10
  <1>12. m <= m - 1
    BY <1>1, <1>11
  <1> QED BY <1>1, <1>12

\* Whole milliseconds round down, and rows of different milliseconds stay apart.
LEMMA WholeMsBelow ==
  ASSUME NEW a \in Nat, NEW b \in Nat
  PROVE  /\ WholeMs(a) \in Nat /\ WholeMs(a) <= a
         /\ a < b /\ WholeMs(a) # WholeMs(b) => a < WholeMs(b)
  <1>1. PICK tick \in Nat \ {0} : tick = TicksPerMs
    BY PagingAssumption
  <1>2. \A k \in Nat : /\ k \div tick \in Nat /\ k % tick \in 0 .. tick - 1
                       /\ k = tick * (k \div tick) + (k % tick)
    BY <1>1
  <1>3. PICK i \in Nat : i = a \div tick
    BY <1>2
  <1>4. PICK j \in Nat : j = b \div tick
    BY <1>2
  <1>5. WholeMs(a) = i * tick /\ WholeMs(b) = j * tick
    BY <1>1, <1>3, <1>4 DEF WholeMs
  <1>6. i * tick <= a /\ a < i * tick + tick /\ j * tick <= b /\ b < j * tick + tick
        /\ i * tick \in Nat /\ j * tick \in Nat
    BY <1>1, <1>2, <1>3, <1>4
  <1>7. ASSUME a < b, i # j PROVE a < j * tick
    <2>1. CASE i < j
      <3>1. i * tick + tick <= j * tick
        BY <1>1, <2>1
      <3> QED BY <1>6, <3>1
    <2>2. CASE j < i
      <3>1. j * tick + tick <= i * tick
        BY <1>1, <2>2
      <3> QED BY <1>6, <1>7, <3>1
    <2> QED BY <1>7, <2>1, <2>2
  <1>8. WholeMs(a) # WholeMs(b) => i # j
    BY <1>5
  <1> QED BY <1>5, <1>6, <1>7, <1>8

\* The cursor a page ends with: what it leaves out is after the page's last row, and leaves out
\* nothing but rows that share a millisecond with another one.
LEMMA CursorCuts ==
  ASSUME WalkTyped, NEW last \in RowIds, sortKey[last] # Unlisted,
         NEW r \in RowIds, sortKey[r] # Unlisted
  PROVE  /\ KeysetCondition(listing, CursorAfter(last), r) => Before(listing, last, r)
         /\ Before(listing, last, r) /\ ~Ambiguous(r) =>
              KeysetCondition(listing, CursorAfter(last), r)
  <1>1. /\ listing.keys \in {"asc", "desc"} /\ listing.ids \in {"asc", "desc"}
        /\ listing.precise \in BOOLEAN
        /\ listing.precise \/ listing.keys = "desc"
    BY DEF WalkTyped, ReadableLists
  <1>2. PICK kl \in Nat : kl = sortKey[last]
    BY DEF WalkTyped
  <1>3. PICK kr \in Nat : kr = sortKey[r]
    BY DEF WalkTyped
  <1>4. PICK cut \in Nat : cut = WholeMs(kl)
    BY WholeMsBelow
  <1>5. KeysetCondition(listing, CursorAfter(last), r) <=>
          Precedes(listing.keys, cut, kr) \/ (kr = cut /\ Precedes(listing.ids, last, r))
    BY <1>2, <1>3, <1>4 DEF KeysetCondition, CursorAfter
  <1>6. Before(listing, last, r) <=>
          Precedes(listing.keys, kl, kr) \/ (kl = kr /\ Precedes(listing.ids, last, r))
    BY <1>2, <1>3 DEF Before
  <1>7. CASE listing.precise
    <2>1. cut = kl
      BY <1>2, <1>4, <1>7 DEF WalkTyped, Keys
    <2> QED BY <1>5, <1>6, <2>1
  <1>8. CASE ~listing.precise
    <2>1. cut <= kl
      BY <1>4, WholeMsBelow
    <2>2. \A a, b \in Nat : Precedes(listing.keys, a, b) <=> a > b
      BY <1>1, <1>8 DEF Precedes
    <2>3. KeysetCondition(listing, CursorAfter(last), r) => Before(listing, last, r)
      <3>1. CASE kr < cut
        <4>1. kr < kl
          BY <2>1, <3>1
        <4> QED BY <1>6, <2>2, <4>1
      <3>2. CASE kr = cut /\ Precedes(listing.ids, last, r)
        <4>1. kr < kl \/ kr = kl
          BY <2>1, <3>2
        <4> QED BY <1>6, <2>2, <3>2, <4>1
      <3> QED BY <1>5, <2>2, <3>1, <3>2
    <2>4. ASSUME Before(listing, last, r), ~Ambiguous(r)
          PROVE  KeysetCondition(listing, CursorAfter(last), r)
      <3>1. last # r
        BY <2>4, OrderIsLinear DEF WalkTyped
      <3>2. WholeMs(kl) # WholeMs(kr)
        BY <1>2, <1>3, <1>8, <2>4, <3>1 DEF Ambiguous
      <3>3. kr < kl
        BY <1>6, <2>2, <2>4, <3>2
      <3>4. kr < cut
        BY <1>4, <3>2, <3>3, WholeMsBelow
      <3> QED BY <1>5, <2>2, <3>4
    <2> QED BY <2>3, <2>4
  <1> QED BY <1>7, <1>8

\* What comes after a row that is after the cursor is after the cursor.
LEMMA KeysetOpen ==
  ASSUME WalkTyped, position \in RowCursor, NEW last \in RowIds, NEW r \in RowIds,
         KeysetCondition(listing, position, last), Before(listing, last, r)
  PROVE  KeysetCondition(listing, position, r)
  <1>1. listing.keys \in {"asc", "desc"} /\ listing.ids \in {"asc", "desc"}
    BY DEF WalkTyped, ReadableLists
  <1>2. \A a, b, c \in Nat, d \in {"asc", "desc"} :
           Precedes(d, a, b) /\ Precedes(d, b, c) => Precedes(d, a, c)
    BY DEF Precedes
  <1>3. /\ sortKey[last] \in Nat /\ sortKey[r] \in Nat /\ last \in Nat /\ r \in Nat
        /\ position.key \in Nat /\ position.id \in Nat
    BY PagingAssumption DEF WalkTyped, RowCursor
  <1> QED BY <1>1, <1>2, <1>3 DEF KeysetCondition, Before

LEMMA PositionKinds ==
  ASSUME WalkTyped
  PROVE  /\ position = FirstPage \/ position = LastPage \/ position \in RowCursor
         /\ position = FirstPage => position.at = "start"
         /\ position = LastPage => position.at = "end"
         /\ position \in RowCursor => position.at = "row"
         /\ FirstPage # LastPage
  BY DEF WalkTyped, FirstPage, LastPage, RowCursor

LEMMA NextPageKeeps ==
  ASSUME WalkInv, NextPage
  PROVE  WalkInv'
  <1> DEFINE page == {r \in Matching : RowsBefore(r) < PageLimit}
             following == {r \in Matching : RowsBefore(r) = PageLimit}
  <1>1. WalkTyped /\ PageLimit \in Nat \ {0}
    BY PagingAssumption DEF WalkInv
  <1>2. /\ position # LastPage
        /\ shownTimes' = [r \in RowIds |-> shownTimes[r] + IF r \in page THEN 1 ELSE 0]
        /\ position' = IF following # {}
                       THEN CursorAfter(CHOOSE r \in page : RowsBefore(r) = PageLimit - 1)
                       ELSE LastPage
        /\ UNCHANGED <<listing, sortKey, touched>>
    BY DEF NextPage
  <1>3. listing \in ReadableLists /\ sortKey \in [RowIds -> Nat]
    BY <1>1 DEF WalkTyped
  <1>4. \A r \in Matching : r \in RowIds /\ sortKey[r] # Unlisted /\ RowsBefore(r) \in Nat
    BY <1>3, RanksGrow DEF Matching
  <1>5. \A r \in RowIds : /\ shownTimes[r] \in Nat /\ shownTimes'[r] \in Nat
                          /\ r \in page => shownTimes'[r] = shownTimes[r] + 1
                          /\ r \notin page => shownTimes'[r] = shownTimes[r]
    BY <1>1, <1>2 DEF WalkTyped
  <1>6. \A r \in RowIds : /\ Ambiguous(r)' <=> Ambiguous(r)
    BY <1>2 DEF Ambiguous, Unlisted
  <1>7. shownTimes' \in [RowIds -> Nat]
    BY <1>2, <1>5
  <1>8. \A r \in RowIds \ touched : r \in Matching => shownTimes[r] = 0
    <2> SUFFICES ASSUME NEW r \in RowIds \ touched, r \in Matching PROVE shownTimes[r] = 0
      OBVIOUS
    <2>1. CASE position = FirstPage
      BY <1>5, <2>1 DEF WalkInv, WalkedSoFar
    <2>2. CASE position \in RowCursor
      BY <1>1, <2>2, PositionKinds DEF WalkInv, WalkedSoFar, Matching
    <2> QED BY <1>1, <1>2, <2>1, <2>2, PositionKinds
  <1>9. \A r \in RowIds \ touched :
           sortKey[r] # Unlisted /\ ~Ambiguous(r) /\ shownTimes[r] = 0 => r \in Matching
    <2>1. CASE position = FirstPage
      BY <1>1, <2>1, PositionKinds DEF Matching
    <2>2. CASE position \in RowCursor
      BY <1>1, <2>2, PositionKinds DEF WalkInv, WalkedSoFar, Matching
    <2> QED BY <1>1, <1>2, <2>1, <2>2, PositionKinds
  <1>10. CASE following = {}
    <2>1. position' = LastPage
      BY <1>2, <1>10
    <2>2. Matching \subseteq page
      <3>1. \A r \in Matching : ~(RowsBefore(r) >= PageLimit)
        BY <1>1, <1>3, <1>10, NoRankMissing
      <3> QED BY <1>1, <1>4, <3>1
    <2>3. WalkTyped'
      BY <1>1, <1>2, <1>7, <2>1, PositionKinds DEF WalkTyped, Keys, WholeMs, Unlisted, LastPage, FirstPage
    <2>4. WalkedSoFar'
      <3> SUFFICES ASSUME NEW r \in RowIds \ touched
                   PROVE  /\ shownTimes'[r] <= 1
                          /\ sortKey[r] # Unlisted /\ ~Ambiguous(r) => shownTimes'[r] = 1
        BY <1>2, <1>6, <2>1 DEF WalkedSoFar, LastPage, FirstPage, Unlisted
      <3>1. shownTimes[r] <= 1
        BY DEF WalkInv, WalkedSoFar
      <3>2. shownTimes'[r] <= 1
        BY <1>4, <1>5, <1>8, <3>1
      <3>3. sortKey[r] # Unlisted /\ ~Ambiguous(r) => shownTimes'[r] = 1
        <4>1. CASE r \in Matching
          BY <1>5, <1>8, <2>2, <4>1
        <4>2. CASE r \notin Matching
          BY <1>5, <1>9, <3>1, <4>2
        <4> QED BY <4>1, <4>2
      <3> QED BY <3>2, <3>3
    <2> QED BY <2>3, <2>4 DEF WalkInv
  <1>11. CASE following # {}
    <2>1. PICK last \in page : /\ RowsBefore(last) = PageLimit - 1
                               /\ position' = CursorAfter(last)
      <3>1. PICK more \in following : TRUE
        BY <1>11
      <3>2. PageLimit - 1 \in Nat /\ RowsBefore(more) >= PageLimit - 1 /\ more \in Matching
        BY <1>1, <3>1
      <3>3. \E q \in Matching : RowsBefore(q) = PageLimit - 1
        BY <1>3, <3>2, NoRankMissing
      <3>4. \E q \in page : RowsBefore(q) = PageLimit - 1
        BY <1>1, <3>3
      <3> QED BY <1>2, <1>11, <3>4
    <2>2. /\ last \in Matching /\ last \in RowIds /\ sortKey[last] # Unlisted
          /\ sortKey[last] \in Nat /\ WholeMs(sortKey[last]) \in Nat /\ last \in Nat
      BY <1>3, <1>4, <2>1, WholeMsBelow, PagingAssumption
    <2>3. position' \in RowCursor /\ position'.at = "row" /\ position' # FirstPage
          /\ position' # LastPage
      BY <2>1, <2>2 DEF CursorAfter, RowCursor, FirstPage, LastPage
    <2>4. WalkTyped'
      BY <1>1, <1>2, <1>7, <2>3 DEF WalkTyped, Keys, WholeMs, Unlisted, FirstPage, LastPage
    <2>5. \A r \in Matching : r \in page => ~Before(listing, last, r)
      BY <1>1, <1>3, <1>4, <2>1, <2>2, RanksGrow
    <2>6. \A r \in Matching : r \notin page => Before(listing, last, r)
      BY <1>1, <1>3, <1>4, <2>1, <2>2, RanksGrow
    <2>7. \A r \in RowIds : KeysetCondition(listing, position, r)'
                              <=> KeysetCondition(listing, CursorAfter(last), r)
      BY <1>2, <2>1 DEF KeysetCondition, CursorAfter, WholeMs
    <2>8. WalkedSoFar'
      <3> SUFFICES ASSUME NEW r \in RowIds \ touched
                   PROVE  /\ shownTimes'[r] <= 1
                          /\ sortKey[r] # Unlisted =>
                               /\ KeysetCondition(listing, CursorAfter(last), r) => shownTimes'[r] = 0
                               /\ ~Ambiguous(r) /\ ~KeysetCondition(listing, CursorAfter(last), r)
                                     => shownTimes'[r] = 1
        BY <1>2, <1>6, <2>3, <2>7 DEF WalkedSoFar, Unlisted
      <3>1. shownTimes[r] <= 1
        BY DEF WalkInv, WalkedSoFar
      <3>2. shownTimes'[r] <= 1
        BY <1>4, <1>5, <1>8, <3>1
      <3>3. ASSUME sortKey[r] # Unlisted, KeysetCondition(listing, CursorAfter(last), r)
            PROVE  shownTimes'[r] = 0
        <4>1. Before(listing, last, r)
          BY <1>1, <2>2, <3>3, CursorCuts
        <4>2. r \notin page
          BY <2>5, <4>1
        <4>3. r \in Matching
          <5>1. CASE position = FirstPage
            BY <1>1, <3>3, <5>1, PositionKinds DEF Matching
          <5>2. CASE position \in RowCursor
            <6>1. KeysetCondition(listing, position, last)
              BY <1>1, <2>2, <5>2, PositionKinds DEF Matching
            <6>2. KeysetCondition(listing, position, r)
              BY <1>1, <2>2, <4>1, <5>2, <6>1, KeysetOpen
            <6> QED BY <3>3, <6>2 DEF Matching
          <5> QED BY <1>1, <1>2, <5>1, <5>2, PositionKinds
        <4> QED BY <1>5, <1>8, <4>2, <4>3
      <3>4. ASSUME sortKey[r] # Unlisted, ~Ambiguous(r),
                   ~KeysetCondition(listing, CursorAfter(last), r)
            PROVE  shownTimes'[r] = 1
        <4>1. ~Before(listing, last, r)
          BY <1>1, <2>2, <3>4, CursorCuts
        <4>2. CASE shownTimes[r] = 0
          <5>1. r \in page
            BY <1>9, <2>6, <3>4, <4>1, <4>2
          <5> QED BY <1>5, <4>2, <5>1
        <4>3. CASE shownTimes[r] = 1
          BY <1>5, <1>8, <4>3
        <4> QED BY <1>5, <3>1, <4>2, <4>3
      <3> QED BY <3>2, <3>3, <3>4
    <2> QED BY <2>4, <2>8 DEF WalkInv
  <1> QED BY <1>10, <1>11

LEMMA TouchKeeps ==
  ASSUME WalkInv, NEW r \in RowIds, NEW key \in Keys(listing) \cup {Unlisted}, Touch(r, key)
  PROVE  WalkInv'
  <1>1. /\ position.at = "row" /\ touched' = touched \cup {r}
        /\ sortKey' = [sortKey EXCEPT ![r] = key]
        /\ UNCHANGED <<listing, position, shownTimes>>
    BY DEF Touch
  <1>2. WalkTyped /\ key \in Nat /\ position \in RowCursor
    <2>1. Unlisted \in Nat /\ Keys(listing) \subseteq Nat
      BY PagingAssumption DEF Unlisted, Keys
    <2>2. position # FirstPage /\ position # LastPage
      BY <1>1, PositionKinds DEF WalkInv
    <2> QED BY <2>1, <2>2, PositionKinds DEF WalkInv
  <1>3. WalkTyped'
    BY <1>1, <1>2, PositionKinds DEF WalkTyped, Keys, WholeMs, Unlisted, FirstPage, LastPage
  <1>4. \A q \in RowIds \ touched' :
           /\ q \in RowIds \ touched /\ sortKey'[q] = sortKey[q]
           /\ KeysetCondition(listing, position, q)' <=> KeysetCondition(listing, position, q)
    BY <1>1, <1>2 DEF WalkTyped, KeysetCondition
  <1>5. \A q \in RowIds : Ambiguous(q) => Ambiguous(q)'
    BY <1>1 DEF Ambiguous
  <1>6. position' # FirstPage /\ position' # LastPage /\ position'.at = "row"
    BY <1>1, <1>2, PositionKinds
  <1>7. WalkedSoFar'
    <2> SUFFICES ASSUME NEW q \in RowIds \ touched'
                 PROVE  /\ shownTimes[q] <= 1
                        /\ sortKey[q] # Unlisted =>
                             /\ KeysetCondition(listing, position, q) => shownTimes[q] = 0
                             /\ ~Ambiguous(q)' /\ ~KeysetCondition(listing, position, q)
                                   => shownTimes[q] = 1
      BY <1>1, <1>4, <1>6 DEF WalkedSoFar, Unlisted
    <2> QED BY <1>1, <1>4, <1>5 DEF WalkInv, WalkedSoFar
  <1> QED BY <1>3, <1>7 DEF WalkInv

\* Whoever reads a list to its end is shown every row that stayed where it was, and none twice,
\* for lists, pages and cursors of every size and any number of rows that come, go and move
\* between the pages (lib/pagination.ts).
THEOREM WalksAreComplete == PagingSpec => []PagesComplete
  <1>1. PagingInit => WalkInv
    <2> SUFFICES ASSUME PagingInit PROVE WalkInv
      OBVIOUS
    <2>1. listing \in ReadableLists
      <3>1. AllLists \subseteq ReadableLists
        <4>1. \A d, e \in {"asc", "desc"}, moves \in BOOLEAN :
                 List(d, e, moves, TRUE) \in ReadableLists /\ List("desc", e, moves, FALSE) \in ReadableLists
          BY DEF List, ReadableLists
        <4>2. EventLists \subseteq ReadableLists
          BY <4>1 DEF EventLists
        <4>3. {Newest, ChatList, NotificationList, OrganizerList, ReportQueue, DashboardEventList,
               PartnerList} \subseteq ReadableLists
          BY <4>1 DEF Newest, ChatList, NotificationList, OrganizerList, ReportQueue,
                      DashboardEventList, PartnerList
        <4> QED BY <4>2, <4>3 DEF AllLists, AdminEventLists, InterestList, MatchList, MessageList,
                   BookingList, AdminOrderList, AdminBookingList, AdminUserList, SafetyLogList,
                   AuditLogList
      <3> QED BY <3>1 DEF PagingInit
    <2>2. Keys(listing) \cup {Unlisted} \subseteq Nat
      BY PagingAssumption DEF Keys, Unlisted
    <2>3. WalkTyped
      BY <2>1, <2>2 DEF PagingInit, WalkTyped
    <2>4. WalkedSoFar
      BY DEF PagingInit, WalkedSoFar, FirstPage, LastPage
    <2> QED BY <2>3, <2>4 DEF WalkInv
  <1>2. WalkInv /\ [PagingNext]_pagingVars => WalkInv'
    <2> SUFFICES ASSUME WalkInv, [PagingNext]_pagingVars PROVE WalkInv'
      OBVIOUS
    <2>1. CASE UNCHANGED pagingVars
      BY <2>1 DEF pagingVars, WalkInv, WalkTyped, WalkedSoFar, Keys, KeysetCondition, Ambiguous,
                  WholeMs, Unlisted
    <2>2. ASSUME NEW r \in RowIds, ListRow(r) \/ UnlistRow(r) \/ MoveRow(r)
          PROVE  WalkInv'
      <3>1. PICK key \in Keys(listing) \cup {Unlisted} : Touch(r, key)
        BY <2>2 DEF ListRow, UnlistRow, MoveRow
      <3> QED BY <3>1, TouchKeeps
    <2> QED BY <2>1, <2>2, NextPageKeeps DEF PagingNext
  <1>3. WalkInv => PagesComplete
    BY DEF WalkInv, WalkedSoFar, PagesComplete
  <1> QED
    BY <1>1, <1>2, <1>3, PTL DEF PagingSpec

-----------------------------------------------------------------------------
(* The dashboard: bars that add up *)

DashboardSpec == DashboardInit /\ [][DashboardNext]_dashboardVars

\* What the empty subset has, and a subset has when it does without one of its elements, the
\* whole set has.
LEMMA SubsetInduction ==
  ASSUME NEW S, IsFiniteSet(S), NEW Good, {} \in Good,
         \A T \in SUBSET S : T # {} => \E x \in T : (T \ {x} \in Good => T \in Good)
  PROVE  S \in Good
  <1> DEFINE Bad == {n \in Nat : \E T \in SUBSET S : T \notin Good /\ Cardinality(T) = n}
  <1>1. SUFFICES ASSUME S \notin Good PROVE FALSE
    OBVIOUS
  <1>2. \A T \in SUBSET S : IsFiniteSet(T) /\ Cardinality(T) \in Nat
    BY FS_Subset, FS_CardinalityType
  <1>3. PICK n \in Bad : \A k \in Bad : n <= k
    <2>1. Cardinality(S) \in Bad
      BY <1>1, <1>2
    <2>2. Bad \subseteq Nat /\ Bad # {}
      BY <2>1
    <2> HIDE DEF Bad
    <2> QED BY <2>2, LeastNumber
  <1>4. PICK T \in SUBSET S : T \notin Good /\ Cardinality(T) = n
    BY <1>3
  <1>5. PICK x \in T : T \ {x} \notin Good
    BY <1>4
  <1>6. Cardinality(T \ {x}) = n - 1
    BY <1>2, <1>4, <1>5, FS_RemoveElement
  <1>7. T \ {x} \in SUBSET S /\ n - 1 \in Nat
    BY <1>2, <1>6
  <1>8. n - 1 \in Bad
    BY <1>5, <1>6, <1>7
  <1> QED BY <1>3, <1>8

\* A sum is the size of a stack with as many elements on each place as the place's number.
Stack(f, S) == UNION {{x} \X (1 .. f[x]) : x \in S}

LEMMA StackParts ==
  ASSUME NEW f, NEW S, NEW T
  PROVE  /\ Stack(f, {}) = {}
         /\ S \cap T = {} => Stack(f, S) \cap Stack(f, T) = {}
         /\ Stack(f, S \cup T) = Stack(f, S) \cup Stack(f, T)
         /\ S \subseteq T => Stack(f, S) \subseteq Stack(f, T)
  BY DEF Stack

LEMMA OnePlace ==
  ASSUME NEW f, NEW x, f[x] \in Nat
  PROVE  IsFiniteSet(Stack(f, {x})) /\ Cardinality(Stack(f, {x})) = f[x]
  <1>1. Stack(f, {x}) = {x} \X (1 .. f[x])
    BY DEF Stack
  <1>2. IsFiniteSet({x}) /\ Cardinality({x}) = 1
    BY FS_Singleton
  <1>3. IsFiniteSet(1 .. f[x]) /\ Cardinality(1 .. f[x]) = f[x]
    BY FS_Interval
  <1>4. IsFiniteSet({x} \X (1 .. f[x]))
        /\ Cardinality({x} \X (1 .. f[x])) = Cardinality({x}) * Cardinality(1 .. f[x])
    BY <1>2, <1>3, FS_Product
  <1>5. \A n \in Nat : 1 * n = n
    OBVIOUS
  <1>6. Cardinality({x} \X (1 .. f[x])) = f[x]
    BY <1>2, <1>3, <1>4, <1>5
  <1> QED BY <1>1, <1>4, <1>6

LEMMA StackFinite ==
  ASSUME NEW S, IsFiniteSet(S), NEW f, \A x \in S : f[x] \in Nat
  PROVE  IsFiniteSet(Stack(f, S))
  <1> DEFINE Good == {T \in SUBSET S : IsFiniteSet(Stack(f, T))}
  <1>1. {} \in Good
    BY StackParts, FS_EmptySet
  <1>2. ASSUME NEW T \in SUBSET S, NEW x \in T, T \ {x} \in Good PROVE T \in Good
    <2>1. Stack(f, T) = Stack(f, T \ {x}) \cup Stack(f, {x})
      <3>1. T = (T \ {x}) \cup {x}
        OBVIOUS
      <3> QED BY <3>1, StackParts
    <2>2. IsFiniteSet(Stack(f, {x})) /\ IsFiniteSet(Stack(f, T \ {x}))
      BY <1>2, OnePlace
    <2> QED BY <2>1, <2>2, FS_Union
  <1> HIDE DEF Good
  <1>3. \A T \in SUBSET S : T # {} => \E x \in T : (T \ {x} \in Good => T \in Good)
    BY <1>2
  <1>4. S \in Good
    BY <1>1, <1>3, SubsetInduction
  <1> QED BY <1>4 DEF Good

LEMMA StackAdds ==
  ASSUME NEW f, NEW S, NEW T, S \cap T = {}, IsFiniteSet(S), IsFiniteSet(T),
         \A x \in S \cup T : f[x] \in Nat
  PROVE  Cardinality(Stack(f, S \cup T)) = Cardinality(Stack(f, S)) + Cardinality(Stack(f, T))
  <1>1. IsFiniteSet(Stack(f, S)) /\ IsFiniteSet(Stack(f, T))
    BY StackFinite
  <1>2. Cardinality(Stack(f, S)) \in Nat /\ Cardinality(Stack(f, T)) \in Nat
    BY <1>1, FS_CardinalityType
  <1>3. Stack(f, S \cup T) = Stack(f, S) \cup Stack(f, T) /\ Stack(f, S) \cap Stack(f, T) = {}
    BY StackParts
  <1>4. Cardinality(Stack(f, S) \cup Stack(f, T))
          = Cardinality(Stack(f, S)) + Cardinality(Stack(f, T)) - Cardinality({})
    BY <1>1, <1>3, FS_Union
  <1>5. \A a, b \in Nat : a + b - 0 = a + b
    OBVIOUS
  <1>6. Cardinality({}) = 0
    BY FS_EmptySet
  <1> QED BY <1>2, <1>3, <1>4, <1>5, <1>6

\* The partial sums SumFunction() adds up.
PartialSums(f, S) ==
    CHOOSE sums : sums = [T \in SUBSET S |->
       IF T = {} THEN 0
       ELSE f[CHOOSE x \in T : TRUE] + sums[T \ {CHOOSE x \in T : TRUE}]]

LEMMA PartialSumsRecur ==
  ASSUME NEW S, IsFiniteSet(S), NEW f \in [S -> Nat]
  PROVE  /\ SumFunction(f) = PartialSums(f, S)[S]
         /\ PartialSums(f, S)[{}] = 0
         /\ \A T \in SUBSET S : T # {} =>
              PartialSums(f, S)[T]
                = f[CHOOSE x \in T : TRUE] + PartialSums(f, S)[T \ {CHOOSE x \in T : TRUE}]
  <1>1. SumFunction(f) = PartialSums(f, S)[S]
    <2>1. DOMAIN f = S
      OBVIOUS
    <2> QED BY <2>1 DEF SumFunction, SumFunctionOnSet, FoldFunctionOnSet, MapThenFoldSet, PartialSums
  <1> DEFINE sizes == [T \in SUBSET S |-> Cardinality(Stack(f, T))]
  <1>2. sizes = [T \in SUBSET S |->
           IF T = {} THEN 0
           ELSE f[CHOOSE x \in T : TRUE] + sizes[T \ {CHOOSE x \in T : TRUE}]]
    <2>1. sizes[{}] = 0
      BY StackParts, FS_EmptySet
    <2>2. ASSUME NEW T \in SUBSET S, T # {}
          PROVE  sizes[T] = f[CHOOSE x \in T : TRUE] + sizes[T \ {CHOOSE x \in T : TRUE}]
      <3>1. PICK x \in T : x = CHOOSE y \in T : TRUE
        BY <2>2
      <3>2. (T \ {x}) \cup {x} = T /\ (T \ {x}) \cap {x} = {} /\ T \ {x} \in SUBSET S
        OBVIOUS
      <3>3. IsFiniteSet(T \ {x}) /\ IsFiniteSet({x})
        BY FS_Subset, FS_Singleton
      <3>4. Cardinality(Stack(f, T))
              = Cardinality(Stack(f, T \ {x})) + Cardinality(Stack(f, {x}))
        BY <3>2, <3>3, StackAdds
      <3>5. Cardinality(Stack(f, {x})) = f[x] /\ f[x] \in Nat
        BY OnePlace
      <3>6. Cardinality(Stack(f, T \ {x})) \in Nat
        BY <3>3, StackFinite, FS_CardinalityType
      <3>7. sizes[T] = f[x] + sizes[T \ {x}]
        BY <3>2, <3>4, <3>5, <3>6
      <3> QED BY <3>1, <3>7
    <2> DEFINE other == [T \in SUBSET S |->
           IF T = {} THEN 0
           ELSE f[CHOOSE x \in T : TRUE] + sizes[T \ {CHOOSE x \in T : TRUE}]]
    <2>3. \A T \in SUBSET S : sizes[T] = other[T]
      <3> HIDE DEF sizes
      <3> QED BY <2>1, <2>2
    <2> QED BY <2>3
  <1>3. PartialSums(f, S) = [T \in SUBSET S |->
           IF T = {} THEN 0
           ELSE f[CHOOSE x \in T : TRUE] + PartialSums(f, S)[T \ {CHOOSE x \in T : TRUE}]]
    <2> HIDE DEF sizes
    <2> QED BY <1>2, Zenon DEF PartialSums
  <1>4. PartialSums(f, S)[{}] = 0
    BY <1>3
  <1>5. \A T \in SUBSET S : T # {} =>
           PartialSums(f, S)[T]
             = f[CHOOSE x \in T : TRUE] + PartialSums(f, S)[T \ {CHOOSE x \in T : TRUE}]
    BY <1>3
  <1> QED BY <1>1, <1>4, <1>5

\* Numbers summed up part by part make the same sum.
LEMMA SumOfParts ==
  ASSUME NEW L, IsFiniteSet(L), NEW R, IsFiniteSet(R), NEW w, \A r \in R : w[r] \in Nat,
         NEW part \in [R -> L], NEW f \in [L -> Nat],
         \A d \in L : f[d] = Cardinality(Stack(w, {r \in R : part[r] = d}))
  PROVE  SumFunction(f) = Cardinality(Stack(w, R))
  <1> DEFINE In(T) == {r \in R : part[r] \in T}
             Good == {T \in SUBSET L : PartialSums(f, L)[T] = Cardinality(Stack(w, In(T)))}
  <1>1. {} \in Good
    <2>1. In({}) = {}
      OBVIOUS
    <2> QED BY <2>1, PartialSumsRecur, StackParts, FS_EmptySet
  <1>2. ASSUME NEW T \in SUBSET L, T # {}
        PROVE  \E x \in T : (T \ {x} \in Good => T \in Good)
    <2>1. PICK x \in T : x = CHOOSE y \in T : TRUE
      BY <1>2
    <2>2. SUFFICES ASSUME T \ {x} \in Good PROVE T \in Good
      OBVIOUS
    <2>3. PartialSums(f, L)[T] = f[x] + PartialSums(f, L)[T \ {x}]
      <3>1. PartialSums(f, L)[T]
              = f[CHOOSE y \in T : TRUE] + PartialSums(f, L)[T \ {CHOOSE y \in T : TRUE}]
        BY <1>2, PartialSumsRecur
      <3> QED BY <2>1, <3>1
    <2>4. In(T) = In(T \ {x}) \cup In({x}) /\ In(T \ {x}) \cap In({x}) = {}
      OBVIOUS
    <2>5. IsFiniteSet(In(T \ {x})) /\ IsFiniteSet(In({x}))
      BY FS_Subset
    <2>6. Cardinality(Stack(w, In(T)))
            = Cardinality(Stack(w, In(T \ {x}))) + Cardinality(Stack(w, In({x})))
      <3> HIDE DEF In
      <3>1. \A r \in In(T \ {x}) \cup In({x}) : w[r] \in Nat
        BY DEF In
      <3>2. Cardinality(Stack(w, In(T \ {x}) \cup In({x})))
              = Cardinality(Stack(w, In(T \ {x}))) + Cardinality(Stack(w, In({x})))
        BY <2>4, <2>5, <3>1, StackAdds
      <3> QED BY <2>4, <3>2
    <2>7. f[x] = Cardinality(Stack(w, In({x})))
      <3>1. In({x}) = {r \in R : part[r] = x}
        OBVIOUS
      <3> QED BY <3>1
    <2>8. PartialSums(f, L)[T \ {x}] = Cardinality(Stack(w, In(T \ {x})))
      BY <2>2
    <2>9. Cardinality(Stack(w, In(T \ {x}))) \in Nat /\ f[x] \in Nat
      <3> HIDE DEF In
      <3>1. \A r \in In(T \ {x}) : w[r] \in Nat
        BY DEF In
      <3> QED BY <2>5, <3>1, StackFinite, FS_CardinalityType
    <2>10. PartialSums(f, L)[T] = Cardinality(Stack(w, In(T)))
      BY <2>3, <2>6, <2>7, <2>8, <2>9
    <2> QED BY <2>10
  <1> HIDE DEF Good
  <1>3. L \in Good
    BY <1>1, <1>2, SubsetInduction
  <1>4. In(L) = R
    OBVIOUS
  <1> HIDE DEF In
  <1> QED BY <1>3, <1>4, PartialSumsRecur DEF Good

\* In particular, one by one.
LEMMA SumIsStack ==
  ASSUME NEW S, IsFiniteSet(S), NEW f \in [S -> Nat]
  PROVE  SumFunction(f) = Cardinality(Stack(f, S)) /\ SumFunction(f) \in Nat
  <1>1. PICK part \in [S -> S] : part = [x \in S |-> x]
    OBVIOUS
  <1>2. \A d \in S : f[d] = Cardinality(Stack(f, {r \in S : part[r] = d}))
    <2> TAKE d \in S
    <2>1. {r \in S : part[r] = d} = {d}
      BY <1>1
    <2> QED BY <2>1, OnePlace
  <1>3. SumFunction(f) = Cardinality(Stack(f, S))
    BY <1>2, SumOfParts
  <1> QED BY <1>3, StackFinite, FS_CardinalityType

FigureRow == [subject: Subjects, at: Nat, weight: Nat]
AnyPeriod == [from: Int, to: Int]

DashboardInv ==
    /\ recorded \subseteq FigureRow /\ IsFiniteSet(recorded)
    /\ report # NoReport =>
         \E p \in AnyPeriod, shown \in SUBSET Subjects :
            report = [period  |-> p,
                      summary |-> [s \in shown |-> Figure(s, p)],
                      trends  |-> [s \in shown |-> Series(s, p)]]

\* The weight of some rows is the height of their stack.
LEMMA WeightsAreStacks ==
  ASSUME NEW S, S \subseteq FigureRow, IsFiniteSet(S), NEW w, \A r \in S : w[r] = r.weight
  PROVE  Weights(S) = Cardinality(Stack(w, S)) /\ Weights(S) \in Nat
  <1>1. PICK f : f = [r \in S |-> r.weight]
    OBVIOUS
  <1>2. f \in [S -> Nat] /\ \A r \in S : f[r] = w[r]
    BY <1>1 DEF FigureRow
  <1>3. Weights(S) = Cardinality(Stack(f, S)) /\ Weights(S) \in Nat
    BY <1>1, <1>2, SumIsStack DEF Weights
  <1>4. Stack(f, S) = Stack(w, S)
    BY <1>2 DEF Stack
  <1> QED BY <1>3, <1>4

\* The day of a row of the period, by India's clock, is one of the period's.
LEMMA DayInPeriod ==
  ASSUME NEW p \in AnyPeriod, NEW at \in Nat, InPeriod(p, at)
  PROVE  IstDay(at) \in p.from .. p.to
  <1>1. PICK parts \in Nat \ {0} : parts = Parts
    BY DashboardAssumption
  <1>2. PICK instant \in Nat : instant = at + IstOffset
    BY DashboardAssumption
  <1>3. /\ instant \div parts \in Nat /\ instant % parts \in 0 .. parts - 1
        /\ instant = parts * (instant \div parts) + (instant % parts)
    OBVIOUS
  <1>4. PICK date \in Nat : date = instant \div parts
    BY <1>3
  <1>5. PICK from \in Int, to \in Int : from = p.from /\ to = p.to
    BY DEF AnyPeriod
  <1>6. from * parts <= instant /\ instant < (to + 1) * parts
    BY <1>1, <1>2, <1>5, DashboardAssumption DEF InPeriod, IstStartOfDay, AddDays
  <1>7. date * parts <= instant /\ instant < (date + 1) * parts
    BY <1>3, <1>4
  <1>8. from <= date
    <2>1. SUFFICES ASSUME date + 1 <= from PROVE FALSE
      OBVIOUS
    <2>2. (date + 1) * parts <= from * parts
      BY <2>1
    <2>3. (date + 1) * parts \in Int /\ from * parts \in Int
      OBVIOUS
    <2> QED BY <1>6, <1>7, <2>2, <2>3
  <1>9. date <= to
    <2>1. SUFFICES ASSUME to + 1 <= date PROVE FALSE
      OBVIOUS
    <2>2. (to + 1) * parts <= date * parts
      BY <2>1
    <2>3. (to + 1) * parts \in Int /\ date * parts \in Int
      OBVIOUS
    <2> QED BY <1>6, <1>7, <2>2, <2>3
  <1>10. IstDay(at) = date
    BY <1>1, <1>2, <1>4 DEF IstDay
  <1> QED BY <1>5, <1>8, <1>9, <1>10

\* Each row of the period is in one of its buckets.
LEMMA BucketIsLabel ==
  ASSUME NEW p \in AnyPeriod, NEW at \in Nat, InPeriod(p, at)
  PROVE  BucketOf(p, at) \in Labels(p)
  <1>1. PICK date \in Int : date = IstDay(at) /\ p.from <= date /\ date <= p.to
    BY DayInPeriod DEF AnyPeriod
  <1>2. PICK from \in Int, to \in Int : from = p.from /\ to = p.to
    BY DEF AnyPeriod
  <1>3. \A d \in Int : MondayOf(d) = d - (d % 7)
    BY DEF MondayOf, Weekday
  <1>4. \A d \in Int : d % 7 \in 0 .. 6 /\ d % 1 = 0
    OBVIOUS
  <1>5. CASE Weekly(p)
    <2>1. PICK first \in Int : first = from - (from % 7)
      BY <1>4
    <2>2. PICK monday \in Int : monday = date - (date % 7)
      BY <1>4
    <2>3. PICK i \in Int, j \in Int : first = 7 * i /\ monday = 7 * j
      <3>1. first = 7 * (from \div 7) /\ monday = 7 * (date \div 7)
        BY <2>1, <2>2
      <3> QED BY <3>1
    <2>4. (monday - first) % 7 = 0
      <3>1. \A k \in Int : (7 * k) % 7 = 0
        OBVIOUS
      <3>2. monday - first = 7 * (j - i) /\ j - i \in Int
        BY <2>3
      <3> QED BY <3>1, <3>2
    <2>5. first <= monday /\ monday <= to
      <3>1. 7 * i <= date /\ date <= 7 * j + 6 /\ monday <= date
        BY <1>1, <1>2, <1>4, <2>1, <2>2, <2>3
      <3>2. i <= j
        BY <3>1
      <3> QED BY <1>1, <1>2, <2>3, <3>1, <3>2
    <2>6. BucketOf(p, at) = monday
      BY <1>1, <1>3, <1>5, <2>2 DEF BucketOf
    <2>7. Labels(p) = {d \in first .. to : (d - first) % 7 = 0}
      BY <1>2, <1>3, <1>5, <2>1 DEF Labels
    <2> QED BY <2>4, <2>5, <2>6, <2>7
  <1>6. CASE ~Weekly(p)
    <2>1. BucketOf(p, at) = date /\ Labels(p) = {d \in from .. to : (d - from) % 1 = 0}
      BY <1>1, <1>2, <1>6 DEF BucketOf, Labels
    <2>2. (date - from) % 1 = 0
      BY <1>4
    <2> QED BY <1>1, <1>2, <2>1, <2>2
  <1> QED BY <1>5, <1>6

LEMMA LabelsFinite ==
  ASSUME NEW p \in AnyPeriod
  PROVE  IsFiniteSet(Labels(p))
  <1>1. p.from \in Int /\ p.to \in Int /\ MondayOf(p.from) \in Int
    <2>1. \A d \in Int : MondayOf(d) \in Int
      BY DEF MondayOf, Weekday
    <2> QED BY <2>1 DEF AnyPeriod
  <1>2. IsFiniteSet(p.from .. p.to) /\ IsFiniteSet(MondayOf(p.from) .. p.to)
    BY <1>1, FS_Interval
  <1>3. Labels(p) \subseteq p.from .. p.to \/ Labels(p) \subseteq MondayOf(p.from) .. p.to
    BY DEF Labels
  <1> QED BY <1>2, <1>3, FS_Subset

LEMMA SeriesAddsUp ==
  ASSUME DashboardInv, NEW s, NEW p \in AnyPeriod
  PROVE  SumFunction(Series(s, p)) = Figure(s, p)
  <1>1. PICK counted : counted = {r \in recorded : r.subject = s /\ InPeriod(p, r.at)}
    OBVIOUS
  <1>2. IsFiniteSet(counted) /\ counted \subseteq FigureRow
    BY <1>1, FS_Subset DEF DashboardInv
  <1>3. PICK w : w = [r \in counted |-> r.weight]
    OBVIOUS
  <1>4. \A r \in counted : w[r] = r.weight /\ w[r] \in Nat
    BY <1>2, <1>3 DEF FigureRow
  <1>5. PICK part : part = [r \in counted |-> BucketOf(p, r.at)]
    OBVIOUS
  <1>6. part \in [counted -> Labels(p)]
    BY <1>1, <1>2, <1>5, BucketIsLabel DEF FigureRow
  <1>7. PICK bars : bars = Series(s, p)
    OBVIOUS
  <1>8. /\ bars \in [Labels(p) -> Nat]
        /\ \A d \in Labels(p) : bars[d] = Cardinality(Stack(w, {r \in counted : part[r] = d}))
    <2>1. ASSUME NEW d \in Labels(p)
          PROVE  bars[d] = Cardinality(Stack(w, {r \in counted : part[r] = d})) /\ bars[d] \in Nat
      <3>1. PICK some : some = {r \in counted : part[r] = d}
        OBVIOUS
      <3>2. some = {r \in recorded : r.subject = s /\ InPeriod(p, r.at) /\ BucketOf(p, r.at) = d}
        BY <1>1, <1>5, <3>1
      <3>3. bars[d] = Weights(some)
        BY <1>7, <3>2 DEF Series
      <3>4. some \subseteq FigureRow /\ IsFiniteSet(some) /\ \A r \in some : w[r] = r.weight
        BY <1>2, <1>4, <3>1, FS_Subset
      <3> QED BY <3>1, <3>3, <3>4, WeightsAreStacks
    <2>2. DOMAIN bars = Labels(p) /\ bars = [d \in Labels(p) |-> bars[d]]
      BY <1>7 DEF Series
    <2> QED BY <2>1, <2>2
  <1>9. SumFunction(bars) = Cardinality(Stack(w, counted))
    BY <1>2, <1>4, <1>6, <1>8, LabelsFinite, SumOfParts
  <1>10. Figure(s, p) = Weights(counted)
    BY <1>1 DEF Figure
  <1>11. Weights(counted) = Cardinality(Stack(w, counted))
    BY <1>2, <1>4, WeightsAreStacks
  <1> QED BY <1>7, <1>9, <1>10, <1>11

\* The bars of every chart add up to the figure above it, for every offset of the clock, period
\* and number of rows (summary() and trends() of admin-dashboard.service.ts).
THEOREM BarsAddUp == DashboardSpec => []TrendsAddUp
  <1>1. DashboardInit => DashboardInv
    BY FS_EmptySet DEF DashboardInit, DashboardInv
  <1>2. DashboardInv /\ [DashboardNext]_dashboardVars => DashboardInv'
    <2> SUFFICES ASSUME DashboardInv, [DashboardNext]_dashboardVars PROVE DashboardInv'
      OBVIOUS
    <2>1. ASSUME NEW s \in Subjects, RecordRow(s) PROVE DashboardInv'
      <3>1. PICK added : /\ recorded' = recorded \cup {added}
                       /\ added \in FigureRow
        <4>1. PICK d \in FirstDay .. FinalDay, part \in 0 .. Parts - 1,
                   weight \in (IF s = "revenue" THEN {1, 2} ELSE {1}) :
                recorded' = recorded \cup {[subject |-> s, at |-> d * Parts + part, weight |-> weight]}
          BY <2>1 DEF RecordRow
        <4>2. d \in Nat /\ part \in Nat /\ Parts \in Nat /\ weight \in Nat
          BY DashboardAssumption
        <4>3. d * Parts + part \in Nat
          BY <4>2
        <4>4. [subject |-> s, at |-> d * Parts + part, weight |-> weight] \in FigureRow
          BY <4>2, <4>3 DEF FigureRow
        <4> QED BY <4>1, <4>4
      <3>2. report' = NoReport
        BY <2>1 DEF RecordRow
      <3>3. IsFiniteSet(recorded')
        BY <3>1, FS_AddElement DEF DashboardInv
      <3> QED BY <3>1, <3>2, <3>3 DEF DashboardInv, NoReport
    <2>2. ASSUME NEW role \in DOMAIN RolePermissions, LoadDashboard(role) PROVE DashboardInv'
      <3>1. PICK from \in {Missing} \cup FirstDay .. FinalDay, to \in {Missing} \cup FirstDay .. FinalDay :
              LET p == Resolved(from, to, FinalDay)
              IN  /\ report' = [period  |-> p,
                                summary |-> [s \in Visible(role) |-> Figure(s, p)],
                                trends  |-> [s \in Visible(role) |-> Series(s, p)]]
                  /\ UNCHANGED recorded
        BY <2>2 DEF LoadDashboard
      <3>2. PICK p : p = Resolved(from, to, FinalDay)
        OBVIOUS
      <3>3. p \in AnyPeriod
        <4>1. from \in Int /\ to \in Int /\ FinalDay \in Int /\ DefaultRangeDays \in Int
          BY DashboardAssumption DEF Missing
        <4> QED BY <3>2, <4>1 DEF Resolved, AddDays, AnyPeriod
      <3>4. PICK shown : shown = Visible(role)
        OBVIOUS
      <3>5. shown \in SUBSET Subjects
        BY <3>4 DEF Visible
      <3>6. \A s \in shown : Figure(s, p)' = Figure(s, p) /\ Series(s, p)' = Series(s, p)
        BY <3>1 DEF Figure, Series
      <3>7. report' = [period  |-> p,
                       summary |-> [s \in shown |-> Figure(s, p)'],
                       trends  |-> [s \in shown |-> Series(s, p)']]
        BY <3>1, <3>2, <3>4, <3>6
      <3> QED BY <3>1, <3>3, <3>5, <3>7 DEF DashboardInv, NoReport
    <2>3. CASE LeaveDashboard
      BY <2>3 DEF LeaveDashboard, DashboardInv, NoReport
    <2>4. CASE UNCHANGED dashboardVars
      BY <2>4 DEF dashboardVars, DashboardInv, Figure, Series, NoReport
    <2> QED BY <2>1, <2>2, <2>3, <2>4 DEF DashboardNext
  <1>3. DashboardInv => TrendsAddUp
    <2> SUFFICES ASSUME DashboardInv, report # NoReport,
                        NEW s \in DOMAIN report.summary
                 PROVE  SumFunction(report.trends[s]) = report.summary[s]
      BY DEF TrendsAddUp
    <2>1. PICK p \in AnyPeriod, shown \in SUBSET Subjects :
            report = [period  |-> p,
                      summary |-> [t \in shown |-> Figure(t, p)],
                      trends  |-> [t \in shown |-> Series(t, p)]]
      BY DEF DashboardInv
    <2>2. report.trends[s] = Series(s, p) /\ report.summary[s] = Figure(s, p)
      BY <2>1
    <2> QED BY <2>2, SeriesAddsUp
  <1> QED
    BY <1>1, <1>2, <1>3, PTL DEF DashboardSpec

=============================================================================
