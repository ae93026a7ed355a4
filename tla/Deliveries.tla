----------------------------- MODULE Deliveries -----------------------------
(* Notifications on their way to the member's phone: the reminder job and     *)
(* other events store them, push() hands each to SMS and WhatsApp, a delivery *)
(* row is claimed before the provider is called, and Meta's reports move its  *)
(* status.                                                                    *)
EXTENDS Naturals, FiniteSets

CONSTANTS
    Notes,         \* notifications of one member
    MaxPushes,     \* bound: times a notification is pushed
    MaxStops,      \* bound: process restarts
    MaxTries,      \* maxAttempts of the WhatsApp client
    MaxRedates,    \* bound: times the event gets another date
    RetentionTicks, \* NOTIFICATION_RETENTION_DAYS, in ticks of the clock
    WindowTicks,   \* EVENT_REMINDER_HOURS_BEFORE
    LastTick       \* bound: the clock

ASSUME DeliveriesAssumption ==
    /\ IsFiniteSet(Notes)
    /\ MaxPushes \in Nat /\ MaxStops \in Nat /\ MaxRedates \in Nat /\ LastTick \in Nat
    /\ MaxTries \in Nat \ {0}
    /\ RetentionTicks \in Nat /\ WindowTicks \in 1..RetentionTicks

VARIABLES
    clock,
    starts,      \* when the event that the member goes to starts
    redated,
    kind,        \* each notification's type: "event_reminder" (of that event) or another
    stored,      \* notifications in the table, with the time of occurrence (Absent: none)
    made,        \* whether each notification was ever inserted (0 or 1: an ID is used once)
    remindsOf,   \* the start that a reminder was made for
    optIn,       \* the member's whatsapp_opt_in
    attempts,    \* deliveries under way: notification, push, channel, stage, requests before
    pushed,      \* pushes of each notification so far
    row,         \* notification_deliveries by notification and channel
    accepted,    \* messages the provider has taken, by notification and channel
    masked,      \* those of them that a gateway answered with an error page
    reported,    \* furthest status Meta has reported for a row that knew its message ID
    restarted

noteVars == <<clock, starts, redated, kind, stored, made, remindsOf, optIn>>
sendVars == <<attempts, pushed, row, accepted, masked, reported, restarted>>
deliveryVars == <<noteVars, sendVars>>

Channels == {"sms", "whatsapp"}
Absent == LastTick + 1
NoDelivery == [status |-> "none", known |-> FALSE]

\* RANK of whatsapp-webhook.service.ts.
Rank(status) ==
    CASE status = "sent" -> 1 [] status = "failed" -> 2 [] status = "delivered" -> 3
      [] status = "read" -> 4 [] OTHER -> 0

DeliveriesInit ==
    /\ clock = 0
    /\ starts \in 0..LastTick
    /\ redated = 0
    /\ kind \in [Notes -> {"event_reminder", "other"}]
    /\ stored = [n \in Notes |-> Absent]
    /\ made = [n \in Notes |-> 0]
    /\ remindsOf = [n \in Notes |-> 0]
    /\ optIn \in BOOLEAN
    /\ attempts = {}
    /\ pushed = [n \in Notes |-> 0]
    /\ row = [n \in Notes |-> [c \in Channels |-> NoDelivery]]
    /\ accepted = [n \in Notes |-> [c \in Channels |-> 0]]
    /\ masked = [n \in Notes |-> [c \in Channels |-> 0]]
    /\ reported = [n \in Notes |-> 0]
    /\ restarted = 0

-----------------------------------------------------------------------------
(* Notifications *)

Deliver(n) ==
    {[note |-> n, push |-> pushed[n], channel |-> c, stage |-> "chosen", tries |-> 0] : c \in Channels}

Insert(n) ==
    /\ made[n] = 0
    /\ stored' = [stored EXCEPT ![n] = clock]
    /\ made' = [made EXCEPT ![n] = 1]

Push(n) ==
    /\ pushed[n] < MaxPushes
    /\ attempts' = attempts \cup Deliver(n)
    /\ pushed' = [pushed EXCEPT ![n] = @ + 1]

\* notify() stores the notification and pushes it; a new message that bumps the count of an
\* unread one pushes the same row again.
NotifyMember(n) ==
    /\ kind[n] = "other"
    /\ IF stored[n] = Absent
       THEN Insert(n)
       ELSE stored' = [stored EXCEPT ![n] = clock] /\ UNCHANGED made
    /\ Push(n)
    /\ UNCHANGED <<clock, starts, redated, kind, remindsOf, optIn, row, accepted, masked, reported,
                   restarted>>

\* The unique index on member and event: no reminder of the event is in the table.
NoReminder == \A m \in Notes : kind[m] = "event_reminder" => stored[m] = Absent

\* createEventReminders(): within EVENT_REMINDER_HOURS_BEFORE of the start.
CreateEventReminder(n) ==
    /\ kind[n] = "event_reminder"
    /\ clock < starts /\ starts <= clock + WindowTicks
    /\ NoReminder
    /\ Insert(n)
    /\ remindsOf' = [remindsOf EXCEPT ![n] = starts]
    /\ Push(n)
    /\ UNCHANGED <<clock, starts, redated, kind, optIn, row, accepted, masked, reported, restarted>>

\* A wrong Expired: the job keeps nothing that is not of today.
ExpiredNextDay(n) == stored[n] < clock

Expired(n) == stored[n] + RetentionTicks < clock

\* purgeOldNotifications(); the delivery history stays.
PurgeOldNotification(n) ==
    /\ stored[n] # Absent /\ Expired(n)
    /\ stored' = [stored EXCEPT ![n] = Absent]
    /\ UNCHANGED <<clock, starts, redated, kind, made, remindsOf, optIn, sendVars>>

ClockTicks ==
    /\ clock < LastTick
    /\ clock' = clock + 1
    /\ UNCHANGED <<starts, redated, kind, stored, made, remindsOf, optIn, sendVars>>

\* The administrator's update() of the event: not to a day in the past.
RedateEvent(tick) ==
    /\ redated < MaxRedates
    /\ tick >= clock /\ tick # starts
    /\ starts' = tick
    /\ redated' = redated + 1
    /\ UNCHANGED <<clock, kind, stored, made, remindsOf, optIn, sendVars>>

\* updatePreferences(), the WhatsApp consent.
SetConsent(on) ==
    /\ optIn # on
    /\ optIn' = on
    /\ UNCHANGED <<clock, starts, redated, kind, stored, made, remindsOf, sendVars>>

-----------------------------------------------------------------------------
(* createChannelNotifier() *)

Stage(a, stage) == attempts' = (attempts \ {a}) \cup {[a EXCEPT !.stage = stage]}
Write(a, status, known) ==
    row' = [row EXCEPT ![a.note][a.channel] = [status |-> status, known |-> known]]

\* send(): no consent, no number or no template for the type and nothing is attempted.
CheckRecipient(a) ==
    /\ a.stage = "chosen"
    /\ IF a.channel = "whatsapp" /\ ~optIn
       THEN attempts' = attempts \ {a}
       ELSE Stage(a, "allowed") \/ attempts' = attempts \ {a}
    /\ UNCHANGED <<noteVars, pushed, row, accepted, masked, reported, restarted>>

\* A wrong Claimable: a delivery that is still pending is attempted again.
ClaimableUntilSent(a) == row[a.note][a.channel].status \in {"none", "pending"}

\* ON CONFLICT (reference_key) DO NOTHING.
Claimable(a) == row[a.note][a.channel] = NoDelivery

\* attempt(): the insert of the delivery row, whose reference_key is unique, decides who sends.
Claim(a) ==
    /\ a.stage = "allowed"
    /\ IF Claimable(a)
       THEN Write(a, "pending", FALSE) /\ Stage(a, "claimed")
       ELSE attempts' = attempts \ {a} /\ UNCHANGED row
    /\ UNCHANGED <<noteVars, pushed, accepted, masked, reported, restarted>>

\* What the sender learns of one request: the message's ID; nothing at all, in time; a refusal;
\* Meta's own "try again shortly"; or 5xx or 429 without Meta's error code, a gateway's page.
Answers == {"accepted", "silence", "refused", "busy", "gateway"}

\* With Meta's error code the message was not taken, with an ID it was; otherwise either may be
\* the case. Only the WhatsApp client tells answers apart that it tries again after.
Answerable(a, taken, answer) ==
    /\ answer = "accepted" => taken
    /\ answer \in {"refused", "busy"} => ~taken
    /\ a.channel = "sms" => answer \notin {"busy", "gateway"}

\* refusal().retryable, for fewer than maxAttempts requests.
Retried(a, answer) == answer \in {"busy", "gateway"} /\ a.tries + 1 < MaxTries

\* One request of provider.send(): sendTemplate() repeats it when the answer says so, and never
\* when there was none.
ProviderSend(a, taken, answer) ==
    /\ a.stage = "claimed"
    /\ Answerable(a, taken, answer)
    /\ accepted' = [accepted EXCEPT ![a.note][a.channel] = @ + (IF taken THEN 1 ELSE 0)]
    /\ masked' = [masked EXCEPT ![a.note][a.channel] = @ + (IF taken /\ answer = "gateway" THEN 1 ELSE 0)]
    /\ IF Retried(a, answer)
       THEN attempts' = (attempts \ {a}) \cup {[a EXCEPT !.tries = @ + 1]}
       ELSE Stage(a, IF answer = "accepted" THEN "sent" ELSE "threw")
    /\ UNCHANGED <<noteVars, pushed, row, reported, restarted>>

\* The row becomes "sent" with the provider's ID; when that update fails, the catch tries
\* "failed" next.
RecordSent(a, fails) ==
    /\ a.stage = "sent"
    /\ IF fails
       THEN Stage(a, "threw") /\ UNCHANGED row
       ELSE Write(a, "sent", TRUE) /\ attempts' = attempts \ {a}
    /\ UNCHANGED <<noteVars, pushed, accepted, masked, reported, restarted>>

RecordFailed(a, fails) ==
    /\ a.stage = "threw"
    /\ IF fails THEN UNCHANGED row ELSE Write(a, "failed", FALSE)
    /\ attempts' = attempts \ {a}
    /\ UNCHANGED <<noteVars, pushed, accepted, masked, reported, restarted>>

\* The process stops: deliveries under way are gone.
StopDeliveries ==
    /\ restarted < MaxStops
    /\ restarted' = restarted + 1
    /\ attempts' = {}
    /\ UNCHANGED <<noteVars, pushed, row, accepted, masked, reported>>

-----------------------------------------------------------------------------
(* Meta's reports on a message it has taken, repeated and in any order *)

\* A wrong Applies: the last report wins.
AppliesAlways(r, status) == r.known

Applies(r, status) == r.known /\ Rank(r.status) < Rank(status)

ApplyReport(n, status) ==
    LET r == row[n]["whatsapp"] IN
    /\ accepted[n]["whatsapp"] > 0
    /\ row' = IF Applies(r, status) THEN [row EXCEPT ![n]["whatsapp"].status = status] ELSE row
    /\ reported' = IF r.known /\ Rank(status) > reported[n]
                   THEN [reported EXCEPT ![n] = Rank(status)] ELSE reported
    /\ UNCHANGED <<noteVars, attempts, pushed, accepted, masked, restarted>>

DeliveriesNext ==
    \/ \E n \in Notes : NotifyMember(n) \/ CreateEventReminder(n) \/ PurgeOldNotification(n)
    \/ ClockTicks
    \/ \E tick \in 0..LastTick : RedateEvent(tick)
    \/ \E on \in BOOLEAN : SetConsent(on)
    \/ \E a \in attempts : CheckRecipient(a) \/ Claim(a)
    \/ \E a \in attempts : \E taken \in BOOLEAN, answer \in Answers : ProviderSend(a, taken, answer)
    \/ \E a \in attempts : \E fails \in BOOLEAN : RecordSent(a, fails) \/ RecordFailed(a, fails)
    \/ StopDeliveries
    \/ \E n \in Notes : \E status \in {"sent", "delivered", "read", "failed"} : ApplyReport(n, status)

-----------------------------------------------------------------------------
(* Properties *)

\* The provider takes a notification once per channel, whatever is pushed again, runs at the
\* same time, fails after the send or is cut off by a restart (channel-notifier.ts): a second
\* time only where a gateway's error page stood for Meta's answer to a request it had taken,
\* and never in more requests than one sender may make (whatsapp.client.ts).
SentOnceUnlessMasked ==
    \A n \in Notes, c \in Channels :
        /\ accepted[n][c] <= 1 + masked[n][c]
        /\ accepted[n][c] <= IF c = "whatsapp" THEN MaxTries ELSE 1

\* A message that the client sends again was not taken before, so that a second send cannot
\* duplicate it (whatsapp.client.ts). Does not hold: 5xx and 429 without Meta's error code
\* count as "try again" as well.
SentAtMostOnce == \A n \in Notes, c \in Channels : accepted[n][c] <= 1

\* A member is reminded once of every date of an event, although the job runs every fifteen
\* minutes, old notifications are purged and the event gets another date (notification-jobs.ts).
OneReminderPerDate ==
    \A m, n \in Notes :
        /\ kind[m] = "event_reminder" /\ kind[n] = "event_reminder"
        /\ made[m] = 1 /\ made[n] = 1 /\ m # n
        => remindsOf[m] # remindsOf[n]

\* A WhatsApp delivery is where its furthest report says, and never behind: reports come twice
\* and in any order, and the row's own "sent" does not undo one (whatsapp-webhook.service.ts).
FurthestReportKept ==
    \A n \in Notes :
        row[n]["whatsapp"].known => /\ Rank(row[n]["whatsapp"].status) >= reported[n]
                                    /\ accepted[n]["whatsapp"] > 0

=============================================================================
