----------------------------- MODULE Moderation -----------------------------
(* Reports about one member: what members and the suspicious-activity         *)
(* detector put into the queue, the automatic hide, and what moderators do    *)
(* with a report.                                                             *)
(*                                                                            *)
(* A report is a transaction of two steps: it reads (an open report to merge  *)
(* into, the number of reporters), and later writes and commits. Reports of   *)
(* one reporter are serialised by the pair lock; those of different reporters *)
(* and of the detector are not.                                               *)
EXTENDS Naturals, Sequences, FiniteSets

CONSTANTS
    Reporters, Triggers,  \* members who report; detections of the suspicious-activity detector
    Messages,             \* chat messages that can be evidence
    Requests,             \* reports in flight at the same time
    Threshold,            \* AUTO_HIDE_REPORT_THRESHOLD
    MaxReports            \* bound: report rows (below REPORTS_PER_DAY, the limit of one reporter)

ASSUME ModerationAssumption ==
    /\ Threshold \in Nat \ {0} /\ MaxReports \in Nat
    /\ IsFiniteSet(Requests) /\ Requests # {}
    /\ Reporters \cap Triggers = {}

VARIABLES
    queue,       \* the reports rows about the member, in order of creation
    hidden,      \* users.hidden_from_discovery
    banned,      \* users.status = 'banned'
    requests     \* reports and detections in flight

moderationVars == <<queue, hidden, banned, requests>>

Sources == Reporters \cup Triggers
OpenStatuses == {"open", "in_review"}
Actions == {"dismiss", "warn", "restrict_chat", "suspend", "ban"}

\* recent: created within AUTO_HIDE_WINDOW_DAYS. "closed" is resolved or dismissed: nothing
\* here tells them apart.
ReportRow ==
    [source: Sources, status: OpenStatuses \cup {"closed"},
     evidence: SUBSET Messages, cleared: BOOLEAN, recent: BOOLEAN]

\* existing: the open report read, 0 if there is none; evidence: what was read of it.
Request ==
    [source: Sources, existing: 0..MaxReports, evidence: SUBSET Messages,
     message: SUBSET Messages, hides: BOOLEAN]

Nothing == [existing |-> 0]

ModerationInit ==
    /\ queue = <<>>
    /\ hidden = FALSE
    /\ banned = FALSE
    /\ requests = [r \in Requests |-> Nothing]

OpenOf(source) ==
    {i \in DOMAIN queue : queue[i].source = source /\ queue[i].status \in OpenStatuses}

InFlight == {r \in Requests : requests[r] # Nothing}

RecentReporters ==
    {queue[i].source : i \in {j \in DOMAIN queue : queue[j].recent}} \cap Reporters

Begin(r, source, message, hides) ==
    LET open == OpenOf(source) IN
    /\ requests[r] = Nothing
    /\ Len(queue) + Cardinality(InFlight) < MaxReports
    /\ requests' = [requests EXCEPT ![r] =
           [source |-> source,
            existing |-> IF open = {} THEN 0 ELSE CHOOSE i \in open : TRUE,
            evidence |-> IF open = {} THEN {} ELSE queue[CHOOSE i \in open : TRUE].evidence,
            message |-> message,
            hides |-> open = {} /\ hides]]
    /\ UNCHANGED <<queue, hidden, banned>>

\* A wrong PairUnlocked: create() does not take the pair lock.
PairUnlockedAlways(m) == TRUE

\* lockPair(): no other report of the same member is in flight.
PairUnlocked(m) == \A q \in InFlight : requests[q].source # m

\* A wrong AtThreshold: one reporter more is needed.
AtThresholdLate(m) == Cardinality(RecentReporters \cup {m}) > Threshold

\* The threshold of reporters this transaction can see, its own report included.
AtThreshold(m) == Cardinality(RecentReporters \cup {m}) >= Threshold

\* create() up to its decision to hide: at once for an urgent reason, else at the threshold.
BeginReport(r, m, message, urgent) ==
    /\ PairUnlocked(m)
    /\ Begin(r, m, message, urgent \/ AtThreshold(m))

\* flag() reads the open system reports of its trigger, with no lock.
BeginFlag(r, t, hides) == Begin(r, t, {}, hides)

NewReport(q) ==
    [source |-> q.source, status |-> "open", evidence |-> q.message,
     cleared |-> FALSE, recent |-> TRUE]

\* reports_one_open_per_pair_unique and reports_one_open_system_flag_unique.
Conflicts(q) == q.existing = 0 /\ OpenOf(q.source) # {}

\* The transaction's writes and COMMIT. It merges into the row it read, by ID.
CommitRequest(r) ==
    LET q == requests[r] IN
    /\ r \in InFlight
    /\ ~Conflicts(q)
    /\ queue' = IF q.existing = 0 THEN Append(queue, NewReport(q))
                  ELSE [queue EXCEPT ![q.existing].evidence =
                            IF q.message = {} THEN @ ELSE q.evidence \cup q.message]
    /\ hidden' = (hidden \/ q.hides)
    /\ requests' = [requests EXCEPT ![r] = Nothing]
    /\ UNCHANGED banned

\* The loser of two detections of one trigger does nothing.
RejectRequest(r) ==
    /\ r \in InFlight
    /\ Conflicts(requests[r])
    /\ requests' = [requests EXCEPT ![r] = Nothing]
    /\ UNCHANGED <<queue, hidden, banned>>

-----------------------------------------------------------------------------
(* Moderators: each operation locks the report row and re-reads its status. *)

\* assign(), and conversation(), which is part of reviewing.
Review(i) ==
    /\ queue[i].status \in OpenStatuses
    /\ queue' = [queue EXCEPT ![i].status = "in_review"]
    /\ UNCHANGED <<hidden, banned, requests>>

\* resolve(). applySanction() refuses every sanction but a ban for a banned account, and with
\* reuseActive it accepts one that is already in effect.
Resolve(i, action, clear) ==
    /\ queue[i].status \in OpenStatuses
    /\ action = "ban" => queue[i].status = "in_review"
    /\ action \notin {"dismiss", "ban"} => ~banned
    /\ clear => action \in {"dismiss", "warn"}
    /\ queue' = [queue EXCEPT
           ![i].status = "closed", ![i].cleared = clear]
    /\ hidden' = (hidden /\ ~clear)
    /\ banned' = (banned \/ action = "ban")
    /\ UNCHANGED requests

\* From the member's page, or by lifting the ban.
SetBanned(value) ==
    /\ banned # value
    /\ banned' = value
    /\ UNCHANGED <<queue, hidden, requests>>

\* Only the age of members' reports is ever asked.
Ages(i) ==
    /\ queue[i].recent /\ queue[i].source \in Reporters
    /\ queue' = [queue EXCEPT ![i].recent = FALSE]
    /\ UNCHANGED <<hidden, banned, requests>>

ModerationNext ==
    \/ \E r \in Requests :
          \/ \E m \in Reporters, urgent \in BOOLEAN :
                \E message \in {{}} \cup {{msg} : msg \in Messages} :
                    BeginReport(r, m, message, urgent)
          \/ \E t \in Triggers, hides \in BOOLEAN : BeginFlag(r, t, hides)
          \/ CommitRequest(r)
          \/ RejectRequest(r)
    \/ \E i \in DOMAIN queue :
          \/ Review(i)
          \/ \E action \in Actions, clear \in BOOLEAN : Resolve(i, action, clear)
          \/ Ages(i)
    \/ \E value \in BOOLEAN : SetBanned(value)

ModerationSpec == ModerationInit /\ [][ModerationNext]_moderationVars

-----------------------------------------------------------------------------
(* Properties *)

\* Every variable has its type.
ModerationTypeOK ==
    /\ queue \in Seq(ReportRow) /\ Len(queue) <= MaxReports
    /\ hidden \in BOOLEAN
    /\ banned \in BOOLEAN
    /\ requests \in [Requests -> Request \cup {Nothing}]

\* A step leaves every report the evidence it has.
EvidenceStays == \A i \in DOMAIN queue : queue[i].evidence \subseteq queue'[i].evidence

\* A message that is evidence stays evidence: two reports of one member that merge into the
\* same row never overwrite each other's message (reports.service.ts: create).
EvidenceKept == [][EvidenceStays]_moderationVars

\* Reports that overlap can each miss the other's reporter, but never more than the requests
\* in flight beside them: with that many reporters above the threshold the member is hidden,
\* unless a moderator has cleared the hide (reports.service.ts: create).
HiddenSoon ==
    /\ Cardinality(RecentReporters) >= Threshold + Cardinality(Requests) - 1
    /\ \A i \in DOMAIN queue : ~queue[i].cleared
    => hidden

\* Reports from Threshold members within the window hide the member
\* (docs/safety/moderation-system.md, "Reports from 3 different members within 7 days"). Does not hold: two reports that overlap do
\* not see each other.
ThresholdHides ==
    /\ Cardinality(RecentReporters) >= Threshold
    /\ \A i \in DOMAIN queue : ~queue[i].cleared
    => hidden

=============================================================================
