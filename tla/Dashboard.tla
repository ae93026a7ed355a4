----------------------------- MODULE Dashboard -----------------------------
(***************************************************************************)
(* The admin dashboard: the period a query resolves to, the sections of    *)
(* the summary and the series of the trends, each shown only to roles with *)
(* the permission behind it.  Days are numbers, day 0 a Monday; an instant *)
(* is UTC time in parts of a day, and India's clock is IstOffset parts     *)
(* ahead of it.  A figure is the number of rows it counts (revenue, the    *)
(* sum of amounts, is the number of rupees of its rows).                   *)
(***************************************************************************)
EXTENDS Naturals, FiniteSets, Functions

CONSTANTS Parts,             \* parts of a day an instant tells apart
          IstOffset,         \* how far India's clock is ahead of UTC
          FirstDay, FinalDay,\* bound: the days queries ask about
          DefaultRangeDays,  \* DASHBOARD_DEFAULT_RANGE_DAYS
          MaxRangeDays,      \* DASHBOARD_MAX_RANGE_DAYS
          DailyBucketMaxDays,\* DASHBOARD_DAILY_BUCKET_MAX_DAYS
          MaxRecorded        \* bound: rows recorded

ASSUME DashboardAssumption ==
  /\ {IstOffset, FirstDay, FinalDay, DailyBucketMaxDays, MaxRecorded} \subseteq Nat
  /\ {Parts, DefaultRangeDays, MaxRangeDays} \subseteq Nat \ {0}
  /\ DefaultRangeDays <= FirstDay /\ IstOffset <= Parts

VARIABLES recorded,  \* the rows the figures count: subject, instant, and weight
          report     \* the last dashboard loaded, or NoReport

dashboardVars == <<recorded, report>>

NoReport == [period |-> "none"]

-----------------------------------------------------------------------------

AddDays(d, n) == d + n
IstStartOfDay(d) == d * Parts - IstOffset
IstDay(at) == (at + IstOffset) \div Parts
Weekday(d) == (d + 1) % 7
MondayOf(d) == d - ((Weekday(d) + 6) % 7)

\* The permission behind each figure that summary and trends both show.
Permission ==
  [signups |-> "users:view", matches |-> "users:view", reports |-> "reports:manage",
   bookings |-> "payments:view", revenue |-> "payments:view"]
Subjects == DOMAIN Permission

\* shared/constants/admin.ts, the permissions above that each role has.
RolePermissions ==
  [super_admin   |-> {"users:view", "reports:manage", "payments:view"},
   moderator     |-> {"users:view", "reports:manage"},
   event_manager |-> {"payments:view"}]

Visible(role) == {s \in Subjects : Permission[s] \in RolePermissions[role]}

\* A query's "from" and "to" are days or missing (0, before every day asked about).
Missing == 0
Resolved(from, to, lastDay) ==
  LET upTo == IF to = Missing THEN lastDay ELSE to
  IN  [from |-> IF from = Missing THEN AddDays(upTo, 1) - DefaultRangeDays ELSE from,
       to   |-> upTo]

ValidPeriod(p) == p.from <= p.to /\ p.to - p.from + 1 <= MaxRangeDays

InPeriod(p, at) == IstStartOfDay(p.from) <= at /\ at < IstStartOfDay(AddDays(p.to, 1))

Weights(S) == SumFunction([r \in S |-> r.weight])

\* summary(): the figure of the period.
Figure(s, p) == Weights({r \in recorded : r.subject = s /\ InPeriod(p, r.at)})

Weekly(p) == p.to - p.from + 1 > DailyBucketMaxDays

\* Mutant of Labels: weeks counted from the first day of the period.
LabelsFromFirst(p) ==
  {d \in p.from .. p.to : (d - p.from) % (IF Weekly(p) THEN 7 ELSE 1) = 0}

\* trends(): the first day of every bucket.
Labels(p) ==
  LET start == IF Weekly(p) THEN MondayOf(p.from) ELSE p.from
      step  == IF Weekly(p) THEN 7 ELSE 1
  IN  {d \in start .. p.to : (d - start) % step = 0}

\* date_trunc in India's time zone.
BucketOf(p, at) == IF Weekly(p) THEN MondayOf(IstDay(at)) ELSE IstDay(at)

Series(s, p) ==
  [label \in Labels(p) |->
     Weights({r \in recorded : r.subject = s /\ InPeriod(p, r.at) /\ BucketOf(p, r.at) = label})]

-----------------------------------------------------------------------------

DashboardInit == recorded = {} /\ report = NoReport

\* A member signs up, matches, is reported, books or pays.
RecordRow(s) ==
  /\ report = NoReport
  /\ Cardinality(recorded) < MaxRecorded
  /\ \E d \in FirstDay .. FinalDay, part \in 0 .. Parts - 1,
        weight \in (IF s = "revenue" THEN {1, 2} ELSE {1}) :
       recorded' = recorded \cup {[subject |-> s, at |-> d * Parts + part, weight |-> weight]}
  /\ UNCHANGED report

\* The dashboard page loads the summary and the trends of one period; a missing "to"
\* is today, the last day.
LoadDashboard(role) ==
  \E from, to \in {Missing} \cup FirstDay .. FinalDay :
    LET p == Resolved(from, to, FinalDay)
    IN  /\ report = NoReport
        /\ ValidPeriod(p)
        /\ report' = [period  |-> p,
                      summary |-> [s \in Visible(role) |-> Figure(s, p)],
                      trends  |-> [s \in Visible(role) |-> Series(s, p)]]
        /\ UNCHANGED recorded

LeaveDashboard ==
  /\ report # NoReport
  /\ report' = NoReport
  /\ UNCHANGED recorded

DashboardNext ==
  \/ LeaveDashboard
  \/ \E s \in Subjects : RecordRow(s)
  \/ \E role \in DOMAIN RolePermissions : LoadDashboard(role)

-----------------------------------------------------------------------------

\* The bars of every chart add up to the figure printed above it: whatever the period,
\* the weekday it starts on and the hour a row was written, no row is counted in no bar
\* or in two (summary() and trends() of admin-dashboard.service.ts).
TrendsAddUp ==
  report # NoReport =>
    \A s \in DOMAIN report.summary : SumFunction(report.trends[s]) = report.summary[s]

=============================================================================
