--------------------------- MODULE ModerationProofs ---------------------------
(***************************************************************************)
(* Proofs about Moderation, for any number of reporters, detections and    *)
(* reports in flight: evidence is never lost, and the automatic hide is    *)
(* late by no more than the reports that overlap.                          *)
(***************************************************************************)
EXTENDS Moderation, FiniteSetTheorems, TLAPS

-----------------------------------------------------------------------------
(* The inductive invariant *)

QueueTyped == queue \in Seq(ReportRow)

RequestsTyped == requests \in [Requests -> Request \cup {Nothing}]

\* Every report in flight has a place in the queue.
QueueBounded == Len(queue) + Cardinality(InFlight) <= MaxReports

\* A member has one report in flight (the pair lock); the detector brings no message.
OneOfReporter ==
    /\ \A q, r \in InFlight :
          requests[q].source = requests[r].source /\ requests[q].source \in Reporters => q = r
    /\ \A r \in InFlight : requests[r].source \in Triggers => requests[r].message = {}

\* The row that a report in flight is going to merge into is its reporter's, and it
\* holds the evidence that was read.
MergesOwn ==
    \A r \in InFlight :
        LET q == requests[r] IN
        q.existing # 0 =>
            /\ q.existing \in DOMAIN queue
            /\ queue[q.existing].source = q.source
            /\ q.source \in Reporters => queue[q.existing].evidence = q.evidence

\* Whoever has cleared a hide has closed the report.
ClearedClosed == \A i \in DOMAIN queue : queue[i].cleared => queue[i].status = "closed"

Uncleared == \A i \in DOMAIN queue : ~queue[i].cleared

\* The new reports in flight of members that are not going to hide.
Quiet == {r \in InFlight : /\ requests[r].existing = 0
                           /\ ~requests[r].hides
                           /\ requests[r].source \in Reporters}

QuietReporters == {requests[r].source : r \in Quiet}

\* The reporters in the window, and those that do not see each other, stay below the
\* threshold and the requests that overlap.
FewWithoutHide ==
    ~hidden /\ Uncleared =>
        Cardinality(RecentReporters \cup QuietReporters) <= Threshold + Cardinality(Requests) - 2

ModerationInv ==
    /\ QueueTyped /\ RequestsTyped /\ QueueBounded
    /\ hidden \in BOOLEAN /\ banned \in BOOLEAN
    /\ OneOfReporter
    /\ MergesOwn
    /\ ClearedClosed
    /\ FewWithoutHide

-----------------------------------------------------------------------------
(* Sets and counts *)

LEMMA NothingIsNoRequest == Nothing \notin Request
  <1> SUFFICES ASSUME Nothing \in Request PROVE FALSE
    OBVIOUS
  <1>1. "source" \in DOMAIN Nothing
    BY DEF Request
  <1>2. DOMAIN Nothing = {"existing"}
    BY DEF Nothing
  <1> QED BY <1>1, <1>2

LEMMA RequestsInFlight ==
  ASSUME RequestsTyped
  PROVE  /\ InFlight \subseteq Requests
         /\ \A r \in Requests : r \in InFlight <=> requests[r] \in Request
         /\ IsFiniteSet(InFlight) /\ Cardinality(InFlight) \in Nat
         /\ Quiet \subseteq InFlight
  <1>1. /\ InFlight \subseteq Requests /\ Quiet \subseteq InFlight
        /\ \A r \in Requests : r \in InFlight <=> requests[r] \in Request
    BY NothingIsNoRequest DEF RequestsTyped, InFlight, Quiet
  <1>2. IsFiniteSet(InFlight)
    BY <1>1, ModerationAssumption, FS_Subset
  <1> QED BY <1>1, <1>2, FS_CardinalityType

\* A function has no more values than arguments.
LEMMA FewValues ==
  ASSUME NEW S, IsFiniteSet(S), NEW f, NEW T, T = {f[x] : x \in S}
  PROVE  IsFiniteSet(T) /\ Cardinality(T) <= Cardinality(S)
  <1> DEFINE g == [x \in S |-> f[x]]
  <1>1. g \in Surjection(S, T)
    BY DEF Surjection
  <1> HIDE DEF g
  <1> QED BY <1>1, FS_Surjection

LEMMA QueueDomain ==
  ASSUME QueueTyped
  PROVE  /\ DOMAIN queue = 1..Len(queue) /\ Len(queue) \in Nat
         /\ \A i \in DOMAIN queue : queue[i] \in ReportRow
  BY DEF QueueTyped

LEMMA ReportersFinite ==
  ASSUME QueueTyped, RequestsTyped
  PROVE  /\ IsFiniteSet(RecentReporters)
         /\ IsFiniteSet(QuietReporters) /\ Cardinality(QuietReporters) <= Cardinality(Quiet)
         /\ IsFiniteSet(Quiet) /\ IsFiniteSet(RecentReporters \cup QuietReporters)
  <1>1. IsFiniteSet(DOMAIN queue)
    <2>1. DOMAIN queue = 1..Len(queue) /\ Len(queue) \in Int /\ 1 \in Int
      BY QueueDomain
    <2>2. IsFiniteSet(1..Len(queue))
      BY <2>1, FS_Interval
    <2> QED BY <2>1, <2>2
  <1> DEFINE sources == [i \in DOMAIN queue |-> queue[i].source]
             ofRequest == [r \in Requests |-> requests[r].source]
             recent == {j \in DOMAIN queue : queue[j].recent}
             reporters == {queue[i].source : i \in recent}
  <1>2. IsFiniteSet(recent)
    BY <1>1, FS_Subset
  <1>3. reporters = {sources[i] : i \in recent}
    OBVIOUS
  <1>4. IsFiniteSet(reporters)
    <2> HIDE DEF sources, recent, reporters
    <2> QED BY <1>2, <1>3, FewValues
  <1>5. IsFiniteSet(RecentReporters)
    BY <1>4, FS_Subset DEF RecentReporters
  <1>6. IsFiniteSet(Quiet)
    BY RequestsInFlight, FS_Subset
  <1>7. QuietReporters = {ofRequest[r] : r \in Quiet}
    BY RequestsInFlight DEF QuietReporters
  <1>8. IsFiniteSet(QuietReporters) /\ Cardinality(QuietReporters) <= Cardinality(Quiet)
    <2> HIDE DEF ofRequest
    <2> QED BY <1>6, <1>7, FewValues
  <1> QED BY <1>5, <1>6, <1>8, FS_Union

\* A step after which fewer reporters count than before keeps the bound.
LEMMA FewerReporters ==
  ASSUME ModerationInv, QueueTyped', RequestsTyped',
         RecentReporters' \cup QuietReporters' \subseteq RecentReporters \cup QuietReporters,
         ~hidden' /\ Uncleared' => ~hidden /\ Uncleared
  PROVE  FewWithoutHide'
  <1>1. QueueTyped /\ RequestsTyped /\ FewWithoutHide
    BY DEF ModerationInv
  <1>2. IsFiniteSet(RecentReporters \cup QuietReporters)
    BY <1>1, ReportersFinite
  <1>3. /\ IsFiniteSet(RecentReporters' \cup QuietReporters')
        /\ Cardinality(RecentReporters' \cup QuietReporters')
             <= Cardinality(RecentReporters \cup QuietReporters)
    BY <1>2, FS_Subset
  <1>4. /\ Cardinality(RecentReporters' \cup QuietReporters') \in Nat
        /\ Cardinality(RecentReporters \cup QuietReporters) \in Nat
        /\ Cardinality(Requests) \in Nat /\ Threshold \in Nat
    BY <1>2, <1>3, FS_CardinalityType, ModerationAssumption
  <1>5. ~hidden' /\ Uncleared' =>
           Cardinality(RecentReporters' \cup QuietReporters') <= Threshold + Cardinality(Requests) - 2
    BY <1>1, <1>3, <1>4 DEF FewWithoutHide
  <1> QED BY <1>5 DEF FewWithoutHide

-----------------------------------------------------------------------------
(* Moderators and the clock: one row changes, and keeps its source and evidence *)

LEMMA RowChanges ==
  ASSUME ModerationInv, NEW i \in DOMAIN queue, NEW row \in ReportRow,
         queue' = [queue EXCEPT ![i] = row], UNCHANGED requests,
         row.source = queue[i].source, row.evidence = queue[i].evidence,
         row.recent => queue[i].recent,
         row.cleared => row.status = "closed",
         queue[i].cleared => row.cleared,
         hidden' \in BOOLEAN, banned' \in BOOLEAN,
         ~hidden' => ~hidden \/ row.cleared
  PROVE  ModerationInv' /\ EvidenceStays
  <1>1. QueueTyped /\ RequestsTyped /\ QueueBounded
    BY DEF ModerationInv
  <1>2. /\ QueueTyped' /\ Len(queue') = Len(queue) /\ DOMAIN queue' = DOMAIN queue
        /\ queue'[i] = row /\ \A j \in DOMAIN queue : j # i => queue'[j] = queue[j]
    BY <1>1, QueueDomain DEF QueueTyped
  <1>3. InFlight' = InFlight /\ Quiet' = Quiet /\ QuietReporters' = QuietReporters /\ RequestsTyped'
    BY <1>1 DEF InFlight, Quiet, QuietReporters, RequestsTyped
  <1>4. QueueBounded' /\ OneOfReporter'
    BY <1>1, <1>2, <1>3 DEF ModerationInv, QueueBounded, OneOfReporter
  <1>5. MergesOwn'
    BY <1>2, <1>3 DEF ModerationInv, MergesOwn
  <1>6. ClearedClosed'
    BY <1>2 DEF ModerationInv, ClearedClosed
  <1>7. RecentReporters' \subseteq RecentReporters
    <2> SUFFICES ASSUME NEW m \in RecentReporters' PROVE m \in RecentReporters
      OBVIOUS
    <2>1. PICK j \in DOMAIN queue' : queue'[j].recent /\ m = queue'[j].source /\ m \in Reporters
      BY DEF RecentReporters
    <2>2. j \in DOMAIN queue /\ queue[j].recent /\ m = queue[j].source
      BY <1>2, <2>1
    <2> QED BY <2>1, <2>2 DEF RecentReporters
  <1>8. ~hidden' /\ Uncleared' => ~hidden /\ Uncleared
    BY <1>2 DEF Uncleared
  <1>9. FewWithoutHide'
    BY <1>2, <1>3, <1>7, <1>8, FewerReporters
  <1>10. EvidenceStays
    BY <1>2 DEF EvidenceStays
  <1> QED BY <1>2, <1>3, <1>4, <1>5, <1>6, <1>9, <1>10 DEF ModerationInv

LEMMA ModeratorStep ==
  ASSUME ModerationInv, NEW i \in DOMAIN queue,
         \/ Review(i) \/ Ages(i)
         \/ \E action \in Actions, clear \in BOOLEAN : Resolve(i, action, clear)
  PROVE  ModerationInv' /\ EvidenceStays
  <1>1. /\ QueueTyped /\ queue[i] \in ReportRow /\ hidden \in BOOLEAN /\ banned \in BOOLEAN
        /\ queue[i].cleared => queue[i].status = "closed"
    BY QueueDomain DEF ModerationInv, ClearedClosed
  <1>2. CASE Review(i)
    <2> DEFINE row == [queue[i] EXCEPT !.status = "in_review"]
    <2>1. /\ queue' = [queue EXCEPT ![i] = row] /\ UNCHANGED <<hidden, banned, requests>>
          /\ queue[i].status # "closed"
      BY <1>2 DEF Review, OpenStatuses
    <2>2. /\ row \in ReportRow /\ row.source = queue[i].source /\ row.evidence = queue[i].evidence
          /\ row.recent = queue[i].recent /\ row.cleared = queue[i].cleared
      BY <1>1 DEF ReportRow, OpenStatuses
    <2> HIDE DEF row
    <2> QED BY <1>1, <2>1, <2>2, RowChanges
  <1>3. CASE Ages(i)
    <2> DEFINE row == [queue[i] EXCEPT !.recent = FALSE]
    <2>1. queue' = [queue EXCEPT ![i] = row] /\ UNCHANGED <<hidden, banned, requests>>
      BY <1>3 DEF Ages
    <2>2. /\ row \in ReportRow /\ row.source = queue[i].source /\ row.evidence = queue[i].evidence
          /\ ~row.recent /\ row.cleared = queue[i].cleared /\ row.status = queue[i].status
      BY <1>1 DEF ReportRow
    <2> HIDE DEF row
    <2> QED BY <1>1, <2>1, <2>2, RowChanges
  <1>4. ASSUME NEW action \in Actions, NEW clear \in BOOLEAN, Resolve(i, action, clear)
        PROVE  ModerationInv' /\ EvidenceStays
    <2> DEFINE row == [queue[i] EXCEPT !.status = "closed", !.cleared = clear]
    <2>1. /\ queue[i].status \in OpenStatuses
          /\ hidden' = (hidden /\ ~clear) /\ banned' = (banned \/ action = "ban")
          /\ queue' = [queue EXCEPT ![i].status = "closed", ![i].cleared = clear]
          /\ UNCHANGED requests
      BY <1>4 DEF Resolve
    <2>2. queue' = [queue EXCEPT ![i] = row]
      BY <1>1, <2>1 DEF ReportRow
    <2>3. /\ row \in ReportRow /\ row.source = queue[i].source /\ row.evidence = queue[i].evidence
          /\ row.recent = queue[i].recent /\ row.cleared = clear /\ row.status = "closed"
      BY <1>1 DEF ReportRow
    <2>4. ~queue[i].cleared
      BY <1>1, <2>1 DEF OpenStatuses
    <2>5. hidden' \in BOOLEAN /\ banned' \in BOOLEAN /\ (~hidden' => ~hidden \/ clear)
      BY <2>1
    <2> HIDE DEF row
    <2> QED BY <2>1, <2>2, <2>3, <2>4, <2>5, RowChanges
  <1> QED BY <1>2, <1>3, <1>4

-----------------------------------------------------------------------------
(* Reports and detections *)

LEMMA BeginKeeps ==
  ASSUME ModerationInv, NEW r \in Requests, NEW source \in Sources, NEW message \in SUBSET Messages,
         NEW hides \in BOOLEAN, Begin(r, source, message, hides),
         source \in Reporters => PairUnlocked(source),
         source \in Reporters /\ ~hides => Cardinality(RecentReporters \cup {source}) < Threshold,
         source \in Triggers => message = {}
  PROVE  ModerationInv' /\ EvidenceStays
  <1> DEFINE open == OpenOf(source)
             e == IF open = {} THEN 0 ELSE CHOOSE i \in open : TRUE
             ev == IF open = {} THEN {} ELSE queue[CHOOSE i \in open : TRUE].evidence
             new == [source |-> source, existing |-> e, evidence |-> ev, message |-> message,
                     hides |-> open = {} /\ hides]
  <1>1. /\ QueueTyped /\ RequestsTyped /\ QueueBounded
        /\ requests[r] = Nothing /\ Len(queue) + Cardinality(InFlight) < MaxReports
        /\ requests' = [requests EXCEPT ![r] = new] /\ UNCHANGED <<queue, hidden, banned>>
    BY DEF ModerationInv, Begin
  <1>2. /\ e \in 0..MaxReports /\ ev \subseteq Messages
        /\ e = 0 <=> open = {}
        /\ e # 0 => /\ e \in DOMAIN queue /\ queue[e].source = source /\ queue[e].evidence = ev
    <2>1. /\ DOMAIN queue = 1..Len(queue) /\ Len(queue) \in Nat /\ Len(queue) <= MaxReports
          /\ \A i \in DOMAIN queue : queue[i] \in ReportRow
      BY <1>1, QueueDomain, RequestsInFlight, ModerationAssumption DEF QueueBounded
    <2>2. CASE open = {}
      BY <2>2, ModerationAssumption
    <2>3. CASE open # {}
      <3>1. e \in open /\ ev = queue[e].evidence
        BY <2>3
      <3>2. e \in DOMAIN queue /\ queue[e].source = source
        BY <3>1 DEF OpenOf
      <3>3. queue[e].evidence \subseteq Messages
        BY <2>1, <3>2 DEF ReportRow
      <3>4. e \in Int /\ 1 <= e /\ e <= MaxReports /\ MaxReports \in Nat
        <4> HIDE DEF e
        <4> QED BY <2>1, <3>2, ModerationAssumption
      <3> HIDE DEF e, ev, open
      <3>5. e \in 0..MaxReports /\ e # 0
        BY <3>4
      <3> QED BY <2>3, <3>1, <3>2, <3>3, <3>5
    <2> QED BY <2>2, <2>3
  <1>3. /\ new \in Request /\ new.source = source /\ new.existing = e /\ new.evidence = ev
        /\ new.message = message /\ new.hides = (open = {} /\ hides)
    BY <1>2 DEF Request
  <1> HIDE DEF new, e, ev
  <1>4. /\ RequestsTyped' /\ requests'[r] = new /\ r \notin InFlight
        /\ \A q \in Requests : q # r => requests'[q] = requests[q]
    BY <1>1, <1>3 DEF RequestsTyped, InFlight
  <1>5. /\ InFlight' = InFlight \cup {r} /\ InFlight \subseteq Requests
        /\ \A q \in InFlight : q # r /\ requests'[q] = requests[q]
    BY <1>1, <1>3, <1>4, NothingIsNoRequest, RequestsInFlight DEF InFlight
  <1>6. QueueTyped' /\ QueueBounded'
    <2>1. Cardinality(InFlight') = Cardinality(InFlight) + 1 /\ Cardinality(InFlight) \in Nat
      BY <1>1, <1>4, <1>5, RequestsInFlight, FS_AddElement
    <2>2. Len(queue) \in Nat
      BY <1>1, QueueDomain
    <2> QED BY <1>1, <2>1, <2>2, ModerationAssumption DEF QueueTyped, QueueBounded
  <1>7. OneOfReporter'
    <2>1. source \in Reporters => \A q \in InFlight : requests[q].source # source
      BY DEF PairUnlocked
    <2> QED BY <1>3, <1>4, <1>5, <2>1 DEF ModerationInv, OneOfReporter
  <1>8. MergesOwn'
    BY <1>1, <1>2, <1>3, <1>4, <1>5 DEF ModerationInv, MergesOwn
  <1>9. ClearedClosed' /\ Uncleared' = Uncleared /\ RecentReporters' = RecentReporters /\ EvidenceStays
    BY <1>1 DEF ModerationInv, ClearedClosed, Uncleared, RecentReporters, EvidenceStays
  <1>10. FewWithoutHide'
    <2>1. CASE r \notin Quiet'
      <3>1. Quiet' = Quiet
        BY <1>5, <2>1 DEF Quiet
      <3>2. QuietReporters' = QuietReporters
        BY <1>5, <3>1 DEF QuietReporters, Quiet
      <3> QED BY <1>1, <1>4, <1>6, <1>9, <3>2, FewerReporters
    <2>2. CASE r \in Quiet'
      <3>1. source \in Reporters /\ ~hides
        BY <1>2, <1>3, <1>4, <2>2 DEF Quiet
      <3>2. Quiet' = Quiet \cup {r}
        BY <1>5, <2>2 DEF Quiet
      <3>3. QuietReporters' = QuietReporters \cup {source}
        BY <1>3, <1>4, <1>5, <3>2 DEF QuietReporters, Quiet
      <3>4. /\ IsFiniteSet(RecentReporters) /\ IsFiniteSet(QuietReporters)
            /\ Cardinality(QuietReporters) <= Cardinality(Quiet)
        BY <1>1, ReportersFinite
      <3>5. IsFiniteSet(RecentReporters \cup {source})
        BY <3>4, FS_AddElement
      <3>6. /\ RecentReporters' \cup QuietReporters'
                 = (RecentReporters \cup {source}) \cup QuietReporters
            /\ Cardinality((RecentReporters \cup {source}) \cup QuietReporters)
                 = Cardinality(RecentReporters \cup {source}) + Cardinality(QuietReporters)
                     - Cardinality((RecentReporters \cup {source}) \cap QuietReporters)
            /\ IsFiniteSet((RecentReporters \cup {source}) \cap QuietReporters)
        <4>1. RecentReporters' \cup QuietReporters'
                 = (RecentReporters \cup {source}) \cup QuietReporters
          BY <1>9, <3>3
        <4>2. Cardinality((RecentReporters \cup {source}) \cup QuietReporters)
                 = Cardinality(RecentReporters \cup {source}) + Cardinality(QuietReporters)
                     - Cardinality((RecentReporters \cup {source}) \cap QuietReporters)
          BY <3>4, <3>5, FS_Union
        <4>3. IsFiniteSet((RecentReporters \cup {source}) \cap QuietReporters)
          BY <3>4, FS_Subset
        <4> QED BY <4>1, <4>2, <4>3
      <3>7. Cardinality(Quiet) <= Cardinality(Requests) - 1
        <4>1. Quiet \subseteq Requests \ {r}
          BY <1>4, <1>5 DEF Quiet
        <4>2. IsFiniteSet(Requests \ {r}) /\ Cardinality(Requests \ {r}) = Cardinality(Requests) - 1
          BY ModerationAssumption, FS_RemoveElement
        <4> QED BY <4>1, <4>2, FS_Subset
      <3>8. IsFiniteSet(Quiet) /\ IsFiniteSet(Requests)
        BY <1>1, ReportersFinite, ModerationAssumption
      <3>9. /\ Cardinality(RecentReporters \cup {source}) \in Nat
            /\ Cardinality(QuietReporters) \in Nat /\ Cardinality(Quiet) \in Nat
            /\ Cardinality(Requests) \in Nat
            /\ Cardinality((RecentReporters \cup {source}) \cap QuietReporters) \in Nat
        BY <3>4, <3>5, <3>6, <3>8, FS_CardinalityType
      <3>10. Cardinality(RecentReporters' \cup QuietReporters') <= Threshold + Cardinality(Requests) - 2
        <4>1. PICK seen \in Nat, quiet \in Nat, slots \in Nat, all \in Nat, both \in Nat :
                 /\ seen = Cardinality(RecentReporters \cup {source})
                 /\ quiet = Cardinality(QuietReporters) /\ slots = Cardinality(Quiet)
                 /\ all = Cardinality(Requests)
                 /\ both = Cardinality((RecentReporters \cup {source}) \cap QuietReporters)
          BY <3>9
        <4>2. seen < Threshold /\ quiet <= slots /\ slots <= all - 1
          BY <3>1, <3>4, <3>7, <4>1
        <4>3. Cardinality(RecentReporters' \cup QuietReporters') = seen + quiet - both
          BY <3>6, <4>1
        <4>4. seen + quiet - both <= Threshold + all - 2
          BY <4>2, ModerationAssumption
        <4> QED BY <4>1, <4>3, <4>4
      <3> QED BY <3>10 DEF FewWithoutHide
    <2> QED BY <2>1, <2>2
  <1> QED BY <1>1, <1>4, <1>6, <1>7, <1>8, <1>9, <1>10 DEF ModerationInv

\* A request that ends leaves the others as they are.
LEMMA RequestEnds ==
  ASSUME RequestsTyped, NEW r \in InFlight, requests' = [requests EXCEPT ![r] = Nothing]
  PROVE  /\ RequestsTyped' /\ InFlight' = InFlight \ {r}
         /\ Cardinality(InFlight') = Cardinality(InFlight) - 1
         /\ \A q \in InFlight' : q \in InFlight /\ q # r /\ requests'[q] = requests[q]
         /\ Quiet' = Quiet \ {r}
         /\ QuietReporters' = {requests[q].source : q \in Quiet \ {r}}
  <1>1. /\ r \in Requests /\ InFlight \subseteq Requests /\ IsFiniteSet(InFlight)
    BY RequestsInFlight
  <1>2. /\ RequestsTyped' /\ InFlight' = InFlight \ {r}
        /\ \A q \in InFlight' : q \in InFlight /\ q # r /\ requests'[q] = requests[q]
    BY <1>1 DEF RequestsTyped, InFlight
  <1>3. Cardinality(InFlight') = Cardinality(InFlight) - 1
    BY <1>1, <1>2, FS_RemoveElement
  <1>4. Quiet' = Quiet \ {r}
    BY <1>2 DEF Quiet
  <1>5. QuietReporters' = {requests[q].source : q \in Quiet \ {r}}
    BY <1>2, <1>4 DEF QuietReporters, Quiet
  <1> QED BY <1>2, <1>3, <1>4, <1>5

LEMMA RejectKeeps ==
  ASSUME ModerationInv, NEW r \in Requests, RejectRequest(r)
  PROVE  ModerationInv' /\ EvidenceStays
  <1>1. /\ QueueTyped /\ RequestsTyped /\ QueueBounded /\ r \in InFlight
        /\ requests' = [requests EXCEPT ![r] = Nothing] /\ UNCHANGED <<queue, hidden, banned>>
    BY DEF ModerationInv, RejectRequest
  <1>2. /\ RequestsTyped' /\ InFlight' = InFlight \ {r}
        /\ Cardinality(InFlight') = Cardinality(InFlight) - 1
        /\ \A q \in InFlight' : q \in InFlight /\ q # r /\ requests'[q] = requests[q]
        /\ QuietReporters' = {requests[q].source : q \in Quiet \ {r}}
    BY <1>1, RequestEnds
  <1>3. QueueTyped' /\ QueueBounded'
    BY <1>1, <1>2, QueueDomain, RequestsInFlight, ModerationAssumption DEF QueueTyped, QueueBounded
  <1>4. OneOfReporter' /\ MergesOwn'
    BY <1>1, <1>2 DEF ModerationInv, OneOfReporter, MergesOwn
  <1>5. ClearedClosed' /\ Uncleared' = Uncleared /\ RecentReporters' = RecentReporters /\ EvidenceStays
    BY <1>1 DEF ModerationInv, ClearedClosed, Uncleared, RecentReporters, EvidenceStays
  <1>6. QuietReporters' \subseteq QuietReporters
    BY <1>2 DEF QuietReporters
  <1>7. FewWithoutHide'
    BY <1>1, <1>2, <1>3, <1>5, <1>6, FewerReporters
  <1> QED BY <1>1, <1>2, <1>3, <1>4, <1>5, <1>7 DEF ModerationInv

LEMMA CommitKeeps ==
  ASSUME ModerationInv, NEW r \in Requests, CommitRequest(r)
  PROVE  ModerationInv' /\ EvidenceStays
  <1>1. /\ QueueTyped /\ RequestsTyped /\ QueueBounded /\ r \in InFlight
        /\ requests' = [requests EXCEPT ![r] = Nothing] /\ UNCHANGED banned
        /\ hidden \in BOOLEAN /\ banned \in BOOLEAN
    BY DEF ModerationInv, CommitRequest
  <1>2. PICK q \in Request : q = requests[r] /\ hidden' = (hidden \/ q.hides)
    BY <1>1, RequestsInFlight DEF CommitRequest
  <1>3. /\ RequestsTyped' /\ InFlight' = InFlight \ {r}
        /\ Cardinality(InFlight') = Cardinality(InFlight) - 1
        /\ \A p \in InFlight' : p \in InFlight /\ p # r /\ requests'[p] = requests[p]
        /\ QuietReporters' = {requests[p].source : p \in Quiet \ {r}}
    BY <1>1, RequestEnds
  <1>4. /\ OneOfReporter' /\ QuietReporters' \subseteq QuietReporters
        /\ hidden' \in BOOLEAN /\ banned' \in BOOLEAN
    BY <1>1, <1>2, <1>3 DEF ModerationInv, OneOfReporter, QuietReporters
  <1>5. /\ DOMAIN queue = 1..Len(queue) /\ Len(queue) \in Nat
        /\ \A i \in DOMAIN queue : queue[i] \in ReportRow
        /\ Cardinality(InFlight) \in Nat
    BY <1>1, QueueDomain, RequestsInFlight
  <1>6. CASE q.existing = 0
    <2> DEFINE row == NewReport(q)
    <2>1. queue' = Append(queue, row)
      BY <1>2, <1>6 DEF CommitRequest
    <2>2. row \in ReportRow /\ row.source = q.source /\ ~row.cleared
      BY DEF NewReport, ReportRow, Request, OpenStatuses
    <2> HIDE DEF row
    <2>3. /\ QueueTyped' /\ Len(queue') = Len(queue) + 1
          /\ DOMAIN queue' = DOMAIN queue \cup {Len(queue) + 1} /\ Len(queue) + 1 \notin DOMAIN queue
          /\ queue'[Len(queue) + 1] = row
          /\ \A i \in DOMAIN queue : queue'[i] = queue[i]
      BY <1>1, <1>5, <2>1, <2>2 DEF QueueTyped
    <2>4. QueueBounded'
      BY <1>1, <1>3, <1>5, <2>3, ModerationAssumption DEF QueueBounded
    <2>5. MergesOwn'
      BY <1>3, <2>3 DEF ModerationInv, MergesOwn
    <2>6. ClearedClosed' /\ (Uncleared' => Uncleared) /\ EvidenceStays
      BY <2>2, <2>3 DEF ModerationInv, ClearedClosed, Uncleared, EvidenceStays
    <2>7. ~hidden' /\ q.source \in Reporters => q.source \in QuietReporters
      BY <1>1, <1>2, <1>6 DEF QuietReporters, Quiet
    <2>8. ~hidden' => RecentReporters' \subseteq RecentReporters \cup QuietReporters
      <3> SUFFICES ASSUME ~hidden', NEW m \in RecentReporters'
                   PROVE  m \in RecentReporters \cup QuietReporters
        OBVIOUS
      <3>1. PICK j \in DOMAIN queue' : queue'[j].recent /\ m = queue'[j].source /\ m \in Reporters
        BY DEF RecentReporters
      <3>2. CASE j \in DOMAIN queue
        BY <2>3, <3>1, <3>2 DEF RecentReporters
      <3>3. CASE j = Len(queue) + 1
        BY <2>2, <2>3, <2>7, <3>1, <3>3
      <3> QED BY <2>3, <3>1, <3>2, <3>3
    <2>9. FewWithoutHide'
      <3>1. CASE hidden'
        BY <3>1 DEF FewWithoutHide
      <3>2. CASE ~hidden'
        <4>1. ~hidden
          BY <1>1, <1>2, <3>2
        <4> QED BY <1>3, <1>4, <2>3, <2>6, <2>8, <3>2, <4>1, FewerReporters
      <3> QED BY <3>1, <3>2
    <2> QED BY <1>3, <1>4, <2>3, <2>4, <2>5, <2>6, <2>9 DEF ModerationInv
  <1>7. CASE q.existing # 0
    <2>1. PICK e \in DOMAIN queue : e = q.existing /\ queue[e].source = q.source
            /\ (q.source \in Reporters => queue[e].evidence = q.evidence)
      BY <1>1, <1>2, <1>7 DEF ModerationInv, MergesOwn
    <2>2. PICK evidence : /\ evidence = IF q.message = {} THEN queue[e].evidence ELSE q.evidence \cup q.message
      OBVIOUS
    <2> DEFINE row == [queue[e] EXCEPT !.evidence = evidence]
    <2>3. queue' = [queue EXCEPT ![e] = row]
      BY <1>2, <1>5, <1>7, <2>1, <2>2 DEF CommitRequest
    <2>4. q.source \in Reporters \/ q.message = {}
      BY <1>1, <1>2 DEF ModerationInv, OneOfReporter, Request, Sources
    <2>5. evidence \subseteq Messages /\ queue[e].evidence \subseteq evidence
      BY <1>5, <2>1, <2>2, <2>4 DEF Request, ReportRow
    <2>6. /\ row \in ReportRow /\ row.source = queue[e].source /\ row.evidence = evidence
          /\ row.recent = queue[e].recent /\ row.cleared = queue[e].cleared
          /\ row.status = queue[e].status
      BY <1>5, <2>5 DEF ReportRow
    <2> HIDE DEF row
    <2>7. /\ QueueTyped' /\ Len(queue') = Len(queue) /\ DOMAIN queue' = DOMAIN queue
          /\ queue'[e] = row /\ \A j \in DOMAIN queue : j # e => queue'[j] = queue[j]
      BY <1>1, <1>5, <2>3, <2>6 DEF QueueTyped
    <2>8. QueueBounded'
      BY <1>1, <1>3, <1>5, <2>7, ModerationAssumption DEF QueueBounded
    <2>9. \A p \in InFlight' : requests[p].source = q.source => q.source \notin Reporters
      BY <1>1, <1>2, <1>3 DEF ModerationInv, OneOfReporter
    <2>10. MergesOwn'
      BY <1>3, <2>1, <2>6, <2>7, <2>9 DEF ModerationInv, MergesOwn
    <2>11. ClearedClosed' /\ (Uncleared' => Uncleared) /\ EvidenceStays
      BY <2>5, <2>6, <2>7 DEF ModerationInv, ClearedClosed, Uncleared, EvidenceStays
    <2>12. RecentReporters' \subseteq RecentReporters
      <3> SUFFICES ASSUME NEW m \in RecentReporters' PROVE m \in RecentReporters
        OBVIOUS
      <3>1. PICK j \in DOMAIN queue' : queue'[j].recent /\ m = queue'[j].source /\ m \in Reporters
        BY DEF RecentReporters
      <3>2. j \in DOMAIN queue /\ queue[j].recent /\ m = queue[j].source
        BY <2>6, <2>7, <3>1
      <3> QED BY <3>1, <3>2 DEF RecentReporters
    <2>13. ~hidden' => ~hidden
      BY <1>1, <1>2
    <2>14. FewWithoutHide'
      BY <1>3, <1>4, <2>7, <2>11, <2>12, <2>13, FewerReporters
    <2> QED BY <1>3, <1>4, <2>7, <2>8, <2>10, <2>11, <2>14 DEF ModerationInv
  <1> QED BY <1>6, <1>7

-----------------------------------------------------------------------------
(* Theorems *)

LEMMA InitModeration == ModerationInit => ModerationInv
  <1> SUFFICES ASSUME ModerationInit PROVE ModerationInv
    OBVIOUS
  <1>1. InFlight = {} /\ RequestsTyped /\ QueueTyped /\ Len(queue) = 0 /\ DOMAIN queue = {}
    BY DEF ModerationInit, InFlight, RequestsTyped, QueueTyped
  <1>2. RecentReporters \cup QuietReporters = {}
    BY <1>1 DEF RecentReporters, QuietReporters, Quiet
  <1>3. /\ QueueBounded
        /\ Cardinality(RecentReporters \cup QuietReporters) <= Threshold + Cardinality(Requests) - 2
    <2>1. Cardinality(Requests) \in Nat /\ Cardinality(Requests) # 0
      BY ModerationAssumption, FS_CardinalityType, FS_EmptySet
    <2>2. Cardinality({}) = 0
      BY FS_EmptySet
    <2>3. QueueBounded
      BY <1>1, <2>2, ModerationAssumption DEF QueueBounded
    <2>4. PICK all \in Nat : all = Cardinality(Requests) /\ all # 0
      BY <2>1
    <2>5. 0 <= Threshold + all - 2
      BY <2>4, ModerationAssumption
    <2> QED BY <1>2, <2>2, <2>3, <2>4, <2>5
  <1>4. OneOfReporter /\ MergesOwn /\ ClearedClosed /\ FewWithoutHide
    BY <1>1, <1>3 DEF OneOfReporter, MergesOwn, ClearedClosed, FewWithoutHide
  <1> QED BY <1>1, <1>3, <1>4 DEF ModerationInit, ModerationInv

LEMMA NextModeration ==
  ASSUME ModerationInv, [ModerationNext]_moderationVars
  PROVE  ModerationInv' /\ [EvidenceStays]_moderationVars
  <1>1. ASSUME NEW r \in Requests, NEW m \in Reporters, NEW urgent \in BOOLEAN,
               NEW message \in {{}} \cup {{msg} : msg \in Messages}, BeginReport(r, m, message, urgent)
        PROVE  ModerationInv' /\ EvidenceStays
    <2>1. /\ PairUnlocked(m) /\ Begin(r, m, message, urgent \/ AtThreshold(m))
          /\ message \in SUBSET Messages /\ m \in Sources /\ m \notin Triggers
      BY <1>1, ModerationAssumption DEF BeginReport, Sources
    <2>2. PICK hides \in BOOLEAN : hides = (urgent \/ AtThreshold(m))
      OBVIOUS
    <2>3. ~hides => Cardinality(RecentReporters \cup {m}) < Threshold
      <3>1. ~AtThreshold(m) => ~(Cardinality(RecentReporters \cup {m}) >= Threshold)
        BY DEF AtThreshold
      <3>2. IsFiniteSet(RecentReporters \cup {m})
        BY ReportersFinite, FS_AddElement DEF ModerationInv
      <3>3. Cardinality(RecentReporters \cup {m}) \in Nat /\ Threshold \in Nat
        BY <3>2, FS_CardinalityType, ModerationAssumption
      <3>4. PICK c \in Nat : c = Cardinality(RecentReporters \cup {m})
        BY <3>3
      <3>5. ~(c >= Threshold) => c < Threshold
        BY <3>3
      <3>6. ~hides => ~AtThreshold(m)
        BY <2>2, Zenon
      <3> QED BY <3>1, <3>4, <3>5, <3>6, Zenon
    <2> QED BY <2>1, <2>2, <2>3, BeginKeeps
  <1>2. ASSUME NEW r \in Requests, NEW t \in Triggers, NEW hides \in BOOLEAN, BeginFlag(r, t, hides)
        PROVE  ModerationInv' /\ EvidenceStays
    <2>1. Begin(r, t, {}, hides) /\ t \in Sources /\ t \notin Reporters /\ {} \in SUBSET Messages
      BY <1>2, ModerationAssumption DEF BeginFlag, Sources
    <2> QED BY <2>1, BeginKeeps
  <1>3. ASSUME NEW value \in BOOLEAN, SetBanned(value)
        PROVE  ModerationInv' /\ EvidenceStays
    BY <1>3 DEF SetBanned, ModerationInv, QueueTyped, RequestsTyped, QueueBounded, OneOfReporter,
         MergesOwn, ClearedClosed, FewWithoutHide, InFlight, Quiet, QuietReporters, RecentReporters,
         Uncleared, EvidenceStays
  <1>4. CASE UNCHANGED moderationVars
    BY <1>4 DEF moderationVars, ModerationInv, QueueTyped, RequestsTyped, QueueBounded, OneOfReporter,
         MergesOwn, ClearedClosed, FewWithoutHide, InFlight, Quiet, QuietReporters, RecentReporters,
         Uncleared
  <1> QED BY <1>1, <1>2, <1>3, <1>4, CommitKeeps, RejectKeeps, ModeratorStep DEF ModerationNext

\* Every state of the moderation of a member is well typed.
THEOREM ModerationTypes == ModerationSpec => []ModerationTypeOK
  <1>1. ModerationInv => ModerationTypeOK
    BY QueueDomain, RequestsInFlight, ModerationAssumption
    DEF ModerationInv, QueueTyped, RequestsTyped, QueueBounded, ModerationTypeOK
  <1>2. ModerationInv /\ [ModerationNext]_moderationVars => ModerationInv'
    BY NextModeration
  <1> QED BY InitModeration, <1>1, <1>2, PTL DEF ModerationSpec

\* With a reporter more for every other request that can be in flight, the automatic
\* hide has happened, although overlapping reports do not count each other.
THEOREM HideIsAtMostLate == ModerationSpec => []HiddenSoon
  <1>1. ModerationInv => HiddenSoon
    <2> SUFFICES ASSUME ModerationInv, Uncleared, ~hidden
                 PROVE  ~(Cardinality(RecentReporters) >= Threshold + Cardinality(Requests) - 1)
      BY DEF HiddenSoon, Uncleared
    <2>1. /\ IsFiniteSet(RecentReporters \cup QuietReporters) /\ IsFiniteSet(RecentReporters)
          /\ Cardinality(RecentReporters \cup QuietReporters) <= Threshold + Cardinality(Requests) - 2
      BY ReportersFinite DEF ModerationInv, FewWithoutHide
    <2>2. Cardinality(RecentReporters) <= Cardinality(RecentReporters \cup QuietReporters)
      BY <2>1, FS_Subset
    <2>3. /\ Cardinality(RecentReporters) \in Nat
          /\ Cardinality(RecentReporters \cup QuietReporters) \in Nat
          /\ Cardinality(Requests) \in Nat /\ Threshold \in Nat
      BY <2>1, FS_CardinalityType, ModerationAssumption
    <2> QED BY <2>1, <2>2, <2>3
  <1>2. ModerationInv /\ [ModerationNext]_moderationVars => ModerationInv'
    BY NextModeration
  <1> QED BY InitModeration, <1>1, <1>2, PTL DEF ModerationSpec

\* No report loses a message it holds as evidence, however many reports and
\* detections read and merge into the queue at the same time.
THEOREM EvidenceIsKept == ModerationSpec => EvidenceKept
  <1>1. /\ ModerationInv /\ [ModerationNext]_moderationVars
        => ModerationInv' /\ [EvidenceStays]_moderationVars
    BY NextModeration
  <1> QED BY InitModeration, <1>1, PTL DEF ModerationSpec, EvidenceKept
=============================================================================
