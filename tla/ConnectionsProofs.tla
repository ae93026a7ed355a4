-------------------------- MODULE ConnectionsProofs --------------------------
(***************************************************************************)
(* Proofs about Connections, for any number of handlers, interests and     *)
(* moderation actions: there is at most one open thing between two members,*)
(* and accept() never matches members who are separated.                   *)
(***************************************************************************)
EXTENDS Connections, FiniteSetTheorems, TLAPS

-----------------------------------------------------------------------------
(* The inductive invariant *)

\* The rows are sequences of rows.
RowsTyped ==
  /\ interests \in Seq(InterestRow) /\ Len(interests) <= MaxInterests
  /\ matches \in Seq(MatchRow)

PeopleTyped ==
  /\ acct \in [Members -> {"active", "suspended", "banned"}]
  /\ flags \in [Members -> SUBSET Flag]
  /\ blocks \subseteq Members /\ reports \subseteq Members
  /\ msgs \subseteq Members \X MsgIds
  /\ safety \in 0..MaxSafety

\* A handler in flight is some member's.
SlotsTyped ==
  /\ slots \in [Slots -> Handler]
  /\ \A h \in Slots : slots[h].op # "idle" => slots[h].by \in Members

\* One pending interest or one active match, without counting.
OpenOnce ==
  /\ \A i, j \in PendingRows : i = j
  /\ \A j, k \in ActiveMatches : j = k
  /\ PendingRows = {} \/ ActiveMatches = {}

\* Matches stem from different accepted interests.
MatchesFounded ==
  /\ \A k \in DOMAIN matches : /\ matches[k].interest \in DOMAIN interests
                               /\ interests[matches[k].interest].status = "accepted"
  /\ \A j, k \in DOMAIN matches : matches[j].interest = matches[k].interest => j = k

\* What a send() read inside the lock is still so, up to an answer that
\* respond(), a check of accept() or a moderator gave meanwhile.
LockKnows(h) ==
  LET row == slots[h].row
  IN /\ slots[h].op = "send"
     /\ ActiveMatches = {}
     /\ row = 0 => PendingRows = {}
     /\ row # 0 => /\ row \in DOMAIN interests
                   /\ interests[row].status # "accepted"
                   /\ PendingRows \subseteq {row}

LocksHeld ==
  /\ \A g, h \in Slots : slots[g].locked /\ slots[h].locked => g = h
  /\ \A h \in Slots : slots[h].locked => LockKnows(h)

\* An interest that an accept() checked and that is still pending was not
\* followed by a block or a report: those cancel what is pending.
AcceptKnows ==
  \A h \in Slots : slots[h].op = "accept" =>
    /\ slots[h].row \in DOMAIN interests
    /\ Pending(slots[h].row) => ~Separated

ConnectionsInv ==
  /\ RowsTyped
  /\ PeopleTyped
  /\ SlotsTyped
  /\ OpenOnce
  /\ MatchesFounded
  /\ LocksHeld
  /\ AcceptKnows

-----------------------------------------------------------------------------
(* Operators *)

LEMMA OtherMember == \A m \in Members : Other(m) \in Members
  BY PairAssumption DEF Other

LEMMA SeqDomain ==
  ASSUME NEW S, NEW s \in Seq(S)
  PROVE  DOMAIN s = 1..Len(s) /\ Len(s) \in Nat /\ \A i \in DOMAIN s : s[i] \in S
  OBVIOUS

LEMMA FunctionIsSeq ==
  ASSUME NEW S, NEW n \in Nat, NEW f \in [1..n -> S]
  PROVE  f \in Seq(S) /\ Len(f) = n /\ DOMAIN f = 1..n
  OBVIOUS

LEMMA AppendSeq ==
  ASSUME NEW S, NEW s \in Seq(S), NEW e \in S
  PROVE  /\ Append(s, e) \in Seq(S) /\ Len(Append(s, e)) = Len(s) + 1
         /\ DOMAIN Append(s, e) = DOMAIN s \cup {Len(s) + 1}
         /\ Len(s) + 1 \notin DOMAIN s
         /\ Append(s, e)[Len(s) + 1] = e
         /\ \A i \in DOMAIN s : Append(s, e)[i] = s[i]
  OBVIOUS

\* SetStatus changes the status of some rows, and nothing else.
LEMMA SetStatusRows ==
  ASSUME RowsTyped, NEW rows, NEW status \in InterestStatus, SetStatus(rows, status)
  PROVE  /\ interests' \in Seq(InterestRow) /\ Len(interests') = Len(interests)
         /\ DOMAIN interests' = DOMAIN interests
         /\ \A i \in DOMAIN interests :
              /\ i \in rows => interests'[i].status = status
              /\ i \notin rows => interests'[i] = interests[i]
  <1>1. /\ interests \in Seq(InterestRow)
        /\ interests' = [i \in DOMAIN interests |->
                  IF i \in rows THEN [interests[i] EXCEPT !.status = status] ELSE interests[i]]
    BY DEF RowsTyped, SetStatus
  <1>2. /\ DOMAIN interests = 1..Len(interests) /\ Len(interests) \in Nat
        /\ \A i \in DOMAIN interests : interests[i] \in InterestRow
    BY <1>1, SeqDomain
  <1>3. /\ \A i \in DOMAIN interests :
              /\ i \in rows => interests'[i] = [interests[i] EXCEPT !.status = status]
              /\ i \notin rows => interests'[i] = interests[i]
        /\ DOMAIN interests' = DOMAIN interests
    BY <1>1
  <1>4. \A i \in DOMAIN interests :
           [interests[i] EXCEPT !.status = status] \in InterestRow
             /\ [interests[i] EXCEPT !.status = status].status = status
    BY <1>2 DEF InterestRow
  <1>5. interests' \in [1..Len(interests) -> InterestRow]
    BY <1>1, <1>2, <1>4
  <1> QED BY <1>2, <1>3, <1>4, <1>5, FunctionIsSeq

\* End ends some matches, and nothing else.
LEMMA EndRows ==
  ASSUME RowsTyped, NEW rows, End(rows)
  PROVE  /\ matches' \in Seq(MatchRow)
         /\ Len(matches') = Len(matches) /\ DOMAIN matches' = DOMAIN matches
         /\ \A k \in DOMAIN matches :
              /\ matches'[k].interest = matches[k].interest
              /\ k \in rows => ~matches'[k].active
              /\ k \notin rows => matches'[k] = matches[k]
  <1>1. /\ matches \in Seq(MatchRow)
        /\ matches' = [k \in DOMAIN matches |->
              IF k \in rows THEN [matches[k] EXCEPT !.active = FALSE] ELSE matches[k]]
    BY DEF RowsTyped, End
  <1>2. /\ DOMAIN matches = 1..Len(matches) /\ Len(matches) \in Nat
        /\ \A k \in DOMAIN matches : matches[k] \in MatchRow
    BY <1>1, SeqDomain
  <1>3. /\ \A k \in DOMAIN matches :
              /\ k \in rows => matches'[k] = [matches[k] EXCEPT !.active = FALSE]
              /\ k \notin rows => matches'[k] = matches[k]
        /\ DOMAIN matches' = DOMAIN matches
    BY <1>1
  <1>4. \A k \in DOMAIN matches :
           /\ [matches[k] EXCEPT !.active = FALSE] \in MatchRow
           /\ [matches[k] EXCEPT !.active = FALSE].interest = matches[k].interest
           /\ ~[matches[k] EXCEPT !.active = FALSE].active
    BY <1>2 DEF MatchRow
  <1>5. matches' \in [1..Len(matches) -> MatchRow]
    BY <1>1, <1>2, <1>4
  <1> QED BY <1>2, <1>3, <1>4, <1>5, FunctionIsSeq

\* A handler that starts or ends is in one slot.
LEMMA OneSlot ==
  ASSUME slots \in [Slots -> Handler], NEW h \in Slots, NEW v \in Handler,
         slots' = [slots EXCEPT ![h] = v]
  PROVE  /\ slots' \in [Slots -> Handler]
         /\ slots'[h] = v
         /\ \A g \in Slots : g # h => slots'[g] = slots[g]
  OBVIOUS

LEMMA IdleHandler == Idle \in Handler /\ ~Idle.locked /\ Idle.op = "idle" /\ Idle.row = 0
  BY BoundAssumption DEF Idle, Handler

LEMMA PutHandler ==
  ASSUME NEW h \in Slots, NEW op \in {"send", "accept", "chat"}, NEW m \in Members,
         NEW row \in 0..MaxInterests, SlotsTyped, Put(h, op, m, row)
  PROVE  /\ SlotsTyped'
         /\ slots'[h].op = op /\ ~slots'[h].locked /\ slots'[h].row = row
         /\ \A g \in Slots : g # h => slots'[g] = slots[g]
  <1>1. [op |-> op, by |-> m, locked |-> FALSE, row |-> row] \in Handler
    BY DEF Handler
  <1>2. /\ slots' \in [Slots -> Handler]
        /\ slots'[h] = [op |-> op, by |-> m, locked |-> FALSE, row |-> row]
        /\ \A g \in Slots : g # h => slots'[g] = slots[g]
    BY <1>1, OneSlot DEF Put, SlotsTyped
  <1> QED BY <1>2 DEF SlotsTyped

LEMMA FreeHandler ==
  ASSUME NEW h \in Slots, SlotsTyped, Free(h)
  PROVE  /\ SlotsTyped'
         /\ slots'[h] = Idle
         /\ \A g \in Slots : g # h => slots'[g] = slots[g]
  <1>1. /\ slots' \in [Slots -> Handler] /\ slots'[h] = Idle
        /\ \A g \in Slots : g # h => slots'[g] = slots[g]
    BY IdleHandler, OneSlot DEF Free, SlotsTyped
  <1> QED BY <1>1, IdleHandler DEF SlotsTyped

LEMMA IntervalSize == \A n \in Nat : IsFiniteSet(1..n) /\ Cardinality(1..n) = n
  <1> SUFFICES ASSUME NEW n \in Nat PROVE IsFiniteSet(1..n) /\ Cardinality(1..n) = n
    OBVIOUS
  <1>1. IsFiniteSet(1..n) /\ Cardinality(1..n) = IF 1 > n THEN 0 ELSE n - 1 + 1
    BY FS_Interval, 1 \in Int, n \in Int
  <1> QED BY <1>1

\* There are no more matches than interests.
LEMMA MatchesBounded ==
  ASSUME RowsTyped, MatchesFounded
  PROVE  Len(matches) <= MaxInterests
  <1>1. /\ DOMAIN matches = 1..Len(matches) /\ Len(matches) \in Nat
        /\ DOMAIN interests = 1..Len(interests) /\ Len(interests) \in Nat
    BY SeqDomain DEF RowsTyped
  <1> DEFINE f == [k \in 1..Len(matches) |-> matches[k].interest]
  <1>2. f \in [1..Len(matches) -> 1..Len(interests)]
    BY <1>1 DEF MatchesFounded
  <1>3. \A j, k \in 1..Len(matches) : f[j] = f[k] => j = k
    BY <1>1 DEF MatchesFounded
  <1>4. /\ IsFiniteSet(1..Len(matches)) /\ Cardinality(1..Len(matches)) = Len(matches)
        /\ IsFiniteSet(1..Len(interests)) /\ Cardinality(1..Len(interests)) = Len(interests)
    BY <1>1, IntervalSize
  <1> HIDE DEF f
  <1>5. ~(Len(interests) < Len(matches))
    BY <1>2, <1>3, <1>4, FS_PigeonHole
  <1> QED BY <1>1, <1>5, BoundAssumption DEF RowsTyped

-----------------------------------------------------------------------------
(* Steps that open nothing *)

\* A step that opens no interest and no match, answers only pending interests
\* other than by accepting, and leaves nothing pending if it separates the pair.
LEMMA NothingOpens ==
  ASSUME ConnectionsInv,
         DOMAIN interests' = DOMAIN interests, DOMAIN matches' = DOMAIN matches,
         \A i \in DOMAIN interests :
            \/ interests'[i].status = interests[i].status
            \/ Pending(i) /\ interests'[i].status \notin {"pending", "accepted"},
         \A k \in DOMAIN matches : /\ matches'[k].interest = matches[k].interest
                                   /\ matches'[k].active => matches[k].active,
         \A h \in Slots : slots'[h] = slots[h] \/ (slots'[h].op # "accept" /\ ~slots'[h].locked),
         Separated' => Separated \/ PendingRows' = {}
  PROVE  OpenOnce' /\ MatchesFounded' /\ LocksHeld' /\ AcceptKnows'
  <1>1. PendingRows' \subseteq PendingRows /\ ActiveMatches' \subseteq ActiveMatches
    BY DEF PendingRows, ActiveMatches, Pending
  <1>2. OpenOnce'
    BY <1>1 DEF ConnectionsInv, OpenOnce
  <1>3. MatchesFounded'
    BY DEF ConnectionsInv, MatchesFounded, Pending
  <1>4. LocksHeld'
    <2>1. \A g, h \in Slots : slots'[g].locked /\ slots'[h].locked => g = h
      BY DEF ConnectionsInv, LocksHeld
    <2>2. ASSUME NEW h \in Slots, slots'[h].locked
          PROVE  LockKnows(h)'
      <3>1. slots'[h] = slots[h] /\ LockKnows(h)
        BY <2>2 DEF ConnectionsInv, LocksHeld
      <3> QED BY <1>1, <3>1 DEF LockKnows
    <2> QED BY <2>1, <2>2 DEF LocksHeld
  <1>5. AcceptKnows'
    <2> SUFFICES ASSUME NEW h \in Slots, slots'[h].op = "accept"
                 PROVE  /\ slots'[h].row \in DOMAIN interests'
                        /\ Pending(slots[h].row)' => ~Separated'
      BY DEF AcceptKnows
    <2>1. slots'[h] = slots[h] /\ slots[h].row \in DOMAIN interests
            /\ (Pending(slots[h].row) => ~Separated)
      BY DEF ConnectionsInv, AcceptKnows
    <2>2. Pending(slots[h].row)' => Pending(slots[h].row) /\ PendingRows' # {}
      BY <2>1 DEF Pending, PendingRows
    <2> QED BY <2>1, <2>2
  <1> QED BY <1>2, <1>3, <1>4, <1>5

\* The same for a step that sets the status of pending interests.
LEMMA PendingAnswered ==
  ASSUME ConnectionsInv, NEW rows \in SUBSET PendingRows,
         NEW status \in InterestStatus \ {"pending", "accepted"}, SetStatus(rows, status)
  PROVE  /\ interests' \in Seq(InterestRow) /\ Len(interests') = Len(interests)
         /\ DOMAIN interests' = DOMAIN interests
         /\ \A i \in DOMAIN interests :
              \/ interests'[i].status = interests[i].status
              \/ Pending(i) /\ interests'[i].status \notin {"pending", "accepted"}
         /\ rows = PendingRows => PendingRows' = {}
  <1>1. RowsTyped
    BY DEF ConnectionsInv
  <1>2. /\ interests' \in Seq(InterestRow) /\ Len(interests') = Len(interests)
        /\ DOMAIN interests' = DOMAIN interests
        /\ \A i \in DOMAIN interests :
              /\ i \in rows => interests'[i].status = status
              /\ i \notin rows => interests'[i] = interests[i]
    BY <1>1, SetStatusRows
  <1> QED BY <1>2 DEF PendingRows, Pending

\* endConnections(): nothing is open any more.
LEMMA ConnectionsEnd ==
  ASSUME ConnectionsInv, EndConnections
  PROVE  /\ RowsTyped'
         /\ DOMAIN interests' = DOMAIN interests /\ DOMAIN matches' = DOMAIN matches
         /\ Len(matches') = Len(matches)
         /\ \A i \in DOMAIN interests :
              \/ interests'[i].status = interests[i].status
              \/ Pending(i) /\ interests'[i].status \notin {"pending", "accepted"}
         /\ \A k \in DOMAIN matches : /\ matches'[k].interest = matches[k].interest
                                      /\ matches'[k].active => matches[k].active
         /\ PendingRows' = {} /\ ActiveMatches' = {}
  <1>1. RowsTyped /\ SetStatus(PendingRows, "cancelled") /\ End(ActiveMatches)
    BY DEF ConnectionsInv, EndConnections
  <1>2. "cancelled" \in InterestStatus \ {"pending", "accepted"}
    BY DEF InterestStatus
  <1>3. /\ interests' \in Seq(InterestRow) /\ Len(interests') = Len(interests)
        /\ DOMAIN interests' = DOMAIN interests
        /\ \A i \in DOMAIN interests :
              \/ interests'[i].status = interests[i].status
              \/ Pending(i) /\ interests'[i].status \notin {"pending", "accepted"}
        /\ PendingRows' = {}
    BY <1>1, <1>2, PendingAnswered
  <1>4. /\ matches' \in Seq(MatchRow) /\ DOMAIN matches' = DOMAIN matches
        /\ Len(matches') = Len(matches)
        /\ \A k \in DOMAIN matches :
              /\ matches'[k].interest = matches[k].interest
              /\ k \in ActiveMatches => ~matches'[k].active
              /\ k \notin ActiveMatches => matches'[k] = matches[k]
    BY <1>1, EndRows
  <1>5. ActiveMatches' = {}
    BY <1>4 DEF ActiveMatches
  <1>6. \A k \in DOMAIN matches : matches'[k].active => matches[k].active
    BY <1>4 DEF ActiveMatches
  <1> QED BY <1>1, <1>3, <1>4, <1>5, <1>6 DEF RowsTyped

\* A step that leaves interests and matches alone and separates nobody.
LEMMA RowsAlone ==
  ASSUME ConnectionsInv, UNCHANGED <<interests, matches>>, Separated' => Separated,
         \A h \in Slots : slots'[h] = slots[h] \/ (slots'[h].op # "accept" /\ ~slots'[h].locked)
  PROVE  RowsTyped' /\ OpenOnce' /\ MatchesFounded' /\ LocksHeld' /\ AcceptKnows'
  <1>1. RowsTyped'
    BY DEF ConnectionsInv, RowsTyped
  <1>2. OpenOnce' /\ MatchesFounded' /\ LocksHeld' /\ AcceptKnows'
    BY NothingOpens
  <1> QED BY <1>1, <1>2

\* A counted action stays within its bound.
LEMMA CountedTyped ==
  ASSUME PeopleTyped, Counted
  PROVE  safety' \in 0..MaxSafety
  BY BoundAssumption DEF PeopleTyped, Counted

\* The steps of members and moderators that end things or change accounts.
LEMMA EndingStep ==
  ASSUME ConnectionsInv, NEW m \in Members,
         \/ Block(m) \/ Unblock(m) \/ Unmatch(m) \/ CloseMatch
         \/ \E alsoBlock, hide \in BOOLEAN : Report(m, alsoBlock, hide)
         \/ SetInteractionRestriction(m) \/ RestrictChat(m) \/ Suspend(m) \/ Reactivate(m) \/ Ban(m)
         \/ \E f \in Flag : LiftFlag(m, f)
  PROVE  ConnectionsInv' /\ AcceptUnseparated /\ StoredUnblocked
  <1>1. RowsTyped /\ PeopleTyped /\ SlotsTyped
    BY DEF ConnectionsInv
  <1>2. /\ UNCHANGED <<slots, msgs>>
        /\ safety' = safety \/ Counted
    BY DEF Block, Unblock, Unmatch, CloseMatch, Report, SetInteractionRestriction, RestrictChat,
           Suspend, Reactivate, Ban, LiftFlag, people
  <1>3. PeopleTyped'
    <2>1. safety' \in 0..MaxSafety
      BY <1>1, <1>2, CountedTyped DEF PeopleTyped
    <2>2. Other(m) \in Members
      BY OtherMember
    <2>3. {"hidden", "restricted", "muted"} = Flag
      BY DEF Flag
    <2>4. acct' \in [Members -> {"active", "suspended", "banned"}]
      BY <1>1 DEF PeopleTyped, Block, Unblock, Unmatch, CloseMatch, Report, SetInteractionRestriction,
           RestrictChat, Suspend, Reactivate, Ban, LiftFlag, people
    <2>5. flags' \in [Members -> SUBSET Flag]
      <3>1. \/ UNCHANGED flags
            \/ \E n \in Members, f \in Flag : flags' = [flags EXCEPT ![n] = @ \cup {f}]
            \/ \E f \in Flag : flags' = [flags EXCEPT ![m] = @ \ {f}]
        BY <2>2, <2>3 DEF Block, Unblock, Unmatch, CloseMatch, Report, SetInteractionRestriction,
           RestrictChat, Suspend, Reactivate, Ban, LiftFlag, people
      <3> QED BY <1>1, <3>1 DEF PeopleTyped
    <2>6. blocks' \subseteq Members /\ reports' \subseteq Members
      BY <1>1 DEF PeopleTyped, Block, Unblock, Unmatch, CloseMatch, Report, SetInteractionRestriction,
           RestrictChat, Suspend, Reactivate, Ban, LiftFlag, people
    <2> QED BY <1>1, <1>2, <2>1, <2>4, <2>5, <2>6 DEF PeopleTyped
  <1>4. RowsTyped' /\ OpenOnce' /\ MatchesFounded' /\ LocksHeld' /\ AcceptKnows'
    <2>1. CASE EndConnections
      BY <1>2, <2>1, ConnectionsEnd, NothingOpens
    <2>2. CASE Unmatch(m)
      <3>1. End(ActiveMatches) /\ UNCHANGED <<interests, slots, blocks, reports>>
        BY <2>2 DEF Unmatch, people
      <3>2. /\ matches' \in Seq(MatchRow) /\ DOMAIN matches' = DOMAIN matches
            /\ \A k \in DOMAIN matches :
                 /\ matches'[k].interest = matches[k].interest
                 /\ k \in ActiveMatches => ~matches'[k].active
                 /\ k \notin ActiveMatches => matches'[k] = matches[k]
        BY <1>1, <3>1, EndRows
      <3>3. \A k \in DOMAIN matches : matches'[k].active => matches[k].active
        BY <3>2 DEF ActiveMatches
      <3>4. Separated' = Separated
        BY <3>1 DEF Separated
      <3> QED BY <1>1, <3>1, <3>2, <3>3, <3>4, NothingOpens DEF RowsTyped
    <2>3. CASE SetInteractionRestriction(m)
      <3>1. SetStatus(PendingRows, "cancelled") /\ UNCHANGED <<matches, slots, blocks, reports>>
        BY <2>3 DEF SetInteractionRestriction
      <3>2. "cancelled" \in InterestStatus \ {"pending", "accepted"}
        BY DEF InterestStatus
      <3>3. /\ interests' \in Seq(InterestRow) /\ Len(interests') = Len(interests)
            /\ DOMAIN interests' = DOMAIN interests
            /\ \A i \in DOMAIN interests :
                 \/ interests'[i].status = interests[i].status
                 \/ Pending(i) /\ interests'[i].status \notin {"pending", "accepted"}
        BY <3>1, <3>2, PendingAnswered
      <3>4. Separated' = Separated
        BY <3>1 DEF Separated
      <3> QED BY <1>1, <3>1, <3>3, <3>4, NothingOpens DEF RowsTyped
    <2>4. CASE UNCHANGED <<interests, matches, reports>> /\ blocks' \subseteq blocks
      <3>1. Separated' => Separated
        BY <2>4 DEF Separated
      <3> QED BY <1>2, <2>4, <3>1, RowsAlone
    <2>5. \/ EndConnections \/ Unmatch(m) \/ SetInteractionRestriction(m)
          \/ UNCHANGED <<interests, matches, reports>> /\ blocks' \subseteq blocks
      BY DEF Block, Unblock, CloseMatch, Report, RestrictChat, Suspend, Reactivate, Ban, LiftFlag
    <2> QED BY <2>1, <2>2, <2>3, <2>4, <2>5
  <1>5. AcceptUnseparated /\ StoredUnblocked
    BY <1>2 DEF AcceptUnseparated, StoredUnblocked
  <1> QED BY <1>1, <1>2, <1>3, <1>4, <1>5 DEF ConnectionsInv, SlotsTyped

-----------------------------------------------------------------------------
(* Checks, answers, the clock and the chat *)

LEMMA CheckStep ==
  ASSUME ConnectionsInv, NEW m \in Members,
         \/ \E h \in Slots : SendCheck(h, m)
         \/ \E h \in Slots, k \in DOMAIN matches : ChatCheck(h, m, k)
  PROVE  ConnectionsInv' /\ AcceptUnseparated /\ StoredUnblocked
  <1>1. RowsTyped /\ PeopleTyped /\ SlotsTyped /\ MatchesFounded
    BY DEF ConnectionsInv
  <1>2. Len(matches) <= MaxInterests /\ DOMAIN matches = 1..Len(matches) /\ Len(matches) \in Nat
    BY <1>1, MatchesBounded, SeqDomain DEF RowsTyped
  <1>3. /\ UNCHANGED <<acct, flags, blocks, reports, interests, matches, msgs, safety>>
        /\ \E h \in Slots, op \in {"send", "chat"}, row \in 0..MaxInterests : Put(h, op, m, row)
    BY <1>2, BoundAssumption DEF SendCheck, ChatCheck, people
  <1>4. PICK h \in Slots, op \in {"send", "chat"}, row \in 0..MaxInterests : Put(h, op, m, row)
    BY <1>3
  <1>5. /\ SlotsTyped'
        /\ slots'[h].op = op /\ ~slots'[h].locked
        /\ \A g \in Slots : g # h => slots'[g] = slots[g]
    BY <1>1, <1>4, PutHandler
  <1>6. \A g \in Slots : slots'[g] = slots[g] \/ (slots'[g].op # "accept" /\ ~slots'[g].locked)
    BY <1>5
  <1>7. Separated' = Separated /\ PeopleTyped'
    BY <1>1, <1>3 DEF Separated, PeopleTyped
  <1>8. RowsTyped' /\ OpenOnce' /\ MatchesFounded' /\ LocksHeld' /\ AcceptKnows'
    BY <1>3, <1>6, <1>7, RowsAlone
  <1>9. AcceptUnseparated /\ StoredUnblocked
    BY <1>3 DEF AcceptUnseparated, StoredUnblocked
  <1> QED BY <1>5, <1>7, <1>8, <1>9 DEF ConnectionsInv

LEMMA ChatStoreStep ==
  ASSUME ConnectionsInv, NEW h \in Slots, NEW c \in MsgIds, NEW suspicious \in BOOLEAN,
         ChatStore(h, c, suspicious)
  PROVE  ConnectionsInv' /\ AcceptUnseparated /\ StoredUnblocked
  <1>1. RowsTyped /\ PeopleTyped /\ SlotsTyped
    BY DEF ConnectionsInv
  <1>2. /\ UNCHANGED <<acct, blocks, reports, interests, matches, safety>> /\ Free(h)
        /\ msgs' # msgs => blocks = {}
    BY DEF ChatStore, Recheck, Authorized
  <1>3. /\ SlotsTyped' /\ slots'[h] = Idle
        /\ \A g \in Slots : g # h => slots'[g] = slots[g]
    BY <1>1, <1>2, FreeHandler
  <1>4. \A g \in Slots : slots'[g] = slots[g] \/ (slots'[g].op # "accept" /\ ~slots'[g].locked)
    BY <1>3, IdleHandler
  <1>5. Separated' = Separated
    BY <1>2 DEF Separated
  <1>6. PeopleTyped'
    <2>1. slots[h].by \in Members
      BY <1>1 DEF ChatStore, SlotsTyped
    <2>2. "hidden" \in Flag
      BY DEF Flag
    <2>3. flags' \in [Members -> SUBSET Flag]
      BY <1>1, <2>2 DEF ChatStore, PeopleTyped
    <2>4. msgs' \subseteq Members \X MsgIds
      BY <1>1, <2>1 DEF ChatStore, PeopleTyped
    <2> QED BY <1>1, <1>2, <2>3, <2>4 DEF PeopleTyped
  <1>7. RowsTyped' /\ OpenOnce' /\ MatchesFounded' /\ LocksHeld' /\ AcceptKnows'
    BY <1>2, <1>4, <1>5, RowsAlone
  <1>8. AcceptUnseparated /\ StoredUnblocked
    BY <1>2 DEF AcceptUnseparated, StoredUnblocked
  <1> QED BY <1>3, <1>6, <1>7, <1>8 DEF ConnectionsInv

\* Respond(), the clock, and the checks of accept() that answer the interest instead.
LEMMA AnswerStep ==
  ASSUME ConnectionsInv, UNCHANGED <<acct, flags, blocks, reports, matches, msgs, slots, safety>>,
         NEW i \in DOMAIN interests,
         \/ /\ i \in PendingRows
            /\ \E status \in InterestStatus \ {"pending", "accepted"} : SetStatus({i}, status)
         \/ interests' = [interests EXCEPT ![i].late = TRUE]
  PROVE  ConnectionsInv' /\ AcceptUnseparated /\ StoredUnblocked
  <1>1. RowsTyped /\ PeopleTyped /\ SlotsTyped
    BY DEF ConnectionsInv
  <1>2. /\ interests' \in Seq(InterestRow) /\ Len(interests') = Len(interests)
        /\ DOMAIN interests' = DOMAIN interests
        /\ \A j \in DOMAIN interests :
             \/ interests'[j].status = interests[j].status
             \/ Pending(j) /\ interests'[j].status \notin {"pending", "accepted"}
    <2>1. ASSUME i \in PendingRows, NEW status \in InterestStatus \ {"pending", "accepted"},
                 SetStatus({i}, status)
          PROVE  <1>2!:
      BY <2>1, PendingAnswered
    <2>2. CASE interests' = [interests EXCEPT ![i].late = TRUE]
      <3>1. /\ interests \in Seq(InterestRow) /\ DOMAIN interests = 1..Len(interests)
            /\ Len(interests) \in Nat /\ interests[i] \in InterestRow
        BY <1>1, SeqDomain DEF RowsTyped
      <3>2. [interests[i] EXCEPT !.late = TRUE] \in InterestRow
              /\ [interests[i] EXCEPT !.late = TRUE].status = interests[i].status
        BY <3>1 DEF InterestRow
      <3>3. interests' = [interests EXCEPT ![i] = [interests[i] EXCEPT !.late = TRUE]]
        BY <2>2
      <3> QED BY <3>1, <3>2, <3>3
    <2> QED BY <2>1, <2>2
  <1>3. Separated' = Separated /\ PeopleTyped' /\ SlotsTyped'
    BY <1>1 DEF Separated, PeopleTyped, SlotsTyped
  <1>4. RowsTyped'
    BY <1>1, <1>2 DEF RowsTyped
  <1>5. OpenOnce' /\ MatchesFounded' /\ LocksHeld' /\ AcceptKnows'
    BY <1>2, <1>3, NothingOpens
  <1>6. AcceptUnseparated /\ StoredUnblocked
    BY DEF AcceptUnseparated, StoredUnblocked
  <1> QED BY <1>3, <1>4, <1>5, <1>6 DEF ConnectionsInv

LEMMA AcceptCheckStep ==
  ASSUME ConnectionsInv, NEW m \in Members, NEW h \in Slots, NEW i \in DOMAIN interests,
         NEW mutual \in BOOLEAN, AcceptCheck(h, m, i, mutual)
  PROVE  ConnectionsInv' /\ AcceptUnseparated /\ StoredUnblocked
  <1>1. /\ IsIdle(h) /\ i \in PendingRows
        /\ UNCHANGED <<acct, flags, blocks, reports, matches, msgs, safety>>
    BY DEF AcceptCheck, people
  <1>2. \/ /\ \E status \in InterestStatus \ {"pending", "accepted"} : SetStatus({i}, status)
           /\ UNCHANGED slots
        \/ EligibleRules(m) /\ Put(h, "accept", m, i) /\ UNCHANGED interests
    BY DEF AcceptCheck, InterestStatus
  <1>3. CASE /\ \E status \in InterestStatus \ {"pending", "accepted"} : SetStatus({i}, status)
             /\ UNCHANGED slots
    BY <1>1, <1>3, AnswerStep
  <1>4. CASE EligibleRules(m) /\ Put(h, "accept", m, i) /\ UNCHANGED interests
    <2>1. RowsTyped /\ PeopleTyped /\ SlotsTyped
      BY DEF ConnectionsInv
    <2>2. i \in 0..MaxInterests
      BY <2>1, SeqDomain, BoundAssumption DEF RowsTyped
    <2>3. /\ SlotsTyped'
          /\ slots'[h].op = "accept" /\ ~slots'[h].locked /\ slots'[h].row = i
          /\ \A g \in Slots : g # h => slots'[g] = slots[g]
      BY <1>4, <2>1, <2>2, PutHandler
    <2>4. ~Separated /\ Separated' = Separated
      BY <1>1, <1>4 DEF EligibleRules, Separated
    <2>5. PendingRows' = PendingRows /\ ActiveMatches' = ActiveMatches
      BY <1>1, <1>4 DEF PendingRows, ActiveMatches, Pending
    <2>6. OpenOnce' /\ MatchesFounded' /\ RowsTyped' /\ PeopleTyped'
      BY <1>1, <1>4, <2>1, <2>5 DEF ConnectionsInv, OpenOnce, MatchesFounded, RowsTyped, PeopleTyped
    <2>7. LocksHeld'
      <3>1. \A g \in Slots : slots'[g].locked => g # h /\ slots'[g] = slots[g]
        BY <2>3
      <3>2. \A g \in Slots : slots'[g].locked => LockKnows(g)'
        BY <1>4, <2>5, <3>1 DEF ConnectionsInv, LocksHeld, LockKnows
      <3> QED BY <3>1, <3>2 DEF ConnectionsInv, LocksHeld
    <2>8. AcceptKnows'
      BY <1>4, <2>3, <2>4 DEF ConnectionsInv, AcceptKnows, Pending
    <2>9. AcceptUnseparated /\ StoredUnblocked
      BY <1>1 DEF AcceptUnseparated, StoredUnblocked
    <2> QED BY <2>3, <2>6, <2>7, <2>8, <2>9 DEF ConnectionsInv
  <1> QED BY <1>2, <1>3, <1>4

-----------------------------------------------------------------------------
(* The transactions *)

\* What send() and accept() do when they make a match of an interest.
MatchFormed(row) ==
  /\ SetStatus({row}, "accepted")
  /\ matches' = Append(matches, [interest |-> row, active |-> TRUE])

\* A match of the only pending interest, when there is no other match, is the
\* only open thing and has an interest of its own.
LEMMA MatchForms ==
  ASSUME ConnectionsInv, NEW row \in DOMAIN interests, MatchFormed(row),
         PendingRows \subseteq {row}, ActiveMatches = {}, interests[row].status # "accepted"
  PROVE  /\ RowsTyped' /\ OpenOnce' /\ MatchesFounded' /\ DOMAIN interests' = DOMAIN interests
         /\ \A i \in DOMAIN interests : Pending(i)' => Pending(i)
  <1> DEFINE new == [interest |-> row, active |-> TRUE]
  <1>1. /\ RowsTyped /\ MatchesFounded /\ matches' = Append(matches, new)
        /\ SetStatus({row}, "accepted") /\ "accepted" \in InterestStatus
    BY DEF ConnectionsInv, MatchFormed, InterestStatus
  <1>2. /\ interests' \in Seq(InterestRow) /\ Len(interests') = Len(interests)
        /\ DOMAIN interests' = DOMAIN interests
        /\ interests'[row].status = "accepted"
        /\ \A i \in DOMAIN interests : i # row => interests'[i] = interests[i]
    BY <1>1, SetStatusRows
  <1>3. new \in MatchRow /\ new.interest = row
    BY <1>1, SeqDomain, BoundAssumption DEF MatchRow, RowsTyped
  <1> HIDE DEF new
  <1>4. /\ matches' \in Seq(MatchRow)
        /\ DOMAIN matches' = DOMAIN matches \cup {Len(matches) + 1}
        /\ Len(matches) + 1 \notin DOMAIN matches
        /\ matches'[Len(matches) + 1] = new
        /\ \A k \in DOMAIN matches : matches'[k] = matches[k]
    BY <1>1, <1>3, AppendSeq DEF RowsTyped
  <1>5. RowsTyped'
    BY <1>1, <1>2, <1>4 DEF RowsTyped
  <1>6. PendingRows' = {} /\ ActiveMatches' \subseteq {Len(matches) + 1}
    BY <1>2, <1>4 DEF PendingRows, ActiveMatches, Pending
  <1>7. OpenOnce'
    BY <1>6 DEF OpenOnce
  <1>8. \A k \in DOMAIN matches : matches[k].interest # row
    BY <1>1 DEF MatchesFounded
  <1>9. MatchesFounded'
    BY <1>1, <1>2, <1>3, <1>4, <1>8 DEF MatchesFounded
  <1>10. \A i \in DOMAIN interests : Pending(i)' => Pending(i)
    BY <1>2 DEF Pending
  <1> QED BY <1>2, <1>5, <1>7, <1>9, <1>10

LEMMA SendLockStep ==
  ASSUME ConnectionsInv, NEW h \in Slots, SendLock(h)
  PROVE  ConnectionsInv' /\ AcceptUnseparated /\ StoredUnblocked
  <1> DEFINE stale == {i \in PendingRows : interests[i].late}
             pending == PendingRows \ stale
             own == {i \in pending : interests[i].sender = slots[h].by}
             row == IF pending = {} THEN 0 ELSE CHOOSE i \in pending : TRUE
  <1>1. /\ RowsTyped /\ PeopleTyped /\ SlotsTyped
        /\ slots[h].op = "send" /\ ~slots[h].locked /\ LockFree
        /\ UNCHANGED <<acct, flags, blocks, reports, matches, msgs, safety>>
    BY DEF ConnectionsInv, SendLock, people
  <1>2. /\ Separated' = Separated /\ PeopleTyped'
        /\ AcceptUnseparated /\ StoredUnblocked
    BY <1>1 DEF Separated, PeopleTyped, AcceptUnseparated, StoredUnblocked
  <1>3. \/ Free(h) /\ UNCHANGED interests
        \/ ActiveMatches = {} /\ SetStatus(stale, "expired") /\ Free(h)
        \/ /\ ActiveMatches = {} /\ SetStatus(stale, "expired")
           /\ slots' = [slots EXCEPT ![h].locked = TRUE, ![h].row = row]
    BY DEF SendLock
  <1>4. pending = {} \/ row \in pending
    OBVIOUS
  <1>5. stale \subseteq PendingRows /\ "expired" \in InterestStatus \ {"pending", "accepted"}
    BY DEF InterestStatus
  <1>6. row \in 0..MaxInterests /\ (row # 0 => row \in pending) /\ (row = 0 => pending = {})
    <2>1. \A i \in pending : i \in 1..MaxInterests
      BY <1>1, SeqDomain, BoundAssumption DEF RowsTyped, PendingRows
    <2> QED BY <1>4, <2>1, BoundAssumption
  <1> HIDE DEF row
  <1>7. CASE Free(h) /\ UNCHANGED interests
    <2>1. /\ SlotsTyped' /\ slots'[h] = Idle
          /\ \A g \in Slots : g # h => slots'[g] = slots[g]
      BY <1>1, <1>7, FreeHandler
    <2>2. \A g \in Slots : slots'[g] = slots[g] \/ (slots'[g].op # "accept" /\ ~slots'[g].locked)
      BY <2>1, IdleHandler
    <2>3. RowsTyped' /\ OpenOnce' /\ MatchesFounded' /\ LocksHeld' /\ AcceptKnows'
      BY <1>1, <1>2, <1>7, <2>2, RowsAlone
    <2> QED BY <1>2, <2>1, <2>3 DEF ConnectionsInv
  <1>8. ASSUME SetStatus(stale, "expired")
        PROVE  /\ RowsTyped' /\ DOMAIN interests' = DOMAIN interests
               /\ \A i \in DOMAIN interests :
                    \/ interests'[i].status = interests[i].status
                    \/ Pending(i) /\ interests'[i].status \notin {"pending", "accepted"}
               /\ PendingRows' = pending
    <2>1. /\ interests' \in Seq(InterestRow) /\ Len(interests') = Len(interests)
          /\ DOMAIN interests' = DOMAIN interests
          /\ \A i \in DOMAIN interests :
               \/ interests'[i].status = interests[i].status
               \/ Pending(i) /\ interests'[i].status \notin {"pending", "accepted"}
      BY <1>5, <1>8, PendingAnswered
    <2>2. \A i \in DOMAIN interests :
              /\ i \in stale => interests'[i].status = "expired"
              /\ i \notin stale => interests'[i] = interests[i]
      BY <1>1, <1>5, <1>8, SetStatusRows
    <2>3. PendingRows' = pending
      BY <2>1, <2>2 DEF PendingRows, Pending
    <2> QED BY <1>1, <2>1, <2>3 DEF RowsTyped
  <1> HIDE DEF stale, pending, own
  <1>9. CASE SetStatus(stale, "expired") /\ Free(h)
    <2>1. /\ SlotsTyped' /\ slots'[h] = Idle
          /\ \A g \in Slots : g # h => slots'[g] = slots[g]
      BY <1>1, <1>9, FreeHandler
    <2>2. \A g \in Slots : slots'[g] = slots[g] \/ (slots'[g].op # "accept" /\ ~slots'[g].locked)
      BY <2>1, IdleHandler
    <2>3. OpenOnce' /\ MatchesFounded' /\ LocksHeld' /\ AcceptKnows'
      BY <1>1, <1>2, <1>8, <1>9, <2>2, NothingOpens
    <2> QED BY <1>2, <1>8, <1>9, <2>1, <2>3 DEF ConnectionsInv
  <1>10. CASE /\ ActiveMatches = {} /\ SetStatus(stale, "expired")
              /\ slots' = [slots EXCEPT ![h].locked = TRUE, ![h].row = row]
    <2>1. slots[h] \in Handler
      BY <1>1 DEF SlotsTyped
    <2>2. slots' = [slots EXCEPT ![h] = [slots[h] EXCEPT !.locked = TRUE, !.row = row]]
      BY <1>1, <1>10, <2>1 DEF SlotsTyped, Handler
    <2>3. LET v == [slots[h] EXCEPT !.locked = TRUE, !.row = row]
          IN  v \in Handler /\ v.op = "send" /\ v.locked /\ v.row = row /\ v.by = slots[h].by
      BY <1>1, <1>6, <2>1 DEF Handler
    <2>4. /\ slots' \in [Slots -> Handler]
          /\ slots'[h].op = "send" /\ slots'[h].locked /\ slots'[h].row = row
          /\ slots'[h].by = slots[h].by
          /\ \A g \in Slots : g # h => slots'[g] = slots[g]
      BY <1>1, <2>2, <2>3, OneSlot DEF SlotsTyped
    <2>5. SlotsTyped'
      BY <1>1, <2>4 DEF SlotsTyped
    <2>6. /\ RowsTyped' /\ DOMAIN interests' = DOMAIN interests
          /\ \A i \in DOMAIN interests :
               \/ interests'[i].status = interests[i].status
               \/ Pending(i) /\ interests'[i].status \notin {"pending", "accepted"}
          /\ PendingRows' = pending /\ ActiveMatches' = {}
      BY <1>1, <1>8, <1>10 DEF ActiveMatches
    <2>7. pending \subseteq PendingRows /\ \A i, j \in PendingRows : i = j
      BY DEF pending, ConnectionsInv, OpenOnce
    <2>8. OpenOnce'
      BY <2>6, <2>7 DEF OpenOnce
    <2>9. MatchesFounded'
      BY <1>1, <2>6 DEF ConnectionsInv, MatchesFounded, Pending
    <2>10. LockKnows(h)'
      <3>1. pending \subseteq {row} /\ (row = 0 => pending = {})
        BY <1>6, <2>7
      <3>2. row # 0 => row \in DOMAIN interests' /\ interests'[row].status # "accepted"
        <4>1. row # 0 => row \in PendingRows'
          BY <1>6, <2>6
        <4> QED BY <4>1 DEF PendingRows, Pending
      <3> QED BY <2>4, <2>6, <3>1, <3>2 DEF LockKnows
    <2>11. LocksHeld'
      <3>1. \A g \in Slots : slots'[g].locked => g = h
        BY <1>1, <2>4 DEF LockFree
      <3> QED BY <2>10, <3>1 DEF LocksHeld
    <2>12. AcceptKnows'
      <3> SUFFICES ASSUME NEW g \in Slots, slots'[g].op = "accept"
                   PROVE  slots'[g].row \in DOMAIN interests' /\ (Pending(slots[g].row)' => ~Separated')
        BY DEF AcceptKnows
      <3>1. slots'[g] = slots[g] /\ slots[g].row \in DOMAIN interests
              /\ (Pending(slots[g].row) => ~Separated)
        BY <2>4 DEF ConnectionsInv, AcceptKnows
      <3>2. Pending(slots[g].row)' => Pending(slots[g].row)
        BY <2>6, <3>1 DEF Pending
      <3> QED BY <1>2, <2>6, <3>1, <3>2
    <2> QED BY <1>2, <2>5, <2>6, <2>8, <2>9, <2>11, <2>12 DEF ConnectionsInv
  <1> QED BY <1>3, <1>7, <1>9, <1>10

LEMMA SendCommitStep ==
  ASSUME ConnectionsInv, NEW h \in Slots, SendCommit(h)
  PROVE  ConnectionsInv' /\ AcceptUnseparated /\ StoredUnblocked
  <1>1. /\ RowsTyped /\ PeopleTyped /\ SlotsTyped /\ MatchesFounded
        /\ slots[h].op = "send" /\ slots[h].locked /\ Free(h)
        /\ UNCHANGED <<acct, flags, blocks, reports, msgs, safety>>
    BY DEF ConnectionsInv, SendCommit, people
  <1>2. PICK row \in 0..MaxInterests : row = slots[h].row
    BY <1>1 DEF SlotsTyped, Handler
  <1>3. LockKnows(h) /\ \A g \in Slots : g # h => ~slots[g].locked
    BY <1>1 DEF ConnectionsInv, LocksHeld
  <1>4. /\ SlotsTyped' /\ slots'[h] = Idle
        /\ \A g \in Slots : g # h => slots'[g] = slots[g]
    BY <1>1, FreeHandler
  <1>5. \A g \in Slots : ~slots'[g].locked
    BY <1>3, <1>4, IdleHandler
  <1>6. LocksHeld' /\ PeopleTyped' /\ Separated' = Separated /\ StoredUnblocked
    BY <1>1, <1>5 DEF LocksHeld, PeopleTyped, Separated, StoredUnblocked
  <1>7. AcceptUnseparated
    <2>1. \A g \in Slots : slots[g].op = "accept" => g # h /\ slots'[g].op = "accept"
      BY <1>1, <1>4
    <2> QED BY <2>1 DEF AcceptUnseparated
  <1>8. \A g \in Slots : slots'[g].op = "accept" => slots'[g] = slots[g]
    BY <1>4, IdleHandler
  <1>9. CASE row = 0
    <2> DEFINE new == [sender |-> slots[h].by, status |-> "pending", late |-> FALSE]
    <2>1. /\ Len(interests) < MaxInterests /\ interests' = Append(interests, new) /\ UNCHANGED matches
          /\ PendingRows = {} /\ ActiveMatches = {}
      BY <1>2, <1>3, <1>9 DEF SendCommit, LockKnows
    <2>2. new \in InterestRow /\ new.status = "pending"
      BY <1>1 DEF InterestRow, InterestStatus, SlotsTyped
    <2> HIDE DEF new
    <2>3. /\ interests' \in Seq(InterestRow) /\ Len(interests') = Len(interests) + 1
          /\ DOMAIN interests' = DOMAIN interests \cup {Len(interests) + 1}
          /\ Len(interests) + 1 \notin DOMAIN interests
          /\ \A i \in DOMAIN interests : interests'[i] = interests[i]
      BY <1>1, <2>1, <2>2, AppendSeq DEF RowsTyped
    <2>4. RowsTyped'
      BY <1>1, <2>1, <2>3, SeqDomain, BoundAssumption DEF RowsTyped
    <2>5. PendingRows' \subseteq {Len(interests) + 1} /\ ActiveMatches' = {}
      BY <2>1, <2>3 DEF PendingRows, ActiveMatches, Pending
    <2>6. OpenOnce'
      BY <2>5 DEF OpenOnce
    <2>7. MatchesFounded'
      BY <1>1, <2>1, <2>3 DEF MatchesFounded
    <2>8. AcceptKnows'
      BY <1>6, <1>8, <2>3 DEF ConnectionsInv, AcceptKnows, Pending
    <2> QED BY <1>4, <1>6, <1>7, <2>4, <2>6, <2>7, <2>8 DEF ConnectionsInv
  <1>10. CASE row # 0
    <2> DEFINE new == [interest |-> row, active |-> TRUE]
    <2>1. /\ SetStatus({row}, "accepted") /\ matches' = Append(matches, new)
          /\ PendingRows \subseteq {row} /\ ActiveMatches = {}
          /\ row \in DOMAIN interests /\ interests[row].status # "accepted"
      BY <1>2, <1>3, <1>10 DEF SendCommit, LockKnows
    <2>2. MatchFormed(row)
      BY <2>1 DEF MatchFormed
    <2>3. /\ RowsTyped' /\ OpenOnce' /\ MatchesFounded' /\ DOMAIN interests' = DOMAIN interests
          /\ \A i \in DOMAIN interests : Pending(i)' => Pending(i)
      BY <2>1, <2>2, MatchForms
    <2>4. AcceptKnows'
      BY <1>6, <1>8, <2>3 DEF ConnectionsInv, AcceptKnows, Pending
    <2> QED BY <1>4, <1>6, <1>7, <2>3, <2>4 DEF ConnectionsInv
  <1> QED BY <1>9, <1>10

LEMMA AcceptCommitStep ==
  ASSUME ConnectionsInv, NEW h \in Slots, AcceptCommit(h)
  PROVE  ConnectionsInv' /\ AcceptUnseparated /\ StoredUnblocked
  <1>1. /\ RowsTyped /\ PeopleTyped /\ SlotsTyped /\ MatchesFounded
        /\ slots[h].op = "accept" /\ LockFree /\ Free(h)
        /\ UNCHANGED <<acct, flags, blocks, reports, msgs, safety>>
    BY DEF ConnectionsInv, AcceptCommit, people
  <1>2. PICK row \in DOMAIN interests : row = slots[h].row /\ (Pending(row) => ~Separated)
    BY <1>1 DEF ConnectionsInv, AcceptKnows
  <1>3. /\ SlotsTyped' /\ slots'[h] = Idle
        /\ \A g \in Slots : g # h => slots'[g] = slots[g]
    BY <1>1, FreeHandler
  <1>4. /\ \A g \in Slots : ~slots'[g].locked
        /\ \A g \in Slots : slots'[g].op = "accept" => slots'[g] = slots[g]
    BY <1>1, <1>3, IdleHandler DEF LockFree
  <1>5. LocksHeld' /\ PeopleTyped' /\ Separated' = Separated /\ StoredUnblocked
    BY <1>1, <1>4 DEF LocksHeld, PeopleTyped, Separated, StoredUnblocked
  <1>6. CASE Pending(row)
    <2>1. row \in PendingRows
      BY <1>6 DEF PendingRows
    <2>2. ActiveMatches = {} /\ PendingRows \subseteq {row} /\ interests[row].status # "accepted"
      BY <1>6, <2>1 DEF ConnectionsInv, OpenOnce, Pending
    <2>3. MatchFormed(row)
      BY <1>2, <1>6, <2>2 DEF AcceptCommit, StillPending, MatchFormed
    <2>4. /\ RowsTyped' /\ OpenOnce' /\ MatchesFounded' /\ DOMAIN interests' = DOMAIN interests
          /\ \A i \in DOMAIN interests : Pending(i)' => Pending(i)
      BY <2>2, <2>3, MatchForms
    <2>5. AcceptKnows'
      BY <1>4, <1>5, <2>4 DEF ConnectionsInv, AcceptKnows, Pending
    <2>6. AcceptUnseparated
      BY <1>2, <1>5, <1>6 DEF AcceptUnseparated
    <2> QED BY <1>3, <1>5, <2>4, <2>5, <2>6 DEF ConnectionsInv
  <1>7. CASE ~Pending(row)
    <2>1. UNCHANGED <<interests, matches>>
      BY <1>2, <1>7 DEF AcceptCommit, StillPending
    <2>2. \A g \in Slots : slots'[g] = slots[g] \/ (slots'[g].op # "accept" /\ ~slots'[g].locked)
      BY <1>4
    <2>3. RowsTyped' /\ OpenOnce' /\ MatchesFounded' /\ LocksHeld' /\ AcceptKnows'
      BY <1>5, <2>1, <2>2, RowsAlone
    <2>4. AcceptUnseparated
      BY <2>1 DEF AcceptUnseparated
    <2> QED BY <1>3, <1>5, <2>3, <2>4 DEF ConnectionsInv
  <1> QED BY <1>6, <1>7

-----------------------------------------------------------------------------
(* Theorems *)

LEMMA InitConnections == Init => ConnectionsInv
  <1> SUFFICES ASSUME Init PROVE ConnectionsInv
    OBVIOUS
  <1>1. RowsTyped /\ PeopleTyped
    BY BoundAssumption DEF Init, RowsTyped, PeopleTyped
  <1>2. SlotsTyped /\ LocksHeld /\ AcceptKnows
    BY IdleHandler DEF Init, SlotsTyped, LocksHeld, AcceptKnows
  <1>3. DOMAIN interests = {} /\ DOMAIN matches = {}
    BY DEF Init
  <1>4. OpenOnce /\ MatchesFounded
    BY <1>3 DEF OpenOnce, MatchesFounded, PendingRows, ActiveMatches
  <1> QED BY <1>1, <1>2, <1>4 DEF ConnectionsInv

LEMMA NextConnections ==
  ASSUME ConnectionsInv, [Next]_vars
  PROVE  ConnectionsInv' /\ [AcceptUnseparated]_vars /\ [StoredUnblocked]_vars
  <1>1. ASSUME NEW m \in Members, MemberStep(m)
        PROVE  ConnectionsInv' /\ AcceptUnseparated /\ StoredUnblocked
    <2>1. ASSUME NEW i \in DOMAIN interests, Respond(m, i)
          PROVE  ConnectionsInv' /\ AcceptUnseparated /\ StoredUnblocked
      <3>1. /\ UNCHANGED <<acct, flags, blocks, reports, matches, msgs, slots, safety>>
            /\ i \in PendingRows
            /\ \E status \in InterestStatus \ {"pending", "accepted"} : SetStatus({i}, status)
        BY <2>1 DEF Respond, people, InterestStatus
      <3> QED BY <3>1, AnswerStep
    <2> QED BY <1>1, <2>1, CheckStep, AcceptCheckStep, EndingStep DEF MemberStep
  <1>2. ASSUME NEW m \in Members, ModeratorStep(m)
        PROVE  ConnectionsInv' /\ AcceptUnseparated /\ StoredUnblocked
    BY <1>2, EndingStep DEF ModeratorStep
  <1>3. ASSUME NEW h \in Slots, HandlerStep(h)
        PROVE  ConnectionsInv' /\ AcceptUnseparated /\ StoredUnblocked
    BY <1>3, SendLockStep, SendCommitStep, AcceptCommitStep, ChatStoreStep DEF HandlerStep
  <1>4. ASSUME NEW i \in DOMAIN interests, TimePasses(i)
        PROVE  ConnectionsInv' /\ AcceptUnseparated /\ StoredUnblocked
    BY <1>4, AnswerStep DEF TimePasses, people
  <1>5. CASE CloseMatch
    <2>1. PICK m \in Members : TRUE
      BY PairAssumption
    <2> QED BY <1>5, EndingStep
  <1>6. CASE UNCHANGED vars
    <2>1. Separated' = Separated /\ PeopleTyped' /\ SlotsTyped'
      BY <1>6 DEF vars, Separated, ConnectionsInv, PeopleTyped, SlotsTyped
    <2>2. RowsTyped' /\ OpenOnce' /\ MatchesFounded' /\ LocksHeld' /\ AcceptKnows'
      BY <1>6, <2>1, RowsAlone DEF vars
    <2> QED BY <1>6, <2>1, <2>2 DEF ConnectionsInv
  <1> QED BY <1>1, <1>2, <1>3, <1>4, <1>5, <1>6 DEF Next

\* Every state of a pair is well typed; in particular a handler's row is within
\* the bound because there are no more matches than interests.
THEOREM PairTypes == Spec => []TypeOK
  <1>1. ConnectionsInv => TypeOK
    BY SeqDomain DEF ConnectionsInv, RowsTyped, PeopleTyped, SlotsTyped, MatchesFounded, AcceptKnows, TypeOK
  <1>2. ConnectionsInv /\ [Next]_vars => ConnectionsInv'
    BY NextConnections
  <1> QED BY InitConnections, <1>1, <1>2, PTL DEF Spec

\* The pair lock alone keeps at most one pending interest or active match
\* between two members, for any number of overlapping requests.
THEOREM PairHasOneOpenThing == Spec => []OneOpenThing
  <1>1. ASSUME ConnectionsInv
        PROVE  Cardinality(PendingRows) + Cardinality(ActiveMatches) <= 1
    <2>1. PendingRows = {} \/ \E i : PendingRows = {i}
      BY <1>1 DEF ConnectionsInv, OpenOnce
    <2>2. ActiveMatches = {} \/ \E k : ActiveMatches = {k}
      BY <1>1 DEF ConnectionsInv, OpenOnce
    <2>3. Cardinality(PendingRows) \in {0, 1} /\ (PendingRows = {} => Cardinality(PendingRows) = 0)
      BY <2>1, FS_EmptySet, FS_Singleton
    <2>4. Cardinality(ActiveMatches) \in {0, 1} /\ (ActiveMatches = {} => Cardinality(ActiveMatches) = 0)
      BY <2>2, FS_EmptySet, FS_Singleton
    <2> QED BY <1>1, <2>3, <2>4 DEF ConnectionsInv, OpenOnce
  <1>2. ConnectionsInv => OneOpenThing
    BY <1>1 DEF ConnectionsInv, MatchesFounded, OneOpenThing
  <1>3. ConnectionsInv /\ [Next]_vars => ConnectionsInv'
    BY NextConnections
  <1> QED BY InitConnections, <1>2, <1>3, PTL DEF Spec

\* accept(), which checks blocks and reports before its transaction and not in
\* it, never matches two members who are separated when it commits.
THEOREM AcceptsHonourSeparation == Spec => AcceptHonoursSeparation
  <1>1. ConnectionsInv /\ [Next]_vars => ConnectionsInv' /\ [AcceptUnseparated]_vars
    BY NextConnections
  <1> QED BY InitConnections, <1>1, PTL DEF Spec, AcceptHonoursSeparation

\* No message is stored once a block has committed, whatever a send() in flight
\* had checked before it.
THEOREM BlocksStopMessages == Spec => BlockStopsMessages
  <1>1. ConnectionsInv /\ [Next]_vars => ConnectionsInv' /\ [StoredUnblocked]_vars
    BY NextConnections
  <1> QED BY InitConnections, <1>1, PTL DEF Spec, BlockStopsMessages
=============================================================================
