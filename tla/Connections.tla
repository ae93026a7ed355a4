----------------------------- MODULE Connections -----------------------------
(***************************************************************************)
(* Everything two members can have between them: interests, matches, the   *)
(* chat, blocks and reports, and the moderator actions that end them       *)
(* (apps/api/src/modules/interests, chat, safety, admin).                  *)
(*                                                                         *)
(* The module follows ONE pair: lockPair() serialises per pair, and an     *)
(* operation on one pair never reads another pair's rows.  Requests are    *)
(* handled concurrently: a handler first checks the rules without a lock   *)
(* and only then starts the transaction that takes the pair's advisory     *)
(* lock.  `slots' holds what each handler in flight read.  Three operations*)
(* do not take the pair lock: respond() (decline, withdraw), a ban and an  *)
(* interaction restriction.  A transaction is one step, except send()'s,   *)
(* which reads a pending interest and later overwrites it.  A ban or a     *)
(* restriction may be one step because it holds the user's row FOR UPDATE  *)
(* and so holds back every insert that refers to that user.                *)
(*                                                                         *)
(* Abstracted: IDs of rows are positions; `late' stands for the clock (14  *)
(* days to expiry of a pending interest, 30 days after a decline); a match *)
(* is active or ended (how it ended is not used again); profile rules of   *)
(* eligibility (age, gender, photo, discovery) are the choice `mutual'.    *)
(***************************************************************************)
EXTENDS Naturals, Sequences, FiniteSets

CONSTANTS
  Members,       \* the pair
  Slots,         \* handlers in flight at once
  MsgIds,        \* client message IDs
  MaxInterests,  \* bound on rows of partner_interests
  MaxSafety      \* bound on safety and moderation actions

ASSUME PairAssumption == \E a, b \in Members : a # b /\ Members = {a, b}
ASSUME BoundAssumption == MaxInterests \in Nat /\ MaxSafety \in Nat

VARIABLES
  acct,       \* users.status of each member
  flags,      \* hidden_from_discovery, interactions_restricted_at, chat_restricted_at
  blocks,     \* members who blocked the other
  reports,    \* members who reported the other
  interests,  \* partner_interests, oldest first
  matches,    \* matches, oldest first
  msgs,       \* stored messages: <<sender, client message ID>>
  slots,      \* handlers between their checks and their transaction
  safety      \* safety and moderation actions so far

vars == <<acct, flags, blocks, reports, interests, matches, msgs, slots, safety>>
people == <<acct, flags, blocks, reports>>

Other(m) == CHOOSE o \in Members : o # m

InterestStatus == {"pending", "accepted", "declined", "withdrawn", "cancelled", "expired"}
InterestRow == [sender : Members, status : InterestStatus, late : BOOLEAN]
MatchRow == [interest : 1..MaxInterests, active : BOOLEAN]

Flag == {"hidden", "restricted", "muted"}
Handler == [op : {"idle", "send", "accept", "chat"}, by : Members \cup {"nobody"},
            locked : BOOLEAN, row : 0..MaxInterests]

Idle == [op |-> "idle", by |-> "nobody", locked |-> FALSE, row |-> 0]

Init ==
  /\ acct = [m \in Members |-> "active"]
  /\ flags = [m \in Members |-> {}]
  /\ blocks = {} /\ reports = {}
  /\ interests = <<>> /\ matches = <<>> /\ msgs = {}
  /\ slots = [h \in Slots |-> Idle]
  /\ safety = 0

-----------------------------------------------------------------------------
(* What the handlers read. *)

Pending(i) == interests[i].status = "pending"
PendingRows == {i \in DOMAIN interests : Pending(i)}
ActiveMatches == {k \in DOMAIN matches : matches[k].active}

Separated == blocks # {} \/ reports # {}

\* lockPair(): only a send() that is inside its transaction holds the lock
\* across steps; every other locked transaction is one step.
LockFreeNever == TRUE
LockFree == \A h \in Slots : ~slots[h].locked

\* The pair's part of the eligibility WHERE clause.
Declined(viewer) ==
  \E i \in DOMAIN interests : /\ interests[i].sender = viewer
                              /\ interests[i].status = "declined"
                              /\ ~interests[i].late

EligibleRules(viewer) ==
  /\ acct[Other(viewer)] = "active"
  /\ flags[Other(viewer)] \cap {"hidden", "restricted"} = {}
  /\ ~Separated
  /\ ~Declined(viewer)

\* requireActiveMember, then assertCanInteract().
CanInteract(m) == flags[m] \cap {"hidden", "restricted"} = {}

Put(h, op, m, row) ==
  slots' = [slots EXCEPT ![h] = [op |-> op, by |-> m, locked |-> FALSE, row |-> row]]
Free(h) == slots' = [slots EXCEPT ![h] = Idle]
IsIdle(h) == slots[h].op = "idle"

SetStatus(rows, status) ==
  interests' = [i \in DOMAIN interests |->
                  IF i \in rows THEN [interests[i] EXCEPT !.status = status] ELSE interests[i]]

-----------------------------------------------------------------------------
(* Interests. *)

\* send(): every check before the transaction.
SendCheck(h, m) ==
  /\ IsIdle(h)
  /\ acct[m] = "active" /\ CanInteract(m) /\ EligibleRules(m)
  /\ Put(h, "send", m, 0)
  /\ UNCHANGED <<people, interests, matches, msgs, safety>>

\* Inside the lock: expireStale(), then the reads.  ALREADY_MATCHED rolls back,
\* and a repeated send returns the pending interest.
SendLock(h) ==
  LET m == slots[h].by
      stale == {i \in PendingRows : interests[i].late}
      pending == PendingRows \ stale
      own == {i \in pending : interests[i].sender = m}
  IN /\ slots[h].op = "send" /\ ~slots[h].locked /\ LockFree
     /\ IF ActiveMatches # {}
          THEN Free(h) /\ UNCHANGED interests
          ELSE /\ SetStatus(stale, "expired")
               /\ IF own # {}
                    THEN Free(h)
                    ELSE slots' = [slots EXCEPT ![h].locked = TRUE,
                                     ![h].row = IF pending = {} THEN 0
                                                ELSE CHOOSE i \in pending : TRUE]
     /\ UNCHANGED <<people, matches, msgs, safety>>

\* The writes: a new interest, or theirs accepted (an UPDATE by ID) and a match.
SendCommit(h) ==
  LET m == slots[h].by
      row == slots[h].row
  IN /\ slots[h].op = "send" /\ slots[h].locked
     /\ IF row = 0
          THEN /\ Len(interests) < MaxInterests
               /\ interests' = Append(interests,
                                  [sender |-> m, status |-> "pending", late |-> FALSE])
               /\ UNCHANGED matches
          ELSE /\ SetStatus({row}, "accepted")
               /\ matches' = Append(matches, [interest |-> row, active |-> TRUE])
     /\ Free(h)
     /\ UNCHANGED <<people, msgs, safety>>

\* accept(): the checks, which may expire or cancel the interest instead.
AcceptCheck(h, m, i, mutual) ==
  /\ IsIdle(h)
  /\ i \in PendingRows /\ interests[i].sender = Other(m)
  /\ acct[m] = "active" /\ CanInteract(m)
  /\ CASE interests[i].late ->
            SetStatus({i}, "expired") /\ UNCHANGED slots
       [] ~interests[i].late /\ ~(mutual /\ EligibleRules(m)) ->
            SetStatus({i}, "cancelled") /\ UNCHANGED slots
       [] OTHER -> Put(h, "accept", m, i) /\ UNCHANGED interests
  /\ UNCHANGED <<people, matches, msgs, safety>>

\* accept(): the transaction re-reads the interest FOR UPDATE.
StillPending(i) == Pending(i)

AcceptCommit(h) ==
  LET i == slots[h].row
  IN /\ slots[h].op = "accept" /\ LockFree
     /\ IF StillPending(i)
          THEN /\ SetStatus({i}, "accepted")
               /\ matches' = IF ActiveMatches # {} THEN matches
                             ELSE Append(matches, [interest |-> i, active |-> TRUE])
          ELSE UNCHANGED <<interests, matches>>
     /\ Free(h)
     /\ UNCHANGED <<people, msgs, safety>>

\* respond(): one conditional UPDATE, without the pair lock.
Respond(m, i) ==
  /\ i \in PendingRows /\ ~interests[i].late
  /\ acct[m] = "active"
  /\ SetStatus({i}, IF interests[i].sender = m THEN "withdrawn" ELSE "declined")
  /\ UNCHANGED <<people, matches, msgs, slots, safety>>

\* The clock: a pending interest passes expires_at, a decline its cooldown.
TimePasses(i) ==
  /\ interests[i].status \in {"pending", "declined"} /\ ~interests[i].late
  /\ interests' = [interests EXCEPT ![i].late = TRUE]
  /\ UNCHANGED <<people, matches, msgs, slots, safety>>

-----------------------------------------------------------------------------
(* Ending things. *)

End(rows) ==
  matches' = [k \in DOMAIN matches |->
                IF k \in rows THEN [matches[k] EXCEPT !.active = FALSE] ELSE matches[k]]

EndConnectionsMatchOnly == End(ActiveMatches) /\ UNCHANGED interests
EndConnections == SetStatus(PendingRows, "cancelled") /\ End(ActiveMatches)

Counted == safety < MaxSafety /\ safety' = safety + 1

Block(m) ==
  /\ Counted /\ LockFree
  /\ acct[m] # "banned"
  /\ blocks' = blocks \cup {m}
  /\ EndConnections
  /\ UNCHANGED <<acct, flags, reports, msgs, slots>>

Unblock(m) ==
  /\ Counted
  /\ m \in blocks /\ acct[m] # "banned"
  /\ blocks' = blocks \ {m}
  /\ UNCHANGED <<acct, flags, reports, interests, matches, msgs, slots>>

\* A report separates the pair whether or not the reporter also blocks; a new
\* urgent report, or the third reporter, hides the reported member.
Report(m, alsoBlock, hide) ==
  /\ Counted /\ LockFree
  /\ acct[m] # "banned"
  /\ reports' = reports \cup {m}
  /\ blocks' = IF alsoBlock THEN blocks \cup {m} ELSE blocks
  /\ flags' = IF hide THEN [flags EXCEPT ![Other(m)] = @ \cup {"hidden"}] ELSE flags
  /\ EndConnections
  /\ UNCHANGED <<acct, msgs, slots>>

\* unmatch() by a member.
Unmatch(m) ==
  /\ LockFree /\ acct[m] = "active"
  /\ ActiveMatches # {}
  /\ End(ActiveMatches)
  /\ UNCHANGED <<people, interests, msgs, slots, safety>>

\* close() by a moderator.
CloseMatch ==
  /\ Counted /\ LockFree
  /\ ActiveMatches # {}
  /\ EndConnections
  /\ UNCHANGED <<people, msgs, slots>>

-----------------------------------------------------------------------------
(* Moderation of one member, without the pair lock. *)

\* setInteractionRestriction(): the flag, and cancelPendingInterestsOf().
SetInteractionRestriction(m) ==
  /\ Counted
  /\ "restricted" \notin flags[m]
  /\ flags' = [flags EXCEPT ![m] = @ \cup {"restricted"}]
  /\ SetStatus(PendingRows, "cancelled")
  /\ UNCHANGED <<acct, blocks, reports, matches, msgs, slots>>

\* A chat restriction.
RestrictChat(m) ==
  /\ Counted
  /\ acct[m] # "banned" /\ "muted" \notin flags[m]
  /\ flags' = [flags EXCEPT ![m] = @ \cup {"muted"}]
  /\ UNCHANGED <<acct, blocks, reports, interests, matches, msgs, slots>>

\* A restriction is lifted, by a moderator or by the expiry job.
LiftFlag(m, f) ==
  /\ Counted
  /\ f \in flags[m]
  /\ flags' = [flags EXCEPT ![m] = @ \ {f}]
  /\ UNCHANGED <<acct, blocks, reports, interests, matches, msgs, slots>>

\* A suspension leaves matches and interests alone.
Suspend(m) ==
  /\ Counted
  /\ acct[m] = "active"
  /\ acct' = [acct EXCEPT ![m] = "suspended"]
  /\ UNCHANGED <<flags, blocks, reports, interests, matches, msgs, slots>>

\* A suspension or a ban is lifted; nothing that ended is restored.
Reactivate(m) ==
  /\ Counted
  /\ acct[m] # "active"
  /\ acct' = [acct EXCEPT ![m] = "active"]
  /\ UNCHANGED <<flags, blocks, reports, interests, matches, msgs, slots>>

\* A ban: endAllMatchesOf() and cancelPendingInterestsOf().
Ban(m) ==
  /\ Counted
  /\ acct[m] # "banned"
  /\ acct' = [acct EXCEPT ![m] = "banned"]
  /\ EndConnections
  /\ UNCHANGED <<flags, blocks, reports, msgs, slots>>

-----------------------------------------------------------------------------
(* Chat. *)

\* authorize(): the match is active, the partner's account too, no block.
Authorized(m, k) ==
  /\ matches[k].active
  /\ acct[Other(m)] = "active"
  /\ blocks = {}

\* send(): the checks before the transaction.
ChatCheck(h, m, k) ==
  /\ IsIdle(h)
  /\ acct[m] = "active" /\ "muted" \notin flags[m] /\ Authorized(m, k)
  /\ Put(h, "chat", m, k)
  /\ UNCHANGED <<people, interests, matches, msgs, safety>>

\* The transaction checks everything again under the pair lock.
RecheckNone(m, k) == TRUE
Recheck(m, k) == Authorized(m, k) /\ "muted" \notin flags[m]

\* A stored message may be the one that makes afterMessage() hide its sender.
ChatStore(h, c, suspicious) ==
  LET m == slots[h].by
  IN /\ slots[h].op = "chat" /\ LockFree
     /\ IF Recheck(m, slots[h].row) /\ <<m, c>> \notin msgs
          THEN /\ msgs' = msgs \cup {<<m, c>>}
               /\ flags' = IF suspicious THEN [flags EXCEPT ![m] = @ \cup {"hidden"}] ELSE flags
          ELSE UNCHANGED <<msgs, flags>>
     /\ Free(h)
     /\ UNCHANGED <<acct, blocks, reports, interests, matches, safety>>

-----------------------------------------------------------------------------
MemberStep(m) ==
  \/ \E h \in Slots : SendCheck(h, m)
  \/ \E h \in Slots, i \in DOMAIN interests, mutual \in BOOLEAN : AcceptCheck(h, m, i, mutual)
  \/ \E i \in DOMAIN interests : Respond(m, i)
  \/ \E h \in Slots, k \in DOMAIN matches : ChatCheck(h, m, k)
  \/ Block(m) \/ Unblock(m) \/ Unmatch(m)
  \/ \E alsoBlock, hide \in BOOLEAN : Report(m, alsoBlock, hide)

HandlerStep(h) ==
  \/ SendLock(h) \/ SendCommit(h) \/ AcceptCommit(h)
  \/ \E c \in MsgIds, suspicious \in BOOLEAN : ChatStore(h, c, suspicious)

ModeratorStep(m) ==
  \/ SetInteractionRestriction(m) \/ RestrictChat(m) \/ Suspend(m) \/ Reactivate(m) \/ Ban(m)
  \/ \E f \in Flag : LiftFlag(m, f)

Next ==
  \/ \E m \in Members : MemberStep(m) \/ ModeratorStep(m)
  \/ \E h \in Slots : HandlerStep(h)
  \/ \E i \in DOMAIN interests : TimePasses(i)
  \/ CloseMatch

Spec == Init /\ [][Next]_vars

-----------------------------------------------------------------------------
(* Properties. *)

\* Every variable has its type, and no handler or match refers to a missing row.
TypeOK ==
  /\ acct \in [Members -> {"active", "suspended", "banned"}]
  /\ flags \in [Members -> SUBSET Flag]
  /\ blocks \subseteq Members /\ reports \subseteq Members
  /\ Len(interests) <= MaxInterests
  /\ \A i \in DOMAIN interests : interests[i] \in InterestRow
  /\ \A k \in DOMAIN matches : matches[k] \in MatchRow
  /\ msgs \subseteq Members \X MsgIds
  /\ slots \in [Slots -> Handler]
  /\ safety \in 0..MaxSafety
  /\ \A k \in DOMAIN matches : matches[k].interest \in DOMAIN interests
  /\ \A h \in Slots : slots[h].op = "accept" => slots[h].row \in DOMAIN interests

\* lockPair() alone, without the partial unique indexes behind it, keeps at most
\* one open thing between two members: one pending interest, or one active match.
\* Every match stems from an accepted interest and no interest yields two matches,
\* whatever repeats of send(), accept() and unmatch() overlap (interests.service.ts).
OneOpenThing ==
  /\ Cardinality(PendingRows) + Cardinality(ActiveMatches) <= 1
  /\ \A k \in DOMAIN matches : interests[matches[k].interest].status = "accepted"
  /\ \A j, k \in DOMAIN matches : matches[j].interest = matches[k].interest => j = k

\* The step that an accept() commits a match with leaves nobody separated.
AcceptUnseparated ==
  \A h \in Slots :
    slots[h].op = "accept" /\ Len(matches') > Len(matches) /\ slots'[h].op = "idle" => ~Separated'

\* accept() checks blocks and reports before it takes the pair lock and never
\* again; it still never matches two members whom a block or a report separates
\* by the time it commits.
AcceptHonoursSeparation == [][AcceptUnseparated]_vars

\* A step that stores a message finds no block.
StoredUnblocked == msgs' # msgs => blocks' = {}

\* No message is stored after a block that committed first (connections.ts).
BlockStopsMessages == [][StoredUnblocked]_vars

\* Two members with a report between them have no active match ("the two
\* members never see each other again ... any pending interest or match between
\* them ends", docs/matching/privacy.md).  Does not hold: two sends that passed the
\* check before the report still form a match.
ReportEndsMatches == reports # {} => ActiveMatches = {}
=============================================================================
