------------------------------ MODULE Accounts ------------------------------
(* One member's account: the users row, its sanction rows, its sessions and   *)
(* its open sockets.                                                          *)
(*                                                                            *)
(* users.status and users.chat_restricted_at cache the active sanction rows.  *)
(* Transactions that change them meet on three kinds of row locks, and do not *)
(* take them in the same order:                                               *)
(*   apply, lift      the users row, then sanction rows, then session rows    *)
(*   expire           due sanction rows (SKIP LOCKED), then the users row     *)
(*   refresh          its session row, then the users row (last activity)     *)
(*   login            nothing, then the users row                             *)
(* A transaction is two steps: it takes its first lock and reads; later it    *)
(* waits for the rest, writes and commits. PostgreSQL ends a cycle of waiting *)
(* transactions by aborting one of them.                                      *)
EXTENDS Naturals, Sequences, FiniteSets

CONSTANTS
    SessionIds,    \* sign-ins of the member
    Slots,         \* requests in flight at the same time
    Job,           \* the process's expiry job, which runs one transaction at a time
    MaxSanctions,  \* bound: sanctions moderators try to apply
    NoSession

ASSUME AccountsAssumption ==
    /\ MaxSanctions \in Nat
    /\ NoSession \notin SessionIds
    /\ Job \notin Slots

VARIABLES
    user,          \* the users row: status, chatRestricted
    sanctions,     \* the user_sanctions rows, in order of creation
    sessions,      \* the user_sessions rows
    sockets,       \* one socket per session
    work,          \* transactions in flight
    tries          \* sanctions tried so far

accountVars == <<user, sanctions, sessions, sockets, work, tries>>

SanctionTypes == {"warning", "chat_restriction", "suspension", "ban"}
TimedTypes == {"chat_restriction", "suspension"}
AccountStatus == {"active", "suspended", "banned"}
SessionState == {"none", "live", "revoked", "expired"}
\* "checked": the handshake has passed, the socket has not joined the member's room yet.
SocketState == {"closed", "checked", "open"}

SanctionRow ==
    [type: SanctionTypes, ends: {"never", "later", "due"},
     state: {"active", "revoked", "expired"}, acknowledged: BOOLEAN]

Threads == Slots \cup {Job}

Operation == {"idle", "apply", "lift", "effects", "expire", "refresh", "login"}

Transaction ==
    [op: Operation, type: SanctionTypes, ends: {"never", "later"},
     rows: SUBSET (1..MaxSanctions), session: SessionIds \cup {NoSession},
     touches: BOOLEAN, queued: BOOLEAN]

Idle ==
    [op |-> "idle", type |-> "warning", ends |-> "never", rows |-> {},
     session |-> NoSession, touches |-> FALSE, queued |-> FALSE]

AccountInit ==
    /\ user = [status |-> "active", chatRestricted |-> FALSE]
    /\ sanctions = <<>>
    /\ sessions = [s \in SessionIds |-> "none"]
    /\ sockets = [s \in SessionIds |-> "closed"]
    /\ work = [h \in Threads |-> Idle]
    /\ tries = 0

-----------------------------------------------------------------------------
(* Rows and locks *)

\* The rows of a type that are neither revoked nor expired.
Active(type) ==
    {i \in DOMAIN sanctions : sanctions[i].type = type /\ sanctions[i].state = "active"}

Live == {s \in SessionIds : sessions[s] = "live"}

\* The sanction is already in effect, by its row or by the cached state.
InEffect(type) ==
    \/ Active(type) # {}
    \/ type = "suspension" /\ user.status = "suspended"
    \/ type = "chat_restriction" /\ user.chatRestricted
    \/ type = "ban" /\ user.status = "banned"

RestrictsAccount(t) == t.op = "apply" /\ t.type \in {"suspension", "ban"}

\* The sanction rows a moderator's transaction updates before it commits.
RowsWritten(t) ==
    CASE t.op = "apply" /\ t.type = "ban" -> Active("suspension")
      [] t.op = "lift" -> Active(t.type)
      [] OTHER -> {}

SessionsWritten(t) == IF RestrictsAccount(t) THEN Live ELSE {}

\* Does the transaction still have to update the users row?
WritesUser(t) ==
    \/ t.op = "login"
    \/ t.op = "refresh" /\ t.touches
    \/ /\ t.op = "expire"
       /\ \E i \in t.rows : \/ sanctions[i].type = "chat_restriction"
                            \/ sanctions[i].type = "suspension" /\ user.status = "suspended"

HoldsUser(t) == t.op \in {"apply", "lift"}

\* h cannot go on before k commits.
Waits(h, k) ==
    /\ h # k
    /\ \/ WritesUser(work[h]) /\ HoldsUser(work[k])
       \/ RowsWritten(work[h]) \cap work[k].rows # {}
       \/ work[k].op = "refresh" /\ work[k].session \in SessionsWritten(work[h])

CanCommit(h) == \A k \in Threads : ~Waits(h, k)

\* A wrong Deadlocked: the cycle between the job and a moderator is not seen.
DeadlockedRequests(h) ==
    h # Job /\ \E k \in Slots : Waits(h, k) /\ Waits(k, h)

\* Two transactions wait for each other.
Deadlocked(h) == \E k \in Threads : Waits(h, k) /\ Waits(k, h)

UserUnlocked == \A k \in Threads : ~HoldsUser(work[k])

\* A row another transaction is queued for goes to that transaction first.
SessionUnlocked(s) ==
    \A k \in Threads :
        /\ ~(work[k].op = "refresh" /\ work[k].session = s)
        /\ ~(work[k].queued /\ s \in SessionsWritten(work[k]))
RowUnlocked(i) ==
    \A k \in Threads : i \notin work[k].rows /\ ~(work[k].queued /\ i \in RowsWritten(work[k]))

Start(h, t) == work[h] = Idle /\ work' = [work EXCEPT ![h] = t]
Finish(h) == work' = [work EXCEPT ![h] = Idle]

\* The rows in S leave the state "active"; when they would have ended is not read any more.
EndRows(S, state) ==
    [i \in DOMAIN sanctions |->
        IF i \in S THEN [sanctions[i] EXCEPT !.state = state, !.ends = "never"] ELSE sanctions[i]]

EndSessions(S, state) ==
    [s \in SessionIds |-> IF s \in S THEN state ELSE sessions[s]]

-----------------------------------------------------------------------------
(* Sanctions *)

\* applySanction() up to the INSERT: the users row is locked, the request is not refused.
BeginApply(h, type, ends) ==
    /\ ends = "later" => type \in TimedTypes
    /\ UserUnlocked
    /\ user.status = "banned" => type = "ban"
    /\ type # "warning" => ~InEffect(type)
    /\ tries < MaxSanctions
    /\ tries' = tries + 1
    /\ Start(h, [Idle EXCEPT !.op = "apply", !.type = type, !.ends = ends])
    /\ UNCHANGED <<user, sanctions, sessions, sockets>>

\* A wrong Superseded: the suspension stays active beside the ban.
SupersededNothing(t) == sanctions

\* A ban supersedes the running suspension.
Superseded(t) == EndRows(RowsWritten(t), "revoked")

SanctionedUser(type) ==
    [status |-> CASE type = "suspension" -> "suspended"
                  [] type = "ban" -> "banned"
                  [] OTHER -> user.status,
     chatRestricted |-> user.chatRestricted \/ type = "chat_restriction"]

\* The rest of applySanction() with setAccountStatus(), and COMMIT.
CommitApply(h) ==
    LET t == work[h] IN
    /\ t.op = "apply"
    /\ CanCommit(h)
    /\ sanctions' = Append(Superseded(t),
           [type |-> t.type, ends |-> t.ends, state |-> "active", acknowledged |-> FALSE])
    /\ user' = SanctionedUser(t.type)
    /\ sessions' = EndSessions(SessionsWritten(t), "revoked")
    /\ work' = [work EXCEPT ![h] = [Idle EXCEPT !.op = "effects", !.type = t.type]]
    /\ UNCHANGED <<sockets, tries>>

\* applySanctionEffects(): hub.disconnectUser() reaches the sockets that have joined.
Effects(h) ==
    /\ work[h].op = "effects"
    /\ sockets' = IF work[h].type \in {"suspension", "ban"}
                  THEN [s \in SessionIds |-> IF sockets[s] = "open" THEN "closed" ELSE sockets[s]]
                  ELSE sockets
    /\ Finish(h)
    /\ UNCHANGED <<user, sanctions, sessions, tries>>

\* liftSanction() with the users row locked.
BeginLift(h, type) ==
    /\ UserUnlocked
    /\ CASE type = "chat_restriction" -> user.chatRestricted
         [] type = "suspension" -> user.status = "suspended"
         [] type = "ban" -> user.status = "banned"
    /\ Start(h, [Idle EXCEPT !.op = "lift", !.type = type])
    /\ UNCHANGED <<user, sanctions, sessions, sockets, tries>>

CommitLift(h) ==
    LET t == work[h] IN
    /\ t.op = "lift"
    /\ CanCommit(h)
    /\ user' = IF t.type = "chat_restriction"
               THEN [user EXCEPT !.chatRestricted = FALSE]
               ELSE [user EXCEPT !.status = "active"]
    /\ sanctions' = EndRows(RowsWritten(t), "revoked")
    /\ Finish(h)
    /\ UNCHANGED <<sessions, sockets, tries>>

DueRows == {i \in DOMAIN sanctions : sanctions[i].state = "active" /\ sanctions[i].ends = "due"}

\* A wrong Claimed: the rows of one type only.
ClaimedSuspensions ==
    {i \in DueRows : RowUnlocked(i) /\ sanctions[i].type = "suspension"}

\* FOR UPDATE SKIP LOCKED.
Claimed == {i \in DueRows : RowUnlocked(i)}

\* expireSanctions(): claim the due rows nobody else has locked. The flag "running" of the
\* job is work[Job] # Idle: it is cleared however the transaction ends.
BeginExpire ==
    /\ Claimed # {}
    /\ Start(Job, [Idle EXCEPT !.op = "expire", !.rows = Claimed])
    /\ UNCHANGED <<user, sanctions, sessions, sockets, tries>>

ExpiredTypes(t) == {sanctions[i].type : i \in t.rows}

\* Only an account that is still suspended becomes active again.
ReleasedUser(t) ==
    [status |-> IF "suspension" \in ExpiredTypes(t) /\ user.status = "suspended"
                THEN "active" ELSE user.status,
     chatRestricted |-> user.chatRestricted /\ "chat_restriction" \notin ExpiredTypes(t)]

CommitExpire ==
    LET t == work[Job] IN
    /\ t.op = "expire"
    /\ CanCommit(Job)
    /\ sanctions' = EndRows(t.rows, "expired")
    /\ user' = ReleasedUser(t)
    /\ Finish(Job)
    /\ UNCHANGED <<sessions, sockets, tries>>

AcknowledgeWarning(i) ==
    /\ sanctions[i].type = "warning"
    /\ sanctions[i].state # "revoked"
    /\ ~sanctions[i].acknowledged
    /\ sanctions' = [sanctions EXCEPT ![i].acknowledged = TRUE]
    /\ UNCHANGED <<user, sessions, sockets, work, tries>>

\* The end of a timed sanction passes.
TimePasses(i) ==
    /\ sanctions[i].ends = "later"
    /\ sanctions' = [sanctions EXCEPT ![i].ends = "due"]
    /\ UNCHANGED <<user, sessions, sockets, work, tries>>

\* A moderator's transaction has reached a statement that waits for another's rows.
Queue(h) ==
    /\ work[h].op \in {"apply", "lift"}
    /\ ~work[h].queued
    /\ ~CanCommit(h)
    /\ work' = [work EXCEPT ![h].queued = TRUE]
    /\ UNCHANGED <<user, sanctions, sessions, sockets, tries>>

\* PostgreSQL breaks a cycle of two waiting transactions; the victim's request fails.
Abort(h) ==
    /\ Deadlocked(h)
    /\ Finish(h)
    /\ UNCHANGED <<user, sanctions, sessions, sockets, tries>>

-----------------------------------------------------------------------------
(* Sessions *)

\* loginWithPhoneToken(): the advisory lock of the phone number admits one sign-in at a
\* time; the status is read without a lock on the users row.
BeginLogin(h, s) ==
    /\ \A k \in Threads : work[k].op # "login"
    /\ sessions[s] = "none"
    /\ user.status # "banned"
    /\ Start(h, [Idle EXCEPT !.op = "login", !.session = s])
    /\ UNCHANGED <<user, sanctions, sessions, sockets, tries>>

CommitLogin(h) ==
    /\ work[h].op = "login"
    /\ CanCommit(h)
    /\ sessions' = [sessions EXCEPT ![work[h].session] = "live"]
    /\ Finish(h)
    /\ UNCHANGED <<user, sanctions, sockets, tries>>

\* refresh() with the session row locked; touches: users.last_active_at is over an hour old.
BeginRefresh(h, s, touches) ==
    /\ sessions[s] = "live"
    /\ SessionUnlocked(s)
    /\ user.status # "banned"
    /\ Start(h, [Idle EXCEPT !.op = "refresh", !.session = s, !.touches = touches])
    /\ UNCHANGED <<user, sanctions, sessions, sockets, tries>>

\* The token is rotated; the session stays live.
CommitRefresh(h) ==
    /\ work[h].op = "refresh"
    /\ CanCommit(h)
    /\ Finish(h)
    /\ UNCHANGED <<user, sanctions, sessions, sockets, tries>>

\* A banned member's session that a racing sign-in left behind ends at its first refresh.
RefreshBanned(s) ==
    /\ sessions[s] = "live"
    /\ SessionUnlocked(s)
    /\ user.status = "banned"
    /\ sessions' = [sessions EXCEPT ![s] = "revoked"]
    /\ UNCHANGED <<user, sanctions, sockets, work, tries>>

\* logout(), of this session or (allDevices) of all.
Logout(S) ==
    /\ S # {} /\ S \subseteq Live
    /\ \A s \in S : SessionUnlocked(s)
    /\ sessions' = EndSessions(S, "revoked")
    /\ UNCHANGED <<user, sanctions, sockets, work, tries>>

SessionExpires(s) ==
    /\ sessions[s] = "live"
    /\ sessions' = [sessions EXCEPT ![s] = "expired"]
    /\ UNCHANGED <<user, sanctions, sockets, work, tries>>

-----------------------------------------------------------------------------
(* Sockets *)

\* resolveMemberSession() as the handshake uses it, and isMemberSessionActive().
SessionActive(s) == sessions[s] = "live" /\ user.status = "active"

\* The handshake has read the session; the connection is not set up yet.
Handshake(s) ==
    /\ sockets[s] = "closed"
    /\ SessionActive(s)
    /\ sockets' = [sockets EXCEPT ![s] = "checked"]
    /\ UNCHANGED <<user, sanctions, sessions, work, tries>>

\* The connection handler joins the member's room.
Join(s) ==
    /\ sockets[s] = "checked"
    /\ sockets' = [sockets EXCEPT ![s] = "open"]
    /\ UNCHANGED <<user, sanctions, sessions, work, tries>>

\* An event on a socket whose session has ended: session:ended, then disconnect.
SocketRefused(s) ==
    /\ sockets[s] = "open"
    /\ ~SessionActive(s)
    /\ sockets' = [sockets EXCEPT ![s] = "closed"]
    /\ UNCHANGED <<user, sanctions, sessions, work, tries>>

\* A wrong TimerFires: a socket whose session has ended is passed over.
TimerFiresWhileActive(s) == sockets[s] # "closed" /\ SessionActive(s)

\* The handshake's timer, set to the expiry of the access token.
TimerFires(s) == sockets[s] # "closed"

TokenExpires(s) ==
    /\ TimerFires(s)
    /\ sockets' = [sockets EXCEPT ![s] = "closed"]
    /\ UNCHANGED <<user, sanctions, sessions, work, tries>>

\* The process stops: open transactions roll back, sockets close, effects are not sent.
Restart ==
    /\ work' = [h \in Threads |-> Idle]
    /\ sockets' = [s \in SessionIds |-> "closed"]
    /\ UNCHANGED <<user, sanctions, sessions, tries>>

-----------------------------------------------------------------------------
Commit(h) == CommitApply(h) \/ CommitLift(h) \/ CommitLogin(h) \/ CommitRefresh(h) \/ Effects(h)

AccountNext ==
    \/ \E h \in Slots :
          \/ \E type \in SanctionTypes, ends \in {"never", "later"} : BeginApply(h, type, ends)
          \/ \E type \in SanctionTypes \ {"warning"} : BeginLift(h, type)
          \/ \E s \in SessionIds : BeginLogin(h, s)
          \/ \E s \in SessionIds, touches \in BOOLEAN : BeginRefresh(h, s, touches)
          \/ Queue(h)
          \/ Commit(h)
    \/ \E h \in Threads : Abort(h)
    \/ BeginExpire
    \/ CommitExpire
    \/ \E i \in DOMAIN sanctions : AcknowledgeWarning(i) \/ TimePasses(i)
    \/ \E s \in SessionIds :
          \/ RefreshBanned(s) \/ Logout({s}) \/ SessionExpires(s)
          \/ Handshake(s) \/ Join(s) \/ SocketRefused(s) \/ TokenExpires(s)
    \/ Logout(Live)
    \/ Restart

\* Every request in flight goes on: a row lock's waiters are served in turn, so a commit that
\* is possible again and again happens. The detector of a waiting transaction runs,
\* the job ticks every minute, timers fire, and the process stays up in the end.
AccountFairness ==
    /\ \A h \in Slots : SF_accountVars(Commit(h)) /\ WF_accountVars(Queue(h))
    /\ SF_accountVars(CommitExpire)
    /\ \A h \in Threads : WF_accountVars(Abort(h))
    /\ WF_accountVars(BeginExpire)
    /\ <>[][~Restart]_accountVars
    /\ \A s \in SessionIds : WF_accountVars(TokenExpires(s))

AccountSpec == AccountInit /\ [][AccountNext]_accountVars /\ AccountFairness

-----------------------------------------------------------------------------
(* Properties *)

\* Every variable has its type.
AccountTypeOK ==
    /\ user \in [status: AccountStatus, chatRestricted: BOOLEAN]
    /\ sanctions \in Seq(SanctionRow) /\ Len(sanctions) <= MaxSanctions
    /\ sessions \in [SessionIds -> SessionState]
    /\ sockets \in [SessionIds -> SocketState]
    /\ work \in [Threads -> Transaction]
    /\ tries \in 0..MaxSanctions

\* users.status and chat_restricted_at always say what the active sanction rows say, with
\* at most one active row of each restricting type, whatever moderators and the expiry job
\* do at the same time (sanctions.ts: applySanction, liftSanction, expireSanctions).
CacheAgrees ==
    /\ user.status = "banned" <=> Active("ban") # {}
    /\ user.status = "suspended" <=> Active("suspension") # {}
    /\ user.chatRestricted <=> Active("chat_restriction") # {}
    /\ \A type \in SanctionTypes \ {"warning"} : Cardinality(Active(type)) <= 1

\* A timed sanction whose end has passed stops restricting the member, although the expiry
\* job and a moderator may meet in a deadlock (sanction-expiry.job.ts).
DueSanctionEnds ==
    \A i \in 1..MaxSanctions :
        i \in DueRows ~> i \notin DueRows

\* No request waits for ever: lock cycles between apply, lift, expire and refresh are
\* broken, and the others are served in turn.
TransactionsEnd == \A h \in Threads : work[h] # Idle ~> work[h] = Idle

\* A socket that outlives its session (it joined after the suspension closed the member's
\* sockets, or the member signed out) is closed in the end (socket-server.ts).
StaleSocketsEnd ==
    \A s \in SessionIds :
        (sockets[s] = "open" /\ ~SessionActive(s)) ~> (sockets[s] = "closed" \/ SessionActive(s))

=============================================================================
