------------------------------ MODULE Sessions ------------------------------
(* Refresh-token rotation between the API and one browser.                    *)
(*                                                                            *)
(* The tabs of a browser share the refresh cookie. A tab keeps its access     *)
(* token in memory, so each load and each 401 ends in POST /auth/refresh,     *)
(* which rotates the token: the row keeps the hash of the current token and   *)
(* of the one before. Tabs take turns by the Web Locks API where the browser  *)
(* has it. An answer may be lost, before or after the API has acted.          *)
(* The member app and the admin app do the same; the admin session also ends  *)
(* when it has been idle for too long.                                        *)
EXTENDS Naturals, FiniteSets

CONSTANTS
    Tabs,
    MaxLogins, MaxRotations,  \* bounds: session rows, rotations of one row
    MaxLost                   \* bound: calls that fail on the way

ASSUME SessionsAssumption == MaxLogins \in Nat /\ MaxRotations \in Nat /\ MaxLost \in Nat

VARIABLES
    app,          \* "member" or "admin"
    locks,        \* the browser has navigator.locks
    sessionRows,  \* session rows, by the number of the sign-in
    cookie,       \* the refresh token the browser holds
    tabs,         \* the auth state of each tab and its call in flight
    losses        \* failed calls so far

sessionVars == <<app, locks, sessionRows, cookie, tabs, losses>>

\* A token is the session it belongs to and its number in the row's rotation.
None == [session |-> 0, rotation |-> 0]
Token == [session: 1..MaxLogins, rotation: 0..MaxRotations]

Row ==
    [state: {"absent", "live", "signed_out", "expired", "idle_timeout", "reuse_detected"},
     current: 0..MaxRotations,   \* 0: issued by the sign-in
     grace: BOOLEAN,             \* rotated within REFRESH_REUSE_GRACE_SECONDS
     idle: BOOLEAN]              \* last used more than ADMIN_SESSION_IDLE_MINUTES ago

AuthState == {"loading", "authenticated", "anonymous"}

\* session: that of the access token; call: what the tab waits for; token: the cookie sent;
\* answer: the cookie to be set.
Tab ==
    [auth: AuthState, session: 0..MaxLogins, call: {"none", "lock", "sent", "answered"},
     token: Token \cup {None}, answer: Token \cup {None}]

\* The tab's call has ended.
Settled(auth, session) ==
    [auth |-> auth, session |-> session, call |-> "none", token |-> None, answer |-> None]

NoRow == [state |-> "absent", current |-> 0, grace |-> FALSE, idle |-> FALSE]

SessionsInit ==
    /\ app \in {"member", "admin"}
    /\ locks \in BOOLEAN
    /\ sessionRows = [k \in 1..MaxLogins |-> NoRow]
    /\ cookie = None
    /\ tabs = [t \in Tabs |-> Settled("anonymous", 0)]
    /\ losses = 0

Unused == {k \in 1..MaxLogins : sessionRows[k].state = "absent"}

-----------------------------------------------------------------------------
(* The browser *)

\* The bound: every call in flight may rotate once more.
RotationsLeft ==
    \A k \in 1..MaxLogins :
        sessionRows[k].current + Cardinality({t \in Tabs : tabs[t].call # "none"}) < MaxRotations

\* A page load, or a request answered 401; refreshInFlight admits one refresh of a tab.
StartRefresh(t, auth) ==
    /\ tabs[t].call = "none"
    /\ RotationsLeft
    /\ auth = "authenticated" => tabs[t].auth = "authenticated"
    /\ tabs' = [tabs EXCEPT ![t].auth = auth, ![t].call = "lock"]
    /\ UNCHANGED <<app, locks, sessionRows, cookie, losses>>

\* A wrong LockFree: the tabs do not take turns.
LockFreeAlways == TRUE

LockFree == \A t \in Tabs : tabs[t].call \notin {"sent", "answered"}

\* The lock "gp-member-refresh" is held until the call ends; without Web Locks nobody waits.
SendRefresh(t) ==
    /\ tabs[t].call = "lock"
    /\ locks => LockFree
    /\ tabs' = [tabs EXCEPT ![t].call = "sent", ![t].token = cookie]
    /\ UNCHANGED <<app, locks, sessionRows, cookie, losses>>

\* A wrong Ends: a refused refresh leaves the tab waiting.
EndsWhenRenewed(t) == tabs[t].call = "answered" /\ tabs[t].answer # None

Ends(t) == tabs[t].call = "answered"

\* The browser stores or clears the cookie (a call without one is refused before the API
\* would clear it), and the tab takes the outcome.
Receive(t) ==
    /\ Ends(t)
    /\ cookie' = IF tabs[t].token = None THEN cookie ELSE tabs[t].answer
    /\ tabs' = [tabs EXCEPT ![t] =
           Settled(IF tabs[t].answer = None THEN "anonymous" ELSE "authenticated",
                   tabs[t].answer.session)]
    /\ UNCHANGED <<app, locks, sessionRows, losses>>

\* The call fails, before or after the API has acted on it: any error makes the tab anonymous.
Lose(t) ==
    /\ tabs[t].call \in {"sent", "answered"}
    /\ losses < MaxLost
    /\ losses' = losses + 1
    /\ tabs' = [tabs EXCEPT ![t] = Settled("anonymous", 0)]
    /\ UNCHANGED <<app, locks, sessionRows, cookie>>

-----------------------------------------------------------------------------
(* The API: each call is one transaction that locks the session row. *)

RowOf(token) == sessionRows[token.session]
Known(token) == token # None /\ RowOf(token).state = "live"
IsCurrent(token) == Known(token) /\ token.rotation = RowOf(token).current
IsPrevious(token) == Known(token) /\ token.rotation + 1 = RowOf(token).current
TooIdle(token) == IsCurrent(token) /\ app = "admin" /\ RowOf(token).idle

Answer(t, answer) ==
    tabs' = [tabs EXCEPT ![t].call = "answered", ![t].answer = answer]

\* refresh() with the current token: rotate.
Rotate(t) ==
    LET token == tabs[t].token IN
    /\ tabs[t].call = "sent"
    /\ IsCurrent(token)
    /\ ~TooIdle(token)
    /\ sessionRows' = [sessionRows EXCEPT ![token.session].current = @ + 1,
           ![token.session].grace = TRUE, ![token.session].idle = FALSE]
    /\ Answer(t, [token EXCEPT !.rotation = @ + 1])
    /\ UNCHANGED <<app, locks, cookie, losses>>

\* What refresh() leaves of the session when it refuses: the previous token after the grace
\* period is a reuse, an admin session unused for too long ends.
Verdict(token) ==
    CASE IsPrevious(token) /\ ~RowOf(token).grace -> "reuse_detected"
      [] TooIdle(token) -> "idle_timeout"
      [] OTHER -> "keep"

\* The controller clears the cookie with every refusal.
Refuse(t) ==
    LET token == tabs[t].token IN
    /\ tabs[t].call = "sent"
    /\ ~IsCurrent(token) \/ TooIdle(token)
    /\ sessionRows' = IF Verdict(token) = "keep" THEN sessionRows
               ELSE [sessionRows EXCEPT ![token.session].state = Verdict(token)]
    /\ Answer(t, None)
    /\ UNCHANGED <<app, locks, cookie, losses>>

\* loginWithPhoneToken() or the admin's login(): a new session row and its first token.
SignIn(t) ==
    /\ tabs[t].auth = "anonymous" /\ tabs[t].call = "none"
    /\ Unused # {}
    /\ LET k == CHOOSE n \in Unused : \A o \in Unused : n <= o IN
         /\ sessionRows' = [sessionRows EXCEPT ![k].state = "live"]
         /\ cookie' = [session |-> k, rotation |-> 0]
         /\ tabs' = [tabs EXCEPT ![t] = Settled("authenticated", k)]
    /\ UNCHANGED <<app, locks, losses>>

\* signOut(): the session of the tab's access token ends and the cookie is cleared; a failed
\* call (reached = FALSE) still makes the tab anonymous.
SignOut(t, reached) ==
    /\ tabs[t].auth = "authenticated" /\ tabs[t].call = "none"
    /\ IF reached
       THEN /\ sessionRows' = [sessionRows EXCEPT ![tabs[t].session].state =
                  IF @ = "live" THEN "signed_out" ELSE @]
            /\ cookie' = None
            /\ losses' = losses
       ELSE /\ losses < MaxLost
            /\ losses' = losses + 1
            /\ UNCHANGED <<sessionRows, cookie>>
    /\ tabs' = [tabs EXCEPT ![t] = Settled("anonymous", 0)]
    /\ UNCHANGED <<app, locks>>

\* Time passes for a session. "expired" also stands for a session ended from outside: by a
\* sanction, or with an administrator's disabled account.
SessionAges(k, change) ==
    /\ sessionRows[k].state = "live"
    /\ change = "idle" => app = "admin"
    /\ sessionRows' = CASE change = "grace" -> [sessionRows EXCEPT ![k].grace = FALSE]
                 [] change = "idle" -> [sessionRows EXCEPT ![k].idle = TRUE, ![k].grace = FALSE]
                 [] change = "expired" -> [sessionRows EXCEPT ![k].state = "expired"]
    /\ sessionRows' # sessionRows
    /\ UNCHANGED <<app, locks, cookie, tabs, losses>>

Progress(t) == SendRefresh(t) \/ Rotate(t) \/ Refuse(t) \/ Receive(t)

SessionsNext ==
    \/ \E t \in Tabs :
          \/ \E auth \in {"loading", "authenticated"} : StartRefresh(t, auth)
          \/ SendRefresh(t) \/ Rotate(t) \/ Refuse(t) \/ Receive(t)
          \/ Lose(t)
          \/ SignIn(t)
          \/ \E reached \in BOOLEAN : SignOut(t, reached)
    \/ \E k \in 1..MaxLogins, change \in {"grace", "idle", "expired"} : SessionAges(k, change)

\* A call in flight is answered, and Web Locks grants waiting tabs in turn.
SessionsFairness == \A t \in Tabs : SF_sessionVars(Progress(t) \/ Lose(t))

-----------------------------------------------------------------------------
(* Properties *)

\* Every variable has its type.
SessionsTypeOK ==
    /\ app \in {"member", "admin"} /\ locks \in BOOLEAN /\ losses \in 0..MaxLost
    /\ sessionRows \in [1..MaxLogins -> Row]
    /\ cookie \in Token \cup {None}
    /\ tabs \in [Tabs -> Tab]

\* While no answer is lost, tabs that take turns never look like a stolen token: a live
\* session's cookie is its current token once the calls in flight have ended, and no session
\* ends as reused (api-client.ts: refreshSession; auth.service.ts: refresh).
TurnsKeepSession ==
    locks /\ losses = 0 =>
        /\ \A k \in 1..MaxLogins : sessionRows[k].state # "reuse_detected"
        /\ LockFree /\ cookie # None /\ Known(cookie) => IsCurrent(cookie)

\* Two tabs that refresh at once leave the browser signed in: the tab that is refused finds
\* the other tab's cookie (docs/auth/session-management.md, "The other tab already has the
\* new cookie"). Does not hold without the Web Locks API: the refusal clears the cookie, and
\* when it is the later of the two answers it removes the cookie the other tab was given.
RaceKeepsCookie ==
    /\ losses = 0
    /\ \A t \in Tabs : tabs[t].call = "none"
    /\ \E t \in Tabs : tabs[t].auth = "authenticated"
    /\ Unused # {} /\ \A k \in 1..MaxLogins : sessionRows[k].state \in {"absent", "live"}
    => cookie # None

\* Every tab that loads or refreshes gets an outcome, although tabs wait for each other's
\* lock and calls fail (api-client.ts: refreshSession; AuthProvider.tsx).
TabsSettle == \A t \in Tabs : tabs[t].call # "none" ~> tabs[t].call = "none"

=============================================================================
