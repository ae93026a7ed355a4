------------------------------ MODULE Screens ------------------------------
(* The member app and the admin app as their user sees them: routes and       *)
(* redirects, and one cached query (any of the tables') with the pages that   *)
(* show it and the mutations that change it.                                  *)
(*                                                                            *)
(* TanStack Query is external: a query is fetched when a page that shows it   *)
(* opens and has no data or stale data; an invalidated query that is on       *)
(* screen drops the fetch in flight and asks again, one that is not on screen *)
(* becomes stale; whatever answer arrives makes it fresh.                     *)
EXTENDS AdminPages, Naturals

CONSTANTS
    Standings,   \* what a member's profile can be when the session is checked
    MaxWrites,   \* bound: changes of the answer on the API
    MaxSignIns   \* bound: members who sign in, one after the other

ASSUME ScreensAssumption ==
    /\ Standings \subseteq {"not_started", "incomplete", "complete"}
    /\ MaxWrites \in Nat /\ MaxSignIns \in Nat

VARIABLES
    app,       \* "web" or "admin"
    query,     \* the cached query that is observed
    page,
    visitor,   \* who is signed in: a number (0: nobody), and a standing or role
    started,   \* the onboarding page's "step" is set
    signIns,   \* sign-ins so far
    server,    \* version of the API's answer
    cache,     \* whose data is cached (0: none), its version, whether it is stale, and whether
               \* it is behind: the last fetch failed, or an older answer came after the save
    fetch,     \* the fetch in flight: for whom, and the answer's version
    call,      \* the mutation in flight
    own        \* version the visitor's own completed mutations have made

screenVars == <<app, query, page, visitor, started, signIns, server, cache, fetch, call, own>>

Table == IF app = "web" THEN WebPage ELSE AdminPage
Mutations == IF app = "web" THEN WebMutation ELSE AdminMutations
Polled == IF app = "web" THEN WebPolled ELSE AdminPolled
Queries(table) == UNION {table[p].reads : p \in DOMAIN table}

NoData == [owner |-> 0, version |-> 0, stale |-> TRUE, behind |-> FALSE]
NoFetch == [state |-> "none", owner |-> 0, version |-> 0]
NoCall == [name |-> "none", state |-> "none", owner |-> 0, version |-> 0]
Nobody == [number |-> 0, standing |-> "anonymous"]

ScreensInit ==
    /\ app \in {"web", "admin"}
    /\ query \in Queries(Table)
    /\ page = IF app = "web" THEN "home" ELSE "dashboard"
    /\ visitor = [number |-> 0, standing |-> "loading"]
    /\ started = FALSE
    /\ signIns = 0
    /\ server = 1
    /\ cache = NoData
    /\ fetch = NoFetch
    /\ call = NoCall
    /\ own = 0

-----------------------------------------------------------------------------
(* Routes *)

Loading == visitor.standing = "loading"
SignedIn == visitor.number # 0

\* RequireAuth, PublicOnly, RequireProfile and the onboarding page; RequireAdmin.
WebRedirect(p, standing, step) ==
    CASE p \in GuestPages /\ standing # "anonymous" -> "home"
      [] p \notin GuestPages \cup OpenPages /\ standing = "anonymous" -> "login"
      [] p \in ProfilePages /\ standing = "not_started" -> "onboarding"
      [] p = "onboarding" /\ standing = "complete" /\ ~step -> "profile"
      [] OTHER -> p

AdminRedirect(p, role) ==
    CASE p = "adminLogin" -> IF role = "anonymous" THEN p ELSE "dashboard"
      [] p # "adminLogin" /\ role = "anonymous" -> "adminLogin"
      [] OTHER -> IF Needs(p) \in ROLE_PERMISSIONS[role] THEN p ELSE "dashboard"

\* Where visitor v gets to from page p.
Target(v, p, step) ==
    CASE v.standing = "loading" -> p
      [] v.standing # "loading" /\ app = "web" -> WebRedirect(p, v.standing, step)
      [] OTHER -> AdminRedirect(p, v.standing)

Redirecting == Target(visitor, page, started) # page

-----------------------------------------------------------------------------
(* The query on screen *)

PublicQueries == {"eventList", "event", "cities", "areas"}

\* Does page p show the query to visitor v? Visitors see the landing page at "/", and the
\* unread count needs a finished profile.
ShownTo(v, p, step) ==
    /\ v.standing # "loading"
    /\ Target(v, p, step) = p
    /\ query \in Table[p].reads
    /\ v.number # 0 \/ (query \in PublicQueries /\ p # "home")
    /\ query = "unread" => v.standing = "complete"

Shown == ShownTo(visitor, page, started)

Ask(v) == [state |-> "asked", owner |-> v.number, version |-> 0]

\* The fetch when visitor v gets page p on screen and finds data that are stale or not. The
\* shell's own queries stay mounted from page to page.
Mount(v, p, step, stale) ==
    IF /\ ShownTo(v, p, step)
       /\ ~Shown \/ (p # page /\ ~(app = "web" /\ query \in AppShell.reads))
       /\ stale /\ fetch = NoFetch
    THEN Ask(v) ELSE fetch

Open(p) ==
    /\ page' = p
    /\ started' = FALSE
    /\ fetch' = Mount(visitor, p, FALSE, cache.stale)

\* invalidateQueries(), for a query that is or is not on screen.
Invalidate ==
    /\ cache' = [cache EXCEPT !.stale = TRUE]
    /\ fetch' = IF Shown THEN Ask(visitor) ELSE fetch

Navigate(p) ==
    /\ ~Loading /\ ~Redirecting
    /\ p \in Table[page].links
    /\ Open(p)
    /\ UNCHANGED <<app, query, visitor, signIns, server, cache, call, own>>

Redirect ==
    /\ Redirecting
    /\ Open(Target(visitor, page, started))
    /\ UNCHANGED <<app, query, visitor, signIns, server, cache, call, own>>

\* The API answers, later the browser takes the answer, or the fetch fails.
Respond ==
    /\ fetch.state = "asked"
    /\ fetch' = [fetch EXCEPT !.state = "answered", !.version = server]
    /\ UNCHANGED <<app, query, page, visitor, started, signIns, server, cache, call, own>>

Receive ==
    /\ fetch.state = "answered"
    /\ cache' = [owner |-> fetch.owner, version |-> fetch.version, stale |-> FALSE,
                 behind |-> fetch.version < own]
    /\ fetch' = NoFetch
    /\ UNCHANGED <<app, query, page, visitor, started, signIns, server, call, own>>

FetchFails ==
    /\ fetch # NoFetch
    /\ cache' = [cache EXCEPT !.stale = TRUE, !.behind = TRUE]
    /\ fetch' = NoFetch
    /\ UNCHANGED <<app, query, page, visitor, started, signIns, server, call, own>>

\* staleTime passes.
GoesStale ==
    /\ cache.owner # 0 /\ ~cache.stale
    /\ cache' = [cache EXCEPT !.stale = TRUE]
    /\ UNCHANGED <<app, query, page, visitor, started, signIns, server, fetch, call, own>>

\* refetchInterval, or the window gets the focus (messages are not refetched then).
Refetch ==
    /\ Shown /\ fetch = NoFetch
    /\ query \in Polled \/ (cache.stale /\ query # "messages")
    /\ fetch' = Ask(visitor)
    /\ UNCHANGED <<app, query, page, visitor, started, signIns, server, cache, call, own>>

\* Somebody else changes the answer; a connected socket tells the member's app.
OtherWrite(push) ==
    /\ server + (IF call.state = "sent" THEN 1 ELSE 0) < MaxWrites
    /\ server' = server + 1
    /\ IF push
       THEN app = "web" /\ query \in Pushed /\ visitor.standing = "complete" /\ Invalidate
       ELSE UNCHANGED <<cache, fetch>>
    /\ UNCHANGED <<app, query, page, visitor, started, signIns, call, own>>

-----------------------------------------------------------------------------
(* Mutations: a button is disabled while its mutation is pending. *)

\* Mutations that change neither the query nor the visitor's standing are not observed.
Touches(m) == query \in Mutations[m].writes \cup Mutations[m].refreshes \cup Mutations[m].sets
ChangesStanding(m) == m \in {"createProfile", "uploadImage", "deleteImage"}

Act(m) ==
    /\ SignedIn /\ ~Redirecting
    /\ m \in Table[page].acts
    /\ call = NoCall
    /\ \/ Touches(m) /\ server < MaxWrites
       \/ ~Touches(m) /\ ChangesStanding(m)
    /\ call' = [name |-> m, state |-> "sent", owner |-> visitor.number, version |-> 0]
    /\ UNCHANGED <<app, query, page, visitor, started, signIns, server, cache, fetch, own>>

\* The API has made the change; otherwise the page shows the error.
Save ==
    /\ call.state = "sent"
    /\ server' = IF query \in Mutations[call.name].writes THEN server + 1 ELSE server
    /\ call' = [call EXCEPT !.state = "saved", !.version = server']
    /\ UNCHANGED <<app, query, page, visitor, started, signIns, cache, fetch, own>>

SaveFails ==
    /\ call.state = "sent"
    /\ call' = NoCall
    /\ UNCHANGED <<app, query, page, visitor, started, signIns, server, cache, fetch, own>>

StandingAfter(m) ==
    CASE m = "createProfile" /\ visitor.standing = "not_started" -> "incomplete"
      [] m = "uploadImage" /\ visitor.standing = "incomplete" -> "complete"
      [] m = "deleteImage" /\ visitor.standing = "complete" -> "incomplete"
      [] OTHER -> visitor.standing

\* onSuccess of the hook: fill, then invalidate, then the standing. Sending inserts the message into a
\* conversation that is loaded; the other hooks set what they were answered.
Handled(m) ==
    IF query \in m.sets /\ (query = "messages" => cache.owner # 0)
    THEN [owner |-> call.owner, version |-> call.version, stale |-> FALSE, behind |-> FALSE]
    ELSE cache

Succeed ==
    LET m == Mutations[call.name] IN
    /\ call.state = "saved"
    /\ cache' = [Handled(m) EXCEPT !.stale = @ \/ query \in m.refreshes]
    /\ own' = IF query \in m.writes \ m.lags /\ call.owner = visitor.number
              THEN call.version ELSE own
    /\ visitor' = IF app = "web" /\ call.owner = visitor.number
                  THEN [visitor EXCEPT !.standing = StandingAfter(call.name)] ELSE visitor
    /\ fetch' = IF query \in m.refreshes /\ Shown THEN Ask(visitor)
                ELSE Mount(visitor', page, started, cache'.stale)
    /\ call' = [call EXCEPT !.state = "refreshing"]
    /\ UNCHANGED <<app, query, page, started, signIns, server>>

\* The invalidated queries on screen have been fetched; the page goes on.
Settle ==
    LET m == Mutations[call.name] IN
    /\ call.state = "refreshing"
    /\ ~(Shown /\ query \in m.refreshes /\ fetch # NoFetch)
    /\ call' = NoCall
    /\ IF m.then = "stay"
       THEN /\ started' = (started \/ (page = "onboarding"
                                       /\ call.name \in {"createProfile", "uploadImage"}))
            /\ page' = page
            /\ fetch' = Mount(visitor, page, started', cache.stale)
       ELSE Open(m.then)
    /\ UNCHANGED <<app, query, visitor, signIns, server, cache, own>>

-----------------------------------------------------------------------------
(* Sessions. The query cache outlives them. *)

Become(v, p) ==
    /\ visitor' = v
    /\ page' = p
    /\ started' = FALSE
    /\ fetch' = Mount(v, p, FALSE, cache.stale)
    /\ own' = 0
    /\ UNCHANGED <<app, query, server, cache, call>>

StandingsOf == IF app = "web" THEN Standings ELSE Roles

SessionChecked(standing) ==
    /\ Loading
    /\ Become(IF standing = "anonymous" THEN Nobody ELSE [number |-> 1, standing |-> standing], page)
    /\ signIns' = IF standing = "anonymous" THEN 0 ELSE 1

\* From the code page, or the admin's login page.
SignIn(standing) ==
    /\ ~Loading /\ ~SignedIn
    /\ page \in {"verify", "adminLogin"}
    /\ signIns < MaxSignIns
    /\ signIns' = signIns + 1
    /\ Become([number |-> signIns', standing |-> standing], page)

SignOut ==
    /\ SignedIn
    /\ Become(Nobody, IF app = "web" THEN "login" ELSE "adminLogin")
    /\ UNCHANGED signIns

\* The refresh is refused: the page stays, its guard redirects.
SessionExpires ==
    /\ SignedIn
    /\ Become(Nobody, page)
    /\ UNCHANGED signIns

ScreensNext ==
    \/ \E p \in DOMAIN Table : Navigate(p)
    \/ Redirect
    \/ Respond \/ Receive \/ FetchFails \/ GoesStale \/ Refetch
    \/ \E push \in BOOLEAN : OtherWrite(push)
    \/ \E m \in DOMAIN Mutations : Act(m)
    \/ Save \/ SaveFails \/ Succeed \/ Settle
    \/ \E standing \in StandingsOf \cup {"anonymous"} : SessionChecked(standing)
    \/ \E standing \in StandingsOf : SignIn(standing)
    \/ SignOut \/ SessionExpires

-----------------------------------------------------------------------------
(* Properties *)

\* Every variable has its type.
ScreensTypeOK ==
    /\ app \in {"web", "admin"} /\ page \in DOMAIN Table /\ query \in Queries(Table)
    /\ cache \in [owner: 0..MaxSignIns, version: 0..MaxWrites, stale: BOOLEAN, behind: BOOLEAN]
    /\ fetch.version <= server /\ call.version <= server /\ server <= MaxWrites

\* Whoever has saved something sees it on every page that shows it: what a mutation changes
\* on the API its hook refreshes, however the pages, fetches and answers interleave, but for
\* the queries listed as lagging, a fetch that fails and an older answer that comes later (the hooks.ts of
\* apps/web/src/features and apps/admin/src/features).
OwnWriteShown ==
    /\ Shown /\ fetch = NoFetch /\ ~Redirecting
    /\ cache.owner = visitor.number /\ ~cache.behind
    => cache.version >= own

\* Whoever has blocked somebody sees no list of notifications from before. Does not hold: the API
\* removes the notifications between the two (blocks.service.ts), the hook refreshes the
\* partners, connections and chats, and the list stays as it is while it is fresh.
BlockedNameGone ==
    /\ call.name = "block" /\ call.state = "refreshing" /\ call.owner = visitor.number
    /\ query = "notifications" /\ Shown /\ fetch = NoFetch
    /\ cache.owner = visitor.number /\ ~cache.behind
    => cache.version >= call.version

\* What is on screen belongs to the member who is signed in. Does not hold: signing out leaves
\* the query cache as it is (AuthProvider.tsx), and the next member's pages show it while it
\* is fresh.
OwnScreen == Shown /\ SignedIn /\ cache.owner # 0 /\ fetch = NoFetch => cache.owner = visitor.number

=============================================================================
