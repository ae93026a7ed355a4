----------------------------- MODULE MCServices -----------------------------
(* Instance for TLC of the services that stand on their own. A behaviour is   *)
(* about one of them, chosen in the initial state; the others stay in one     *)
(* state, so that the number of cases is the sum and not the product.         *)
EXTENDS Profiles, Catalogue, Discovery, Paging, Dashboard, RateLimits,
        ApiLogs, Sessions

VARIABLE focus

Idle(f, vars) == focus # f => UNCHANGED vars

servicesVars ==
    <<focus, pictureVars, profileVars, catalogueVars, discoveryVars,
      pagingVars, dashboardVars, limiterVars, logVars, sessionVars>>

\* Where the modules that start in several states stay while they are not in focus.
AtRest == focus # "sessions" => app = "member" /\ locks

DiscoveryAtRest ==
    /\ viewer = Member(Anyone, "woman", "everyone", <<2004, 3, 1>>, Youngest, Oldest)
    /\ candidate = viewer
    /\ relation = {}
    /\ filters = [min |-> Youngest, max |-> Oldest, verifiedOnly |-> FALSE]
    /\ today = <<2024, 3, 1>>

PagingAtRest ==
    /\ listing = MatchList
    /\ sortKey = [r \in RowIds |-> Unlisted]
    /\ position = FirstPage
    /\ shownTimes = [r \in RowIds |-> 0]
    /\ touched = {}

ServicesInit ==
    /\ focus \in {"profiles", "catalogue", "organizers", "event images",
                  "discovery", "paging", "dashboard", "limits", "logs", "sessions"}
    /\ PicturesInit /\ ProfilesInit /\ CatalogueInit
    /\ DashboardInit /\ RateLimitsInit /\ ApiLogsInit /\ SessionsInit
    /\ AtRest
    /\ IF focus = "discovery" THEN DiscoveryInit ELSE DiscoveryAtRest
    /\ IF focus = "paging" THEN PagingInit ELSE PagingAtRest

\* With one organizer everything of the catalogue meets; two of them meet without their badges.
OneOrganizer == Cardinality({o \in Organizers : organizers[o] # Nobody}) <= 1
NoOrganizerBadge == \A o \in Organizers : organizers[o].identity = 0 /\ ~organizers[o].verified

\* A profile's photo and an event's picture are stored the same way. Uploads to the event ask
\* for its status alone: they meet drafts that come and go, and not the two-step transactions.
ServicesNext ==
    /\ UNCHANGED focus
    /\ \/ focus = "profiles" /\ ProfilesNext
       \/ focus = "catalogue" /\ CatalogueNext /\ OneOrganizer'
       \/ focus = "organizers" /\ CatalogueNext /\ NoOrganizerBadge' /\ UNCHANGED attending
       \/ focus = "event images" /\ CatalogueNext /\ UNCHANGED <<day, work, vouched>>
       \/ focus = "discovery" /\ DiscoveryNext
       \/ focus = "paging" /\ PagingNext
       \/ focus = "dashboard" /\ DashboardNext
       \/ focus = "limits" /\ RateLimitsNext
       \/ focus = "logs" /\ ApiLogsNext
       \/ focus = "sessions" /\ SessionsNext
    /\ Idle("profiles", profileVars)
    /\ focus \notin {"catalogue", "organizers", "event images"} => UNCHANGED catalogueVars
    /\ focus \notin {"profiles", "event images"} => UNCHANGED pictureVars
    /\ Idle("discovery", discoveryVars) /\ Idle("paging", pagingVars)
    /\ Idle("dashboard", dashboardVars) /\ Idle("limits", limiterVars)
    /\ Idle("logs", logVars) /\ Idle("sessions", sessionVars)

ServicesSpec == ServicesInit /\ [][ServicesNext]_servicesVars
=============================================================================
