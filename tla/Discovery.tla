----------------------------- MODULE Discovery -----------------------------
(* Who is shown to whom: the candidate query behind the discovery list, the   *)
(* partner page and the eligibility check of an interest, and the public      *)
(* profile. One viewer, one candidate and what is between them; the dates lie *)
(* around the end of February, where years differ in length.                  *)
EXTENDS Integers

CONSTANTS
    BirthYears, ThisYears,    \* years of birth, and years "today" lies in
    AgeLimits                 \* ages a preference or a filter may name (PREF_AGE_MIN to PREF_AGE_MAX)

ASSUME DiscoveryAssumption ==
    /\ BirthYears \subseteq 1901..2099 /\ ThisYears \subseteq 1901..2099
    /\ AgeLimits \subseteq Nat
    /\ \E youngest, oldest \in AgeLimits : AgeLimits \subseteq youngest .. oldest

VARIABLES
    viewer, candidate,   \* two members: account, profile and preferences
    relation,            \* what holds between them
    filters,             \* the query of the list
    today

discoveryVars == <<viewer, candidate, relation, filters, today>>

-----------------------------------------------------------------------------
(* The calendar *)

Leap(y) == y % 4 = 0
DaysOf(y) == {<<y, 2, 28>>, <<y, 3, 1>>} \cup (IF Leap(y) THEN {<<y, 2, 29>>} ELSE {})
Earlier(a, b) ==
    \/ a[1] < b[1]
    \/ a[1] = b[1] /\ a[2] < b[2]
    \/ a[1] = b[1] /\ a[2] = b[2] /\ a[3] < b[3]

\* calculateAge().
CalculateAge(born, now) ==
    now[1] - born[1]
    - (IF now[2] < born[2] \/ (now[2] = born[2] /\ now[3] < born[3]) THEN 1 ELSE 0)

\* date - make_interval(years => n): the 29th becomes the 28th where there is no 29th.
MinusYears(date, n) ==
    IF date[2] = 2 /\ date[3] = 29 /\ ~Leap(date[1] - n)
    THEN <<date[1] - n, 2, 28>> ELSE <<date[1] - n, date[2], date[3]>>

-----------------------------------------------------------------------------
(* Preferences *)

Genders == {"woman", "man", "non_binary"}
GenderPreferences == {"women", "men", "everyone"}

GendersAcceptedBy(preference) ==
    CASE preference = "women" -> {"woman"} [] preference = "men" -> {"man"} [] OTHER -> Genders
PreferencesAccepting(gender) == {p \in GenderPreferences : gender \in GendersAcceptedBy(p)}
GenderPreferencesMatch(a, b) ==
    b.gender \in GendersAcceptedBy(a.preference) /\ a.gender \in GendersAcceptedBy(b.preference)

\* The query's age range, as bounds on the date of birth.
BornWithinInclusive(born, min, max) ==
    ~Earlier(MinusYears(today, min), born) /\ Earlier(MinusYears(today, max), born)
BornWithin(born, min, max) ==
    ~Earlier(MinusYears(today, min), born) /\ Earlier(MinusYears(today, max + 1), born)

-----------------------------------------------------------------------------
(* buildCandidateQuery() *)

Separated == relation \cap {"blocks", "blocked", "reports", "reported"} # {}

Conditions(v, c, min, max) ==
    /\ {"active", "onboarded", "discoverable", "photo"} \subseteq c.flags
    /\ c.flags \cap {"deleted", "hidden", "restricted"} = {}
    /\ ~Separated
    /\ "declined" \notin relation
    /\ c.gender \in GendersAcceptedBy(v.preference)
    /\ c.preference \in PreferencesAccepting(v.gender)
    /\ BornWithin(c.born, min, max)
    /\ CalculateAge(v.born, today) \in c.min..c.max

\* isEligible(), and the partner page: the saved preferences, no filters.
IsEligible == Conditions(viewer, candidate, viewer.min, viewer.max)

\* list(): filters narrow the saved age range, verifiedOnly is saved or asked for, and members
\* already matched or asked are left out.
Narrowest(a, b) == IF a > b THEN a ELSE b
Listed ==
    LET min == Narrowest(viewer.min, filters.min)
        max == IF viewer.max < filters.max THEN viewer.max ELSE filters.max
    IN
    /\ min <= max
    /\ Conditions(viewer, candidate, min, max)
    /\ filters.verifiedOnly => "verified" \in candidate.flags
    /\ relation \cap {"match", "interest_sent"} = {}

\* connections(): an interest that has expired counts for nothing.
ConnectionStatus ==
    CASE "match" \in relation -> "matched"
      [] "match" \notin relation /\ "interest_sent" \in relation -> "interest_sent"
      [] relation \cap {"match", "interest_sent"} = {} /\ "interest_received" \in relation ->
             "interest_received"
      [] OTHER -> "none"

\* getPublicProfile() answers with the profile.
ProfileShown ==
    LET linked == relation \cap {"match", "interest_sent", "interest_received"} # {} IN
    /\ "active" \in candidate.flags /\ "deleted" \notin candidate.flags
    /\ "photo" \in candidate.flags
    /\ ~Separated
    /\ linked \/ ("hidden" \notin candidate.flags /\ "discoverable" \in candidate.flags)

-----------------------------------------------------------------------------
(* The cases: either who the two are varies, or what state they are in *)

Birthdays == UNION {DaysOf(y) : y \in BirthYears}
Days == UNION {DaysOf(y) : y \in ThisYears}
Anyone == {"active", "onboarded", "discoverable", "photo"}
Member(flags, gender, preference, born, min, max) ==
    [flags |-> flags, gender |-> gender, preference |-> preference, born |-> born,
     min |-> min, max |-> max]
Youngest == CHOOSE a \in AgeLimits : \A b \in AgeLimits : a <= b
Oldest == CHOOSE a \in AgeLimits : \A b \in AgeLimits : a >= b

People ==
    /\ \E g, h \in Genders : \E p, q \in GenderPreferences : \E b \in Birthdays :
         \E min, max \in AgeLimits :
           /\ min <= max
           /\ viewer = Member(Anyone, g, p, <<2004, 3, 1>>, min, max)
           /\ candidate = Member(Anyone, h, q, b, Youngest, max)
    /\ relation = {}
    /\ filters \in [min : AgeLimits, max : {Oldest}, verifiedOnly : {FALSE}]
    /\ today \in Days

States ==
    /\ viewer = Member(Anyone, "woman", "everyone", <<2004, 3, 1>>, Youngest, Oldest)
    /\ \E flags \in SUBSET (Anyone \cup {"deleted", "hidden", "restricted", "verified"}) :
         candidate = Member(flags, "man", "women", <<2004, 2, 29>>, Youngest, Oldest)
    /\ relation \in SUBSET {"blocks", "blocked", "reports", "reported", "declined", "match",
                            "interest_sent", "interest_received"}
    /\ filters \in [min : {Youngest}, max : {Oldest}, verifiedOnly : BOOLEAN]
    /\ today \in {d \in Days : d[2] = 3}

DiscoveryInit == People \/ States

\* Time passes: a birthday, or a 29th of February that is none.
NextDate ==
    /\ \E d \in Days : /\ Earlier(today, d)
                       /\ \A e \in Days : Earlier(today, e) => ~Earlier(e, d)
                       /\ today' = d
    /\ UNCHANGED <<viewer, candidate, relation, filters>>

DiscoveryNext == NextDate

-----------------------------------------------------------------------------
(* Properties *)

\* The list shows nobody the eligibility check would refuse or who is already connected to the
\* viewer; whoever is eligible can be opened on the profile page; and eligibility is mutual:
\* both genders and both ages, counted in completed years, fit the other's preference, however
\* the query expresses the age range as dates of birth (candidate-query.ts, matching.ts,
\* profile.service.ts getPublicProfile()).
CandidatesFit ==
    /\ Listed => IsEligible /\ ConnectionStatus \in {"none", "interest_received"}
    /\ IsEligible =>
         /\ ProfileShown
         /\ GenderPreferencesMatch(viewer, candidate)
         /\ CalculateAge(candidate.born, today) \in viewer.min..viewer.max
    /\ ~IsEligible /\ candidate.flags = Anyone /\ relation = {} =>
         \/ ~GenderPreferencesMatch(viewer, candidate)
         \/ CalculateAge(candidate.born, today) \notin viewer.min..viewer.max
         \/ CalculateAge(viewer.born, today) \notin candidate.min..candidate.max

=============================================================================
