------------------------------- MODULE Paging -------------------------------
(***************************************************************************)
(* The keyset pages every list of the API is read in: a page is the first  *)
(* rows after the cursor, one more row than the page holds is read to find *)
(* out whether another page follows, and the cursor of that page is the    *)
(* sort key and the ID of the last row shown.  Between two pages the table *)
(* lives on: rows come, go, and (in some lists) change their sort key.     *)
(*                                                                         *)
(* A row's ID is a number because the database orders UUIDs; a sort key of *)
(* several columns is one number, its rank.  Keys are instants in the      *)
(* database's precision, TicksPerMs to the millisecond; a cursor carries   *)
(* whole milliseconds.                                                     *)
(***************************************************************************)
EXTENDS Naturals, FiniteSets

CONSTANTS RowIds,      \* the IDs rows can have, numbers
          LastKey,     \* the largest sort key
          TicksPerMs,  \* database ticks per millisecond
          PageLimit,   \* rows on a page
          MaxTouches   \* bound: rows changed while the walk goes on

ASSUME PagingAssumption ==
  /\ RowIds \subseteq Nat /\ IsFiniteSet(RowIds)
  /\ {LastKey, MaxTouches} \subseteq Nat
  /\ {TicksPerMs, PageLimit} \subseteq Nat \ {0}

VARIABLES listing,     \* the list being read
          sortKey,     \* per row: its sort key, or Unlisted
          position,    \* the cursor the client holds
          shownTimes,  \* per row: how often the client was shown it
          touched      \* rows that came, went or moved since the first page

pagingVars == <<listing, sortKey, position, shownTimes, touched>>

Unlisted == LastKey + 1
FirstPage == [at |-> "start"]
LastPage == [at |-> "end"]

-----------------------------------------------------------------------------
(* The lists: the direction of the sort key and of the ID, whether a row's *)
(* key can change, and whether keys are whole milliseconds (rows written   *)
(* with a JavaScript date) or finer (rows written with SQL's now()).       *)

List(keys, ids, moves, precise) ==
  [keys |-> keys, ids |-> ids, moves |-> moves, precise |-> precise]

Newest == List("desc", "desc", FALSE, TRUE)

InterestList == Newest
MatchList == Newest
MessageList == Newest
BookingList == Newest
AdminOrderList == Newest
AdminBookingList == Newest
AdminUserList == Newest
SafetyLogList == Newest
AuditLogList == Newest
ChatList == List("desc", "desc", TRUE, TRUE)
NotificationList == List("desc", "desc", TRUE, FALSE)
EventLists == {List(d, d, TRUE, TRUE) : d \in {"asc", "desc"}}
AdminEventLists == EventLists \cup {Newest}
OrganizerList == List("asc", "asc", TRUE, TRUE)
ReportQueue == List("asc", "asc", TRUE, TRUE)
DashboardEventList == List("asc", "asc", TRUE, TRUE)
PartnerList == List("desc", "asc", TRUE, TRUE)

AllLists ==
  {InterestList, MatchList, MessageList, BookingList, AdminOrderList, AdminBookingList,
   AdminUserList, SafetyLogList, AuditLogList, ChatList, NotificationList, OrganizerList,
   ReportQueue, DashboardEventList, PartnerList} \cup EventLists \cup AdminEventLists

WholeMs(key) == (key \div TicksPerMs) * TicksPerMs

Keys(l) == {key \in 0 .. LastKey : l.precise => WholeMs(key) = key}

Precedes(direction, a, b) == IF direction = "asc" THEN a < b ELSE a > b

Before(l, q, r) ==
  \/ Precedes(l.keys, sortKey[q], sortKey[r])
  \/ sortKey[q] = sortKey[r] /\ Precedes(l.ids, q, r)

\* Mutant of KeysetCondition: no tie-breaker on the ID.
KeysetWithoutId(l, c, r) == Precedes(l.keys, c.key, sortKey[r])

\* The rows strictly after the cursor in the list's order.
KeysetCondition(l, c, r) ==
  \/ Precedes(l.keys, c.key, sortKey[r])
  \/ sortKey[r] = c.key /\ Precedes(l.ids, c.id, r)

\* The cursor for the last row of a page: its key as an ISO string, and its ID.
CursorAfter(r) == [at |-> "row", key |-> WholeMs(sortKey[r]), id |-> r]

-----------------------------------------------------------------------------

PagingInit ==
  /\ listing \in AllLists
  /\ sortKey \in [RowIds -> Keys(listing) \cup {Unlisted}]
  /\ position = FirstPage
  /\ shownTimes = [r \in RowIds |-> 0]
  /\ touched = {}

Matching ==
  {r \in RowIds : /\ sortKey[r] # Unlisted
                  /\ position.at = "row" => KeysetCondition(listing, position, r)}

RowsBefore(r) == Cardinality({q \in Matching : Before(listing, q, r)})

\* One GET of the list: LIMIT pageLimit + 1, the first pageLimit rows shown.
NextPage ==
  LET page == {r \in Matching : RowsBefore(r) < PageLimit}
      more == {r \in Matching : RowsBefore(r) = PageLimit} # {}
  IN  /\ position # LastPage
      /\ shownTimes' = [r \in RowIds |-> shownTimes[r] + IF r \in page THEN 1 ELSE 0]
      /\ position' = IF more THEN CursorAfter(CHOOSE r \in page : RowsBefore(r) = PageLimit - 1)
                             ELSE LastPage
      /\ UNCHANGED <<listing, sortKey, touched>>

Touch(r, key) ==
  /\ position.at = "row"
  /\ Cardinality(touched \cup {r}) <= MaxTouches
  /\ sortKey' = [sortKey EXCEPT ![r] = key]
  /\ touched' = touched \cup {r}
  /\ UNCHANGED <<listing, position, shownTimes>>

\* A row is created, or begins to meet the list's filter.
ListRow(r) ==
  sortKey[r] = Unlisted /\ \E key \in Keys(listing) : Touch(r, key)

\* A row stops meeting the filter (an interest answered, an event ended, a member blocked).
UnlistRow(r) ==
  sortKey[r] # Unlisted /\ Touch(r, Unlisted)

\* A row's sort key changes (a message in a chat, an event re-dated, a score recomputed).
MoveRow(r) ==
  /\ listing.moves
  /\ sortKey[r] # Unlisted
  /\ \E key \in Keys(listing) \ {sortKey[r]} : Touch(r, key)

PagingNext ==
  \/ NextPage
  \/ \E r \in RowIds : ListRow(r) \/ UnlistRow(r) \/ MoveRow(r)

-----------------------------------------------------------------------------

\* In a list whose keys are finer than its cursor, a row that shares its millisecond
\* with another one can fall between two pages.
Ambiguous(r) ==
  /\ ~listing.precise
  /\ \/ touched # {}
     \/ \E q \in RowIds \ {r} : sortKey[q] # Unlisted /\ WholeMs(sortKey[q]) = WholeMs(sortKey[r])

\* A member or an admin who reads a list to its end is shown every row that was there
\* all along and did not move, whatever else was added, removed or moved between the
\* pages, and never the same one twice (lib/pagination.ts and each list's cursor).
PagesComplete ==
  \A r \in RowIds \ touched :
    /\ shownTimes[r] <= 1
    /\ position = LastPage /\ sortKey[r] # Unlisted /\ ~Ambiguous(r) => shownTimes[r] = 1

=============================================================================
