---------------------------- MODULE ScreenProofs ----------------------------
(* What members and administrators see, for any number of messages, restarts, *)
(* reloads, changes and sign-ins: the messages of a conversation, and on      *)
(* every page what they have saved.                                           *)
EXTENDS Messaging, Screens, SequenceTheorems, FiniteSetTheorems, TLAPS

-----------------------------------------------------------------------------
(* A conversation: each message once in the table and on the screens *)

MessagingSpec == MessagingInit /\ [][MessagingNext]_messagingVars

ChatRequest ==
    [call: Calls, transport: {"socket", "rest"}, stage: {"arrived", "admitted", "stored", "pushed"}]

\* A list that shows stored messages, none of them twice.
Once(s) == s \in Seq(Calls) /\ IsInjective(s) /\ ToSet(s) \subseteq Stored

\* Requests whose message is in the table and not yet in the notification.
Uncounted == {r \in requests : r.stage \in {"stored", "pushed"}}

Counted == notes.read + notes.unread

ChatTyped ==
    /\ requests \subseteq ChatRequest
    /\ rows \in Seq(Calls)
    /\ notes \in [read: Nat, unread: Nat] /\ restarts \in Nat
    /\ screen \in [Members -> Seq(Calls) \cup {NotLoaded}]
    /\ loads \in [Members -> [state: {"none", "asked", "answered"}, items: Seq(Calls)]]

\* Each message has one request to count it: the one that stored it.
OneCounter ==
    /\ \A r \in Uncounted : r.call \in Stored
    /\ \A q, r \in Uncounted : q.call = r.call => q = r

\* A restart forgets to count messages; nothing counts one twice.
Tally ==
    /\ IsFiniteSet(Uncounted)
    /\ Counted + Cardinality(Uncounted) <= Len(rows)
    /\ restarts = 0 => Counted + Cardinality(Uncounted) = Len(rows)

ListsOnce ==
    /\ IsInjective(rows)
    /\ \A m \in Members :
         /\ screen[m] = NotLoaded \/ Once(screen[m])
         /\ loads[m].state = "answered" => Once(loads[m].items)

ChatInv == ChatTyped /\ OneCounter /\ Tally /\ ListsOnce

\* addMessageToCache() keeps a list of messages free of duplicates.
LEMMA AddedOnce ==
  ASSUME NEW s, s = NotLoaded \/ Once(s), NEW c \in Calls, c \in Stored
  PROVE  Added(s, c) = NotLoaded \/ Once(Added(s, c))
  <1>1. CASE s = NotLoaded \/ c \in ToSet(s)
    BY <1>1 DEF Added
  <1>2. CASE s # NotLoaded /\ c \notin ToSet(s)
    <2>1. s \in Seq(Calls) /\ IsInjective(s) /\ ToSet(s) \subseteq Stored
      BY <1>2 DEF Once
    <2>2. PICK g : g = <<c>> \o s
      OBVIOUS
    <2>3. /\ g \in Seq(Calls) /\ Len(g) = Len(s) + 1
          /\ \A i \in 1..Len(s) + 1 : g[i] = IF i <= 1 THEN c ELSE s[i - 1]
      BY <2>1, <2>2, ConcatProperties, Len(<<c>>) = 1, <<c>>[1] = c, <<c>> \in Seq(Calls)
    <2>4. Len(s) \in Nat /\ DOMAIN s = 1..Len(s) /\ DOMAIN g = 1..Len(g)
      BY <2>1, <2>3
    <2>5. \A i \in DOMAIN s : s[i] # c
      BY <1>2 DEF ToSet
    <2>6. \A i \in DOMAIN g : (i = 1 /\ g[i] = c) \/ (i - 1 \in DOMAIN s /\ g[i] = s[i - 1])
      BY <2>3, <2>4
    <2>7. IsInjective(g)
      <3> SUFFICES ASSUME NEW i \in DOMAIN g, NEW j \in DOMAIN g, g[i] = g[j] PROVE i = j
        BY DEF IsInjective
      <3>1. i \in Int /\ j \in Int
        BY <2>3, <2>4
      <3> QED BY <3>1, <2>1, <2>5, <2>6 DEF IsInjective
    <2>8. ToSet(g) \subseteq Stored
      BY <2>1, <2>6 DEF ToSet
    <2>9. Added(s, c) = g
      BY <1>2, <2>2 DEF Added
    <2> QED BY <2>3, <2>7, <2>8, <2>9 DEF Once
  <1> QED BY <1>1, <1>2

\* A conversation is fetched with every message once.
LEMMA ReverseOnce ==
  ASSUME rows \in Seq(Calls), IsInjective(rows)
  PROVE  Once(Reverse(rows))
  <1>1. PICK n \in Nat : n = Len(rows)
    OBVIOUS
  <1>2. DOMAIN rows = 1..n /\ \A i \in 1..n : rows[i] \in Calls
    BY <1>1
  <1>3. PICK g : g = [i \in 1..n |-> rows[(n - i) + 1]]
    OBVIOUS
  <1>4. \A i \in 1..n : (n - i) + 1 \in 1..n
    OBVIOUS
  <1>5. g \in [1..n -> Calls]
    BY <1>2, <1>3, <1>4
  <1>6. g \in Seq(Calls) /\ DOMAIN g = 1..n
    BY <1>5
  <1>7. IsInjective(g)
    BY <1>2, <1>3, <1>4, <1>6 DEF IsInjective
  <1>8. ToSet(g) \subseteq Stored
    BY <1>2, <1>3, <1>4, <1>6 DEF ToSet, Stored
  <1>9. Reverse(rows) = g
    BY <1>1, <1>3 DEF Reverse
  <1> QED BY <1>6, <1>7, <1>8, <1>9 DEF Once

\* A list stays once while the table keeps its messages.
LEMMA OnceStays ==
  ASSUME NEW s, Once(s), Stored \subseteq Stored'
  PROVE  s \in Seq(Calls) /\ IsInjective(s) /\ ToSet(s) \subseteq Stored'
  BY DEF Once

\* A step that stores and counts nothing.
LEMMA TallyStays ==
  ASSUME ChatInv, UNCHANGED <<rows, notes, restarts>>, Uncounted' = Uncounted
  PROVE  OneCounter' /\ Tally'
  BY DEF ChatInv, OneCounter, Tally, Counted, Stored

\* A step that changes lists only to others in which each message is once.
LEMMA ListsStay ==
  ASSUME ChatInv, rows' \in Seq(Calls), IsInjective(rows'), Stored \subseteq Stored',
         \A m \in Members :
            /\ screen'[m] = screen[m] \/ screen'[m] = NotLoaded \/ Once(screen'[m])
            /\ loads'[m] = loads[m] \/ loads'[m].state # "answered" \/ Once(loads'[m].items)
  PROVE  ListsOnce'
  <1> SUFFICES ASSUME NEW m \in Members
               PROVE  /\ screen'[m] = NotLoaded \/ Once(screen[m])'
                      /\ loads'[m].state = "answered" => Once(loads[m].items)'
    BY DEF ListsOnce
  <1>1. screen'[m] = NotLoaded \/ Once(screen'[m])
    BY DEF ChatInv, ListsOnce
  <1>2. loads'[m].state = "answered" => Once(loads'[m].items)
    BY DEF ChatInv, ListsOnce
  <1> QED BY <1>1, <1>2 DEF Once

\* The answer of a request reaches the tab.
LEMMA AnsweredLists ==
  ASSUME ChatInv, NEW r \in requests, NEW outcome, Answered(r, outcome),
         outcome = "done" => r.call \in Stored
  PROVE  /\ requests' = requests \ {r}
         /\ screen' \in [Members -> Seq(Calls) \cup {NotLoaded}]
         /\ \A m \in Members : screen'[m] = screen[m] \/ screen'[m] = NotLoaded \/ Once(screen'[m])
  <1>1. r.call \in Calls /\ screen \in [Members -> Seq(Calls) \cup {NotLoaded}]
    BY DEF ChatInv, ChatTyped, ChatRequest
  <1>2. requests' = requests \ {r}
    BY DEF Answered
  <1>3. CASE screen' = screen
    BY <1>1, <1>2, <1>3
  <1>4. CASE screen' # screen
    <2>1. outcome = "done" /\ screen' = [screen EXCEPT !["sender"] = Added(screen["sender"], r.call)]
      BY <1>4 DEF Answered
    <2>2. screen["sender"] = NotLoaded \/ Once(screen["sender"])
      BY DEF ChatInv, ListsOnce, Members
    <2>3. PICK s : s = Added(screen["sender"], r.call)
      OBVIOUS
    <2>4. s = NotLoaded \/ Once(s)
      BY <1>1, <2>1, <2>2, <2>3, AddedOnce
    <2>5. s \in Seq(Calls) \cup {NotLoaded}
      BY <2>4 DEF Once
    <2> QED BY <1>1, <1>2, <2>1, <2>3, <2>4, <2>5 DEF Members
  <1> QED BY <1>3, <1>4

\* A request that goes on without storing or counting.
LEMMA RequestMoves ==
  ASSUME ChatInv, UNCHANGED <<rows, notes, restarts, loads>>, Uncounted' = Uncounted,
         requests' \subseteq ChatRequest,
         screen' \in [Members -> Seq(Calls) \cup {NotLoaded}],
         \A m \in Members : screen'[m] = screen[m] \/ screen'[m] = NotLoaded \/ Once(screen'[m])
  PROVE  ChatInv'
  <1>1. ChatTyped'
    BY DEF ChatInv, ChatTyped
  <1>2. OneCounter' /\ Tally'
    BY TallyStays
  <1>3. ListsOnce'
    BY ListsStay DEF ChatInv, ChatTyped, ListsOnce, Stored
  <1> QED BY <1>1, <1>2, <1>3 DEF ChatInv

LEMMA AdmitKeeps ==
  ASSUME ChatInv, NEW r \in requests, Admit(r)
  PROVE  ChatInv'
  <1>1. r \in ChatRequest /\ r.stage = "arrived" /\ requests \subseteq ChatRequest
    BY DEF ChatInv, ChatTyped, Admit
  <1>2. UNCHANGED <<rows, notes, restarts, loads>>
    BY DEF Admit
  <1>3. ASSUME NEW outcome, Answered(r, outcome), outcome = "done" => r.call \in Stored
        PROVE  ChatInv'
    <2>1. Uncounted' = Uncounted /\ requests' \subseteq ChatRequest
      BY <1>1, <1>3, AnsweredLists DEF Uncounted
    <2> QED BY <1>2, <1>3, <2>1, AnsweredLists, RequestMoves
  <1>4. CASE Advance(r, "admitted") /\ UNCHANGED <<sends, screen>>
    <2>1. PICK q : q = [r EXCEPT !.stage = "admitted"]
      OBVIOUS
    <2>2. q \in ChatRequest /\ q.stage = "admitted"
      BY <1>1, <2>1 DEF ChatRequest
    <2>3. requests' = (requests \ {r}) \cup {q}
      BY <1>4, <2>1 DEF Advance
    <2>4. Uncounted' = Uncounted /\ requests' \subseteq ChatRequest
      BY <1>1, <2>2, <2>3 DEF Uncounted
    <2>5. screen' \in [Members -> Seq(Calls) \cup {NotLoaded}]
      BY <1>4 DEF ChatInv, ChatTyped
    <2> QED BY <1>2, <1>4, <2>4, <2>5, RequestMoves
  <1> QED BY <1>3, <1>4 DEF Admit

LEMMA StoreKeeps ==
  ASSUME ChatInv, NEW r \in requests, Store(r)
  PROVE  ChatInv'
  <1>1. r \in ChatRequest /\ r.stage = "admitted" /\ requests \subseteq ChatRequest
        /\ r.call \in Calls
    BY DEF ChatInv, ChatTyped, Store, ChatRequest
  <1>2. UNCHANGED <<notes, restarts, loads>>
    BY DEF Store
  <1>3. ASSUME NEW outcome, Answered(r, outcome), outcome = "done" => r.call \in Stored,
               UNCHANGED rows
        PROVE  ChatInv'
    <2>1. Uncounted' = Uncounted /\ requests' \subseteq ChatRequest
      BY <1>1, <1>3, AnsweredLists DEF Uncounted
    <2> QED BY <1>2, <1>3, <2>1, AnsweredLists, RequestMoves
  <1>4. CASE r.call \notin Stored /\ rows' = Append(rows, r.call) /\ Advance(r, "stored")
             /\ UNCHANGED <<sends, screen>>
    <2>1. PICK q : q = [r EXCEPT !.stage = "stored"]
      OBVIOUS
    <2>2. q \in ChatRequest /\ q.stage = "stored" /\ q.call = r.call
      BY <1>1, <2>1 DEF ChatRequest
    <2>3. requests' = (requests \ {r}) \cup {q}
      BY <1>4, <2>1 DEF Advance
    <2>4. Uncounted' = Uncounted \cup {q}
      BY <1>1, <2>2, <2>3 DEF Uncounted
    <2>5. \A u \in Uncounted : u.call \in Stored
      BY DEF ChatInv, OneCounter
    <2>6. q \notin Uncounted
      BY <1>4, <2>2, <2>5
    <2>7. rows \in Seq(Calls) /\ IsInjective(rows)
      BY DEF ChatInv, ChatTyped, ListsOnce
    <2>8. PICK g : g = Append(rows, r.call)
      OBVIOUS
    <2>9. /\ g \in Seq(Calls) /\ Len(g) = Len(rows) + 1 /\ g[Len(rows) + 1] = r.call
          /\ \A i \in 1..Len(rows) : g[i] = rows[i]
      BY <1>1, <2>7, <2>8, AppendProperties
    <2>10. Len(rows) \in Nat /\ DOMAIN rows = 1..Len(rows) /\ DOMAIN g = 1..Len(g)
      BY <2>7, <2>9
    <2>11. \A i \in DOMAIN rows : rows[i] # r.call
      BY <1>4 DEF Stored, ToSet
    <2>12. DOMAIN g = DOMAIN rows \cup {Len(rows) + 1}
      BY <2>9, <2>10
    <2>13. IsInjective(g)
      BY <2>7, <2>9, <2>10, <2>11, <2>12 DEF IsInjective
    <2>14. ToSet(g) = Stored \cup {r.call}
      BY <2>9, <2>10, <2>12 DEF Stored, ToSet
    <2>15. rows' = g /\ Stored' = Stored \cup {r.call}
      BY <1>4, <2>8, <2>14 DEF Stored
    <2>16. ChatTyped'
      BY <1>1, <1>2, <1>4, <2>2, <2>3, <2>9, <2>15 DEF ChatInv, ChatTyped
    <2>17. OneCounter'
      <3>1. \A p, u \in Uncounted : p.call = u.call => p = u
        BY DEF ChatInv, OneCounter
      <3> QED BY <1>4, <2>2, <2>4, <2>5, <2>15, <3>1 DEF OneCounter
    <2>18. Tally'
      <3>1. /\ IsFiniteSet(Uncounted) /\ Counted + Cardinality(Uncounted) <= Len(rows)
            /\ restarts = 0 => Counted + Cardinality(Uncounted) = Len(rows)
        BY DEF ChatInv, Tally
      <3>2. PICK k \in Nat : k = Cardinality(Uncounted)
        BY <3>1, FS_CardinalityType
      <3>3. IsFiniteSet(Uncounted') /\ Cardinality(Uncounted') = k + 1
        BY <2>4, <2>6, <3>1, <3>2, FS_AddElement
      <3>4. Counted \in Nat /\ Counted' = Counted
        BY <1>2 DEF ChatInv, ChatTyped, Counted
      <3> QED BY <1>2, <2>9, <2>10, <2>15, <3>1, <3>2, <3>3, <3>4 DEF Tally
    <2>19. ListsOnce'
      BY <1>2, <1>4, <2>9, <2>13, <2>15, ListsStay
    <2> QED BY <2>16, <2>17, <2>18, <2>19 DEF ChatInv
  <1> QED BY <1>3, <1>4 DEF Store

LEMMA PushKeeps ==
  ASSUME ChatInv, NEW r \in requests, Push(r)
  PROVE  ChatInv'
  <1>1. r \in ChatRequest /\ r \in Uncounted /\ requests \subseteq ChatRequest /\ r.call \in Calls
    BY DEF ChatInv, ChatTyped, Push, ChatRequest, Uncounted
  <1>2. UNCHANGED <<rows, notes, restarts, loads>>
    BY DEF Push
  <1>3. PICK q : q = [r EXCEPT !.stage = "pushed"]
    OBVIOUS
  <1>4. q \in ChatRequest /\ q.stage = "pushed" /\ q.call = r.call
    BY <1>1, <1>3 DEF ChatRequest
  <1>5. requests' = (requests \ {r}) \cup {q}
    BY <1>3 DEF Push, Advance
  <1>6. Uncounted' = (Uncounted \ {r}) \cup {q}
    BY <1>4, <1>5 DEF Uncounted
  <1>7. /\ \A u \in Uncounted : u.call \in Stored
        /\ \A p, u \in Uncounted : p.call = u.call => p = u
        /\ IsFiniteSet(Uncounted)
    BY DEF ChatInv, OneCounter, Tally
  <1>8. q \notin Uncounted \ {r}
    BY <1>1, <1>4, <1>7
  <1>9. IsFiniteSet(Uncounted') /\ Cardinality(Uncounted') = Cardinality(Uncounted)
    <2>1. PICK rest : rest = Uncounted \ {r}
      OBVIOUS
    <2>2. PICK k \in Nat : k = Cardinality(Uncounted)
      BY <1>7, FS_CardinalityType
    <2>3. IsFiniteSet(rest) /\ Cardinality(rest) = k - 1
      BY <1>1, <1>7, <2>1, <2>2, FS_RemoveElement
    <2>4. q \notin rest
      BY <1>8, <2>1
    <2>5. IsFiniteSet(rest \cup {q}) /\ Cardinality(rest \cup {q}) = Cardinality(rest) + 1
      BY <2>3, <2>4, FS_AddElement
    <2> QED BY <1>6, <2>1, <2>2, <2>3, <2>5
  <1>10. Tally'
    BY <1>2, <1>9 DEF ChatInv, Tally, Counted
  <1>11. OneCounter'
    BY <1>1, <1>2, <1>4, <1>6, <1>7 DEF OneCounter, Stored
  <1>12. \A m \in Members : screen'[m] = screen[m] \/ screen'[m] = NotLoaded \/ Once(screen'[m])
    <2> SUFFICES ASSUME NEW m \in Members, screen'[m] # screen[m]
                 PROVE  screen'[m] = NotLoaded \/ Once(screen'[m])
      OBVIOUS
    <2>1. screen'[m] = Added(screen[m], r.call)
      BY DEF Push
    <2>2. screen[m] = NotLoaded \/ Once(screen[m])
      BY DEF ChatInv, ListsOnce
    <2> QED BY <1>1, <1>7, <2>1, <2>2, AddedOnce
  <1>13. screen' \in [Members -> Seq(Calls) \cup {NotLoaded}]
    <2>1. screen \in [Members -> Seq(Calls) \cup {NotLoaded}]
      BY DEF ChatInv, ChatTyped
    <2>2. \A m \in Members : screen'[m] \in Seq(Calls) \cup {NotLoaded}
      BY <1>12, <2>1 DEF Once
    <2>3. PICK f : f = screen'
      OBVIOUS
    <2>4. f = [m \in Members |-> f[m]]
      BY <2>3 DEF Push
    <2> QED BY <2>2, <2>3, <2>4
  <1>14. ChatTyped'
    BY <1>1, <1>2, <1>4, <1>5, <1>13 DEF ChatInv, ChatTyped
  <1>15. ListsOnce'
    BY <1>2, <1>12, ListsStay DEF ChatInv, ChatTyped, ListsOnce, Stored
  <1> QED BY <1>10, <1>11, <1>14, <1>15 DEF ChatInv

LEMMA NotifyKeeps ==
  ASSUME ChatInv, NEW r \in requests, Notify(r)
  PROVE  ChatInv'
  <1>1. r \in ChatRequest /\ r \in Uncounted /\ requests \subseteq ChatRequest /\ r.call \in Stored
    BY DEF ChatInv, ChatTyped, Notify, Uncounted, OneCounter
  <1>2. /\ UNCHANGED <<rows, restarts, loads>> /\ Answered(r, "done")
        /\ notes' = [notes EXCEPT !.unread = notes.unread + 1]
    BY DEF Notify
  <1>3. Uncounted' = Uncounted \ {r} /\ requests' = requests \ {r}
    BY <1>1, <1>2, AnsweredLists DEF Uncounted
  <1>4. notes' \in [read: Nat, unread: Nat] /\ Counted' = Counted + 1 /\ Counted \in Nat
    <2>1. PICK a \in Nat, b \in Nat : notes = [read |-> a, unread |-> b]
      BY DEF ChatInv, ChatTyped
    <2>2. notes' = [read |-> a, unread |-> b + 1]
      BY <1>2, <2>1
    <2> QED BY <2>1, <2>2 DEF Counted
  <1>5. Tally'
    <2>1. /\ IsFiniteSet(Uncounted) /\ Counted + Cardinality(Uncounted) <= Len(rows)
          /\ restarts = 0 => Counted + Cardinality(Uncounted) = Len(rows)
      BY DEF ChatInv, Tally
    <2>2. PICK k \in Nat : k = Cardinality(Uncounted)
      BY <2>1, FS_CardinalityType
    <2>3. IsFiniteSet(Uncounted') /\ Cardinality(Uncounted') = k - 1
      BY <1>1, <1>3, <2>1, <2>2, FS_RemoveElement
    <2> QED BY <1>2, <1>4, <2>1, <2>2, <2>3 DEF Tally
  <1>6. OneCounter'
    BY <1>2, <1>3 DEF ChatInv, OneCounter, Stored
  <1>7. ChatTyped'
    BY <1>1, <1>2, <1>3, <1>4, AnsweredLists DEF ChatInv, ChatTyped
  <1>8. ListsOnce'
    BY <1>1, <1>2, AnsweredLists, ListsStay DEF ChatInv, ChatTyped, ListsOnce, Stored
  <1> QED BY <1>5, <1>6, <1>7, <1>8 DEF ChatInv

LEMMA NextChat ==
  ASSUME ChatInv, [MessagingNext]_messagingVars
  PROVE  ChatInv'
  <1>1. ASSUME NEW c \in Calls, SendChatMessage(c) \/ AckTimesOut(c) \/ RestFails(c)
        PROVE  ChatInv'
    <2>1. UNCHANGED <<rows, notes, restarts, loads, screen>>
      BY <1>1 DEF SendChatMessage, AckTimesOut, RestFails
    <2>2. requests' = requests \/ \E transport \in {"socket", "rest"} :
             requests' = requests \cup {Request(c, transport, "arrived")}
      BY <1>1 DEF SendChatMessage, AckTimesOut, RestFails
    <2>3. requests' \subseteq ChatRequest /\ Uncounted' = Uncounted
      BY <2>2 DEF ChatInv, ChatTyped, ChatRequest, Request, Uncounted
    <2>4. screen' \in [Members -> Seq(Calls) \cup {NotLoaded}]
      BY <2>1 DEF ChatInv, ChatTyped
    <2> QED BY <2>1, <2>3, <2>4, RequestMoves
  <1>2. ASSUME NEW r \in requests, Admit(r) \/ Store(r) \/ Push(r) \/ Notify(r)
        PROVE  ChatInv'
    BY <1>2, AdmitKeeps, StoreKeeps, PushKeeps, NotifyKeeps
  <1>3. ASSUME NEW m \in Members, Load(m) \/ Messages(m) \/ ShowLoaded(m) \/ LoadFails(m)
        PROVE  ChatInv'
    <2>1. UNCHANGED <<rows, notes, restarts, requests>>
      BY <1>3 DEF Load, Messages, ShowLoaded, LoadFails
    <2>2. screen \in [Members -> Seq(Calls) \cup {NotLoaded}]
          /\ loads \in [Members -> [state: {"none", "asked", "answered"}, items: Seq(Calls)]]
          /\ rows \in Seq(Calls) /\ IsInjective(rows)
      BY DEF ChatInv, ChatTyped, ListsOnce
    <2>3. OneCounter' /\ Tally'
      BY <2>1, TallyStays DEF Uncounted
    <2>4. /\ screen' \in [Members -> Seq(Calls) \cup {NotLoaded}]
          /\ loads' \in [Members -> [state: {"none", "asked", "answered"}, items: Seq(Calls)]]
          /\ \A x \in Members :
               /\ screen'[x] = screen[x] \/ screen'[x] = NotLoaded \/ Once(screen'[x])
               /\ loads'[x] = loads[x] \/ loads'[x].state # "answered" \/ Once(loads'[x].items)
      <3>1. NoLoad \in [state: {"none", "asked", "answered"}, items: Seq(Calls)]
            /\ NoLoad.state # "answered"
        BY DEF NoLoad
      <3>2. CASE Load(m)
        <4>1. PICK l : l = [loads[m] EXCEPT !.state = "asked"]
          OBVIOUS
        <4>2. l \in [state: {"none", "asked", "answered"}, items: Seq(Calls)] /\ l.state = "asked"
          BY <2>2, <4>1
        <4>3. loads' = [loads EXCEPT ![m] = l]
          BY <3>2, <4>1 DEF Load
        <4> QED BY <2>2, <3>2, <4>2, <4>3 DEF Load
      <3>3. CASE Messages(m)
        <4>1. PICK g : g = Reverse(rows)
          OBVIOUS
        <4>2. Once(g) /\ g \in Seq(Calls)
          BY <2>2, <4>1, ReverseOnce DEF Once
        <4>3. PICK l : l = [state |-> "answered", items |-> g]
          OBVIOUS
        <4>4. l \in [state: {"none", "asked", "answered"}, items: Seq(Calls)] /\ l.items = g
          BY <4>2, <4>3
        <4>5. loads' = [loads EXCEPT ![m] = l] /\ screen' = screen
          BY <3>3, <4>1, <4>3 DEF Messages
        <4> QED BY <2>2, <4>2, <4>4, <4>5
      <3>4. CASE ShowLoaded(m)
        <4>1. PICK g : g = loads[m].items
          OBVIOUS
        <4>2. Once(g) /\ g \in Seq(Calls)
          BY <3>4, <4>1 DEF ChatInv, ListsOnce, ShowLoaded, Once
        <4>3. screen' = [screen EXCEPT ![m] = g] /\ loads' = [loads EXCEPT ![m] = NoLoad]
          BY <3>4, <4>1 DEF ShowLoaded
        <4> QED BY <2>2, <3>1, <4>2, <4>3
      <3>5. CASE LoadFails(m)
        BY <2>2, <3>1, <3>5 DEF LoadFails
      <3> QED BY <1>3, <3>2, <3>3, <3>4, <3>5
    <2>5. ChatTyped'
      BY <2>1, <2>4 DEF ChatInv, ChatTyped
    <2>6. ListsOnce'
      BY <2>1, <2>2, <2>4, ListsStay DEF Stored
    <2> QED BY <2>3, <2>5, <2>6 DEF ChatInv
  <1>4. ASSUME UNCHANGED <<rows, restarts, requests, loads, screen>>,
               notes' = notes \/ notes' = [read |-> notes.read + notes.unread, unread |-> 0]
        PROVE  ChatInv'
    <2>1. notes' \in [read: Nat, unread: Nat] /\ Counted' = Counted
      <3>1. PICK a \in Nat, b \in Nat : notes = [read |-> a, unread |-> b]
        BY DEF ChatInv, ChatTyped
      <3>2. CASE notes' = notes
        BY <3>1, <3>2 DEF Counted
      <3>3. CASE notes' = [read |-> notes.read + notes.unread, unread |-> 0]
        <4>1. notes' = [read |-> a + b, unread |-> 0]
          BY <3>1, <3>3
        <4> QED BY <3>1, <4>1 DEF Counted
      <3> QED BY <1>4, <3>2, <3>3
    <2>2. ChatTyped' /\ OneCounter' /\ Tally'
      BY <1>4, <2>1 DEF ChatInv, ChatTyped, OneCounter, Tally, Uncounted, Stored
    <2>3. ListsOnce'
      BY <1>4, ListsStay DEF ChatInv, ChatTyped, ListsOnce, Stored
    <2> QED BY <2>2, <2>3 DEF ChatInv
  <1>5. CASE RestartApi
    <2>1. UNCHANGED <<rows, notes, loads, screen>> /\ requests' = {} /\ restarts' = restarts + 1
      BY <1>5 DEF RestartApi
    <2>2. Uncounted' = {} /\ IsFiniteSet({}) /\ Cardinality({}) = 0
      BY <2>1, FS_EmptySet DEF Uncounted
    <2>3. restarts' \in Nat /\ restarts' # 0 /\ Counted' = Counted /\ Counted \in Nat
      BY <2>1 DEF ChatInv, ChatTyped, Counted
    <2>4. Counted <= Len(rows)
      <3>1. IsFiniteSet(Uncounted) /\ Counted + Cardinality(Uncounted) <= Len(rows)
        BY DEF ChatInv, Tally
      <3>2. PICK k \in Nat : k = Cardinality(Uncounted)
        BY <3>1, FS_CardinalityType
      <3>3. PICK n \in Nat : n = Len(rows)
        BY DEF ChatInv, ChatTyped
      <3> QED BY <2>3, <3>1, <3>2, <3>3
    <2>5. ChatTyped' /\ OneCounter'
      BY <2>1, <2>2, <2>3 DEF ChatInv, ChatTyped, OneCounter
    <2>6. Tally'
      BY <2>1, <2>2, <2>3, <2>4 DEF Tally
    <2>7. ListsOnce'
      BY <2>1, ListsStay DEF ChatInv, ChatTyped, ListsOnce, Stored
    <2> QED BY <2>5, <2>6, <2>7 DEF ChatInv
  <1>6. ASSUME NEW m \in Members, Connect(m) \/ Drop(m)
        PROVE  ChatInv'
    BY <1>4, <1>6 DEF Connect, Drop
  <1>7. CASE MarkChatRead \/ EndChat
    BY <1>4, <1>7 DEF MarkChatRead, EndChat
  <1>8. ASSUME NEW k \in marks, MarkRead(k) \/ ReadNotifications(k) \/ LoseMark(k)
        PROVE  ChatInv'
    BY <1>4, <1>8 DEF MarkRead, ReadNotifications, LoseMark
  <1>9. CASE UNCHANGED messagingVars
    BY <1>4, <1>9 DEF messagingVars
  <1> QED
    BY <1>1, <1>2, <1>3, <1>5, <1>6, <1>7, <1>8, <1>9 DEF MessagingNext

\* No member sees a message twice and none is stored twice, however the socket, REST, the push
\* and the fetches overlap; the partner's notifications count each at most once, and exactly
\* once when no restart came between (chat.service.ts send(), chat/hooks.ts addMessageToCache()).
THEOREM EachMessageOnce == MessagingSpec => []MessagesOnce
  <1>1. MessagingInit => ChatInv
    <2> SUFFICES ASSUME MessagingInit PROVE ChatInv
      OBVIOUS
    <2>1. Uncounted = {} /\ IsFiniteSet({}) /\ Cardinality({}) = 0
      BY FS_EmptySet DEF MessagingInit, Uncounted
    <2>2. rows = <<>> /\ Len(rows) = 0 /\ rows \in Seq(Calls) /\ DOMAIN rows = {} /\ Counted = 0
      BY DEF MessagingInit, Counted
    <2>3. ChatTyped
      BY <2>2 DEF MessagingInit, ChatTyped, NoLoad
    <2>4. OneCounter
      BY <2>1 DEF OneCounter
    <2>5. Tally
      BY <2>1, <2>2 DEF Tally
    <2>6. ListsOnce
      BY <2>2 DEF MessagingInit, ListsOnce, IsInjective, NoLoad
    <2> QED BY <2>3, <2>4, <2>5, <2>6 DEF ChatInv
  <1>2. ChatInv /\ [MessagingNext]_messagingVars => ChatInv'
    BY NextChat
  <1>3. ChatInv => MessagesOnce
    <2> SUFFICES ASSUME ChatInv PROVE MessagesOnce
      OBVIOUS
    <2>1. IsFiniteSet(Uncounted) /\ Counted + Cardinality(Uncounted) <= Len(rows)
          /\ (restarts = 0 => Counted + Cardinality(Uncounted) = Len(rows))
      BY DEF ChatInv, Tally
    <2>2. PICK k \in Nat : k = Cardinality(Uncounted)
      BY <2>1, FS_CardinalityType
    <2>3. PICK n \in Nat : n = Len(rows)
      BY DEF ChatInv, ChatTyped
    <2>4. Counted \in Nat
      BY DEF ChatInv, ChatTyped, Counted
    <2>5. requests = {} => k = 0
      BY <2>2, FS_EmptySet DEF Uncounted
    <2>6. Counted <= Len(rows) /\ (restarts = 0 /\ requests = {} => Counted = Len(rows))
      BY <2>1, <2>2, <2>3, <2>4, <2>5
    <2> QED BY <2>6 DEF MessagesOnce, ChatInv, ListsOnce, Once, Counted
  <1> QED
    BY <1>1, <1>2, <1>3, PTL DEF MessagingSpec

-----------------------------------------------------------------------------
(* Pages: what a visitor has saved *)

ScreensSpec == ScreensInit /\ [][ScreensNext]_screenVars

\* What a mutation changes at once its hook refreshes or fills.
Refreshing(m) == m.writes \ m.lags \subseteq m.refreshes \cup m.sets

LEMMA WebRefreshes == \A m \in DOMAIN WebMutation : Refreshing(WebMutation[m])
  <1>1. \A then : Refreshing(ProfileMutation(then))
    BY DEF Refreshing, ProfileMutation, Mutation
  <1>2. \A writes, lags, then : writes \subseteq Connections \cup lags =>
           Refreshing(ConnectionMutation(writes, lags, then))
    BY DEF Refreshing, ConnectionMutation, Mutation
  <1>3. Refreshing(SafetyMutation)
    BY DEF Refreshing, SafetyMutation, Mutation
  <1>4. Refreshing(AttendanceMutation) /\ Refreshing(SendMutation) /\ Refreshing(MarkReadMutation)
    BY DEF Refreshing, AttendanceMutation, SendMutation, MarkReadMutation, Mutation, Inbox,
           Notifications
  <1>5. /\ Refreshing(NotificationMutation) /\ Refreshing(NotificationPreferenceMutation)
        /\ Refreshing(AcknowledgeMutation) /\ Refreshing(UnblockMutation)
        /\ Refreshing(BuyPassMutation)
    BY DEF Refreshing, NotificationMutation, NotificationPreferenceMutation, AcknowledgeMutation,
           UnblockMutation, BuyPassMutation, Mutation, Inbox, Notifications
  <1>6. Refreshing(ConnectionMutation({"received", "matches", "chats"}, {"chats"}, "match"))
    BY <1>2 DEF Connections
  <1>7. Refreshing(ConnectionMutation({"matches", "match"} \cup Chats, Chats, "matches"))
    BY <1>2 DEF Connections
  <1>8. /\ Refreshing(SendInterestMutation) /\ Refreshing(ConnectionMutation({"sent"}, {}, "stay"))
        /\ Refreshing(ConnectionMutation({"received"}, {}, "stay"))
    BY <1>2 DEF SendInterestMutation, Connections
  <1> QED
    BY <1>1, <1>3, <1>4, <1>5, <1>6, <1>7, <1>8 DEF WebMutation

LEMMA AdminRefreshes == \A m \in DOMAIN AdminMutations : Refreshing(AdminMutations[m])
  <1>1. \A writes, refreshes, sets, lags, then : writes \subseteq refreshes \cup sets \cup lags =>
           Refreshing(AdminMutation(writes, refreshes, sets, lags, then))
    BY DEF Refreshing, AdminMutation, Mutation
  <1>2. /\ Refreshing(CloseMatchMutation) /\ Refreshing(RestrictionMutation)
        /\ Refreshing(SanctionMutation) /\ Refreshing(ConversationMutation)
        /\ Refreshing(CreateEventMutation) /\ Refreshing(DeleteEventMutation)
        /\ Refreshing(PassMutation) /\ Refreshing(CreateOrganizerMutation)
        /\ Refreshing(RefundMutation)
    BY <1>1 DEF CloseMatchMutation, RestrictionMutation, SanctionMutation, ConversationMutation,
                CreateEventMutation, DeleteEventMutation, PassMutation, CreateOrganizerMutation,
                RefundMutation
  <1>3. /\ \A lags : Refreshing(ReportMutation(lags))
        /\ \A lags, then : Refreshing(EventMutation(lags, then))
        /\ \A then : Refreshing(OrganizerMutation(then))
    BY <1>1 DEF ReportMutation, EventMutation, OrganizerMutation
  <1> QED
    BY <1>2, <1>3 DEF AdminMutations

LEMMA MutationRefreshes ==
  ASSUME app \in {"web", "admin"}, NEW m \in DOMAIN Mutations
  PROVE  Refreshing(Mutations[m])
  BY WebRefreshes, AdminRefreshes DEF Mutations

AnyFetch == [state: {"none", "asked", "answered"}, owner: Nat, version: Nat]

AnyCache == [owner: Nat, version: Nat, stale: BOOLEAN, behind: BOOLEAN]

AnyVisitor ==
    [number: Nat,
     standing: {"loading", "anonymous", "not_started", "incomplete", "complete"} \cup Roles]

AnyCall ==
    [name: {"none"} \cup DOMAIN WebMutation \cup DOMAIN AdminMutations,
     state: {"none", "sent", "saved", "refreshing"}, owner: Nat, version: Nat]

ScreenTyped ==
    /\ app \in {"web", "admin"}
    /\ visitor \in AnyVisitor /\ cache \in AnyCache /\ fetch \in AnyFetch /\ call \in AnyCall
    /\ signIns \in Nat /\ server \in Nat /\ own \in Nat

\* A mutation in flight is one of the tables', of somebody, and saved after the earlier ones.
CallsInOrder ==
    /\ call.state # "none" => call.name \in DOMAIN Mutations /\ call.owner # 0
    /\ own <= server /\ call.version <= server
    /\ call.state = "saved" => own <= call.version

\* The visitor's cached data do not have what was saved.
Outdated(c, number, version) == c.owner = number /\ ~c.behind /\ c.version < version

\* Outdated data are marked stale, and on screen they are being fetched.
OutdatedFetched ==
    Outdated(cache, visitor.number, own) => cache.stale /\ (Shown => fetch # NoFetch)

ScreenInv == ScreenTyped /\ CallsInOrder /\ OutdatedFetched

LEMMA Cached ==
  \A o, v \in Nat, s, b \in BOOLEAN :
     LET c == [owner |-> o, version |-> v, stale |-> s, behind |-> b] IN
     c \in AnyCache /\ c.owner = o /\ c.version = v /\ c.stale = s /\ c.behind = b
  BY DEF AnyCache

LEMMA VisitorTyped == \A v \in AnyVisitor : v.number \in Nat
  BY DEF AnyVisitor

LEMMA ShownNext ==
  ASSUME UNCHANGED <<app, query>>
  PROVE  Shown' <=> ShownTo(visitor', page', started')
  BY DEF Shown, ShownTo, Target, WebRedirect, AdminRedirect, Table

\* A page with stale data asks for them when it opens.
LEMMA MountAsks ==
  ASSUME ScreenTyped, NEW v \in AnyVisitor, NEW p, NEW step, NEW stale \in BOOLEAN
  PROVE  /\ Mount(v, p, step, stale) \in AnyFetch
         /\ fetch # NoFetch => Mount(v, p, step, stale) # NoFetch
         /\ ShownTo(v, p, step) /\ ~Shown /\ stale => Mount(v, p, step, stale) # NoFetch
  <1>1. Ask(v) \in AnyFetch /\ Ask(v) # NoFetch
    BY VisitorTyped DEF Ask, AnyFetch, NoFetch
  <1>2. fetch \in AnyFetch
    BY DEF ScreenTyped
  <1>3. Mount(v, p, step, stale) = fetch \/ Mount(v, p, step, stale) = Ask(v)
    BY DEF Mount
  <1>4. ShownTo(v, p, step) /\ ~Shown /\ stale /\ fetch = NoFetch => Mount(v, p, step, stale) = Ask(v)
    BY DEF Mount
  <1> QED BY <1>1, <1>2, <1>3, <1>4

\* A step that leaves the cached data, what was saved and who is signed in.
LEMMA StillFetched ==
  ASSUME ScreenInv, UNCHANGED <<app, query, cache, own>>, visitor'.number = visitor.number,
         cache.stale /\ (Shown => fetch # NoFetch) /\ Shown' => fetch' # NoFetch
  PROVE  OutdatedFetched'
  BY DEF ScreenInv, OutdatedFetched, Outdated

\* The page or the step of the page changes, and what it shows is fetched.
LEMMA OpenKeeps ==
  ASSUME ScreenInv, NEW p, NEW step,
         page' = p, started' = step, fetch' = Mount(visitor, p, step, cache.stale),
         UNCHANGED <<app, query, visitor, cache, own>>
  PROVE  OutdatedFetched' /\ fetch' \in AnyFetch
  <1>1. visitor \in AnyVisitor /\ cache.stale \in BOOLEAN /\ ScreenTyped
    BY DEF ScreenInv, ScreenTyped, AnyCache
  <1>2. fetch' \in AnyFetch
    BY <1>1, MountAsks
  <1>3. Shown' <=> ShownTo(visitor, p, step)
    BY ShownNext
  <1>4. cache.stale /\ (Shown => fetch # NoFetch) /\ Shown' => fetch' # NoFetch
    BY <1>1, <1>3, MountAsks
  <1> QED BY <1>2, <1>4, StillFetched

LEMMA NavigateKeeps ==
  ASSUME ScreenInv, NEW p, Open(p), UNCHANGED <<app, query, visitor, signIns, server, cache, call, own>>
  PROVE  ScreenInv'
  <1>1. OutdatedFetched' /\ fetch' \in AnyFetch
    BY OpenKeeps DEF Open
  <1> QED BY <1>1 DEF ScreenInv, ScreenTyped, CallsInOrder, Mutations

\* The fetch in flight goes on, another one starts, or a stale time passes.
LEMMA FetchKeeps ==
  ASSUME ScreenInv, UNCHANGED <<app, query, page, visitor, started, signIns, call, own>>,
         server' \in Nat, server <= server',
         cache' = cache \/ cache' = [cache EXCEPT !.stale = TRUE],
         fetch' \in AnyFetch, Shown /\ fetch # NoFetch => fetch' # NoFetch
  PROVE  ScreenInv'
  <1>1. ScreenTyped'
    BY DEF ScreenInv, ScreenTyped, AnyCache
  <1>2. CallsInOrder'
    <2>1. own <= server /\ call.version <= server /\ own \in Nat /\ call.version \in Nat
          /\ server \in Nat
      BY DEF ScreenInv, CallsInOrder, ScreenTyped, AnyCall
    <2>2. own <= server' /\ call.version <= server'
      BY <2>1
    <2> QED BY <2>2 DEF ScreenInv, CallsInOrder, Mutations
  <1>3. Shown' <=> Shown
    BY ShownNext DEF Shown
  <1>4. /\ cache'.owner = cache.owner /\ cache'.version = cache.version
        /\ cache'.behind = cache.behind /\ (cache.stale => cache'.stale)
    BY DEF ScreenInv, ScreenTyped, AnyCache
  <1>5. OutdatedFetched'
    BY <1>3, <1>4 DEF ScreenInv, OutdatedFetched, Outdated
  <1> QED BY <1>1, <1>2, <1>5 DEF ScreenInv

LEMMA ReceiveKeeps ==
  ASSUME ScreenInv, Receive \/ FetchFails
  PROVE  ScreenInv'
  <1>1. UNCHANGED <<app, query, page, visitor, started, signIns, server, call, own>>
        /\ fetch' = NoFetch
    BY DEF Receive, FetchFails
  <1>2. cache' \in AnyCache
        /\ (cache'.behind \/ ~(cache'.version < own))
    <2>1. CASE Receive
      <3>1. PICK o \in Nat, v \in Nat : o = fetch.owner /\ v = fetch.version
        BY DEF ScreenInv, ScreenTyped, AnyFetch
      <3>2. CASE v < own
        <4>1. cache' = [owner |-> o, version |-> v, stale |-> FALSE, behind |-> TRUE]
          BY <2>1, <3>1, <3>2 DEF Receive
        <4> QED BY <3>1, <4>1, Cached
      <3>3. CASE ~(v < own)
        <4>1. (fetch.version < own) = FALSE
          BY <3>1, <3>3
        <4>2. cache' = [owner |-> o, version |-> v, stale |-> FALSE, behind |-> FALSE]
          BY <2>1, <3>1, <4>1 DEF Receive
        <4> QED BY <3>1, <3>3, <4>2, Cached
      <3> QED BY <3>2, <3>3
    <2>2. CASE FetchFails
      BY <2>2 DEF FetchFails, ScreenInv, ScreenTyped, AnyCache
    <2> QED BY <2>1, <2>2
  <1>3. NoFetch \in AnyFetch
    BY DEF NoFetch, AnyFetch
  <1>4. ScreenTyped' /\ CallsInOrder'
    BY <1>1, <1>2, <1>3 DEF ScreenInv, ScreenTyped, CallsInOrder, Mutations
  <1>5. OutdatedFetched'
    BY <1>1, <1>2 DEF OutdatedFetched, Outdated
  <1> QED BY <1>4, <1>5 DEF ScreenInv

\* Somebody else is in front of the screen: nothing saved yet.
LEMMA BecomeKeeps ==
  ASSUME ScreenInv, NEW v \in AnyVisitor, NEW p, Become(v, p), signIns' \in Nat
  PROVE  ScreenInv'
  <1>1. /\ UNCHANGED <<app, query, server, cache, call>> /\ visitor' = v /\ own' = 0
        /\ fetch' = Mount(v, p, FALSE, cache.stale)
    BY DEF Become
  <1>2. ScreenTyped /\ cache.stale \in BOOLEAN
    BY DEF ScreenInv, ScreenTyped, AnyCache
  <1>3. fetch' \in AnyFetch
    BY <1>1, <1>2, MountAsks
  <1>4. ScreenTyped'
    BY <1>1, <1>3 DEF ScreenInv, ScreenTyped
  <1>5. CallsInOrder'
    <2>1. own' <= server /\ own' <= call.version
      BY <1>1 DEF ScreenInv, ScreenTyped, AnyCall
    <2> QED BY <1>1, <2>1 DEF ScreenInv, CallsInOrder, Mutations
  <1>6. OutdatedFetched'
    <2>1. cache.version \in Nat /\ ~(cache.version < 0)
      BY DEF ScreenInv, ScreenTyped, AnyCache
    <2> QED BY <1>1, <2>1 DEF OutdatedFetched, Outdated
  <1> QED BY <1>4, <1>5, <1>6 DEF ScreenInv

LEMMA SaveKeeps ==
  ASSUME ScreenInv, Save
  PROVE  ScreenInv'
  <1>1. /\ UNCHANGED <<app, query, page, visitor, started, signIns, cache, fetch, own>>
        /\ call.state = "sent" /\ server' \in Nat /\ server <= server'
        /\ own \in Nat /\ own <= server /\ server \in Nat
    BY DEF Save, ScreenInv, ScreenTyped, CallsInOrder
  <1>2. PICK c : c = [call EXCEPT !.state = "saved", !.version = server']
    OBVIOUS
  <1>3. /\ c \in AnyCall
        /\ c.name = call.name /\ c.owner = call.owner /\ c.version = server' /\ call' = c
    BY <1>1, <1>2 DEF Save, ScreenInv, ScreenTyped, AnyCall
  <1>4. own' <= server' /\ server' <= server'
    BY <1>1
  <1>5. ScreenTyped' /\ CallsInOrder'
    BY <1>1, <1>3, <1>4 DEF ScreenInv, ScreenTyped, CallsInOrder, Mutations
  <1>6. Shown' <=> Shown
    BY <1>1, ShownNext DEF Shown
  <1> QED BY <1>1, <1>5, <1>6, StillFetched DEF ScreenInv

\* The hook's onSuccess: what it fills is new, what it invalidates is asked for again.
LEMMA SucceedKeeps ==
  ASSUME ScreenInv, Succeed
  PROVE  ScreenInv'
  <1>1. PICK m : m = Mutations[call.name]
    OBVIOUS
  <1>2. /\ call.state = "saved" /\ call.name \in DOMAIN Mutations /\ call.owner # 0
        /\ own <= call.version /\ call.version <= server
        /\ call \in AnyCall
    BY DEF Succeed, ScreenInv, CallsInOrder, ScreenTyped
  <1>3. query \in m.writes \ m.lags => query \in m.refreshes \cup m.sets
    BY <1>1, <1>2, MutationRefreshes DEF ScreenInv, ScreenTyped, Refreshing
  <1>4. PICK kept : kept = Handled(m)
    OBVIOUS
  <1>5. /\ cache' = [kept EXCEPT !.stale = kept.stale \/ query \in m.refreshes]
        /\ own' = IF query \in m.writes \ m.lags /\ call.owner = visitor.number
                  THEN call.version ELSE own
        /\ visitor' = IF app = "web" /\ call.owner = visitor.number
                      THEN [visitor EXCEPT !.standing = StandingAfter(call.name)] ELSE visitor
        /\ fetch' = IF query \in m.refreshes /\ Shown THEN Ask(visitor)
                    ELSE Mount(visitor', page, started, cache'.stale)
        /\ call' = [call EXCEPT !.state = "refreshing"]
        /\ UNCHANGED <<app, query, page, started, signIns, server>>
    BY <1>1, <1>4 DEF Succeed
  <1>6. \/ kept = cache /\ (query \in m.sets => query = "messages" /\ cache.owner = 0)
        \/ kept = [owner |-> call.owner, version |-> call.version, stale |-> FALSE, behind |-> FALSE]
    BY <1>4 DEF Handled
  <1>7. cache \in AnyCache
        /\ visitor \in AnyVisitor /\ own \in Nat /\ server \in Nat
        /\ ScreenTyped
    BY DEF ScreenInv, ScreenTyped
  <1>8. kept \in AnyCache
    <2>1. call.owner \in Nat /\ call.version \in Nat
      BY <1>2 DEF AnyCall
    <2>2. [owner |-> call.owner, version |-> call.version, stale |-> FALSE, behind |-> FALSE] \in AnyCache
      BY <2>1, Cached
    <2> QED BY <1>6, <1>7, <2>2
  <1>9. PICK stale \in BOOLEAN : stale <=> (kept.stale \/ query \in m.refreshes)
    OBVIOUS
  <1>10. /\ cache' \in AnyCache
         /\ cache'.owner = kept.owner /\ cache'.version = kept.version
         /\ cache'.behind = kept.behind /\ (cache'.stale <=> (kept.stale \/ query \in m.refreshes))
    BY <1>5, <1>8 DEF AnyCache
  <1>11. visitor' \in AnyVisitor /\ visitor'.number = visitor.number
    <2>1. StandingAfter(call.name)
            \in {"loading", "anonymous", "not_started", "incomplete", "complete"} \cup Roles
      BY <1>7 DEF StandingAfter, AnyVisitor
    <2> QED BY <1>5, <1>7, <2>1 DEF AnyVisitor
  <1>12. Ask(visitor) \in AnyFetch /\ Ask(visitor) # NoFetch
    BY <1>7 DEF Ask, AnyFetch, NoFetch, AnyVisitor
  <1>13. fetch' \in AnyFetch
    BY <1>5, <1>7, <1>10, <1>11, <1>12, MountAsks DEF AnyCache
  <1>14. call' \in AnyCall
         /\ call'.name = call.name /\ call'.owner = call.owner /\ call'.version = call.version
         /\ call'.state = "refreshing"
    BY <1>2, <1>5 DEF AnyCall
  <1>15. own' \in Nat /\ own' <= server
    BY <1>2, <1>5, <1>7 DEF AnyCall
  <1>16. ScreenTyped'
    BY <1>5, <1>10, <1>11, <1>13, <1>14, <1>15 DEF ScreenInv, ScreenTyped
  <1>17. CallsInOrder'
    BY <1>2, <1>5, <1>14, <1>15 DEF CallsInOrder, Mutations
  <1>18. Outdated(cache', visitor.number, own') => cache'.stale
    <2>1. CASE kept = cache /\ (query \in m.sets => query = "messages" /\ cache.owner = 0)
      <3>1. CASE own' = own
        BY <1>10, <2>1, <3>1 DEF ScreenInv, OutdatedFetched, Outdated
      <3>2. CASE own' # own
        <4>1. query \in m.writes \ m.lags /\ call.owner = visitor.number
          BY <1>5, <3>2
        <4>2. query \in m.refreshes \/ cache.owner = 0
          BY <1>3, <2>1, <4>1
        <4> QED BY <1>2, <1>10, <2>1, <4>1, <4>2 DEF Outdated
      <3> QED BY <3>1, <3>2
    <2>2. CASE kept = [owner |-> call.owner, version |-> call.version, stale |-> FALSE, behind |-> FALSE]
      <3>1. cache'.version = call.version /\ own' <= call.version
        BY <1>2, <1>5, <1>7, <1>10, <2>2 DEF AnyCall
      <3>2. ~(cache'.version < own')
        BY <1>2, <1>15, <3>1 DEF AnyCall
      <3> QED BY <3>2 DEF Outdated
    <2> QED BY <1>6, <2>1, <2>2
  <1>19. Outdated(cache', visitor.number, own') /\ Shown' => fetch' # NoFetch
    <2> SUFFICES ASSUME Outdated(cache', visitor.number, own'), Shown' PROVE fetch' # NoFetch
      OBVIOUS
    <2>1. cache'.stale /\ ShownTo(visitor', page, started)
      BY <1>5, <1>18, ShownNext
    <2>2. CASE query \in m.refreshes /\ Shown
      BY <1>5, <1>12, <2>2
    <2>3. CASE ~Shown
      BY <1>5, <1>7, <1>10, <1>11, <2>1, <2>3, MountAsks
    <2>4. CASE query \notin m.refreshes /\ Shown
      <3>1. Outdated(cache, visitor.number, own)
        <4>1. query \notin m.writes \ m.lags \/ query \in m.sets
          BY <1>3, <2>4
        <4>2. CASE kept = cache /\ (query \in m.sets => query = "messages" /\ cache.owner = 0)
          <5>1. CASE own' = own
            BY <1>10, <4>2, <5>1 DEF Outdated
          <5>2. CASE own' # own
            <6>1. call.owner = visitor.number /\ cache.owner = 0
              BY <1>5, <4>1, <4>2, <5>2
            <6> QED BY <1>2, <1>10, <4>2, <6>1 DEF Outdated
          <5> QED BY <5>1, <5>2
        <4>3. CASE kept = [owner |-> call.owner, version |-> call.version, stale |-> FALSE, behind |-> FALSE]
          <5>1. cache'.version = call.version /\ own' <= call.version
            BY <1>2, <1>5, <1>7, <1>10, <4>3 DEF AnyCall
          <5>2. ~(cache'.version < own')
            BY <1>2, <1>15, <5>1 DEF AnyCall
          <5> QED BY <5>2 DEF Outdated
        <4> QED BY <1>6, <4>2, <4>3
      <3>2. fetch # NoFetch
        BY <2>4, <3>1 DEF ScreenInv, OutdatedFetched
      <3>3. fetch' = Mount(visitor', page, started, cache'.stale)
        BY <1>5, <2>4
      <3> QED BY <1>7, <1>10, <1>11, <3>2, <3>3, MountAsks DEF AnyCache
    <2> QED BY <2>2, <2>3, <2>4
  <1>20. OutdatedFetched'
    BY <1>11, <1>18, <1>19 DEF OutdatedFetched, Outdated
  <1> QED BY <1>16, <1>17, <1>20 DEF ScreenInv

LEMMA SettleKeeps ==
  ASSUME ScreenInv, Settle
  PROVE  ScreenInv'
  <1>1. PICK m : m = Mutations[call.name]
    OBVIOUS
  <1>2. UNCHANGED <<app, query, visitor, signIns, server, cache, own>> /\ call' = NoCall
    BY DEF Settle
  <1>3. OutdatedFetched' /\ fetch' \in AnyFetch
    <2>1. CASE m.then = "stay"
      <3>1. page' = page /\ fetch' = Mount(visitor, page, started', cache.stale)
        BY <1>1, <2>1 DEF Settle
      <3>2. PICK step : step = started'
        OBVIOUS
      <3> QED BY <1>2, <3>1, <3>2, OpenKeeps
    <2>2. CASE m.then # "stay"
      <3>1. Open(m.then)
        BY <1>1, <2>2 DEF Settle
      <3> QED BY <1>2, <3>1, OpenKeeps DEF Open
    <2> QED BY <2>1, <2>2
  <1>4. NoCall \in AnyCall
        /\ NoCall.state = "none" /\ NoCall.version = 0
    BY DEF NoCall, AnyCall
  <1>5. ScreenTyped'
    BY <1>2, <1>3, <1>4 DEF ScreenInv, ScreenTyped
  <1>6. CallsInOrder'
    <2>1. 0 <= server
      BY DEF ScreenInv, ScreenTyped
    <2> QED BY <1>2, <1>4, <2>1 DEF ScreenInv, CallsInOrder
  <1> QED BY <1>3, <1>5, <1>6 DEF ScreenInv

LEMMA ActKeeps ==
  ASSUME ScreenInv, \E m \in DOMAIN Mutations : Act(m) \/ SaveFails
  PROVE  ScreenInv'
  <1>1. UNCHANGED <<app, query, page, visitor, started, signIns, server, cache, fetch, own>>
    BY DEF Act, SaveFails
  <1>2. /\ call' \in AnyCall
        /\ call'.version = 0 /\ call'.state # "saved"
        /\ call'.state # "none" => call'.name \in DOMAIN Mutations /\ call'.owner # 0
    <2>1. DOMAIN Mutations \subseteq DOMAIN WebMutation \cup DOMAIN AdminMutations
      BY DEF ScreenInv, ScreenTyped, Mutations
    <2>2. CASE SaveFails
      BY <2>2 DEF SaveFails, NoCall, AnyCall
    <2>3. ASSUME NEW m \in DOMAIN Mutations, Act(m)
          PROVE  call' = [name |-> m, state |-> "sent", owner |-> visitor.number, version |-> 0]
                 /\ visitor.number # 0 /\ visitor.number \in Nat
      BY <2>3 DEF Act, SignedIn, ScreenInv, ScreenTyped, AnyVisitor
    <2> QED BY <2>1, <2>2, <2>3 DEF AnyCall
  <1>3. ScreenTyped'
    BY <1>1, <1>2 DEF ScreenInv, ScreenTyped
  <1>4. CallsInOrder'
    <2>1. 0 <= server
      BY DEF ScreenInv, ScreenTyped
    <2> QED BY <1>1, <1>2, <2>1 DEF ScreenInv, CallsInOrder, Mutations
  <1>5. Shown' <=> Shown
    BY <1>1, ShownNext DEF Shown
  <1> QED BY <1>1, <1>3, <1>4, <1>5, StillFetched DEF ScreenInv

LEMMA NextScreen ==
  ASSUME ScreenInv, [ScreensNext]_screenVars
  PROVE  ScreenInv'
  <1>1. /\ fetch \in AnyFetch /\ server \in Nat /\ signIns \in Nat
        /\ visitor \in AnyVisitor
    BY DEF ScreenInv, ScreenTyped
  <1>2. Ask(visitor) \in AnyFetch /\ Ask(visitor) # NoFetch
    BY <1>1 DEF Ask, AnyFetch, NoFetch, AnyVisitor
  <1>3. server <= server /\ server + 1 \in Nat /\ server <= server + 1
    BY <1>1
  <1>4. ASSUME NEW p, Navigate(p) \/ Redirect
        PROVE  ScreenInv'
    BY <1>4, NavigateKeeps DEF Navigate, Redirect
  <1>5. CASE Respond
    <2>1. fetch' = [fetch EXCEPT !.state = "answered", !.version = server]
      BY <1>5 DEF Respond
    <2>2. fetch' \in AnyFetch /\ fetch' # NoFetch
      BY <1>1, <2>1 DEF AnyFetch, NoFetch
    <2> QED BY <1>1, <1>3, <1>5, <2>2, FetchKeeps DEF Respond
  <1>6. CASE GoesStale
    BY <1>1, <1>3, <1>6, FetchKeeps DEF GoesStale
  <1>7. CASE Refetch
    BY <1>1, <1>2, <1>3, <1>7, FetchKeeps DEF Refetch
  <1>8. ASSUME NEW push \in BOOLEAN, OtherWrite(push)
        PROVE  ScreenInv'
    <2>1. server' = server + 1 /\ UNCHANGED <<app, query, page, visitor, started, signIns, call, own>>
      BY <1>8 DEF OtherWrite
    <2>2. CASE UNCHANGED <<cache, fetch>>
      BY <1>1, <1>3, <2>1, <2>2, FetchKeeps
    <2>3. CASE Invalidate
      BY <1>1, <1>2, <1>3, <2>1, <2>3, FetchKeeps DEF Invalidate
    <2> QED BY <1>8, <2>2, <2>3 DEF OtherWrite
  <1>9. ASSUME NEW m \in DOMAIN Mutations, Act(m) \/ SaveFails
        PROVE  ScreenInv'
    BY <1>9, ActKeeps
  <1>10. ASSUME NEW standing \in StandingsOf \cup {"anonymous"}, SessionChecked(standing) \/ SignIn(standing)
         PROVE  ScreenInv'
    <2>1. standing \in {"loading", "anonymous", "not_started", "incomplete", "complete"} \cup Roles
      BY ScreensAssumption DEF StandingsOf
    <2>2. signIns' \in Nat
      BY <1>1, <1>10 DEF SessionChecked, SignIn
    <2>3. Nobody \in AnyVisitor
      BY DEF Nobody, AnyVisitor
    <2>4. \A k \in Nat : [number |-> k, standing |-> standing] \in AnyVisitor
      BY <2>1 DEF AnyVisitor
    <2> QED BY <1>10, <2>2, <2>3, <2>4, BecomeKeeps DEF SessionChecked, SignIn
  <1>11. CASE SignOut \/ SessionExpires
    <2>1. Nobody \in AnyVisitor
      BY DEF Nobody, AnyVisitor
    <2> QED BY <1>1, <1>11, <2>1, BecomeKeeps DEF SignOut, SessionExpires
  <1>12. CASE UNCHANGED screenVars
    BY <1>1, <1>3, <1>12, FetchKeeps DEF screenVars
  <1>13. CASE SaveFails
    <2>1. \E m \in DOMAIN Mutations : TRUE
      BY DEF Mutations, WebMutation, AdminMutations
    <2> QED BY <1>13, <2>1, ActKeeps
  <1> QED
    BY <1>4, <1>5, <1>6, <1>7, <1>8, <1>9, <1>10, <1>11, <1>12, <1>13, ReceiveKeeps, SaveKeeps,
       SucceedKeeps, SettleKeeps
    DEF ScreensNext

\* Whoever has saved something sees it on every page that shows it, for every page, query and
\* mutation of both apps and any number of sign-ins and changes (the hooks.ts of
\* apps/web/src/features and apps/admin/src/features).
THEOREM OwnWritesAreShown == ScreensSpec => []OwnWriteShown
  <1>1. ScreensInit => ScreenInv
    <2> SUFFICES ASSUME ScreensInit PROVE ScreenInv
      OBVIOUS
    <2>1. ScreenTyped
      BY DEF ScreensInit, ScreenTyped, NoData, NoFetch, NoCall, AnyFetch, AnyCache, AnyVisitor, AnyCall
    <2>2. CallsInOrder
      BY DEF ScreensInit, CallsInOrder, NoCall
    <2>3. OutdatedFetched
      BY DEF ScreensInit, OutdatedFetched, Outdated, NoData
    <2> QED BY <2>1, <2>2, <2>3 DEF ScreenInv
  <1>2. ScreenInv /\ [ScreensNext]_screenVars => ScreenInv'
    BY NextScreen
  <1>3. ScreenInv => OwnWriteShown
    <2>1. ScreenInv => cache.version \in Nat /\ own \in Nat
      BY DEF ScreenInv, ScreenTyped, AnyCache
    <2>2. ScreenInv /\ ~(cache.version < own) => cache.version >= own
      BY <2>1
    <2> QED BY <2>2 DEF ScreenInv, OutdatedFetched, Outdated, OwnWriteShown
  <1> QED
    BY <1>1, <1>2, <1>3, PTL DEF ScreensSpec

=============================================================================
