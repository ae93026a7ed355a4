----------------------------- MODULE Messaging -----------------------------
(* One conversation: a member sends from several tabs, the partner reads. A   *)
(* message goes over the socket and, when no acknowledgement comes, over REST *)
(* with the same clientMessageId; it is stored, pushed to both members' tabs, *)
(* and counted in the partner's "new message" notification.                   *)
EXTENDS Naturals, Sequences, FiniteSets, SequencesExt

CONSTANTS
    Calls,         \* calls of sendChatMessage(), each with its clientMessageId
    MaxRestarts,   \* bound: API restarts
    MaxReloads     \* bound: times a conversation is fetched

ASSUME MessagingAssumption ==
    /\ IsFiniteSet(Calls) /\ Calls # {}
    /\ MaxRestarts \in Nat /\ MaxReloads \in Nat

VARIABLES
    active,        \* the match is active, nobody is blocked, the sender may chat
    sends,         \* per call: what its tab waits for, or how it ended
    requests,      \* message:send events and POST requests in the API: call, transport, stage
    rows,          \* the stored messages, oldest first (a row's createdAt is its place)
    connected,     \* whose socket is connected
    screen,        \* per member: the conversation on screen, newest first
    loads,         \* per member: the fetch of the conversation in flight
    reloads,       \* fetches so far
    readAt,        \* the reader's last_read_at: how many rows it covers (0: null)
    marks,         \* markRead requests: the message and the stage
    lastMarked,    \* ChatPage's lastMarked
    notes,         \* "new message" notifications: messages counted in read and unread rows
    restarts

messagingVars ==
    <<active, sends, requests, rows, connected, screen, loads, reloads, readAt, marks, lastMarked,
      notes, restarts>>

Members == {"sender", "reader"}
NotLoaded == <<"not loaded">>
NoLoad == [state |-> "none", items |-> <<>>]

MessagingInit ==
    /\ active = TRUE
    /\ sends = [c \in Calls |-> "new"]
    /\ requests = {}
    /\ rows = <<>>
    /\ connected = {}
    /\ screen = [m \in Members |-> NotLoaded]
    /\ loads = [m \in Members |-> NoLoad]
    /\ reloads = 0
    /\ readAt = 0
    /\ marks = {}
    /\ lastMarked = 0
    /\ notes = [read |-> 0, unread |-> 0]
    /\ restarts = 0

Stored == ToSet(rows)
Request(c, transport, stage) == [call |-> c, transport |-> transport, stage |-> stage]
Advance(r, stage) == requests' = (requests \ {r}) \cup {[r EXCEPT !.stage = stage]}

-----------------------------------------------------------------------------
(* The sender's tab: sendChatMessage() *)

SendChatMessage(c) ==
    /\ sends[c] = "new"
    /\ LET transport == IF "sender" \in connected THEN "socket" ELSE "rest" IN
       /\ sends' = [sends EXCEPT ![c] = transport]
       /\ requests' = requests \cup {Request(c, transport, "arrived")}
    /\ UNCHANGED <<active, rows, connected, screen, loads, reloads, readAt, marks, lastMarked, notes,
                   restarts>>

\* No acknowledgement in ACK_TIMEOUT_MS: the same id goes over REST.
AckTimesOut(c) ==
    /\ sends[c] = "socket"
    /\ sends' = [sends EXCEPT ![c] = "rest"]
    /\ requests' = requests \cup {Request(c, "rest", "arrived")}
    /\ UNCHANGED <<active, rows, connected, screen, loads, reloads, readAt, marks, lastMarked, notes,
                   restarts>>

\* The REST call fails in the network; the request may still be served.
RestFails(c) ==
    /\ sends[c] = "rest"
    /\ sends' = [sends EXCEPT ![c] = "failed"]
    /\ UNCHANGED <<active, requests, rows, connected, screen, loads, reloads, readAt, marks,
                   lastMarked, notes, restarts>>

\* A wrong Added: the message is not looked for.
AddedTwice(s, c) == IF s = NotLoaded THEN s ELSE <<c>> \o s

\* addMessageToCache(): into a loaded conversation, once.
Added(s, c) == IF s = NotLoaded \/ c \in ToSet(s) THEN s ELSE <<c>> \o s

\* The answer of request r reaches the tab, unless it no longer waits for it.
Answered(r, outcome) ==
    LET c == r.call
        waiting == sends[c] = r.transport
                   /\ (r.transport = "socket" => "sender" \in connected)
    IN
    /\ sends' = IF waiting THEN [sends EXCEPT ![c] = outcome] ELSE sends
    /\ screen' = IF waiting /\ outcome = "done"
                 THEN [screen EXCEPT !["sender"] = Added(@, c)] ELSE screen
    /\ requests' = requests \ {r}

-----------------------------------------------------------------------------
(* ChatService.send() *)

\* A retry of a stored message is answered; otherwise assertCanSend(), the message limiter
\* (any request may meet it) and authorize().
Admit(r) ==
    /\ r.stage = "arrived"
    /\ IF r.call \in Stored
       THEN Answered(r, "done")
       ELSE \/ active /\ Advance(r, "admitted") /\ UNCHANGED <<sends, screen>>
            \/ Answered(r, "failed")
    /\ UNCHANGED <<active, rows, connected, loads, reloads, readAt, marks, lastMarked, notes, restarts>>

\* The transaction, under the pair lock: authorize() and assertCanSend() again, then
\* findOrCreate().
Store(r) ==
    /\ r.stage = "admitted"
    /\ CASE ~active -> Answered(r, "failed") /\ UNCHANGED rows
         [] active /\ r.call \in Stored -> Answered(r, "done") /\ UNCHANGED rows
         [] OTHER -> /\ rows' = Append(rows, r.call)
                     /\ Advance(r, "stored")
                     /\ UNCHANGED <<sends, screen>>
    /\ UNCHANGED <<active, connected, loads, reloads, readAt, marks, lastMarked, notes, restarts>>

\* hub.toUser(): "message:new" to the tabs of both members that are connected.
Push(r) ==
    /\ r.stage = "stored"
    /\ screen' = [m \in Members |-> IF m \in connected THEN Added(screen[m], r.call) ELSE screen[m]]
    /\ Advance(r, "pushed")
    /\ UNCHANGED <<active, sends, rows, connected, loads, reloads, readAt, marks, lastMarked, notes,
                   restarts>>

\* notifier.notify(): the upsert of the one unread notification of the chat, of a reader who
\* has not turned them off and while the database answers; then the answer of the request.
Notify(r) ==
    /\ r.stage = "pushed"
    /\ notes' = [notes EXCEPT !.unread = @ + 1]
    /\ Answered(r, "done")
    /\ UNCHANGED <<active, rows, connected, loads, reloads, readAt, marks, lastMarked, restarts>>

-----------------------------------------------------------------------------
(* A conversation on screen *)

Load(m) ==
    /\ loads[m] = NoLoad /\ reloads < MaxReloads
    /\ loads' = [loads EXCEPT ![m].state = "asked"]
    /\ reloads' = reloads + 1
    /\ UNCHANGED <<active, sends, requests, rows, connected, screen, readAt, marks, lastMarked, notes,
                   restarts>>

\* ChatService.messages(): authorize(), then the newest messages.
Messages(m) ==
    /\ loads[m].state = "asked" /\ active
    /\ loads' = [loads EXCEPT ![m] = [state |-> "answered", items |-> Reverse(rows)]]
    /\ UNCHANGED <<active, sends, requests, rows, connected, screen, reloads, readAt, marks,
                   lastMarked, notes, restarts>>

ShowLoaded(m) ==
    /\ loads[m].state = "answered"
    /\ screen' = [screen EXCEPT ![m] = loads[m].items]
    /\ loads' = [loads EXCEPT ![m] = NoLoad]
    /\ UNCHANGED <<active, sends, requests, rows, connected, reloads, readAt, marks, lastMarked, notes,
                   restarts>>

LoadFails(m) ==
    /\ loads[m] # NoLoad
    /\ loads' = [loads EXCEPT ![m] = NoLoad]
    /\ UNCHANGED <<active, sends, requests, rows, connected, screen, reloads, readAt, marks,
                   lastMarked, notes, restarts>>

-----------------------------------------------------------------------------
(* Reading *)

\* ChatPage's read receipt for the newest message on screen: a mark names its place in rows.
\* One that markChatRead() repeats over REST is the same mark, arriving later.
PlaceOf(c) == CHOOSE i \in DOMAIN rows : rows[i] = c

MarkChatRead ==
    /\ screen["reader"] \notin {NotLoaded, <<>>}
    /\ LET n == PlaceOf(Head(screen["reader"])) IN
       /\ lastMarked # n
       /\ lastMarked' = n
       /\ marks' = marks \cup {[place |-> n, stage |-> "arrived"]}
    /\ UNCHANGED <<active, sends, requests, rows, connected, screen, loads, reloads, readAt, notes,
                   restarts>>

\* ChatService.markRead(): authorize() refuses, or the read position moves to the message.
MarkRead(k) ==
    /\ k.stage = "arrived"
    /\ IF active
       THEN /\ readAt' = IF k.place > readAt THEN k.place ELSE readAt
            /\ marks' = (marks \ {k}) \cup {[k EXCEPT !.stage = "moved"]}
       ELSE marks' = marks \ {k} /\ UNCHANGED readAt
    /\ UNCHANGED <<active, sends, requests, rows, connected, screen, loads, reloads, lastMarked, notes,
                   restarts>>

\* markChatNotificationsRead().
ReadNotifications(k) ==
    /\ k.stage = "moved"
    /\ notes' = [read |-> notes.read + notes.unread, unread |-> 0]
    /\ marks' = marks \ {k}
    /\ UNCHANGED <<active, sends, requests, rows, connected, screen, loads, reloads, readAt,
                   lastMarked, restarts>>

\* The mark never reaches the API, or fails there.
LoseMark(k) ==
    /\ k.stage = "arrived"
    /\ marks' = marks \ {k}
    /\ UNCHANGED <<active, sends, requests, rows, connected, screen, loads, reloads, readAt,
                   lastMarked, notes, restarts>>

-----------------------------------------------------------------------------
(* Around the conversation *)

Connect(m) ==
    /\ m \notin connected
    /\ connected' = connected \cup {m}
    /\ UNCHANGED <<active, sends, requests, rows, screen, loads, reloads, readAt, marks, lastMarked,
                   notes, restarts>>

\* A socket drops: the network, or the access token has expired.
Drop(m) ==
    /\ m \in connected
    /\ connected' = connected \ {m}
    /\ UNCHANGED <<active, sends, requests, rows, screen, loads, reloads, readAt, marks, lastMarked,
                   notes, restarts>>

\* Unmatch, block, ban or chat restriction, under the same pair lock (module Connections).
EndChat ==
    /\ active
    /\ active' = FALSE
    /\ UNCHANGED <<sends, requests, rows, connected, screen, loads, reloads, readAt, marks, lastMarked,
                   notes, restarts>>

\* The API restarts: what it was serving is gone, every socket drops.
RestartApi ==
    /\ restarts < MaxRestarts
    /\ restarts' = restarts + 1
    /\ requests' = {} /\ marks' = {} /\ connected' = {}
    /\ UNCHANGED <<active, sends, rows, screen, loads, reloads, readAt, lastMarked, notes>>

MessagingNext ==
    \/ \E c \in Calls : SendChatMessage(c) \/ AckTimesOut(c) \/ RestFails(c)
    \/ \E r \in requests : Admit(r) \/ Store(r) \/ Push(r) \/ Notify(r)
    \/ \E m \in Members : Load(m) \/ Messages(m) \/ ShowLoaded(m) \/ LoadFails(m)
    \/ \E m \in Members : Connect(m) \/ Drop(m)
    \/ MarkChatRead
    \/ \E k \in marks : MarkRead(k) \/ ReadNotifications(k) \/ LoseMark(k)
    \/ EndChat \/ RestartApi

-----------------------------------------------------------------------------
(* Properties *)

\* No member ever sees a message twice, and none is stored twice, although it can come over
\* the socket and over REST, by the push, by the answer of the send and by a fetch, in any
\* order; and the partner's notifications count it at most once, exactly once when the API was
\* never restarted and has nothing left to do (chat.service.ts send(), chat/hooks.ts
\* addMessageToCache(), the upsert of notifications.service.ts store()).
MessagesOnce ==
    LET counted == notes.read + notes.unread IN
    /\ IsInjective(rows)
    /\ \A m \in Members :
         screen[m] # NotLoaded => IsInjective(screen[m]) /\ ToSet(screen[m]) \subseteq Stored
    /\ counted <= Len(rows)
    /\ restarts = 0 /\ requests = {} => counted = Len(rows)

\* Does not hold (a mark that overtakes the notification of the message it reads).
\* Once the partner has read everything and the API has nothing left to do, no notification of
\* the chat is unread.
ReadClearsNotification ==
    requests = {} /\ marks = {} /\ restarts = 0 /\ readAt = Len(rows) => notes.unread = 0

=============================================================================
