----------------------------- MODULE ApiLogs -----------------------------
(* The queue of api_logs rows: finished requests push onto it, one writer at  *)
(* a time stores batches, and the shutdown of the server flushes it before it *)
(* closes the database.                                                       *)
EXTENDS Naturals, Sequences, FiniteSets, SequencesExt

CONSTANTS
    MaxBatch, MaxQueue,   \* createApiLogStore()'s options
    MaxEntries            \* bound: finished requests

ASSUME ApiLogsAssumption ==
    /\ MaxBatch \in Nat \ {0} /\ MaxQueue \in Nat \ {0} /\ MaxBatch <= MaxQueue
    /\ MaxEntries \in Nat

VARIABLES
    server,      \* "up", "closing" (server.close()), "flushing", "closed"; or "killed"
    queue,       \* entries, numbered in the order they were recorded
    entries,     \* how many were recorded
    timer,       \* the flush timer runs
    chained,     \* calls of writeAll() chained behind the one that runs
    writer,      \* "idle", "looping", or "writing" a batch
    batch,       \* the batch being written
    table,       \* api_logs
    lost         \* entries of failed batches, and dropped ones

logVars == <<server, queue, entries, timer, chained, writer, batch, table, lost>>

ApiLogsInit ==
    /\ server = "up"
    /\ queue = <<>> /\ batch = <<>> /\ table = <<>>
    /\ entries = 0 /\ chained = 0
    /\ timer = FALSE
    /\ writer = "idle"
    /\ lost = {}

\* record(): the oldest goes when the queue is full; a full batch is flushed, else the timer is
\* set. Requests still finish while the server is closing.
Record ==
    LET full == Len(queue) >= MaxQueue
        next == Append(IF full THEN Tail(queue) ELSE queue, entries + 1)
    IN
    /\ server \in {"up", "closing"} /\ entries < MaxEntries
    /\ entries' = entries + 1
    /\ queue' = next
    /\ lost' = IF full THEN lost \cup {Head(queue)} ELSE lost
    /\ IF Len(next) >= MaxBatch
       THEN timer' = FALSE /\ chained' = chained + 1
       ELSE timer' = TRUE /\ UNCHANGED chained
    /\ UNCHANGED <<server, writer, batch, table>>

\* flush(), by the timer.
TimerFlush ==
    /\ server \notin {"closed", "killed"} /\ timer
    /\ timer' = FALSE
    /\ chained' = chained + 1
    /\ UNCHANGED <<server, queue, entries, writer, batch, table, lost>>

\* The next writeAll() of the chain starts.
StartWriter ==
    /\ server # "killed" /\ writer = "idle" /\ chained > 0
    /\ chained' = chained - 1
    /\ writer' = "looping"
    /\ UNCHANGED <<server, queue, entries, timer, batch, table, lost>>

\* writeAll(): a batch is taken off the queue, or there is none left.
TakeBatch ==
    LET size == IF Len(queue) < MaxBatch THEN Len(queue) ELSE MaxBatch IN
    /\ server # "killed" /\ writer = "looping"
    /\ batch' = SubSeq(queue, 1, size)
    /\ queue' = SubSeq(queue, size + 1, Len(queue))
    /\ writer' = IF queue = <<>> THEN "idle" ELSE "writing"
    /\ UNCHANGED <<server, entries, timer, chained, table, lost>>

\* bulkCreate() stores the batch or fails; the loop goes on either way.
WriteBatch(fails) ==
    /\ server # "killed" /\ writer = "writing"
    /\ IF fails
       THEN lost' = lost \cup ToSet(batch) /\ UNCHANGED table
       ELSE table' = table \o batch /\ UNCHANGED lost
    /\ batch' = <<>>
    /\ writer' = "looping"
    /\ UNCHANGED <<server, queue, entries, timer, chained>>

-----------------------------------------------------------------------------
(* shutdown() of server.ts *)

Shutdown ==
    /\ server = "up"
    /\ server' = "closing"
    /\ UNCHANGED <<queue, entries, timer, chained, writer, batch, table, lost>>

\* The last request has finished: flush(), and then sequelize.close().
ServerClosed ==
    /\ server = "closing"
    /\ server' = "flushing"
    /\ timer' = FALSE
    /\ chained' = chained + 1
    /\ UNCHANGED <<queue, entries, writer, batch, table, lost>>

\* A wrong Flushed: only the write in progress is awaited. flush() answers with the end of the
\* whole chain.
FlushedOne == writer = "idle"
Flushed == writer = "idle" /\ chained = 0

CloseDatabase ==
    /\ server = "flushing" /\ Flushed
    /\ server' = "closed"
    /\ UNCHANGED <<queue, entries, timer, chained, writer, batch, table, lost>>

\* The forced exit after SHUTDOWN_TIMEOUT_MS, or a crash: the memory is gone.
Kill ==
    /\ server \notin {"closed", "killed"}
    /\ server' = "killed"
    /\ UNCHANGED <<queue, entries, timer, chained, writer, batch, table, lost>>

ApiLogsNext ==
    \/ Record \/ TimerFlush \/ StartWriter \/ TakeBatch
    \/ \E fails \in BOOLEAN : WriteBatch(fails)
    \/ Shutdown \/ ServerClosed \/ CloseDatabase \/ Kill

-----------------------------------------------------------------------------
(* Properties *)

\* However batches fill up, fail and overlap with new requests: every request is stored once
\* and in the order the requests finished, unless its batch failed or it was pushed out of a full
\* queue; nothing waits in the queue without a timer or a writer to fetch it; and when the
\* server has shut down in order nothing is left (api-log.store.ts, server.ts shutdown()).
LogsKept ==
    LET waiting == batch \o queue IN
    /\ \A i, j \in DOMAIN table : i < j => table[i] < table[j]
    /\ 1..entries = ToSet(table) \cup ToSet(waiting) \cup lost
    /\ ToSet(table) \cap (ToSet(waiting) \cup lost) = {}
    /\ Len(queue) <= MaxQueue
    /\ queue # <<>> /\ server # "killed" => timer \/ chained > 0 \/ writer # "idle"
    /\ server = "closed" => waiting = <<>>

=============================================================================
