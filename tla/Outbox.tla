------------------------------- MODULE Outbox -------------------------------
(***************************************************************************)
(* The persistent event stream: transactions that append to the outbox     *)
(* table, the retention job that prunes it, the process-local hub that     *)
(* wakes connected streams after a commit, and the SSE handlers that       *)
(* replay the table to browsers.                                           *)
(*                                                                         *)
(* A writer locks the singleton stream_outbox_state row, draws sequence    *)
(* numbers from a bigserial (which a rollback does not give back), inserts *)
(* its rows, raises latest_sequence and commits.  PersistEvents and the    *)
(* Demo store stamp created_at after taking the lock; WriteBatch (the      *)
(* Collector) stamps it on entry, before it waits for any lock.  The BFF   *)
(* notifies its hub after a commit; the Collector is another process and   *)
(* cannot, so the handlers also poll.                                      *)
(***************************************************************************)
EXTENDS Integers, FiniteSets

CONSTANTS Writers,           \* transactions' threads, each runs many
          LocalWriters,      \* those of the BFF process, which hosts the hub
          EarlyStampers,     \* those that read the clock before they lock
          NoWriter,          \* nobody holds the outbox-state row
          Readers,           \* browsers
          MaxSeq,            \* bound: sequence numbers ever drawn
          MaxTime,           \* bound: clock ticks
          Retention,         \* age at which the retention job deletes a row
          BatchSize,         \* rows one replay query returns at most
          LiveReadersKeepUp  \* no row a connected handler lacks is pruned

ASSUME OutboxAssumption ==
    /\ LocalWriters \subseteq Writers
    /\ EarlyStampers \subseteq Writers
    /\ NoWriter \notin Writers
    /\ MaxSeq \in Nat
    /\ MaxTime \in Nat
    /\ Retention \in Nat \ {0}
    /\ BatchSize \in Nat \ {0}
    /\ LiveReadersKeepUp \in BOOLEAN

VARIABLES
    now,        \* the clock
    outbox,     \* sequence numbers of the rows in stream_outbox
    created,    \* created_at of each sequence number drawn
    latest,     \* stream_outbox_state.latest_sequence
    nextSeq,    \* the bigserial: next number to draw
    lock,       \* holder of the FOR UPDATE lock on stream_outbox_state
    wpc,        \* where each writer is
    wstamp,     \* the time the writer's transaction works with
    pending,    \* rows the writer's transaction inserted, until notified
    drawn,      \* latestOutboxSequence: the last number it drew, 0 if none
    mode,       \* where each browser's stream handler is
    signal,     \* a wakeup waits in the handler's one-slot channel
    queue,      \* rows read from the database and not yet written out
    more,       \* the last batch was full
    cursor,     \* the last SSE id the browser received
    history,    \* every row ever committed
    announced   \* rows the hub has been notified of

dbVars     == <<outbox, created, latest, nextSeq, history>>
writerVars == <<lock, wpc, wstamp, pending, drawn>>
streamVars == <<mode, signal, queue, more, cursor>>
vars == <<now, dbVars, writerVars, streamVars, announced>>

NoId == -1
Seqs == 1..MaxSeq

\* lastSequence of the handler: 0 for a browser that sent no Last-Event-ID.
Position(r) == IF cursor[r] = NoId THEN 0 ELSE cursor[r]

Connected(r) == mode[r] # "offline"
\* Past the initial replay: the handler's position is one the database gave.
Streaming(r) == mode[r] \in {"idle", "fetching", "sending"}

\* The rows above p, oldest first, cut at BatchSize.
Batch(p) == {s \in outbox :
               /\ p < s
               /\ Cardinality({t \in outbox : p < t /\ t <= s}) <= BatchSize}
Full(batch) == Cardinality(batch) = BatchSize

\* Mutant: an emptied table is not a reason to reset.
CursorBeforeOldest(r) == outbox # {} /\ \A s \in outbox : cursor[r] < s

\* Last-Event-ID is ahead of the database or older than its oldest row.
CursorAhead(r) == cursor[r] > latest
CursorExpired(r) ==
    \/ outbox # {} /\ \A s \in outbox : cursor[r] < s
    \/ outbox = {} /\ cursor[r] < latest
NeedsReset(r) == cursor[r] # NoId /\ (CursorAhead(r) \/ CursorExpired(r))

\* A browser arrives with no Last-Event-ID, or with any: it may have been
\* issued by a database that was since replaced.
Init == /\ now = 0
        /\ outbox = {}
        /\ created = [s \in Seqs |-> 0]
        /\ latest = 0
        /\ nextSeq = 1
        /\ lock = NoWriter
        /\ wpc = [w \in Writers |-> "idle"]
        /\ wstamp = [w \in Writers |-> 0]
        /\ pending = [w \in Writers |-> {}]
        /\ drawn = [w \in Writers |-> 0]
        /\ mode = [r \in Readers |-> "offline"]
        /\ signal = [r \in Readers |-> FALSE]
        /\ queue = [r \in Readers |-> {}]
        /\ more = [r \in Readers |-> FALSE]
        /\ cursor \in [Readers -> {NoId} \cup 0..MaxSeq]
        /\ history = {}
        /\ announced = {}
-----------------------------------------------------------------------------
(* Writers *)

\* A transaction starts; WriteBatch has read the clock by now.
Begin(w) ==
    /\ wpc[w] = "idle"
    /\ wpc' = [wpc EXCEPT ![w] = "waiting"]
    /\ wstamp' = [wstamp EXCEPT ![w] = IF w \in EarlyStampers THEN now ELSE @]
    /\ UNCHANGED <<now, dbVars, lock, pending, drawn, streamVars, announced>>

\* Mutant: the outbox-state row is read without FOR UPDATE.
ReadUnlocked(w) ==
    /\ wpc[w] = "waiting"
    /\ lock' = w
    /\ wpc' = [wpc EXCEPT ![w] = "holding"]
    /\ wstamp' = [wstamp EXCEPT ![w] = IF w \in EarlyStampers THEN @ ELSE now]
    /\ UNCHANGED <<now, dbVars, pending, drawn, streamVars, announced>>

\* SELECT latest_sequence ... FOR UPDATE returns.
AcquireLock(w) ==
    /\ wpc[w] = "waiting"
    /\ lock = NoWriter
    /\ lock' = w
    /\ wpc' = [wpc EXCEPT ![w] = "holding"]
    /\ wstamp' = [wstamp EXCEPT ![w] = IF w \in EarlyStampers THEN @ ELSE now]
    /\ UNCHANGED <<now, dbVars, pending, drawn, streamVars, announced>>

\* INSERT INTO stream_outbox ... RETURNING sequence.
Allocate(w) ==
    /\ wpc[w] = "holding"
    /\ nextSeq \in Seqs
    /\ nextSeq' = nextSeq + 1
    /\ created' = [created EXCEPT ![nextSeq] = wstamp[w]]
    /\ pending' = [pending EXCEPT ![w] = @ \cup {nextSeq}]
    /\ drawn' = [drawn EXCEPT ![w] = nextSeq]
    /\ UNCHANGED <<now, outbox, latest, history, lock, wpc, wstamp, streamVars,
                   announced>>

\* latest_sequence = GREATEST(latest_sequence, last number drawn); COMMIT makes
\* it and the rows visible and frees the lock.
Commit(w) ==
    /\ wpc[w] = "holding"
    /\ outbox' = outbox \cup pending[w]
    /\ history' = history \cup pending[w]
    /\ latest' = IF latest < drawn[w] THEN drawn[w] ELSE latest
    /\ lock' = NoWriter
    /\ LET notifies == w \in LocalWriters /\ pending[w] # {}
       IN  /\ wpc' = [wpc EXCEPT ![w] = IF notifies THEN "committed" ELSE "idle"]
           /\ pending' = [pending EXCEPT ![w] = IF notifies THEN @ ELSE {}]
    /\ drawn' = [drawn EXCEPT ![w] = 0]
    /\ UNCHANGED <<now, created, nextSeq, wstamp, streamVars, announced>>

\* A failed statement, a cancelled request, a dead process: everything the
\* transaction inserted is gone, the numbers it drew stay drawn.
Rollback(w) ==
    /\ wpc[w] \in {"waiting", "holding"}
    /\ wpc' = [wpc EXCEPT ![w] = "idle"]
    /\ pending' = [pending EXCEPT ![w] = {}]
    /\ drawn' = [drawn EXCEPT ![w] = 0]
    /\ lock' = IF lock = w THEN NoWriter ELSE lock
    /\ UNCHANGED <<now, dbVars, wstamp, streamVars, announced>>

\* Mutant: the hub's channels are unbuffered, a busy handler misses the signal.
NotifyUnbuffered(w) ==
    /\ wpc[w] = "committed"
    /\ wpc' = [wpc EXCEPT ![w] = "idle"]
    /\ pending' = [pending EXCEPT ![w] = {}]
    /\ signal' = [r \in Readers |-> signal[r] \/ mode[r] = "idle"]
    /\ announced' = announced \cup pending[w]
    /\ UNCHANGED <<now, dbVars, lock, wstamp, drawn, mode, queue, more, cursor>>

\* Hub.Notify after the commit: a signal in every channel that has none.
Notify(w) ==
    /\ wpc[w] = "committed"
    /\ wpc' = [wpc EXCEPT ![w] = "idle"]
    /\ pending' = [pending EXCEPT ![w] = {}]
    /\ signal' = [r \in Readers |-> Connected(r)]
    /\ announced' = announced \cup pending[w]
    /\ UNCHANGED <<now, dbVars, lock, wstamp, drawn, mode, queue, more, cursor>>
-----------------------------------------------------------------------------
(* Retention *)

Expired == {s \in outbox : created[s] <= now - Retention}

\* Rows a connected handler has neither sent nor read into its batch.
Lacking(r) == {s \in outbox : Position(r) < s /\ \A q \in queue[r] : q < s}

PruneAudit ==
    /\ Expired # {}
    /\ LiveReadersKeepUp =>
          \A r \in Readers : Streaming(r) => Expired \cap Lacking(r) = {}
    /\ outbox' = outbox \ Expired
    /\ UNCHANGED <<now, created, latest, nextSeq, history, writerVars,
                   streamVars, announced>>

Tick == /\ now < MaxTime
        /\ now' = now + 1
        /\ UNCHANGED <<dbVars, writerVars, streamVars, announced>>
-----------------------------------------------------------------------------
(* Stream handlers *)

\* EventSource connects; the handler registers with the hub before it reads.
Subscribe(r) ==
    /\ mode[r] = "offline"
    /\ mode' = [mode EXCEPT ![r] = "subscribed"]
    /\ signal' = [signal EXCEPT ![r] = FALSE]
    /\ UNCHANGED <<now, dbVars, writerVars, queue, more, cursor, announced>>

\* Queue one batch; with nothing to send the handler waits again.
Load(r, batch) ==
    /\ queue' = [queue EXCEPT ![r] = batch]
    /\ more' = [more EXCEPT ![r] = Full(batch)]
    /\ mode' = [mode EXCEPT ![r] = IF batch = {} THEN "idle" ELSE "sending"]

\* Mutants: the reset names the sequence's next value, or its last one, where
\* the watermark of what is committed belongs.
ResetToNextValue(r) ==
    /\ mode[r] = "subscribed"
    /\ NeedsReset(r)
    /\ cursor' = [cursor EXCEPT ![r] = nextSeq]
    /\ Load(r, {})
    /\ UNCHANGED <<now, dbVars, writerVars, signal, announced>>

ResetToLastValue(r) ==
    /\ mode[r] = "subscribed"
    /\ NeedsReset(r)
    /\ cursor' = [cursor EXCEPT ![r] = nextSeq - 1]
    /\ Load(r, {})
    /\ UNCHANGED <<now, dbVars, writerVars, signal, announced>>

\* The first read of a connection: tell the browser to reset, or replay.
ReplayReset(r) ==
    /\ mode[r] = "subscribed"
    /\ NeedsReset(r)
    /\ cursor' = [cursor EXCEPT ![r] = latest]
    /\ Load(r, {})
    /\ UNCHANGED <<now, dbVars, writerVars, signal, announced>>

Replay(r) ==
    /\ mode[r] = "subscribed"
    /\ ~NeedsReset(r)
    /\ Load(r, Batch(Position(r)))
    /\ UNCHANGED <<now, dbVars, writerVars, signal, cursor, announced>>

\* One message reaches the browser.  After a full batch the handler reads on.
Send(r) ==
    /\ mode[r] = "sending"
    /\ \E m \in queue[r] :
          /\ \A s \in queue[r] : m <= s
          /\ cursor' = [cursor EXCEPT ![r] = m]
          /\ queue' = [queue EXCEPT ![r] = @ \ {m}]
          /\ mode' = [mode EXCEPT ![r] = IF queue[r] # {m} THEN @
                                         ELSE IF more[r] THEN "fetching"
                                         ELSE "idle"]
    /\ UNCHANGED <<now, dbVars, writerVars, signal, more, announced>>

\* The select loop receives the wakeup, which empties the channel ...
Wake(r) ==
    /\ mode[r] = "idle"
    /\ signal[r]
    /\ signal' = [signal EXCEPT ![r] = FALSE]
    /\ mode' = [mode EXCEPT ![r] = "fetching"]
    /\ UNCHANGED <<now, dbVars, writerVars, queue, more, cursor, announced>>

\* ... or the replay ticker fires.
ReplayTick(r) ==
    /\ mode[r] = "idle"
    /\ mode' = [mode EXCEPT ![r] = "fetching"]
    /\ UNCHANGED <<now, dbVars, writerVars, signal, queue, more, cursor, announced>>

\* drain: ReplayAfter from the last sequence sent.  No reset is considered.
Fetch(r) ==
    /\ mode[r] = "fetching"
    /\ Load(r, Batch(Position(r)))
    /\ UNCHANGED <<now, dbVars, writerVars, signal, cursor, announced>>

\* The connection ends: what was read and not received is forgotten.
Disconnect(r) ==
    /\ Connected(r)
    /\ mode' = [mode EXCEPT ![r] = "offline"]
    /\ signal' = [signal EXCEPT ![r] = FALSE]
    /\ queue' = [queue EXCEPT ![r] = {}]
    /\ more' = [more EXCEPT ![r] = FALSE]
    /\ UNCHANGED <<now, dbVars, writerVars, cursor, announced>>

\* The BFF stops: its transactions roll back, its streams end, and commits it
\* had not announced are never announced.
CrashServer ==
    /\ wpc' = [w \in Writers |-> IF w \in LocalWriters THEN "idle" ELSE wpc[w]]
    /\ pending' = [w \in Writers |-> IF w \in LocalWriters THEN {} ELSE pending[w]]
    /\ drawn' = [w \in Writers |-> IF w \in LocalWriters THEN 0 ELSE drawn[w]]
    /\ lock' = IF lock \in LocalWriters THEN NoWriter ELSE lock
    /\ mode' = [r \in Readers |-> "offline"]
    /\ signal' = [r \in Readers |-> FALSE]
    /\ queue' = [r \in Readers |-> {}]
    /\ more' = [r \in Readers |-> FALSE]
    /\ UNCHANGED <<now, dbVars, wstamp, cursor, announced>>
-----------------------------------------------------------------------------
WriterStep(w) == \/ Begin(w) \/ AcquireLock(w) \/ Allocate(w)
                 \/ Commit(w) \/ Rollback(w) \/ Notify(w)
\* Mutant: handlers wait for the hub alone.
HandlerWithoutTicker(r) ==
    \/ ReplayReset(r) \/ Replay(r) \/ Send(r)
    \/ Wake(r) \/ Fetch(r)
HandlerStep(r) ==
    \/ ReplayReset(r) \/ Replay(r) \/ Send(r)
    \/ Wake(r) \/ ReplayTick(r) \/ Fetch(r)

Next == \/ \E w \in Writers : WriterStep(w)
        \/ \E r \in Readers : Subscribe(r) \/ HandlerStep(r) \/ Disconnect(r)
        \/ PruneAudit \/ Tick \/ CrashServer

Spec == Init /\ [][Next]_vars

\* Goroutines run and tickers fire: a handler that can act does, until its
\* connection ends.
FairSpec == Spec /\ \A r \in Readers : WF_vars(HandlerStep(r))
-----------------------------------------------------------------------------
(* Properties *)

TypeOK == /\ now \in 0..MaxTime
          /\ outbox \subseteq Seqs
          /\ created \in [Seqs -> 0..MaxTime]
          /\ latest \in 0..MaxSeq
          /\ nextSeq \in 1..(MaxSeq + 1)
          /\ lock \in Writers \cup {NoWriter}
          /\ wpc \in [Writers -> {"idle", "waiting", "holding", "committed"}]
          /\ wstamp \in [Writers -> 0..MaxTime]
          /\ pending \in [Writers -> SUBSET Seqs]
          /\ drawn \in [Writers -> 0..MaxSeq]
          /\ mode \in [Readers -> {"offline", "subscribed", "idle",
                                   "fetching", "sending"}]
          /\ signal \in [Readers -> BOOLEAN]
          /\ queue \in [Readers -> SUBSET Seqs]
          /\ more \in [Readers -> BOOLEAN]
          /\ cursor \in [Readers -> {NoId} \cup 0..MaxSeq]
          /\ history \subseteq Seqs
          /\ announced \subseteq Seqs

\* latest_sequence covers everything committed and nothing still in flight,
\* so a reset to it cannot jump over a row that becomes visible later
\* (stream_outbox_state and its FOR UPDATE lock).
LatestIsWatermark ==
    /\ \A s \in history : s <= latest
    /\ \A w \in Writers : wpc[w] = "holding" => \A s \in pending[w] : latest < s

\* The inductive strengthening of LatestIsWatermark: who holds the lock, which
\* numbers a transaction may own, and how far readers can have come.
LockDiscipline ==
    \A w \in Writers : wpc[w] = "holding" <=> lock = w
PendingDiscipline ==
    \A w \in Writers :
        /\ wpc[w] \in {"idle", "waiting"} => pending[w] = {}
        /\ wpc[w] = "committed" => pending[w] \subseteq history
        /\ wpc[w] # "holding" => drawn[w] = 0
        /\ wpc[w] = "holding" => \A s \in pending[w] : s <= drawn[w]
NumbersAreDrawn ==
    /\ latest < nextSeq
    /\ \A w \in Writers : drawn[w] < nextSeq
ReadersBehindLatest ==
    /\ outbox \subseteq history
    /\ \A r \in Readers : Streaming(r) => Position(r) <= latest
    /\ \A r \in Readers : queue[r] \subseteq history
OutboxInv == /\ TypeOK
             /\ LockDiscipline
             /\ PendingDiscipline
             /\ NumbersAreDrawn
             /\ ReadersBehindLatest
             /\ LatestIsWatermark

\* No commit makes a row visible at or behind the position of a stream that
\* is past its first replay: sequence order is visibility order for readers.
NothingAppearsBehind ==
    [][\A r \in Readers : Streaming(r) =>
          \A s \in history' \ history : Position(r) < s]_vars

\* A handler at rest with a retained row it has not sent, once the hub was
\* told of that row, has a wakeup waiting: coalescing loses none.
NoLostWakeup ==
    \A r \in Readers : mode[r] = "idle" =>
        \A s \in announced \cap outbox : Position(r) < s => signal[r]

\* Its inductive strengthening: a batch lies ahead of what was sent, and one
\* that was not cut at BatchSize leaves out nothing the hub had announced.
BatchesAreAhead ==
    \A r \in Readers : /\ mode[r] # "sending" => queue[r] = {}
                       /\ \A q \in queue[r] : Position(r) < q
LastBatchCovers ==
    \A r \in Readers : (mode[r] = "idle" \/ (mode[r] = "sending" /\ ~more[r])) =>
        \A s \in announced \cap outbox :
            Position(r) < s => s \in queue[r] \/ signal[r]
WakeupInv == /\ announced \subseteq history
             /\ BatchesAreAhead
             /\ LastBatchCovers

\* A browser that reconnects with Last-Event-ID either is reset or finds every
\* row committed after its position still in the table.
ReconnectIsExplicit ==
    \A r \in Readers : (mode[r] = "subscribed" /\ cursor[r] # NoId) =>
        NeedsReset(r) \/ \A s \in history : cursor[r] < s => s \in outbox

\* Its inductive strengthening, true when every writer stamps under the lock:
\* created_at never decreases along the sequence, so what retention deletes
\* always lies behind everything it keeps.
StampsFollowSequence ==
    /\ \A s \in history : created[s] <= now
    /\ \A s, t \in history : s < t => created[s] <= created[t]
    /\ \A w \in Writers : wpc[w] = "holding" =>
          /\ wstamp[w] <= now
          /\ \A s \in history : created[s] <= wstamp[w]
          /\ \A s \in pending[w] : created[s] = wstamp[w]
RetentionIsAPrefix == \A s \in history \ outbox, t \in outbox : s < t

\* What a browser sees is the feed of all commits, in order, without silent
\* gaps: crashes, rollbacks, pruning, wakeups and reconnects are invisible.
Feed == INSTANCE EventFeed WITH feed <- history
ImplementsEventFeed == Feed!FeedSpec

\* The strengthening its steps need: the watermark is the newest commit, and a
\* streaming handler still has ahead of it, read or retained, every commit
\* after the browser's position (after the first one it can get, if it has none).
Ahead(r) == queue[r] \cup Lacking(r)
LatestIsCommitted ==
    /\ latest \in history \cup {0}
    /\ \A w \in Writers : drawn[w] \in pending[w] \cup {0}
NothingIsSkipped ==
    \A r \in Readers : Streaming(r) =>
        \A s \in history :
            /\ Position(r) < s
            /\ cursor[r] # NoId \/ \E a \in Ahead(r) : a <= s
            => s \in Ahead(r)

\* A retained row reaches every browser that stays connected: a commit the
\* hub is never told of (Collector, crash) still arrives by the ticker.
CommittedRowsArrive ==
    \A r \in Readers, s \in Seqs :
        (s \in outbox /\ Connected(r))
            ~> (~Connected(r) \/ s <= cursor[r] \/ s \notin outbox)
=============================================================================
