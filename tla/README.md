# AgentsharkX: a verification project

AgentsharkX puts a Go backend-for-frontend (the BFF, `apps/server`) between a web
console and two upstream systems it does not own: agentgateway (LLM, MCP and
traffic gateway) and AgentGuard (runtime security with human approval). A second
Go process, the Collector, writes traces. Both share one PostgreSQL database. A
Python Runner executes demonstration runs. These modules model the parts of that
system in which several actors, failures and orders of events meet, check them
with TLC on small instances, and prove what matters most with TLAPS for every
value of the constants.

Paths below are relative to `apps/server/internal` unless they start with `apps`,
`docs` or `examples`.

## 1. Inventory

| Component | State it keeps | Operations | Interacts with | What is hard | What makes it correct |
|---|---|---|---|---|---|
| Event outbox (`storage/postgres`, `migrations/000001`) | `stream_outbox`, `stream_outbox_state`, the bigserial | append in every writing transaction, replay after a cursor, prune | audit, demo, Collector write; streams read | commit order against number order, rollbacks, two processes, retention | sequence order is visibility order; the watermark covers exactly what is committed |
| Live stream (`stream/hub.go`, `api/server.go` eventStream) | one-slot channel per connection, last sequence | subscribe, replay or reset, drain, tick | outbox, hub, browser | lost wakeups, coalescing, reconnects after retention or restore | a browser gets every row in order or an explicit reset |
| Browser live client (`apps/web/src/lib/use-live-events.ts`) | EventSource and its last id, window of 1000 ids, live cache | open, deliver, reset, reconnect | live stream, REST | repetition against reissued ids | only repetitions are dropped; a reset is honoured |
| Demo control (`demo/service.go`, `monitor.go`) | row of `demo_runs` with a version, `controlMu` | Create, Monitor, Cancel, persist with retries | Runner, AgentGuard through Protect, outbox | three writers, calls that fail after taking effect, deadline, human decisions | one active run, legal life cycle, runs end, a denial is not forgotten |
| Demo Runner (`examples/demo-agent`) | in-memory registry | start, cancel, checkpoints, finish | Demo control, AgentGuard | restart forgets everything; cancel is noticed late | one execution; its result is what the row claims |
| Configuration coordinator (`connect/service.go`, `gateway/*_config.go`) | revision tokens, one flag | show, consume, reread, POST, verify | agentgateway, native console | whole-document writes without ETag, index addressing | compare-and-swap on what the user saw |
| Protect (`protect/service.go`) | rule-check tokens, operation locks | check, publish, delete, resolve approval | AgentGuard, Audit | stale lists, ambiguous answers, evidence after the fact | evidence is real; one check, one publish |
| Audit service (`audit/service.go`) | window of 1000 events, metrics, resolutions | Refresh, Restore, RecordHealth, RecordApprovalResolution | store, hub, upstreams | poll results older than what was recorded meanwhile; a store that fails after the commit | the window follows the store; denials are counted once |
| Audit store (`storage/postgres/store.go`) | `audit_events`, `audit_payloads`, checkpoints | upsert, list, prune | audit service | concurrent upsert of one identity, payload expiry, paging while rows arrive | one row per upstream id; a page never skips or repeats |
| Trace store and Collector (`storage/postgres/trace.go`, `telemetry`) | traces, spans, per-batch locks | WriteBatch, merge, prune | outbox, SDK exporters | repeated and late spans, pruning against a late batch, back-pressure | merging is order-independent; a pruned trace is not revived in part |
| Trust (`trust/service.go`) | bounded scan registry | start scan, poll, list | AgentGuard | background goroutines against a full registry | a running scan is never evicted |
| Health and persistence recovery (`aggregate`, `apps/server/cmd/agentshark`) | last health, initialised flag | poll, record, recover | audit, store | database down at start | recovery happens once and then audit runs |
| Sessions (`auth/session.go`) | map of cookies | create, verify, expire | API server | expiry at use | an expired session is refused |
| In-memory stores (`storage/memory`) | maps under one mutex | the same contracts | tests | second implementation of the contracts | they behave as PostgreSQL does |
| Upstream client, adapters, configuration, types, migrations, pages, SDK, deployment | none over time | | | | |

## 2. Plan

The modules in the order in which they were written, the most important behaviour
first.

1. `EventFeed`, `Outbox`, `OutboxProofs`: every observable change reaches a browser through
   the outbox.
2. `RunLifecycle`, `DemoRun`, `DemoRunProofs`: the largest state machine, with three
   writers, two external systems and a deadline.
3. `LiveClient`, `LiveClientProofs`: the browser's end of the live stream.
4. `ConfigCoordinator`, `ConfigCoordinatorProofs`: writes to a system without revisions.
5. `EventStore`, `AuditStore`: the promise of the Audit store, and the PostgreSQL
   transactions that keep it.
6. `SpanStore`, `TraceStore`: the promise of the trace store, and the transactions that keep
   it: batches, merging, late spans, retention and queries under advisory locks.
   `StoresProofs` holds the proofs of both stores.
7. `AuditService`, `AuditServiceProofs`: approvals with their evidence, polls, health and
   the recovery of persistence.
8. `GatewayDocuments`: what each configuration edit does to the document.
9. `DemoStream`, `DemoStreamProofs`: the page of a run and the stream of that run alone.
10. `GuardOperations`, `GuardOperationsProofs`: scans and rule publications, the bounded
    registries.

What is left, in this order: the pure algorithms of the Audit service (`nearestRankP95`,
`bucketIndex`) against reference definitions; `DeleteRule`; two versions of one span in a
request (see `TraceStore` below).

Composition. The modules meet at the database and at the two upstreams: `Outbox` is the
commit of every writer, `AuditStore` and `TraceStore` say what else their transactions do,
`AuditService` uses the store as the set `EventStore` promises, and `LiveClient` and
`DemoStream` read what `Outbox` hands out. Where parts share no state that matters, an MC
module checks them side by side, each for itself, under one name for the actor at work
(`working`): nothing of one part enables or disables the other.

## 3. The modules

### EventFeed, Outbox, OutboxProofs

`EventFeed` is the promise: one totally ordered feed; a browser with a position is
handed the next message or is reset; it is never moved silently. `Outbox` is the code.
A writer is a thread that runs transactions: `Begin` (before it waits), `AcquireLock`
(`SELECT ... FOR UPDATE` on `stream_outbox_state`), `Allocate` (one `INSERT` draws one
number), `Commit` (raises `latest_sequence`), `Rollback` (numbers are not given back),
`Notify` (the hub, only in the BFF's process). `PruneAudit` deletes by `created_at`. A
stream handler is `Subscribe`, then `Replay` or `ReplayReset`, then `Fetch`/`Send` until a
batch is short, then idle until `Wake` or `ReplayTick`. `CrashServer` ends every handler
and forgets unsent notifications. `history` and `announced` are ghost variables.

`EarlyStampers` are writers that read the clock before they wait for the lock: the
Collector's `WriteBatch`. `LiveReadersKeepUp` says that a row is not pruned before a
connected handler has read it: outbox retention is at least a minute (24 h by default),
pruning is hourly, and handlers read at least once a second.

### RunLifecycle, DemoRun, DemoRunProofs

`RunLifecycle` is what a reader of `demo_runs` is promised: one active run, legal moves, one
end, and a result only if the execution had it. `DemoRun` has the code's processes:
Create handlers (`Lookup`, `Probe`, `Insert`, `PersistStarting`, `Start`, `ApplyStart` or
`RefuseStart`), the Monitor and Cancel under `controlMu` (one program counter `pc`), the
Runner's registry, AgentGuard's ticket, people, and two clocks (`overdue`, `silent`).
Every remote call is a step of its own; `Faults` chooses what may go wrong, among it
calls that take effect and are answered with an error. The optimistic version is
represented by `stale`, the handlers whose copy somebody has overwritten: an update
fails exactly for them. All runs are of the approval scenario, whose states include
those of the others. Heartbeats, reason codes and trace ids are left out. One session
has one ticket, so the second denial attempt of `denyTimedOutApproval` with another
ticket does not occur. `unheard` is a ghost variable.

### LiveClient, LiveClientProofs

The EventSource with its last id, the id window and the live cache of
`use-live-events.ts`, against a small server with the same reset rule as `Outbox` and an
operator who may restore a backup. `given`, `covered` and `synced` are ghost variables.

### ConfigCoordinator, ConfigCoordinatorProofs

Tokens move from `Show` (the GET) over `Stamp` (the clock is read before the lock) to
`Issue` (into the bounded map, dropping the oldest), and end used, expired or evicted.
A change is `Consume`, `Begin`, `Reread` (GET, compare, edit), `Post`, `Verify`; every way out
gives the flag back. A document is a sequence of named entries because the code
addresses entries by index. The digest of a document is the document: SHA-256 is taken
to be injective. Tokens live equally long, so `Expire` takes the oldest and no clock
is needed. What an edit does inside an entry is in `GatewayDocuments`; `MCConfigCoordinator`
extends both, and each works while the other rests (`ChangesInit`).

### GatewayDocuments

The document at the gateway as the BFF sees it: providers and models with credentials,
references, expressions and policies, virtual models, MCP servers and settings, the policies
of both families, and binds with listeners and routes. A change reads the document, is
refused by the code's own conditions, or posts a new document whole (`PostDocument`) and
reads it again (`RereadDocument`); each edit function of `gateway/*_config.go` is one action
with the verification that belongs to it. The native console stores one of `Documents` at
any moment (`ConsoleStores`), and each of them is one the gateway accepts
(`DocumentsAssumption`). Credentials are named by what the BFF reads them as, so a literal
that begins with a dollar sign is written as one thing and read as another
(`CredentialMode`, `MergedKey`, `ShownCredential`). `KnownGap` collects the drafts for which
writing and reading disagree; `WritesAreConfirmed` says that they are the only ones. Two
things are assumed of the gateway: it refuses a listener with both routes and tcpRoutes, and
policy values that do not fit its schema. Drafts refused for their form alone are left out.
A listener or route that is edited is made anew from its draft (`EncodeListener`); of what the
listener was, its routes and its namespace stay. The fields a draft cannot have (`extra`) are
dropped, which `ChangesAreLocal` allows, as it is the listener its user named; every other
listener keeps them. Fields of routes are not modelled.

### EventStore, AuditStore

`EventStore` is the promise of the Audit store, and the in-memory store as it is: a call
takes effect at one instant. `AuditStore` is the PostgreSQL store: `BeginPersist`,
`LockAndStamp` (`FOR UPDATE` on the outbox row, then the clock), one of `UpdateEvent`,
`InsertEvent` and `SkipEvent` per event, `CommitPersist` or `RollbackPersist`; `Prune`,
which waits for row locks only; and listings cut into pages by separate requests with a
watermark and the place of the last row. `lastSeq`, `notified`, a listing's `got` and `due`
are ghost or derived variables. Numbers are drawn from a bigserial and not given back, so a
call of the promise may pass over at most `Gaps` of them, and a transaction may work with a
clock reading at most `Lag` ticks old. A batch is stored one event after the other;
`PersistEvents` says so with a recursive function. Nothing outside the tests calls
`PutPayload` or `GetPayload`. Totals and the text of checkpoints are left out.

### SpanStore, TraceStore, MCStores, StoresProofs

`SpanStore` is the promise of a trace store, and the in-memory store as it is, one mutex
around every call: `WriteBatch`, `PruneTraces` and the queries take effect at one instant, with
a clock reading of their caller. (In memory a document that has run out by the clock is not
renewed even if no pruning marked it; PostgreSQL looks at both, and `Documented` has both.)
`TraceStore` has the transactions of PostgreSQL on the same tables.

A request is a set of span versions, at most one of each span. It becomes a batch of the
versions still in retention (`Receive`), which takes one advisory lock per trace in sorted
order (`LockTrace`), merges rows and documents (`WriteRows`), locks the outbox row if a
summary must change (`LockOutbox`), assembles (`AssembleSummaries`) and commits, or aborts
at any point. Retention chooses traces, locks them in the same order and looks at their age
again (`PruneSelect`, `PruneLock`, `PruneCommit`); its commit waits for the row locks of
batches that wrote what it would change. Listings are paged by list number; a detail is two
queries on one snapshot. A span has one document, and links, tokens and kinds of calls are
one counter. Attribute normalisation and redaction are left out. A batch holds at most one
version of a span, as exporters send them: `staleSpans` is kept per span for the whole
batch, and would drop the documents of a finished version that a stale one follows in the
same request.

`MCStores` puts the two stores beside each other on one clock and one outbox row. One works
and the other rests: they share no other table. Its specification `StoresSpec` is the one the
run `stores_tables` checks, and the theorems of `StoresProofs` are about it and about
`TraceStore` alone.

### AuditService, AuditServiceProofs

The threads around the shown window: handlers that resolve an approval (`ListTickets`,
`BeginMutation`, the decision in AgentGuard, the evidence under `updateMu`, `Reload`, the
answer), the poller (restore, initial health, then polls that fetch before they lock
`updateMu`), and the monitor with its `healthPersistenceState`. Store calls fail before or
after they took effect, the BFF crashes, people decide in AgentGuard's own console. The
store is a set of events. One health source stands for all, and what is counted are
denied approvals. Session counts, latency percentiles and diagnostics are left out: they
are functions of one snapshot. `answered` is a ghost variable.

### DemoStream, DemoStreamProofs

`demoRunEvents` and the hook `use-demo-run-events.ts` with the page's query. The page never
shows what an event says; an event, a snapshot or a reset makes it fetch the run again, a
broken or refused stream makes it poll. The reset rule has four conditions of its own
(`NeedsReset`). Sequence numbers of one run are named by its versions; batches hold all rows
of a run, the window of 500 ids is not filled by one run, heartbeats write no event. Retention
takes the oldest rows, so what is left after an id are the newest versions (`RowsAfter`).
As in `Outbox`, retention does not overtake a connected handler.

Besides the hook, the defaults of the query client fetch the run: every ten seconds, on mount
and on focus, in every state of the stream (`Refetch`, `apps/web/src/main.tsx`). These join a
fetch that is under way, where an invalidation starts it anew. An approval decided on the page
invalidates too (`ReviewApproval`). And the page has three writers: the answer of the query
(`ShowRun`) and the responses of Create and Cancel, which `demo-lab-page.tsx` puts into the
run's cache as they are (`Respond`, `ShowReply`). A response may be older than what it
replaces. If it turns a run that had ended into one that goes on, the hook opens a stream
again, and keeps the ids it has seen, since these are cleared for another run only (`Show`).

`excused` and `torn` are ghost variables: they mark the states in which the page cannot know
better until it is next fetched, by the interval at the latest (in the background, when the
page is visible again). These are a fetch that failed (`retry: false`), a response that
replaced a newer row while no fetch was under way, and the id 0, the id of every snapshot or
reset of an emptied outbox, which is taken for a repetition, and as a cursor is never void.
An answer is rendered before the next one comes, so the hook sees every change between a run
that goes on and one that has ended. Demo Lab is not switched off while the page is open.

### GuardOperations, GuardOperationsProofs

The scan registry of the Trust service, with the goroutine of each job, and the rule
checks of the Protect service: a check is stamped before it is entered into the bounded
map, and a publication looks up its agent, consumes its token, takes the operation lock,
calls AgentGuard and releases the lock. A restart of the BFF empties maps and locks, and
not what AgentGuard published. `published` is a ghost variable. Checks live equally long,
so the oldest expires first and no clock is needed. The registry never holds more jobs than
its maximum (`RunningScansAreListed`), so `Pruned` makes room with one completed job, where
the code's loop goes on until there is room.

## 4. Runs

| Run | Instance | Shows |
|---|---|---|
| `outbox_feed` | two writers, one of them in another process, one browser, three numbers, one tick | types, watermark, no lost wakeup, explicit reconnect, visibility order, refinement of `EventFeed`, and a retained row arrives also when no notification was sent |
| `outbox_early_stamp` | an early stamper | violation: finding 1 |
| `demo_faults` | one POST with every fault but a denial answered with an error, or two POSTs with equal or different keys and no faults | types, real decisions, denials reach the Runner, life cycle with a single active run |
| `demo_live` | one run, Runner restarts and failures, lost answers of denials, fairness | every run ends; decisions are real |
| `demo_lost_at_deadline` | unreachable Runner | violation: finding 2 |
| `demo_cancel_at_deadline` | a cancellable run, no faults | violation: finding 3 |
| `demo_denial_unconfirmed` | a denial answered with an error | violation: finding 4 |
| `client_pages` | four ids, a window of three, one restore; a run of four versions, two breaks, responses of Create and Cancel at any moment; four scans in a registry of two; three checks in a map of two, two publications | only repetitions are dropped, resets without a restore are honoured; the Demo page is current when all has settled, before the interval fetches it; running scans are listed; one publication per check |
| `client_ignored_reset` | one restore | violation: finding 5 |
| `config_changes` | three tokens in a map of two, two changes, one console write; every sequence of two edits of three documents | types, compare-and-swap, one use, eviction, the flag; sound documents, local changes, confirmed writes |
| `stores_tables` | two writers, three numbers, one reader; two Collectors, two traces, a pruner; two ticks | audit transactions refine `EventStore` and trace transactions `SpanStore`, exact reads, expired documents stay gone, summaries match spans, no ring of locks, finished spans stay |
| `audit_evidence` | five mixes of requests, log entries, outages, failures and crashes; a window of two | real and durable evidence, exact counts, a window that moves forward, outages remembered, convergence |

Bounds. Two writers are enough for every overlap of two transactions, and more only
repeat it; three numbers give a committed row, one rolled back or in flight and one
behind it; two ticks with a retention of one let rows of one feed differ in age. One
run suffices for every race among Create, Monitor and Cancel, since they share the row;
two POSTs are needed for the unique indexes and the orphan execution. Three tokens in a
map of two are the least that evict with a choice. A window of three ids with four
numbers slides.
Two edits in a row are enough for one to prepare what breaks the next (a rename or a
policy, then a deletion), from two documents that hold every kind of entry and one that
holds none; names, kinds and
credentials of the drafts are chosen so that each condition of the code is met by one and
missed by another. Two Collectors with two spans on each of two traces, in opposite orders,
give every overlap of their locks; `MaxList` is three so that a pruned trace may come back
under a new number. `MCBudgets` lists the mixes of `audit_evidence`: each pairs the failures that
meet in the code, and all of them at once would only multiply states. Four versions of a
run and two breaks allow an event, a reset and a repetition between two fetches; with three
versions a void cursor that is taken for a good one would go unnoticed. Responses are not
bounded: each of Create and Cancel answers any number of times, one answer at a time.

Deadlock checking is off where the system may stop: a run that has ended, changes that
have been answered.

Fairness. `Outbox`: weak fairness of a handler's steps, since goroutines run and tickers
fire; nothing is assumed of writers, which may crash. `DemoRun`: weak fairness of
Create's steps, of the step of `controlMu`'s holder and of the clocks, strong fairness of
the Monitor's turn at the mutex (a Go mutex starves nobody); nothing is assumed of the
Runner, of AgentGuard or of people. `AuditService`: weak fairness of the clock, strong
fairness of the poller, the monitor and the handlers as wholes, which wait for `updateMu` only,
a Go mutex; nothing is assumed of people, and the failures are bounded by the budget, as
`Converges` says that things become right once nothing fails any more.

## 5. Proofs

`OutboxProofs` proves for any sets of writers and readers, any batch size and any retention:

- `OutboxInvariant`: `Spec => []OutboxInv`. `LatestIsWatermark` alone is not inductive: it needs
  to know that the holder of the lock is the only one with undecided rows
  (`LockDiscipline`, `PendingDiscipline`), that a number drawn is above the watermark until
  the commit (`NumbersAreDrawn`), and that readers are behind it (`ReadersBehindLatest`).
- `OutboxTypes`, `OutboxWatermark`: its conjuncts of interest.
- `OutboxVisibility`: `NothingAppearsBehind`, from the invariant: a commit only adds numbers
  above the watermark, and no streaming reader is past the watermark.
- `WakeupsAreKept`: `NoLostWakeup`, from `WakeupInv`: a batch lies ahead of what was sent
  (`BatchesAreAhead`), and one that was not cut at its limit leaves out nothing the hub had
  announced, unless a wakeup waits (`LastBatchCovers`).
- `ExplicitReconnect`: `ReconnectIsExplicit` if no writer stamps early. The strengthening is
  that ages never decrease along the sequence (`StampsFollowSequence`), so retention removes
  a prefix (`RetentionIsAPrefix`). TLC shows that the assumption is needed
  (`outbox_early_stamp`).
- `StreamImplementsFeed`: `Outbox` implements `EventFeed`, under the same assumption and
  `LiveReadersKeepUp`. A commit publishes, a message sent moves the browser to the next row, a
  reset resets, everything else is invisible. The step lemma needs that a streaming handler
  has ahead of it, fetched or retained, every commit after its position (`NothingIsSkipped`).
  That a query returns the least rows, in order, rests on `LeastNumber`.

`DemoRunProofs` proves for any sets of requests and keys and any mixes of faults:

- `DemoInvariant`: `Spec => []DemoInv`. `RecordedDecisionIsReal` is not inductive, since a row is
  written from what was read earlier. The strengthening follows a decision on its way: what
  an execution has reported and been told (`RunnerDiscipline`), what Create knows of a row
  nobody has overwritten (`CreateDiscipline`), that the snapshot and the copy in the hands of
  the holder of `controlMu` were true and still are (`SnapshotIsTrue`, `CopyIsTrue`, in
  `ControlDiscipline`), and that one run is active (`ActiveDiscipline`).
- `DemoTypes`, `DecisionsAreReal`: its conjuncts of interest.
- `DenialsReachRunner`: `DenialReachesRunner`, unless a denial that took effect is answered with
  an error; TLC shows that it fails then (`demo_denial_unconfirmed`). Only the handler about
  to call the Runner owes it the call (`DenialIsOwed`).
- `RowsFollowLifecycle`: `DemoRun` implements `RunLifecycle`. Each write is shown to be one of its
  moves; the claim of a result needs `RunnerDiscipline`, the single active run `ActiveDiscipline`.

`LiveClientProofs` proves for any numbers of rows, restores and remembered ids:

- `ClientInvariant`: `Spec => []ClientInv`. While the page is in step with its database it holds
  every retained row up to any id it remembers, and up to the last id it saw (`Reached`); rows
  have different numbers up to the latest, in the database and in the backup (`Numbered`).
- `GivenIsShown`: `DeliveriesAreShown`; `RetentionResetHonoured`: `RetentionResetIsHonoured`, by the
  same fact: a reset is ignored for its id only if that id was reached.

`ConfigCoordinatorProofs` proves for any finite sets of names and tokens, any changes and any
size of the token map:

- `CoordinatorInvariant`: `Spec => []CoordinatorInv`. Beside the types it says that ranks are
  drawn once and in order (`TokenDiscipline`), that a change past `Begin` holds the flag
  alone and owns a used token (`ChangeDiscipline`), and that a change about to POST was
  computed from the document its token stands for, which is still the gateway's unless the
  console wrote (`BaseIsCurrent`). TLC checked it on the instance of `config_changes` first.
- `ChangesCompareAndSwap`: `ChangesAreCompareAndSwap`. Only `Post` moves the configuration
  and leaves "post" in one step; `BaseIsCurrent` gives its base, and the exclusion of
  `ChangeDiscipline` keeps that base current while other changes run.
- `TokenIsSpentOnce`, `FlagIsReleased`: from `ChangeDiscipline`.
- `EvictionIsFair`: `OnlyOldTokensAreEvicted`, by counting: the live tokens other than the
  dropped one were created after it and the new one entered after it (`IssueInv`); later
  steps only add to them (`EvictionsStayJustified`).
- `CoordinatorTypes`: a document stays a sequence of different names, no longer than there
  are names. It rests on `AppliedIsDoc` (an edit that is not refused keeps a document one)
  and on `DistinctIsDoc` (by the pigeonhole principle).

It also proves what the edits of `GatewayDocuments` do, for any documents the gateway
accepts, any drafts of their forms, and any number of changes and ports:

- `CompositionIsBoth`: the specification of `config_changes` allows what those of the two
  components allow.
- `DocumentInvariant`: `ChangesSpec => []DocumentInv`. The document is sound and has the
  fields the code reads (`Safe`), a change waits exactly while it is known, and it will be
  confirmed unless the console stored another document or it is a known gap.
  `DocumentIsSound` needs `Safe` of what the console stores, and `WritesAreConfirmed` needs
  it too: an edit finds a document whoever stored it. For each of the edit functions one
  lemma (`CreateProviderStep` and so on) shows that the new document is safe, that it takes
  nothing but what is named, and that reading it gives what was asked for.
- `DocumentStaysSound`, `StoredChangesAreConfirmed`: `DocumentIsSound` and
  `WritesAreConfirmed`.
- `NothingElseIsTaken`: `ChangesAreLocal`, from the same lemmas.

`StoresProofs` proves of `TraceStore`, for any sets of Collectors, readers and requests and any
retention:

- `SummaryInvariant`, `SummariesAreTrue`: a trace has a summary exactly if it has spans, and
  the summary is that of those spans. `SummariesMatchSpans` alone is not inductive: a
  Collector assembles in one step and commits in a later one. The strengthening says that a
  transaction holds the locks of all its traces but those it still wants (`LocksHeld`), that
  the rows it will write belong to them (`CallTypes`), and hence that what it has assembled
  is still what the tables and its rows give (`AssembledIsCurrent`). Two facts about the
  assembler carry the argument: rows of other traces do not show in a trace
  (`OverlayElsewhere`), and a row that only lost its document looks as before
  (`TraceIsLocal`).
- `LocksFormNoRing`: `NoLockRing`. Every lock has an owner whose transaction took it
  (`Owned`), and what a transaction holds is before all it wants (`Ordered`); two that
  waited for each other would have `t < u` and `u < t`. Who holds the outbox row wants no
  other lock (`OutboxOwned`).
- `DetailsAreConsistent`: `DetailsAgree`, a part of `ReadsAreExact`, from
  `SummariesMatchSpans` at the moment of the snapshot.
- `StoreInvariant`, `TraceTypes`: what a Collector has written is what it would write now,
  from the tables as they are and the clock it read (`WrittenIsCurrent`). Other batches
  leave its rows alone because of the locks, retention because of the rows: the job holds
  the locks of the traces it deletes, and waits for the documents it expires, also in traces
  that lapsed after it had chosen.
- `TransactionsAreAtomic`: `TraceStore` implements `SpanStore`. `CommitBatch` is one
  `WriteBatch`, by `WrittenIsCurrent` for rows and documents and `AssembledIsCurrent` for
  the summaries; `PruneCommit` is one `PruneTraces`; every other step but `Tick` leaves the
  tables alone.
- `FinishedStaysFinished`: `FinishedSpansStay`. For merging, `MergeSpan` keeps an end; for
  deletion, the `last` of a summary is the greatest end of its spans (`StoreInvariant` has
  them finite), so a trace out of retention has no span within it.

and of both stores together, for any batches of events, writers, filters and page sizes:

- `StoresInvariant`: `StoresSpec => []StoresInv`. One store works and has its invariants,
  the other is as it began. For the Audit store these are `EventsInv` and `ListingsInv`:
  only the holder of the outbox row has written events, with the number and the time of rows
  that exist and new numbers for the others (`RowsWritten`), and every stored number is
  behind the ones still to draw.
- `StoresAreTyped`: `StoresTypeOK`.
- `ReadsAreOfOnePiece`: `ReadsAreExact`. What a listing owes and has not shown is still
  ahead of its cursor (`DueIsAhead`, for traces `DueIsBelow`), and all it has shown is at
  the cursor or before it (`CursorIsLast`, `AbovePosition`). A page takes the first rows
  that remain; the last of them exists because different rows have different places
  (`RowId`), and a commit moves no row and adds only numbers above the watermark.
- `EventStoreIsImplemented`: `ImplementsEventStore`. A commit must be one call of
  `PersistEvents`, which stores the batch event by event on the tables as they are at the
  commit, while the transaction computed its rows earlier, on the tables as they were. The
  invariant (`CallsInv`, theorem `StoresCallsHold`) is that the holder of the outbox row has
  a chain: a sequence of results, one for each event stored so far, each of them what its
  event makes of the one before (`Outcome`), the first of them empty and the last what the
  transaction has written (`Chain`). It is said of the tables as they are now. Other writers
  leave them alone, because of the outbox row; retention takes rows and documents meanwhile,
  and the chain survives that because the job waits for every row the transaction has
  written (`ChainPruned`). At the commit the chain has the length of the batch and is the
  recursive function of `PersistEvents`, by a least counterexample; the numbers burnt by
  rolled back transactions are the gap, and the time of the lock is the reading. The second
  half, `ExpiredDocumentsStayGone`, is from `RowsWritten`: a transaction renews a document
  only where one is stored, and never its expiry.
- `TracesStayTrue`, `SpanStoreIsImplemented`: the results about `TraceStore` hold in
  `StoresSpec`.

`AuditServiceProofs` proves for any tickets, handlers, log entries, window size and budgets:

- `AuditInvariant`: `Spec => []AuditInv`, by parts: clock and budget (`Clocks`), the
  upstreams (`Outside`), at most one stored event of an identity (`Rows`), the service's
  state is from the store (`ServiceInv`), a request past its decision has the ticket decided
  as it says and holds the only operation lock on it (`RequestInv`), what the poller and the
  monitor may still install (`PollerInv`, `MonitorInv`), health events of one time are
  equal, also those not yet stored (`HealthInv`), and the counts (`CountInv`).
- `EvidenceIsTrue`, `DoneStaysStored`, `AuditTypes`: conjuncts of it.
- `DenialsCountOnce`: `NeverOvercounted` is not inductive: a request adds one to the trend
  when it reloads, after it stored its evidence. `CountInv` therefore sets apart the
  evidence that is stored and not yet counted (`Uncounted`).
- `OutagesStayRemembered`: `OutagesAreRemembered`, step by step from `MonitorInv`.
- `WindowMovesForward`: `ShownMovesForward`. The shown events are always stored
  (`ServiceInv`), and a writer installs the newest of what is stored, whenever it began.
  That these push out an event only with `Capacity` newer ones (`NewestAreEnough`) is shown
  without a total order: among the newer events outside the window take one with no newer
  one outside; the `Capacity` events newer than it are all in the window, and newer than the
  event too.

`DemoStreamProofs` proves for any numbers of updates and broken connections
`SettledPageIsCurrent`: `PageIsCurrent`. The invariant `StreamInv` has one part for each place
the news of an update may be in, and TLC checked it before it was proved:

- `Rows`: retention leaves the newest versions. `Server`: a connected handler finds every row
  after its position, because retention waits for it.
- `Wire`, `Links`: messages on the wire are in order, a first answer comes first and a
  terminal event last; each event follows the one before it without a gap, unless that is the
  id 0. `NoRepetition`: rows after an id were not delivered, so no event is taken for a
  repetition, only a reset with the id 0 and the snapshot of a stream that was opened again
  (`RepeatedKeeps`).
- `NoGap`: the list of events ends with the last id, or no event will follow (`Over`): a stream
  is opened again only after the last update. `Answers`: what was read of the run was true, also
  if it is older than what is shown. `Current`: unless excused, a page that has seen the id of
  the last update knows of it, or will by the fetch under way (`Told`); an open stream has told
  it, or has a message or a row for it; a closed one has told it, because only a terminal event
  or a terminal row closes it, unless the answer under way will open it again. It speaks of the
  ids seen and not of the last id: a stream that was opened again has no last id, and what it
  drops as a repetition names an update the page was told of.

A reconnection is the hard step: `CursorIsGood` shows that a cursor that is not void has all
later rows in the table, which is what the four conditions of `NeedsReset` are for.

`LiveClientProofs` also proves the properties of `MCLiveClient`, with all three conversations:
`PagesInvariant` (`ClientInv`, `StreamInv` and `GuardInv` together) and from it `PagesTypes`,
`SettledPagesAreCurrent`, `RunningScansStayListed` and `PublishesUseOneCheck`. It uses the lemmas of
`DemoStreamProofs` and `GuardOperationsProofs` through instances of these modules.

`GuardOperationsProofs` proves for any scans, agents, publications and sizes of registry and map:

- `RuleInvariant`, `PublishesAreChecked`: `OnePublishPerCheck`. Beside the types the invariant says
  that no two publications hold the same token (`TokensAreSpentOnce`), that what was
  published came from a token that is spent (`PublishedIsSpent`), and that a publication in
  progress holds the operation lock (`LocksAreHeld`). That a token is spent is said of the
  token, not of the map: a restart empties the map, and no token issued before it may be
  used again.
- `ScansStayListed`: `RunningScansAreListed`. The list holds each registered job once (`Lists`, kept
  by `AppendLists` and `RemoveLists`), and a goroutine's job is registered and unfinished
  (`ScanInv`); only a completed job makes room, and it is no goroutine's any more.
- `GuardTypes`: `TypeOK`. The map of checks holds issued checks only and stays within its bound,
  because the check that makes room for another is in the map (`OldestIsChecked`: of finitely
  many checks one has the lowest rank).

Assumptions: those on the constants (`OutboxAssumption`, `CoordinatorAssumption`,
`DocumentsAssumption`, `DemoAssumption`, `LiveClientAssumption`, `TraceAssumption`,
`SpanAssumption`, `EventAssumption`, `AuditAssumption`), which TLC evaluates in the runs.
`EventAssumption` says that batches are sequences of events of the known identities, that a
Collector is no writer of events, that UUIDs differ, and that the bounds of the promise do
not bind: a transaction may last as long as the run and any number drawn may be burnt.
`DocumentsAssumption` says that what the console stores is what the gateway accepts, and
what fields a draft has. `DemoStream` and `GuardOperations` state theirs as definitions,
which `MCLiveClient` assumes (`PagesAssumption`): a positive number of versions, finitely
many checks, and positive sizes of the registry and the map. Three theorems have hypotheses,
each named above: no early stamper (`ExplicitReconnect`, `StreamImplementsFeed`), handlers
that keep up with retention (`StreamImplementsFeed`), and denials answered as what they did
(`DenialsReachRunner`).

A proof found the model wrong once: the retention job took the documents of a trace that
had lapsed after it chose, without waiting for a batch that was writing them. In PostgreSQL the
`UPDATE` waits for those rows, and so does `PruneCommit` now.

Model-checked only: liveness (`CommittedRowsArrive`, `Converges`, `RunsEnd`), which is out of the
prover's reach under fairness. Every other property of a passing run is stated by a theorem.
Of the properties the violation runs refute, `ReconnectIsExplicit` and `DenialReachesRunner`
are theorems under the conditions named above, `RetentionResetIsHonoured` is what is true of
`ResetIsHonoured`, and `RunsEnd` stays with TLC.

## 6. Findings

Each is a place where the code and the documents of the repository disagree, with a
run that shows it.

1. `telemetry` batches are stamped before the outbox lock, so retention can remove a row
   from the middle of the feed and a reconnect past it is not reset
   (`storage/postgres/trace.go:21`, `docs/architecture.md:169-173`).
2. A Runner that becomes unreachable before the deadline leaves the run active for ever
   (`demo/monitor.go:51`, `docs/demo-lab.md:79-82`).
3. A cancelled approval run whose deadline passes before the Monitor's next poll is
   never ended by the Monitor (`demo/monitor.go:95`).
4. Cancel stops after a denial that took effect but was answered with an error
   (`demo/service.go:339`, `docs/capability-matrix.md:162`).
5. After a restore a reset can be dropped as a repetition
   (`apps/web/src/lib/use-live-events.ts:39`, `docs/architecture.md:171-173`). It needs a page
   that survives the restore: authentication disabled, or a restore under a running BFF.

## 7. Not modelled

Adapters, configuration parsing, data types, the upstream client's retry loop, most
pages, SDK, deployment and documents keep no state that several actors share. Sessions are a map
under one mutex whose calls are atomic. The queries of the Trace, Trust and Protect
services are projections of one upstream or database read. The calls of the Runner's
workflow to model and tools are left out, since the control plane sees only its
checkpoints. Of the listed hazards five have no property, with the reason beside them in
`PROJECT.json`: a handler slower than the retention window, the console's write between the
last read and the POST, an approval at the deadline, evidence that is retried, and counts
that come late.
