----------------------------- MODULE TraceStore -----------------------------
(***************************************************************************)
(* Trace ingestion: Collectors turn OTLP requests into batches of span     *)
(* versions and store each batch in one READ COMMITTED transaction, under  *)
(* one advisory lock per trace and, once a summary must change, the outbox *)
(* row.  The retention job deletes old traces and expires documents under  *)
(* the same advisory locks.  A request may be repeated by its sender at    *)
(* any time, so versions of a span arrive repeatedly and in any order.     *)
(* What a transaction makes of the stored rows is in SpanStore; the rows   *)
(* may be others by the time it commits, were it not for the locks.        *)
(***************************************************************************)
EXTENDS SpanStore

CONSTANTS Collectors, NoHolder,
          Pruner,            \* the retention job, as a holder of locks
          Readers,
          MaxList            \* bound: list sequence numbers drawn

\* Holders of locks differ.
TraceAssumption == /\ NoHolder \notin Collectors /\ Pruner \notin Collectors
                   /\ Pruner # NoHolder
ASSUME TraceAssumption

VARIABLES locks,      \* holder of each trace's advisory lock
          outboxRow,  \* holder of the lock on stream_outbox_state
          call,       \* each Collector's WriteBatch
          prune,      \* the retention job's transaction
          listing,    \* each reader's progress through the pages
          detail      \* what each reader's detail transaction has read

txVars == <<locks, outboxRow, call, prune>>
readVars == <<listing, detail>>
vars == <<now, tables, txVars, readVars>>

Idle == [pc |-> "idle", batch |-> {}, at |-> 0, want |-> {},
         rows |-> None, docs |-> None, changed |-> {}, summed |-> None]
NoPrune == [pc |-> "idle", at |-> 0, want |-> {}, of |-> {}]
NoListing == [pc |-> "idle", water |-> 0, position |-> 0, got |-> <<>>,
              due |-> {}]
NoDetail == [pc |-> "idle", trace |-> 0, count |-> 0, snapshot |-> 0, spans |-> 0]

Init == /\ SpanInit
        /\ locks = [t \in Traces |-> NoHolder] /\ outboxRow = NoHolder
        /\ call = [c \in Collectors |-> Idle] /\ prune = NoPrune
        /\ listing = [r \in Readers |-> NoListing]
        /\ detail = [r \in Readers |-> NoDetail]
-----------------------------------------------------------------------------
(* A request *)

\* Mutant: locks are taken in the order of a map's keys, which is any.
MapOrder(want) == want

\* The trace that is locked next.
SortedTraceIDs(want) == {t \in want : \A u \in want : t <= u}

Receive(c, request) ==
    LET batch == Normalized(request, now)
    IN /\ call[c].pc = "idle" /\ batch # {}
       /\ call' = [call EXCEPT ![c] =
            [Idle EXCEPT !.pc = "locking", !.batch = batch, !.at = now,
               !.want = TracesOf(batch)]]
       /\ UNCHANGED <<now, tables, locks, outboxRow, prune, readVars>>

\* Mutant: the lock is tried, and its refusal overlooked.
TryLockTrace(c) ==
    /\ call[c].pc = "locking"
    /\ \E t \in SortedTraceIDs(call[c].want) :
         /\ locks' = [locks EXCEPT ![t] = IF @ = NoHolder THEN c ELSE @]
         /\ call' = [call EXCEPT ![c].want = @ \ {t}]
    /\ UNCHANGED <<now, tables, outboxRow, prune, readVars>>

LockTrace(c) ==
    /\ call[c].pc = "locking"
    /\ \E t \in SortedTraceIDs(call[c].want) :
         /\ locks[t] = NoHolder /\ locks' = [locks EXCEPT ![t] = c]
         /\ call' = [call EXCEPT ![c].want = @ \ {t}]
    /\ UNCHANGED <<now, tables, outboxRow, prune, readVars>>

\* Spans and documents are upserted one by one, under the locks.
WriteRows(c) ==
    LET batch == call[c].batch
    IN /\ call[c].pc = "locking" /\ call[c].want = {}
       /\ call' = [call EXCEPT
            ![c] = [@ EXCEPT
              !.pc      = "written",
              !.rows    = RowsOf(batch),
              !.docs    = DocsOf(batch, call[c].at),
              !.changed = TracesOf(Changed(batch))]]
       /\ UNCHANGED <<now, tables, locks, outboxRow, prune, readVars>>

\* FOR UPDATE on the outbox row, only if a summary must change.
LockOutbox(c) ==
    /\ call[c].pc = "written"
    /\ IF call[c].changed = {} THEN UNCHANGED outboxRow
       ELSE outboxRow = NoHolder /\ outboxRow' = c
    /\ call' = [call EXCEPT ![c].pc = "assembling"]
    /\ UNCHANGED <<now, tables, locks, prune, readVars>>

Release(h) ==
    /\ locks' = [t \in Traces |-> IF locks[t] = h THEN NoHolder ELSE locks[t]]
    /\ outboxRow' = IF outboxRow = h THEN NoHolder ELSE outboxRow

\* Mutant: a trace is assembled from the spans of the batch alone.
AssembleBatch(c) ==
    /\ call[c].pc = "assembling"
    /\ call' = [call EXCEPT ![c] = [@ EXCEPT !.pc = "assembled",
         !.summed = [t \in call[c].changed |->
                          Assemble(TraceSpans(t, call[c].rows))]]]
    /\ UNCHANGED <<now, tables, locks, outboxRow, prune, readVars>>

\* Each changed trace is assembled from what is stored now.
AssembleSummaries(c) ==
    /\ call[c].pc = "assembling"
    /\ call' = [call EXCEPT ![c] = [@ EXCEPT !.pc = "assembled",
         !.summed = [t \in call[c].changed |->
              Assemble(TraceSpans(t, Overlay(spans, call[c].rows)))]]]
    /\ UNCHANGED <<now, tables, locks, outboxRow, prune, readVars>>

CommitBatch(c) ==
    /\ call[c].pc = "assembled"
    /\ spans' = Overlay(spans, call[c].rows)
    /\ docs' = Overlay(docs, call[c].docs)
    /\ Numbered(call[c].changed, call[c].summed)
    /\ nextList' - 1 <= MaxList
    /\ Release(c)
    /\ call' = [call EXCEPT ![c] = Idle]
    /\ UNCHANGED <<now, prune, readVars>>

\* Mutant: the advisory locks belong to the session, not the transaction.
AbortKeepsLocks(c) == /\ call[c].pc # "idle"
                      /\ outboxRow' = IF outboxRow = c THEN NoHolder ELSE outboxRow
                      /\ call' = [call EXCEPT ![c] = Idle]
                      /\ UNCHANGED <<now, tables, locks, prune, readVars>>

\* A deadline, an error or a crash; the sender may repeat the request.
AbortBatch(c) == /\ call[c].pc # "idle"
                 /\ Release(c)
                 /\ call' = [call EXCEPT ![c] = Idle]
                 /\ UNCHANGED <<now, tables, prune, readVars>>
-----------------------------------------------------------------------------
(* PruneTraces *)

PruneSelect ==
    LET of == {k[1] : k \in Lapsed(now)}
                \cup {t \in DOMAIN summaries : Old(t, now)}
    IN /\ prune.pc = "idle" /\ of # {}
       /\ prune' = [pc |-> "locking", at |-> now, want |-> of, of |-> of]
       /\ UNCHANGED <<now, tables, locks, outboxRow, call, readVars>>

PruneLock ==
    /\ prune.pc = "locking"
    /\ \E t \in SortedTraceIDs(prune.want) :
         /\ locks[t] = NoHolder /\ locks' = [locks EXCEPT ![t] = Pruner]
         /\ prune' = [prune EXCEPT !.want = @ \ {t}]
    /\ UNCHANGED <<now, tables, outboxRow, call, readVars>>

\* The job waits for the rows it would change; the age of each chosen trace
\* is looked at again under its lock.
PruneCommit ==
    /\ prune.pc = "locking" /\ prune.want = {}
    /\ \A c \in Collectors : /\ DOMAIN call[c].docs \cap Lapsed(prune.at) = {}
                             /\ DOMAIN call[c].rows \cap Marked(prune.at) = {}
    /\ PruneTraces(prune.of, prune.at)
    /\ Release(Pruner)
    /\ prune' = NoPrune
    /\ listing' = [r \in Readers |-> [listing[r] EXCEPT
                     !.due = @ \ {summaries[t].list :
                                    t \in Deletable(prune.of, prune.at)}]]
    /\ UNCHANGED <<call, detail>>

PruneAbort == /\ prune.pc # "idle"
              /\ Release(Pruner)
              /\ prune' = NoPrune
              /\ UNCHANGED <<now, tables, call, readVars>>
-----------------------------------------------------------------------------
(* Queries *)

StartListing(r) == /\ listing[r].pc = "idle" /\ Lists # {}
                   /\ listing' = [listing EXCEPT ![r] = [NoListing EXCEPT
                        !.pc = "paging", !.water = Greatest(Lists),
                        !.due = Lists]]
                   /\ UNCHANGED <<now, tables, txVars, detail>>

ReadPage(r) ==
    LET page == ListTraceSummaries(listing[r].water, listing[r].position)
    IN /\ listing[r].pc = "paging"
       /\ listing' = [listing EXCEPT
            ![r].pc       = IF page.more THEN "paging" ELSE "done",
            ![r].position = IF page.more THEN Least(page.items) ELSE 0,
            ![r].got      = Append(@, page.items)]
       /\ UNCHANGED <<now, tables, txVars, detail>>

FinishListing(r) == /\ listing[r].pc = "done"
                    /\ listing' = [listing EXCEPT ![r] = NoListing]
                    /\ UNCHANGED <<now, tables, txVars, detail>>

\* GetTraceDetail runs at REPEATABLE READ: the graph is read from the
\* snapshot its first query took.
OpenDetail(r, t) ==
    /\ detail[r].pc = "idle" /\ t \in DOMAIN summaries
    /\ detail' = [detail EXCEPT ![r] = [NoDetail EXCEPT !.pc = "open", !.trace = t,
                    !.count = GetTraceDetail(t).count,
                    !.snapshot = GetTraceDetail(t).graph]]
    /\ UNCHANGED <<now, tables, txVars, listing>>

SnapshotSpans(r) == detail[r].snapshot

ReadGraph(r) == /\ detail[r].pc = "open"
                /\ detail' = [detail EXCEPT ![r].pc = "read",
                                            ![r].spans = SnapshotSpans(r)]
                /\ UNCHANGED <<now, tables, txVars, listing>>

CloseDetail(r) == /\ detail[r].pc = "read"
                  /\ detail' = [detail EXCEPT ![r] = NoDetail]
                  /\ UNCHANGED <<now, tables, txVars, listing>>
-----------------------------------------------------------------------------
Work(c) == \/ LockTrace(c) \/ WriteRows(c) \/ LockOutbox(c)
           \/ AssembleSummaries(c) \/ CommitBatch(c)
PruneWork == PruneLock \/ PruneCommit
Read(r) == \/ StartListing(r) \/ ReadPage(r) \/ FinishListing(r)
           \/ \E t \in Traces : OpenDetail(r, t)
           \/ ReadGraph(r) \/ CloseDetail(r)

Next == \/ Tick /\ UNCHANGED <<txVars, readVars>>
        \/ \E c \in Collectors : \/ \E b \in Batches : Receive(c, b)
                                 \/ Work(c) \/ AbortBatch(c)
        \/ PruneSelect \/ PruneWork \/ PruneAbort
        \/ \E r \in Readers : Read(r)

Spec == Init /\ [][Next]_vars
-----------------------------------------------------------------------------
\* Documents belong to spans, summaries have numbers that were drawn, and no
\* lock outlives the transaction that took it, whatever ended that.
TypeOK ==
    /\ DOMAIN docs \subseteq DOMAIN spans
    /\ \A t \in DOMAIN summaries : summaries[t].list \in 1..nextList - 1
    /\ \A t \in Traces :
         \/ locks[t] = NoHolder
         \/ locks[t] = Pruner /\ prune.pc = "locking" /\ t \in prune.of
         \/ \E c \in Collectors : /\ locks[t] = c /\ call[c].pc # "idle"
                                  /\ t \in TracesOf(call[c].batch)
    /\ \A c \in Collectors :
         outboxRow = c => call[c].pc \in {"assembling", "assembled"}

\* Each trace's stored summary is the one its stored spans give, however
\* often and in whatever order their versions arrived, and whatever the
\* retention job deleted meanwhile; a reader of the two sees them agree.
SummariesMatchSpans ==
    /\ {k[1] : k \in DOMAIN spans} = DOMAIN summaries
    /\ \A t \in DOMAIN summaries : summaries[t].of = Assemble(TraceSpans(t, spans))

\* What a detail query says of a trace agrees with the spans it returns.
DetailsAgree == \A r \in Readers :
                  detail[r].pc = "read" => detail[r].count = detail[r].spans

\* The pages of a listing show every trace that was there throughout, each
\* after those of the pages before it, so none twice.
TraceListingsAreExact ==
    \A r \in Readers :
      LET l == listing[r]
      IN /\ \A i, j \in DOMAIN l.got : i < j =>
              \A m \in l.got[i], n \in l.got[j] : m > n
         /\ l.pc = "done" => l.due \subseteq UNION {l.got[i] : i \in DOMAIN l.got}

\* A finished span is never stored as unfinished or ending earlier again,
\* and a trace is deleted only when all its spans are out of retention.
FinishedSpansStay ==
    [][\A k \in DOMAIN spans :
         IF k \in DOMAIN spans'
         THEN spans[k].end # NoEnd => spans'[k].end >= spans[k].end
         ELSE LastAt(spans[k]) < now - TraceRetention]_vars

\* No Collector and retention job ever wait for each other's locks in a ring.
Waiting(c, h) ==
    \/ /\ call[c].pc = "locking"
       /\ \E t \in SortedTraceIDs(call[c].want) : locks[t] = h
    \/ call[c].pc = "written" /\ call[c].changed # {} /\ outboxRow = h
PruneWaits(h) == /\ prune.pc = "locking"
                 /\ \E t \in SortedTraceIDs(prune.want) : locks[t] = h
NoLockRing ==
    /\ \A c, d \in Collectors : ~(Waiting(c, d) /\ Waiting(d, c))
    /\ \A c \in Collectors : ~(Waiting(c, Pruner) /\ PruneWaits(c))

\* Every batch and every round of the retention job takes effect as one call
\* of SpanStore, made with the clock it read when it began.
ImplementsSpanStore == SpanSpec
=============================================================================
