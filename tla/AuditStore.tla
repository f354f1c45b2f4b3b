----------------------------- MODULE AuditStore -----------------------------
(***************************************************************************)
(* The Audit store on PostgreSQL: what EventStore promises, delivered by   *)
(* READ COMMITTED transactions.  A transaction with events to store first  *)
(* locks the singleton outbox row, so such transactions run one at a time  *)
(* and event sequence numbers become visible in order; that order is what  *)
(* a listing relies on to be cut into pages by separate queries.  The      *)
(* retention job takes no such lock: it waits for row locks only.          *)
(*                                                                         *)
(* Nothing outside the tests calls PutPayload or GetPayload, and an insert *)
(* that finds its identity taken cannot happen while the lock is held, so  *)
(* neither is modelled.  A listing's Total is left out.                    *)
(***************************************************************************)
EXTENDS EventStore

CONSTANTS Writers, NoWriter, Readers,
          Filters,     \* sets of keys a listing may ask for
          Limit,       \* rows on a page
          RowId,       \* the UUID of each sequence number's row, as a rank
          MaxSeq       \* bound: sequence numbers ever drawn

VARIABLES lock,     \* holder of the FOR UPDATE lock on stream_outbox_state
          nextSeq,  \* the bigserial of audit_events
          tx,       \* each writer's transaction
          listing   \* each reader's progress through the pages

txVars == <<lock, nextSeq, tx>>
vars   == <<now, storeVars, txVars, listing>>

NoRows == [x \in {} |-> 0]
NoTx   == [pc |-> "idle", batch |-> <<>>, left |-> <<>>, stamp |-> 0,
           wrote |-> NoRows, docs |-> NoRows, note |-> NoRows]
NoListing == [pc |-> "idle", keys |-> {}, water |-> 0, cursor |-> <<>>,
              got |-> <<>>, due |-> {}]

InitStore == /\ Init
             /\ lock = NoWriter /\ nextSeq = 1
             /\ tx = [w \in Writers |-> NoTx]
             /\ listing = [r \in Readers |-> NoListing]

Overlay(f, g) == [x \in DOMAIN f \cup DOMAIN g |->
                    IF x \in DOMAIN g THEN g[x] ELSE f[x]]
-----------------------------------------------------------------------------
(* PersistEvents *)

BeginPersist(w, batch) ==
    /\ tx[w].pc = "idle"
    /\ tx' = [tx EXCEPT ![w] = [NoTx EXCEPT !.pc = "begun",
                                            !.batch = batch, !.left = batch]]
    /\ UNCHANGED <<now, storeVars, lock, nextSeq, listing>>

\* Mutant: the outbox row is read without FOR UPDATE.
StampUnlocked(w) ==
    /\ tx[w].pc = "begun"
    /\ lock' = w
    /\ tx' = [tx EXCEPT ![w].pc = "open", ![w].stamp = now]
    /\ UNCHANGED <<now, storeVars, nextSeq, listing>>

\* The lock is taken only when there are events; the clock is read after it.
LockAndStamp(w) ==
    /\ tx[w].pc = "begun"
    /\ IF tx[w].batch = <<>> THEN UNCHANGED lock
                             ELSE lock = NoWriter /\ lock' = w
    /\ tx' = [tx EXCEPT ![w].pc = "open", ![w].stamp = now]
    /\ UNCHANGED <<now, storeVars, nextSeq, listing>>

\* upsertEvent finds the row and rewrites its summary, not its occurred_at.
Revision(row, e) == [row EXCEPT !.body = e.body]

\* A document is updated where it is still readable, and never added later.
RevisesDocument(w, seq, e) ==
    LET docs == Overlay(payloads, tx[w].docs)
    IN e.doc # Nothing /\ Readable(docs, seq, tx[w].stamp)
                       /\ docs[seq].doc # e.doc

Until(w, seq) == LET docs == Overlay(payloads, tx[w].docs)
                 IN IF seq \in DOMAIN docs THEN docs[seq].until
                    ELSE tx[w].stamp + PayloadRetention

UpdateEvent(w) ==
    LET e    == Head(tx[w].left)
        seen == Overlay(rows, tx[w].wrote)
    IN /\ tx[w].pc = "open" /\ tx[w].left # <<>>
       /\ e.key \in DOMAIN seen
       /\ LET row     == Revision(seen[e.key], e)
              revised == RevisesDocument(w, row.seq, e)
          IN tx' = [tx EXCEPT
               ![w].left  = Tail(@),
               ![w].wrote = With(@, e.key, row),
               ![w].docs  = IF revised
                            THEN With(@, row.seq, [doc |-> e.doc,
                                        until |-> Until(w, row.seq)])
                            ELSE @,
               ![w].note  = IF row # seen[e.key] \/ revised
                            THEN With(@, e.key, e.body) ELSE @]
       /\ UNCHANGED <<now, storeVars, lock, nextSeq, listing>>

InsertEvent(w) ==
    LET e == Head(tx[w].left)
    IN /\ tx[w].pc = "open" /\ tx[w].left # <<>>
       /\ e.key \notin DOMAIN Overlay(rows, tx[w].wrote)
       /\ e.at >= tx[w].stamp - EventRetention
       /\ nextSeq <= MaxSeq
       /\ nextSeq' = nextSeq + 1
       /\ tx' = [tx EXCEPT
            ![w].left  = Tail(@),
            ![w].wrote = With(@, e.key, [seq |-> nextSeq, at |-> e.at,
                                         body |-> e.body]),
            ![w].docs  = IF e.doc = Nothing THEN @
                         ELSE With(@, nextSeq, [doc |-> e.doc,
                                     until |-> tx[w].stamp + PayloadRetention]),
            ![w].note  = With(@, e.key, e.body)]
       /\ UNCHANGED <<now, storeVars, lock, listing>>

\* A first version that is already past retention is not stored.
SkipEvent(w) ==
    LET e == Head(tx[w].left)
    IN /\ tx[w].pc = "open" /\ tx[w].left # <<>>
       /\ e.key \notin DOMAIN Overlay(rows, tx[w].wrote)
       /\ e.at < tx[w].stamp - EventRetention
       /\ tx' = [tx EXCEPT ![w].left = Tail(@)]
       /\ UNCHANGED <<now, storeVars, lock, nextSeq, listing>>

SeqsOf(f) == {f[k].seq : k \in DOMAIN f}
Highest(S) == CHOOSE n \in S : \A m \in S : m <= n
Released(w) == IF lock = w THEN NoWriter ELSE lock

CommitPersist(w) ==
    /\ tx[w].pc = "open" /\ tx[w].left = <<>>
    /\ rows' = Overlay(rows, tx[w].wrote)
    /\ payloads' = Overlay(payloads, tx[w].docs)
    /\ lastSeq' = Highest(SeqsOf(tx[w].wrote) \cup {lastSeq})
    /\ notified' = Overlay(notified, tx[w].note)
    /\ checkpoint' = tx[w].batch
    /\ lock' = Released(w)
    /\ tx' = [tx EXCEPT ![w] = NoTx]
    /\ UNCHANGED <<now, nextSeq, listing>>

\* An error, a lost connection or a crash: the sequence is not rolled back.
RollbackPersist(w) ==
    /\ tx[w].pc # "idle"
    /\ lock' = Released(w)
    /\ tx' = [tx EXCEPT ![w] = NoTx]
    /\ UNCHANGED <<now, storeVars, nextSeq, listing>>
-----------------------------------------------------------------------------
(* Retention *)

\* Where a row is listed: it keeps its time and its UUID while it exists.
Place(row) == <<row.at, RowId[row.seq]>>
Expired(t) == {s \in DOMAIN payloads : payloads[s].until <= t}

\* The job waits while a transaction holds a row it would delete.
Prune(t) ==
    /\ \A w \in Writers : /\ DOMAIN tx[w].wrote \cap Pruned(rows, t) = {}
                          /\ DOMAIN tx[w].docs \cap Expired(t) = {}
    /\ PruneAudit(t)
    /\ listing' = [r \in Readers |-> [listing[r] EXCEPT
                     !.due = @ \ {Place(rows[k]) : k \in Pruned(rows, t)}]]
    /\ UNCHANGED txVars
-----------------------------------------------------------------------------
(* ListEvents *)

\* occurred_at DESC, id DESC
Before(p, q) == p[1] > q[1] \/ (p[1] = q[1] /\ p[2] > q[2])

\* The first query of the first page: the watermark of the whole listing.
StartListing(r, keys) ==
    /\ listing[r].pc = "idle"
    /\ rows # NoRows
    /\ LET water == Highest(SeqsOf(rows))
       IN listing' = [listing EXCEPT ![r] =
            [NoListing EXCEPT !.pc = "paging", !.keys = keys, !.water = water,
               !.due = {Place(rows[k]) : k \in keys \cap DOMAIN rows}]]
    /\ UNCHANGED <<now, storeVars, txVars>>

Remaining(l) == {k \in l.keys \cap DOMAIN rows :
                   /\ rows[k].seq <= l.water
                   /\ l.cursor # <<>> => Before(l.cursor, Place(rows[k]))}
PageOf(l) == {k \in Remaining(l) :
                Cardinality({j \in Remaining(l) : Before(Place(rows[j]),
                                                         Place(rows[k]))})
                  < Limit}

LastOf(page) == CHOOSE p \in page : \A q \in page : p = q \/ Before(q, p)

\* A page: its rows, and a cursor when one more row was found.
ReadPage(r) ==
    LET l     == listing[r]
        page  == {Place(rows[k]) : k \in PageOf(l)}
        isEnd == Cardinality(Remaining(l)) <= Limit
    IN /\ l.pc = "paging"
       /\ listing' = [listing EXCEPT
            ![r].pc     = IF isEnd THEN "done" ELSE "paging",
            ![r].cursor = IF isEnd THEN <<>> ELSE LastOf(page),
            ![r].got    = Append(@, page)]
       /\ UNCHANGED <<now, storeVars, txVars>>

FinishListing(r) == /\ listing[r].pc = "done"
                    /\ listing' = [listing EXCEPT ![r] = NoListing]
                    /\ UNCHANGED <<now, storeVars, txVars>>
-----------------------------------------------------------------------------
Persist(w) == \/ \E batch \in Batches : BeginPersist(w, batch)
              \/ LockAndStamp(w) \/ UpdateEvent(w) \/ InsertEvent(w)
              \/ SkipEvent(w) \/ CommitPersist(w) \/ RollbackPersist(w)
List(r) == \/ \E keys \in Filters : StartListing(r, keys)
           \/ ReadPage(r) \/ FinishListing(r)

NextStore == \/ Tick /\ UNCHANGED <<txVars, listing>>
             \/ \E w \in Writers : Persist(w)
             \/ \E t \in Readings : Prune(t)
             \/ \E r \in Readers : List(r)

StoreSpec == InitStore /\ [][NextStore]_vars
-----------------------------------------------------------------------------
\* Events have numbers that were drawn, documents belong to events, and the
\* outbox row is locked by open transactions only.
TypeOK ==
    /\ \A k \in DOMAIN rows : rows[k].seq \in 1..lastSeq
    /\ DOMAIN payloads \subseteq SeqsOf(rows)
    /\ \A w \in Writers : lock = w => tx[w].pc = "open"
    /\ nextSeq \in 1..MaxSeq + 1
    /\ \A w \in Writers : tx[w].pc \in {"idle", "begun", "open"}
    /\ \A r \in Readers : listing[r].pc \in {"idle", "paging", "done"}

\* Pages read one by one while events are stored, revised and pruned show
\* every event that was there throughout, and what a page shows comes after
\* what the pages before it showed, so none twice.
ListingsAreExact ==
    \A r \in Readers :
      LET l == listing[r]
      IN /\ \A i, j \in DOMAIN l.got : i < j =>
              \A p \in l.got[i], q \in l.got[j] : Before(p, q)
         /\ l.pc = "done" => l.due \subseteq UNION {l.got[i] : i \in DOMAIN l.got}

\* An event whose raw document cannot be read any more never gets one back,
\* however often upstream delivers the event again.
ExpiredDocumentsStayGone ==
    [][\A s \in SeqsOf(rows) \cap SeqsOf(rows') :
         Readable(payloads', s, now') => Readable(payloads, s, now)]_vars

\* Every transaction takes effect as one EventStore call.
ImplementsEventStore == Spec
=============================================================================
