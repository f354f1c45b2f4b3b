------------------------------ MODULE MCStores ------------------------------
(***************************************************************************)
(* The two stores of the database, each on a small instance.  They share   *)
(* the clock and the outbox row and no other table, and each is explored   *)
(* for itself: working says which one has work to do.                      *)
(***************************************************************************)
EXTENDS TraceStore
CONSTANTS Keys, EventBatches, Nothing, Lag, Gaps, EventRetention, Writers,
          Filters, RowId, MaxSeq
VARIABLES rows, payloads, lastSeq, notified, checkpoint, nextSeq, tx,
          eventListing, working
AS == INSTANCE AuditStore WITH
        NoWriter <- NoHolder, Batches <- EventBatches,
        lock <- outboxRow, listing <- eventListing

\* Batches are sequences of events of Keys, holders of the outbox row differ,
\* UUIDs are distinct; a transaction may last as long as the run, and any of
\* the numbers drawn may be burnt.
Events == UNION {{batch[i] : i \in DOMAIN batch} : batch \in EventBatches}
EventAssumption ==
    /\ EventBatches \subseteq Seq(Events)
    /\ \A e \in Events : e.key \in Keys /\ e.at \in Int
    /\ EventRetention \in Int /\ PayloadRetention \in Int
    /\ NoHolder \notin Writers /\ Writers \cap Collectors = {}
    /\ MaxSeq \in Nat /\ Gaps \in Nat /\ MaxSeq <= Gaps
    /\ MaxTime \in Nat /\ Lag \in Nat /\ MaxTime <= Lag
    /\ \A m, n \in 1..MaxSeq : RowId[m] \in Int /\ (RowId[m] = RowId[n] => m = n)
ASSUME EventAssumption

E(k, at, body, doc) == [key |-> k, at |-> at, body |-> body, doc |-> doc]
MCEventBatches == {<<E("a", 1, "x", "d")>>,
                   <<E("b", 1, "x", Nothing), E("a", 0, "y", "e")>>, <<>>}
MCRowId == <<2, 3, 1, 4>>
V(t, s, b, e, r, d) ==
    [trace |-> t, span |-> s, at |-> b, end |-> e, root |-> r,
     calls |-> ~r, err |-> ~r, doc |-> d]
MCBatches ==
    {{V(2, 1, 0, NoEnd, TRUE, "d"), V(1, 1, 0, 0, FALSE, NoDoc)},
     {V(1, 2, 0, 1, FALSE, NoDoc), V(2, 1, 0, 1, TRUE, "e")}}

eventVars == <<rows, payloads, lastSeq, notified, checkpoint, nextSeq, tx,
               eventListing>>
traceVars == <<spans, docs, summaries, nextList, locks, call, prune,
               readVars>>
StoresInit == Init /\ AS!InitStore /\ working \in {"events", "traces"}
StoresNext == /\ UNCHANGED working
              /\ \/ working = "events" /\ AS!NextStore /\ UNCHANGED traceVars
                 \/ working = "traces" /\ Next /\ UNCHANGED eventVars
StoresSpec == StoresInit /\ [][StoresNext]_<<now, outboxRow, eventVars,
                                             traceVars, working>>

\* Both stores hold what their code can write.
StoresTypeOK == TypeOK /\ AS!TypeOK

\* What is read by several queries is of one piece: the pages of a listing of
\* events or traces show each row that was there throughout, once, and the
\* detail of a trace agrees with its spans, while writers and the retention
\* jobs go on.
ReadsAreExact == /\ AS!ListingsAreExact
                 /\ TraceListingsAreExact
                 /\ DetailsAgree

\* Every transaction of the Audit store takes effect as one EventStore call,
\* and none gives an event back the raw document that expired, however often
\* upstream delivers the event again.
ImplementsEventStore == AS!ImplementsEventStore /\ AS!ExpiredDocumentsStayGone
=============================================================================
