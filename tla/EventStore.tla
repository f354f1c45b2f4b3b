----------------------------- MODULE EventStore -----------------------------
(***************************************************************************)
(* What the Audit store promises its callers, whichever store is wired in: *)
(* a call takes effect at one instant, with the clock it read at most Lag  *)
(* ticks earlier.  The in-memory store keeps the promise with a mutex, no  *)
(* lag and no gaps in its numbering; the PostgreSQL store (AuditStore) by  *)
(* row locks and a commit.                                                 *)
(*                                                                         *)
(* An upstream event is identified by its source and upstream ID.  It is   *)
(* stored once: later versions change its summary, never the time it is    *)
(* listed under; its raw document is kept only from the first version on   *)
(* and only until it expires.                                              *)
(***************************************************************************)
EXTENDS Integers, FiniteSets, Sequences

CONSTANTS Keys,              \* identities: pairs <<source, upstream ID>>
          Batches,           \* sequences of events [key, at, body, doc]
          Nothing,           \* no document, no message, no checkpoint
          MaxTime,           \* bound: clock ticks
          Lag,               \* age of the clock reading a call works with
          Gaps,              \* sequence numbers failed calls may have burnt
          EventRetention, PayloadRetention

VARIABLES now,
          rows,        \* stored events: key -> [seq, at, body]
          payloads,    \* captured documents: sequence number -> [doc, until]
          lastSeq,     \* the highest sequence number given to a stored event
          notified,    \* the summary in each key's newest outbox message
          checkpoint   \* the batch whose checkpoint is stored

storeVars == <<rows, payloads, lastSeq, notified, checkpoint>>

Store == [rows |-> rows, payloads |-> payloads, last |-> lastSeq,
          next |-> lastSeq + 1, notified |-> notified]

Without(f, S) == [x \in DOMAIN f \ S |-> f[x]]
With(f, x, v) == [y \in DOMAIN f \cup {x} |-> IF y = x THEN v ELSE f[y]]

Readable(p, seq, t) == seq \in DOMAIN p /\ p[seq].until > t

\* One event of a batch, stored by a call that read t from its clock.
Stored(s, e, t) ==
    LET exists  == e.key \in DOMAIN s.rows
        row     == IF exists THEN [s.rows[e.key] EXCEPT !.body = e.body]
                   ELSE [seq |-> s.next, at |-> e.at, body |-> e.body]
        first   == ~exists /\ e.doc # Nothing
        revised == /\ exists /\ e.doc # Nothing
                   /\ Readable(s.payloads, row.seq, t)
                   /\ s.payloads[row.seq].doc # e.doc
        until   == IF first THEN t + PayloadRetention
                   ELSE s.payloads[row.seq].until
        changed == ~exists \/ s.rows[e.key] # row \/ revised
    IN IF ~exists /\ e.at < t - EventRetention THEN s
       ELSE [rows |-> With(s.rows, e.key, row),
             payloads |-> IF first \/ revised
                          THEN With(s.payloads, row.seq,
                                    [doc |-> e.doc, until |-> until])
                          ELSE s.payloads,
             last |-> IF exists THEN s.last ELSE s.next,
             next |-> IF exists THEN s.next ELSE s.next + 1,
             notified |-> IF changed
                          THEN [s.notified EXCEPT ![e.key] = e.body]
                          ELSE s.notified]

Install(s) == /\ rows' = s.rows
              /\ payloads' = s.payloads
              /\ lastSeq' = s.last
              /\ notified' = s.notified

Init == /\ now = 0
        /\ rows = [k \in {} |-> 0] /\ payloads = [s \in {} |-> 0]
        /\ lastSeq = 0
        /\ notified = [k \in Keys |-> Nothing]
        /\ checkpoint = Nothing

\* PersistEvents stores a batch, one event after the other, and the
\* checkpoint that came with it.
PersistEvents(batch, t, gap) ==
    LET stored[i \in 0..Len(batch)] ==
          IF i = 0 THEN [Store EXCEPT !.next = @ + gap]
                   ELSE Stored(stored[i - 1], batch[i], t)
    IN /\ Install(stored[Len(batch)])
       /\ checkpoint' = batch
       /\ UNCHANGED now

Pruned(f, t) == {x \in DOMAIN f : f[x].at < t - EventRetention}

\* PruneAudit: old events with their documents, then expired documents.
PruneAudit(t) ==
    /\ rows' = Without(rows, Pruned(rows, t))
    /\ payloads' = Without(payloads,
           {rows[k].seq : k \in Pruned(rows, t)}
             \cup {s \in DOMAIN payloads : payloads[s].until <= t})
    /\ UNCHANGED <<now, lastSeq, notified, checkpoint>>

Tick == now < MaxTime /\ now' = now + 1 /\ UNCHANGED storeVars

Readings == {t \in 0..now : now - t <= Lag}

Next == \/ Tick
        \/ \E t \in Readings : PruneAudit(t)
        \/ \E t \in Readings, gap \in 0..Gaps, batch \in Batches :
             PersistEvents(batch, t, gap)

Spec == Init /\ [][Next]_<<now, storeVars>>
=============================================================================
