----------------------------- MODULE SpanStore -----------------------------
(***************************************************************************)
(* What a trace store promises: each call takes effect at once, as in the  *)
(* in-memory store of the tests, where one mutex serves all calls.  The    *)
(* module TraceStore has the transactions of PostgreSQL that keep it.  A   *)
(* call works with the reading its caller took of the clock, which may be  *)
(* an old one by the time the call takes effect.                           *)
(*                                                                         *)
(* A span has one document here, and links, tokens and the kinds of calls  *)
(* are one counter.  A span version carries the identifiers that make a    *)
(* finished single root "verified".  A request holds one version of a span *)
(* at most, as exporters send them, so their order in it means nothing.    *)
(***************************************************************************)
EXTENDS Integers, FiniteSets, Sequences, SequencesExt

CONSTANTS Batches,           \* requests: sets of span versions
          NoDoc,
          MaxTime,           \* bound: clock ticks
          TraceRetention, PayloadRetention,
          Limit              \* summaries on a page

\* Requests are finite, versions have the columns of trace_spans, and a page
\* has room for a summary.
SpanAssumption ==
    /\ TraceRetention \in Nat /\ Limit \in Nat \ {0}
    /\ \A request \in Batches :
         /\ IsFiniteSet(request)
         /\ \A v \in request :
              /\ v.trace \in Int /\ v.at \in Int /\ v.end \in Int
              /\ v.root \in BOOLEAN /\ v.calls \in BOOLEAN /\ v.err \in BOOLEAN
ASSUME SpanAssumption

VARIABLES now,
          spans,      \* trace_spans: <<trace, span>> -> row
          docs,       \* trace_payloads: <<trace, span>> -> [doc, until]
          summaries,  \* trace_summaries: trace -> [list, of: the summary]
          nextList    \* the next list sequence number

tables == <<spans, docs, summaries, nextList>>

NoEnd == -1
TracesOf(batch) == {v.trace : v \in batch}
Traces == UNION {TracesOf(b) : b \in Batches}
Key(v) == <<v.trace, v.span>>
Without(f, S) == [x \in DOMAIN f \ S |-> f[x]]
Overlay(f, g) == [x \in DOMAIN f \cup DOMAIN g |->
                    IF x \in DOMAIN g THEN g[x] ELSE f[x]]
Least(S) == CHOOSE t \in S : \A u \in S : t <= u
Greatest(S) == CHOOSE t \in S : \A u \in S : u <= t
None == [x \in {} |-> 0]

SpanInit == /\ now = 0
            /\ spans = None /\ docs = None /\ summaries = None /\ nextList = 1
-----------------------------------------------------------------------------
(* Spans and their summary *)

LastAt(v) == IF v.end = NoEnd THEN v.at ELSE v.end

\* Mutant: what arrives last wins.
MergeNewest(old, new) == new

\* An unfinished or earlier ending version does not replace a finished one;
\* a document that expired stays expired.
Stale(old, new) == old.end # NoEnd /\ (new.end = NoEnd \/ new.end < old.end)
MergeSpan(old, new) ==
    IF Stale(old, new) THEN old
    ELSE [new EXCEPT !.content = IF old.content = "expired" THEN "expired"
                                 ELSE @]

RowOf(v) == [at |-> v.at, end |-> v.end, root |-> v.root, calls |-> v.calls,
             err |-> v.err,
             content |-> IF v.doc = NoDoc THEN "not_collected" ELSE "captured"]

SpansOf(t, rows) == {k \in DOMAIN rows : k[1] = t}

\* The stored spans of a trace, as far as the assembler looks at them.
TraceSpans(t, rows) ==
    [k \in SpansOf(t, rows) |->
       [at |-> rows[k].at, end |-> rows[k].end, root |-> rows[k].root,
        calls |-> rows[k].calls, err |-> rows[k].err]]

\* The summary is computed anew from every stored span of the trace.
Assemble(of) ==
    LET ks    == DOMAIN of
        roots == {k \in ks : of[k].root}
        open  == {k \in roots : of[k].end = NoEnd}
        first == CHOOSE k \in roots : \A j \in roots :
                      \/ of[k].at < of[j].at
                      \/ of[k].at = of[j].at /\ k[2] <= j[2]
    IN [count  |-> Cardinality(ks),
        calls  |-> Cardinality({k \in ks : of[k].calls}),
        errors |-> Cardinality({k \in ks : of[k].calls /\ of[k].err}),
        last   |-> Greatest({LastAt(of[k]) : k \in ks}),
        status |-> IF roots = {} THEN "unknown"
                   ELSE IF open # {} THEN "running"
                   ELSE IF of[first].err THEN "failed"
                   ELSE "succeeded",
        verified |-> open = {} /\ Cardinality(roots) = 1]
-----------------------------------------------------------------------------
(* WriteBatch *)

\* Traces: versions outside retention are rejected, their siblings are not.
Normalized(request, t) == {v \in request : LastAt(v) >= t - TraceRetention}

\* upsertTraceSpan, for one version.
Upserted(v) == LET k == Key(v)
               IN IF k \in DOMAIN spans THEN MergeSpan(spans[k], RowOf(v))
                  ELSE RowOf(v)

\* A version that was not stale brings its document, unless the stored one
\* has expired; a stored one keeps its expiry.  (In memory only the expiry is
\* looked at, which tells the two apart for a call with an old clock reading.)
Documented(v, at) ==
    LET k == Key(v)
    IN /\ v.doc # NoDoc
       /\ ~(k \in DOMAIN spans /\ Stale(spans[k], RowOf(v)))
       /\ k \in DOMAIN docs => docs[k].doc # "expired" /\ docs[k].until > at
Until(k, at) ==
    IF k \in DOMAIN docs THEN docs[k].until ELSE at + PayloadRetention

\* What a batch changes, from what is stored now.
Changed(batch) == {v \in batch : Key(v) \in DOMAIN spans =>
                                    spans[Key(v)] # Upserted(v)}
RowsOf(batch) == [k \in {Key(v) : v \in Changed(batch)} |->
                    Upserted(CHOOSE v \in batch : Key(v) = k)]
DocsOf(batch, t) ==
    [k \in {Key(v) : v \in {w \in batch : Documented(w, t)}} |->
       [doc   |-> (CHOOSE v \in batch : Key(v) = k).doc,
        until |-> Until(k, t)]]

\* New summaries draw list numbers in the order of their IDs.
Numbered(changed, of) ==
    LET fresh   == changed \ DOMAIN summaries
        Rank(t) == Cardinality({u \in fresh : u < t})
    IN /\ nextList' = nextList + Cardinality(fresh)
       /\ summaries' = Overlay(summaries, [t \in changed |->
            [list |-> IF t \in fresh THEN nextList + Rank(t)
                      ELSE summaries[t].list,
             of   |-> of[t]]])

\* Rows and documents are merged, then each changed trace is assembled.
WriteBatch(batch, t) ==
    LET changed == TracesOf(Changed(batch))
    IN /\ spans' = Overlay(spans, RowsOf(batch))
       /\ docs' = Overlay(docs, DocsOf(batch, t))
       /\ Numbered(changed, [id \in changed |-> Assemble(TraceSpans(id, spans'))])
       /\ UNCHANGED now
-----------------------------------------------------------------------------
(* PruneTraces *)

Old(t, at) == summaries[t].of.last < at - TraceRetention
Lapsed(at) == {k \in DOMAIN docs : docs[k].doc # "expired" /\ docs[k].until <= at}
Deletable(of, at) == {t \in of \cap DOMAIN summaries : Old(t, at)}

LapsedDocs(at) == [k \in DOMAIN docs |->
                     IF k \in Lapsed(at) THEN [docs[k] EXCEPT !.doc = "expired"]
                     ELSE docs[k]]
\* The spans that must say that their document is gone.
Marked(at) == {k \in DOMAIN spans \cap DOMAIN docs :
                 /\ LapsedDocs(at)[k].doc = "expired"
                 /\ spans[k].content # "expired"}

\* Documents lapse and their spans say so; then old ones of the traces that
\* are looked at go with all their rows.
PruneTraces(of, at) ==
    LET Gone(f) == {k \in DOMAIN f : k[1] \in Deletable(of, at)}
    IN /\ docs' = Without(LapsedDocs(at), Gone(docs))
       /\ spans' = Without([k \in DOMAIN spans |->
                      IF k \in Marked(at)
                      THEN [spans[k] EXCEPT !.content = "expired"]
                      ELSE spans[k]], Gone(spans))
       /\ summaries' = Without(summaries, Deletable(of, at))
       /\ UNCHANGED <<now, nextList>>
-----------------------------------------------------------------------------
(* Queries *)

Lists == {summaries[t].list : t \in DOMAIN summaries}

\* Mutant: the next page starts at the last summary of this one.
UpTo(water, position, n) == n <= water /\ (position # 0 => n <= position)

Below(water, position, n) == n <= water /\ (position # 0 => n < position)

\* A page of summaries, latest first, and whether there are more.
ListTraceSummaries(water, position) ==
    LET rest == {n \in Lists : Below(water, position, n)}
        page == {n \in rest : Cardinality({m \in rest : m > n}) < Limit}
    IN [items |-> page, more |-> page # rest]

\* The summary of a trace with its graph, which has all its spans.
GetTraceDetail(t) == [count |-> summaries[t].of.count,
                      graph |-> Cardinality(SpansOf(t, spans))]
-----------------------------------------------------------------------------
Tick == now < MaxTime /\ now' = now + 1 /\ UNCHANGED tables

SpanNext == \/ Tick
            \/ \E request \in Batches, t \in 0..now :
                 WriteBatch(Normalized(request, t), t)
            \/ \E of \in SUBSET DOMAIN summaries, t \in 0..now : PruneTraces(of, t)

SpanSpec == SpanInit /\ [][SpanNext]_<<now, tables>>
=============================================================================
