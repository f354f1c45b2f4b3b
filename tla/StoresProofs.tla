---------------------------- MODULE StoresProofs ----------------------------
(***************************************************************************)
(* What is proved of the stores of the database, for any numbers of        *)
(* Collectors, writers and readers, any requests, any retention.           *)
(*                                                                         *)
(* Traces: a stored summary is always that of its stored spans.  The       *)
(* advisory locks are what it rests on: whoever is about to commit what it *)
(* assembled holds the locks of the traces it assembled.  From this follow *)
(* consistent detail queries; and as locks are taken in one order, no two  *)
(* transactions wait for each other.                                       *)
(*                                                                         *)
(* Events: the writer at the outbox row has written what its events, one   *)
(* after the other, make of the store as it is now.  From this follows     *)
(* that its commit is one call of EventStore.  Pages are exact because a   *)
(* row keeps its place and no new row comes below the watermark.           *)
(***************************************************************************)
EXTENDS MCStores, FiniteSetTheorems, WellFoundedInduction, TLAPS
-----------------------------------------------------------------------------
(* Finite sets *)

\* What a function makes of a finite set is finite.
LEMMA FiniteImage ==
    ASSUME NEW S, IsFiniteSet(S), NEW f, f = [x \in S |-> f[x]]
    PROVE  IsFiniteSet({f[x] : x \in S})
  <1>1. f \in Surjection(S, {f[x] : x \in S})
    BY DEF Surjection
  <1> QED BY <1>1, FS_Surjection

\* A relation that orders a set strictly and totally.
Orders(R, S) ==
    /\ \A x, y, z \in S : <<x, y>> \in R /\ <<y, z>> \in R => <<x, z>> \in R
    /\ \A x \in S : <<x, x>> \notin R
    /\ \A x, y \in S : x = y \/ <<x, y>> \in R \/ <<y, x>> \in R

\* A finite set that is ordered so has a first member.
LEMMA FirstIsThere ==
    ASSUME NEW S, IsFiniteSet(S), S # {}, NEW R, Orders(R, S)
    PROVE  \E m \in S : \A s \in S : s = m \/ <<m, s>> \in R
  <1> DEFINE Under(x) == {s \in S : <<s, x>> \in R}
             T == {Under(x) : x \in S}
             O == StrictSubsetOrdering(S)
  <1>1. T \subseteq FiniteSubsetsOf(S) /\ T # {}
    <2>1. \A x \in S : Under(x) \in SUBSET S /\ IsFiniteSet(Under(x))
      <3> TAKE x \in S
      <3>1. Under(x) \in SUBSET S
        OBVIOUS
      <3> HIDE DEF Under
      <3> QED BY <3>1, FS_Subset
    <2>2. T \subseteq FiniteSubsetsOf(S)
      <3> HIDE DEF Under
      <3> QED BY <2>1 DEF FiniteSubsetsOf
    <2>3. T # {}
      <3> HIDE DEF Under
      <3> QED OBVIOUS
    <2> QED BY <2>2, <2>3
  <1>2. IsWellFoundedOn(O, FiniteSubsetsOf(S))
    BY FS_StrictSubsetOrderingWellFounded
  <1>3. PICK X \in T : \A Y \in T : ~ (<<Y, X>> \in O)
    <2> HIDE DEF O, T
    <2> QED BY <1>1, <1>2, WFMin
  <1>4. PICK m \in S : X = Under(m)
    BY <1>3
  <1>5. ASSUME NEW s \in S, <<s, m>> \in R PROVE FALSE
    <2>1. Under(s) \subseteq Under(m) /\ s \in Under(m) /\ s \notin Under(s)
      BY <1>5 DEF Orders
    <2>2. Under(s) \in T /\ Under(s) \in SUBSET S /\ Under(m) \in SUBSET S
      OBVIOUS
    <2>3. <<Under(s), Under(m)>> \in O
      <3> HIDE DEF Under
      <3> QED BY <2>1, <2>2 DEF StrictSubsetOrdering
    <2> QED BY <1>3, <1>4, <2>2, <2>3
  <1> QED BY <1>5 DEF Orders

\* A finite set of numbers that is not empty has a least and a greatest member.
LEMMA NumbersHaveEnds ==
    ASSUME NEW S, IsFiniteSet(S), S # {}, S \subseteq Int
    PROVE  /\ \E m \in S : \A s \in S : m <= s
           /\ \E m \in S : \A s \in S : s <= m
  <1> DEFINE R == {x \in S \X S : x[1] < x[2]}
             Q == {x \in S \X S : x[2] < x[1]}
             Less(x, y) == x < y
  <1>1. /\ \A x, y \in S : <<x, y>> \in R <=> Less(x, y)
        /\ \A x, y \in S : <<x, y>> \in Q <=> Less(y, x)
        /\ \A x, y \in S : x = y \/ Less(x, y) => x <= y
    <2> SUFFICES ASSUME NEW x \in S, NEW y \in S
                 PROVE  /\ <<x, y>> \in R <=> x < y
                        /\ <<x, y>> \in Q <=> y < x
                        /\ x = y \/ x < y => x <= y
      OBVIOUS
    <2>1. x \in Int /\ y \in Int
      OBVIOUS
    <2> QED BY <2>1
  <1>2. /\ \A x, y, z \in S : Less(x, y) /\ Less(y, z) => Less(x, z)
        /\ \A x \in S : ~Less(x, x)
        /\ \A x, y \in S : x = y \/ Less(x, y) \/ Less(y, x)
    <2> SUFFICES /\ \A x, y, z \in Int : Less(x, y) /\ Less(y, z) => Less(x, z)
                 /\ \A x \in Int : ~Less(x, x)
                 /\ \A x, y \in Int : x = y \/ Less(x, y) \/ Less(y, x)
      <3> HIDE DEF Less
      <3> QED OBVIOUS
    <2> QED OBVIOUS
  <1> HIDE DEF R, Q, Less
  <1>3. \E m \in S : \A s \in S : s = m \/ <<m, s>> \in R
    <2>1. Orders(R, S)
      BY <1>1, <1>2 DEF Orders
    <2> QED BY <2>1, FirstIsThere
  <1>4. \E m \in S : \A s \in S : s = m \/ <<m, s>> \in Q
    <2>1. Orders(Q, S)
      BY <1>1, <1>2 DEF Orders
    <2> QED BY <2>1, FirstIsThere
  <1>5. \E m \in S : \A s \in S : m <= s
    BY <1>1, <1>3
  <1>6. \E m \in S : \A s \in S : s <= m
    BY <1>1, <1>4
  <1> QED BY <1>5, <1>6

LEMMA GreatestIsThere ==
    ASSUME NEW S, IsFiniteSet(S), S # {}, S \subseteq Int
    PROVE  Greatest(S) \in S /\ \A s \in S : s <= Greatest(S)
  BY NumbersHaveEnds DEF Greatest

LEMMA LeastIsThere ==
    ASSUME NEW S, IsFiniteSet(S), S # {}, S \subseteq Int
    PROVE  Least(S) \in S /\ \A s \in S : Least(S) <= s
  BY NumbersHaveEnds DEF Least

LEMMA HighestIsThere ==
    ASSUME NEW S, IsFiniteSet(S), S # {}, S \subseteq Int
    PROVE  AS!Highest(S) \in S /\ \A n \in S : n <= AS!Highest(S)
  BY NumbersHaveEnds DEF AS!Highest
-----------------------------------------------------------------------------
(* What is stored of traces *)

Row == [at : Int, end : Int, root : BOOLEAN, calls : BOOLEAN, err : BOOLEAN,
        content : {"captured", "not_collected", "expired"}]
Stored(f) == \A k \in DOMAIN f : f[k] \in Row
TracesIn(f) == {k[1] : k \in DOMAIN f}

\* Spans are rows, and everything is about traces of requests.
TableTypes == /\ Stored(spans)
              /\ TracesIn(spans) \subseteq Traces /\ TracesIn(docs) \subseteq Traces

Shape(x) == DOMAIN x = {"pc", "batch", "at", "want", "rows", "docs",
                        "changed", "summed"}
CallType(x) ==
    /\ Shape(x)
    /\ \A v \in x.batch : \E request \in Batches : v \in request
    /\ x.want \subseteq TracesOf(x.batch)
    /\ Stored(x.rows)
    /\ TracesIn(x.rows) = x.changed
    /\ x.changed \subseteq TracesOf(x.batch)
    /\ TracesIn(x.docs) \subseteq TracesOf(x.batch)
CallTypes == /\ DOMAIN call = Collectors
             /\ \A c \in Collectors : CallType(call[c])

\* A transaction holds the locks of its traces, but for those it still wants.
LocksHeld ==
    /\ DOMAIN locks = Traces
    /\ \A c \in Collectors :
         /\ call[c].pc # "idle" =>
              \A t \in TracesOf(call[c].batch) \ call[c].want : locks[t] = c
         /\ call[c].pc \notin {"idle", "locking"} => call[c].want = {}
    /\ prune.pc # "idle" =>
         \A t \in prune.of \ prune.want : locks[t] = Pruner
    /\ DOMAIN prune = {"pc", "at", "want", "of"}
    /\ prune.of \subseteq Traces /\ prune.want \subseteq prune.of

\* What is about to be committed is still what the stored spans give.
AssembledIsCurrent ==
    \A c \in Collectors : call[c].pc = "assembled" =>
      /\ DOMAIN call[c].summed = call[c].changed
      /\ \A t \in call[c].changed :
           call[c].summed[t] =
             Assemble(TraceSpans(t, Overlay(spans, call[c].rows)))

SummaryInv == /\ TableTypes /\ CallTypes /\ LocksHeld /\ AssembledIsCurrent
              /\ SummariesMatchSpans
-----------------------------------------------------------------------------
(* The assembler *)

\* What the assembler sees of a trace depends on the rows of that trace alone.
LEMMA TraceIsLocal ==
    ASSUME NEW t, NEW f, NEW g, SpansOf(t, f) = SpansOf(t, g),
           \A k \in SpansOf(t, f) :
             /\ f[k].at = g[k].at /\ f[k].end = g[k].end
             /\ f[k].root = g[k].root /\ f[k].calls = g[k].calls
             /\ f[k].err = g[k].err
    PROVE  TraceSpans(t, f) = TraceSpans(t, g)
  BY DEF TraceSpans

\* Rows of other traces do not show.
LEMMA OverlayElsewhere ==
    ASSUME NEW t, NEW f, NEW g, t \notin TracesIn(g)
    PROVE  TraceSpans(t, Overlay(f, g)) = TraceSpans(t, f)
  <1>1. \A k \in DOMAIN g : k[1] # t
    BY DEF TracesIn
  <1>2. SpansOf(t, Overlay(f, g)) = SpansOf(t, f)
    BY <1>1 DEF SpansOf, Overlay
  <1>3. \A k \in SpansOf(t, f) : Overlay(f, g)[k] = f[k]
    BY <1>1 DEF SpansOf, Overlay
  <1> QED BY <1>2, <1>3, TraceIsLocal

\* A transaction's own rows show on top of what another one changed elsewhere.
LEMMA OverlayOfChanged ==
    ASSUME NEW t, NEW f, NEW g, NEW h,
           TraceSpans(t, f) = TraceSpans(t, g)
    PROVE  TraceSpans(t, Overlay(f, h)) = TraceSpans(t, Overlay(g, h))
  <1>1. SpansOf(t, f) = SpansOf(t, g)
    BY DEF TraceSpans
  <1>2. \A k \in SpansOf(t, f) :
             /\ f[k].at = g[k].at /\ f[k].end = g[k].end
             /\ f[k].root = g[k].root /\ f[k].calls = g[k].calls
             /\ f[k].err = g[k].err
    <2> TAKE k \in SpansOf(t, f)
    <2>1. TraceSpans(t, f)[k] = TraceSpans(t, g)[k]
      OBVIOUS
    <2>2. TraceSpans(t, f)[k] = [at |-> f[k].at, end |-> f[k].end,
             root |-> f[k].root, calls |-> f[k].calls, err |-> f[k].err]
      BY DEF TraceSpans
    <2>3. TraceSpans(t, g)[k] = [at |-> g[k].at, end |-> g[k].end,
             root |-> g[k].root, calls |-> g[k].calls, err |-> g[k].err]
      BY <1>1 DEF TraceSpans
    <2> QED BY <2>1, <2>2, <2>3
  <1>3. SpansOf(t, Overlay(f, h)) = SpansOf(t, Overlay(g, h))
    BY <1>1 DEF SpansOf, Overlay
  <1>4. \A k \in SpansOf(t, Overlay(f, h)) :
          /\ Overlay(f, h)[k].at = Overlay(g, h)[k].at
          /\ Overlay(f, h)[k].end = Overlay(g, h)[k].end
          /\ Overlay(f, h)[k].root = Overlay(g, h)[k].root
          /\ Overlay(f, h)[k].calls = Overlay(g, h)[k].calls
          /\ Overlay(f, h)[k].err = Overlay(g, h)[k].err
    BY <1>1, <1>2 DEF SpansOf, Overlay
  <1> QED BY <1>3, <1>4, TraceIsLocal
-----------------------------------------------------------------------------
LEMMA VersionIsARow ==
    ASSUME NEW request \in Batches, NEW v \in request
    PROVE  RowOf(v) \in Row
  BY SpanAssumption DEF SpanAssumption, RowOf, Row

LEMMA MergedIsARow == ASSUME NEW old \in Row, NEW new \in Row
                      PROVE  MergeSpan(old, new) \in Row
  BY DEF MergeSpan, Row

LEMMA InitSummaries == Init => SummaryInv
  <1> SUFFICES ASSUME Init PROVE SummaryInv
    OBVIOUS
  <1>1. TableTypes
    BY DEF Init, SpanInit, TableTypes, Stored, TracesIn, None
  <1>2. CallTypes
    <2>1. CallType(Idle)
      BY DEF CallType, Idle, Shape, Stored, TracesIn, TracesOf, None
    <2>2. call = [c \in Collectors |-> Idle]
      BY DEF Init
    <2> QED BY <2>1, <2>2 DEF CallTypes
  <1>3. LocksHeld
    BY DEF Init, SpanInit, LocksHeld, Idle, NoPrune, TracesOf
  <1>4. AssembledIsCurrent
    BY DEF Init, SpanInit, AssembledIsCurrent, Idle
  <1>5. SummariesMatchSpans
    BY DEF Init, SpanInit, SummariesMatchSpans, None
  <1> QED BY <1>1, <1>2, <1>3, <1>4, <1>5 DEF SummaryInv
-----------------------------------------------------------------------------
(* The steps of a request *)

LEMMA IdleIsACall == CallType(Idle)
  BY DEF CallType, Idle, Shape, Stored, TracesIn, TracesOf, None

\* A step of one Collector that leaves a call behind.
LEMMA OneCall ==
    ASSUME CallTypes, NEW c \in Collectors, NEW x, CallType(x),
           call' = [call EXCEPT ![c] = x]
    PROVE  CallTypes' /\ call'[c] = x
           /\ \A d \in Collectors : d # c => call'[d] = call[d]
  <1>1. \A d \in Collectors : call'[d] = IF d = c THEN x ELSE call[d]
    BY DEF CallTypes
  <1>2. DOMAIN call' = Collectors
    BY DEF CallTypes
  <1>3. \A d \in Collectors : CallType(call'[d])
    BY <1>1 DEF CallTypes
  <1>4. CallTypes'
    BY <1>2, <1>3 DEF CallTypes, CallType, Shape
  <1> QED BY <1>1, <1>4

\* The tables only change when a transaction commits.
LEMMA TablesStay == ASSUME SummaryInv, UNCHANGED tables
                    PROVE  TableTypes' /\ SummariesMatchSpans'
  BY DEF SummaryInv, tables, TableTypes, SummariesMatchSpans, TraceSpans,
         SpansOf, Stored

LEMMA TracesAreOfRequests ==
    ASSUME NEW x, CallType(x)
    PROVE  TracesOf(x.batch) \subseteq Traces
  BY DEF CallType, TracesOf, Traces

LEMMA ReceiveStep ==
    ASSUME SummaryInv, NEW c \in Collectors, NEW request \in Batches,
           Receive(c, request)
    PROVE  SummaryInv'
  <1> DEFINE batch == Normalized(request, now)
             x == [Idle EXCEPT !.pc = "locking", !.batch = batch, !.at = now,
                               !.want = TracesOf(batch)]
  <1>1. /\ call' = [call EXCEPT ![c] = x]
        /\ UNCHANGED <<tables, locks, outboxRow, prune>>
    BY DEF Receive
  <1>2. batch \subseteq request
    BY DEF Normalized
  <1> HIDE DEF batch
  <1>3. /\ Shape(x) /\ x.pc = "locking" /\ x.batch = batch
        /\ x.want = TracesOf(batch) /\ x.rows = None /\ x.docs = None
        /\ x.changed = {}
    BY DEF Idle, Shape
  <1> HIDE DEF x
  <1>4. CallType(x)
    BY <1>2, <1>3 DEF CallType, Stored, TracesIn, None
  <1>5. /\ CallTypes' /\ call'[c] = x
        /\ \A d \in Collectors : d # c => call'[d] = call[d]
    BY <1>1, <1>4, OneCall DEF SummaryInv
  <1>6. LocksHeld'
    BY <1>1, <1>3, <1>5 DEF SummaryInv, LocksHeld
  <1>7. AssembledIsCurrent'
    BY <1>1, <1>3, <1>5 DEF SummaryInv, AssembledIsCurrent, tables
  <1> QED BY <1>1, <1>5, <1>6, <1>7, TablesStay DEF SummaryInv

LEMMA LockTraceStep ==
    ASSUME SummaryInv, NEW c \in Collectors, LockTrace(c)
    PROVE  SummaryInv'
  <1>1. PICK t \in call[c].want :
          /\ call[c].pc = "locking"
          /\ locks[t] = NoHolder /\ locks' = [locks EXCEPT ![t] = c]
          /\ call' = [call EXCEPT ![c].want = @ \ {t}]
    BY DEF LockTrace, SortedTraceIDs
  <1>2. UNCHANGED <<tables, outboxRow, prune>>
    BY DEF LockTrace
  <1>3. CallType(call[c]) /\ LocksHeld /\ CallTypes
    BY DEF SummaryInv, CallTypes
  <1> DEFINE x == [call[c] EXCEPT !.want = @ \ {t}]
  <1>4. x = [call[c] EXCEPT !.want = call[c].want \ {t}]
    OBVIOUS
  <1>5. /\ x.pc = call[c].pc /\ x.batch = call[c].batch /\ x.at = call[c].at
        /\ x.want = call[c].want \ {t} /\ x.rows = call[c].rows
        /\ x.docs = call[c].docs /\ x.changed = call[c].changed
        /\ x.summed = call[c].summed /\ Shape(x)
    BY <1>3 DEF CallType, Shape
  <1>6. call' = [call EXCEPT ![c] = x]
    BY <1>1, <1>3 DEF CallTypes
  <1> HIDE DEF x
  <1>7. CallType(x)
    BY <1>3, <1>5 DEF CallType
  <1>8. /\ CallTypes' /\ call'[c] = x
        /\ \A d \in Collectors : d # c => call'[d] = call[d]
    BY <1>3, <1>6, <1>7, OneCall
  <1>9. t \in Traces
    BY <1>1, <1>3, TracesAreOfRequests DEF CallType
  <1>10. LocksHeld'
    BY <1>1, <1>2, <1>3, <1>5, <1>8, <1>9, TraceAssumption
       DEF LocksHeld, TraceAssumption
  <1>11. AssembledIsCurrent'
    BY <1>1, <1>2, <1>5, <1>8 DEF SummaryInv, AssembledIsCurrent, tables
  <1> QED BY <1>2, <1>8, <1>10, <1>11, TablesStay DEF SummaryInv

LEMMA RowsAreTyped ==
    ASSUME SummaryInv, NEW c \in Collectors, NEW v \in call[c].batch
    PROVE  Upserted(v) \in Row
  <1>1. RowOf(v) \in Row
    BY VersionIsARow DEF SummaryInv, CallTypes, CallType
  <1>2. Key(v) \in DOMAIN spans => spans[Key(v)] \in Row
    BY DEF SummaryInv, TableTypes, Stored
  <1> QED BY <1>1, <1>2, MergedIsARow DEF Upserted

LEMMA WriteRowsStep ==
    ASSUME SummaryInv, NEW c \in Collectors, WriteRows(c)
    PROVE  SummaryInv'
  <1> DEFINE batch == call[c].batch
             changed == Changed(batch)
             documented == {v \in batch : Documented(v, call[c].at)}
             upserted == RowsOf(batch)
             written == DocsOf(batch, call[c].at)
             x == [call[c] EXCEPT !.pc = "written", !.rows = upserted,
                     !.docs = written, !.changed = TracesOf(changed)]
  <1>1. /\ call[c].pc = "locking" /\ call[c].want = {}
        /\ call' = [call EXCEPT ![c] = x]
        /\ UNCHANGED <<tables, locks, outboxRow, prune>>
    BY DEF WriteRows
  <1>2. CallType(call[c]) /\ CallTypes /\ LocksHeld
    BY DEF SummaryInv, CallTypes
  <1>3. Stored(upserted)
    <2> DEFINE Version(k) == CHOOSE v \in batch : Key(v) = k
    <2> SUFFICES ASSUME NEW k \in {Key(v) : v \in changed}
                 PROVE  Upserted(Version(k)) \in Row
      BY DEF Stored, RowsOf
    <2>1. \E v \in batch : Key(v) = k
      BY DEF Changed
    <2>2. Version(k) \in batch
      BY <2>1
    <2> QED BY <2>2, RowsAreTyped
  <1>4. DOMAIN upserted = {Key(v) : v \in changed}
        /\ DOMAIN written = {Key(v) : v \in documented}
    BY DEF RowsOf, DocsOf
  <1>5. changed \subseteq batch /\ documented \subseteq batch
    BY DEF Changed
  <1> HIDE DEF changed, documented, upserted, written
  <1>6. TracesIn(upserted) = TracesOf(changed)
    <2>1. \A v : Key(v)[1] = v.trace
      BY DEF Key
    <2>2. TracesIn(upserted) = {Key(v)[1] : v \in changed}
      BY <1>4 DEF TracesIn
    <2> QED BY <2>1, <2>2 DEF TracesOf
  <1>7. TracesOf(changed) \subseteq TracesOf(batch)
        /\ TracesIn(written) \subseteq TracesOf(batch)
    BY <1>4, <1>5 DEF TracesIn, TracesOf, Key
  <1>8. /\ Shape(x) /\ x.pc = "written" /\ x.batch = batch
        /\ x.want = call[c].want /\ x.rows = upserted /\ x.docs = written
        /\ x.changed = TracesOf(changed)
    BY <1>2 DEF CallType, Shape
  <1> HIDE DEF x
  <1>9. CallType(x)
    BY <1>2, <1>3, <1>6, <1>7, <1>8 DEF CallType
  <1>10. /\ CallTypes' /\ call'[c] = x
         /\ \A d \in Collectors : d # c => call'[d] = call[d]
    BY <1>1, <1>2, <1>9, OneCall
  <1>11. LocksHeld'
    BY <1>1, <1>2, <1>8, <1>10 DEF LocksHeld
  <1>12. AssembledIsCurrent'
    BY <1>1, <1>8, <1>10 DEF SummaryInv, AssembledIsCurrent, tables
  <1> QED BY <1>1, <1>10, <1>11, <1>12, TablesStay DEF SummaryInv

LEMMA LockOutboxStep ==
    ASSUME SummaryInv, NEW c \in Collectors, LockOutbox(c)
    PROVE  SummaryInv'
  <1> DEFINE x == [call[c] EXCEPT !.pc = "assembling"]
  <1>1. /\ call[c].pc = "written" /\ UNCHANGED <<tables, locks, prune>>
        /\ call' = [call EXCEPT ![c].pc = "assembling"]
    BY DEF LockOutbox
  <1>2. CallType(call[c]) /\ CallTypes /\ LocksHeld
    BY DEF SummaryInv, CallTypes
  <1>3. call' = [call EXCEPT ![c] = x]
    BY <1>1, <1>2 DEF CallTypes
  <1>4. /\ Shape(x) /\ x.pc = "assembling" /\ x.batch = call[c].batch
        /\ x.want = call[c].want /\ x.rows = call[c].rows
        /\ x.docs = call[c].docs /\ x.changed = call[c].changed
    BY <1>2 DEF CallType, Shape
  <1> HIDE DEF x
  <1>5. CallType(x)
    BY <1>2, <1>4 DEF CallType
  <1>6. /\ CallTypes' /\ call'[c] = x
        /\ \A d \in Collectors : d # c => call'[d] = call[d]
    BY <1>2, <1>3, <1>5, OneCall
  <1>7. LocksHeld'
    BY <1>1, <1>2, <1>4, <1>6 DEF LocksHeld
  <1>8. AssembledIsCurrent'
    BY <1>1, <1>4, <1>6 DEF SummaryInv, AssembledIsCurrent, tables
  <1> QED BY <1>1, <1>6, <1>7, <1>8, TablesStay DEF SummaryInv

LEMMA AssembleStep ==
    ASSUME SummaryInv, NEW c \in Collectors, AssembleSummaries(c)
    PROVE  SummaryInv'
  <1> DEFINE summed == [t \in call[c].changed |->
                 Assemble(TraceSpans(t, Overlay(spans, call[c].rows)))]
             x == [call[c] EXCEPT !.pc = "assembled", !.summed = summed]
  <1>1. /\ call[c].pc = "assembling" /\ call' = [call EXCEPT ![c] = x]
        /\ UNCHANGED <<tables, locks, outboxRow, prune>>
    BY DEF AssembleSummaries
  <1>2. CallType(call[c]) /\ CallTypes /\ LocksHeld
    BY DEF SummaryInv, CallTypes
  <1>3. /\ DOMAIN summed = call[c].changed
        /\ \A t \in call[c].changed : summed[t] =
             Assemble(TraceSpans(t, Overlay(spans, call[c].rows)))
    OBVIOUS
  <1> HIDE DEF summed
  <1>4. /\ Shape(x) /\ x.pc = "assembled" /\ x.batch = call[c].batch
        /\ x.want = call[c].want /\ x.rows = call[c].rows
        /\ x.docs = call[c].docs /\ x.changed = call[c].changed
        /\ x.summed = summed
    BY <1>2 DEF CallType, Shape
  <1> HIDE DEF x
  <1>5. CallType(x)
    BY <1>2, <1>4 DEF CallType
  <1>6. /\ CallTypes' /\ call'[c] = x
        /\ \A d \in Collectors : d # c => call'[d] = call[d]
    BY <1>1, <1>2, <1>5, OneCall
  <1>7. LocksHeld'
    BY <1>1, <1>2, <1>4, <1>6 DEF LocksHeld
  <1>8. AssembledIsCurrent'
    BY <1>1, <1>3, <1>4, <1>6 DEF SummaryInv, AssembledIsCurrent, tables
  <1> QED BY <1>1, <1>6, <1>7, <1>8, TablesStay DEF SummaryInv

\* The end of a transaction, whatever ended it.
LEMMA CallEnds ==
    ASSUME SummaryInv, NEW c \in Collectors, Release(c),
           call' = [call EXCEPT ![c] = Idle], UNCHANGED prune
    PROVE  /\ CallTypes' /\ LocksHeld' /\ call'[c] = Idle
           /\ \A d \in Collectors : d # c => call'[d] = call[d]
  <1>1. CallTypes /\ LocksHeld
    BY DEF SummaryInv
  <1>2. /\ CallTypes' /\ call'[c] = Idle
        /\ \A d \in Collectors : d # c => call'[d] = call[d]
    BY <1>1, IdleIsACall, OneCall
  <1>3. Idle.pc = "idle" /\ Idle.want = {}
    BY DEF Idle
  <1>4. \A d \in Collectors : TracesOf(call[d].batch) \subseteq Traces
    BY <1>1, TracesAreOfRequests DEF CallTypes
  <1>5. \A t \in Traces : locks[t] # c => locks'[t] = locks[t]
    BY DEF Release
  <1>6. LocksHeld'
    <2>1. DOMAIN locks' = Traces
      BY DEF Release
    <2>2. \A d \in Collectors : call'[d].pc # "idle" =>
            \A t \in TracesOf(call'[d].batch) \ call'[d].want : locks'[t] = d
      BY <1>1, <1>2, <1>3, <1>4, <1>5 DEF LocksHeld
    <2>3. \A d \in Collectors :
            call'[d].pc \notin {"idle", "locking"} => call'[d].want = {}
      BY <1>1, <1>2, <1>3 DEF LocksHeld
    <2>4. prune.pc # "idle" =>
            \A t \in prune.of \ prune.want : locks'[t] = Pruner
      BY <1>1, <1>5, TraceAssumption DEF LocksHeld, TraceAssumption
    <2> QED BY <1>1, <2>1, <2>2, <2>3, <2>4 DEF LocksHeld
  <1> QED BY <1>2, <1>6

LEMMA AbortBatchStep ==
    ASSUME SummaryInv, NEW c \in Collectors, AbortBatch(c)
    PROVE  SummaryInv'
  <1>1. /\ CallTypes' /\ LocksHeld' /\ call'[c] = Idle /\ UNCHANGED tables
        /\ \A d \in Collectors : d # c => call'[d] = call[d]
    BY CallEnds DEF AbortBatch
  <1>2. AssembledIsCurrent'
    BY <1>1 DEF SummaryInv, AssembledIsCurrent, tables, Idle
  <1> QED BY <1>1, <1>2, TablesStay DEF SummaryInv

\* What a Collector commits shows in no trace another one has assembled.
LEMMA CommitBatchStep ==
    ASSUME SummaryInv, NEW c \in Collectors, CommitBatch(c)
    PROVE  SummaryInv'
  <1> DEFINE r == call[c].rows
             fresh == call[c].changed \ DOMAIN summaries
             Rank(t) == Cardinality({u \in fresh : u < t})
             g == [t \in call[c].changed |->
                     [list |-> IF t \in fresh THEN nextList + Rank(t)
                               ELSE summaries[t].list,
                      of   |-> call[c].summed[t]]]
  <1>1. /\ call[c].pc = "assembled" /\ Release(c)
        /\ spans' = Overlay(spans, r) /\ docs' = Overlay(docs, call[c].docs)
        /\ summaries' = Overlay(summaries, g)
        /\ call' = [call EXCEPT ![c] = Idle] /\ UNCHANGED prune
    BY DEF CommitBatch, Numbered
  <1>2. /\ TableTypes /\ CallTypes /\ LocksHeld /\ AssembledIsCurrent
        /\ SummariesMatchSpans
    BY DEF SummaryInv
  <1>3. CallType(call[c])
    BY <1>2 DEF CallTypes
  <1>4. /\ CallTypes' /\ LocksHeld' /\ call'[c] = Idle
        /\ \A d \in Collectors : d # c => call'[d] = call[d]
    BY <1>1, CallEnds
  <1>5. TracesIn(r) = call[c].changed /\ call[c].changed \subseteq Traces
    BY <1>3, TracesAreOfRequests DEF CallType
  <1>6. /\ DOMAIN g = call[c].changed
        /\ \A t \in call[c].changed : g[t].of = call[c].summed[t]
    OBVIOUS
  <1> HIDE DEF g
  <1>7. TracesIn(spans') = TracesIn(spans) \cup call[c].changed
    BY <1>1, <1>5 DEF Overlay, TracesIn
  <1>8. TracesIn(docs') \subseteq Traces
    <2>1. TracesIn(call[c].docs) \subseteq Traces
      BY <1>3, TracesAreOfRequests DEF CallType
    <2>2. TracesIn(docs') = TracesIn(docs) \cup TracesIn(call[c].docs)
      BY <1>1 DEF Overlay, TracesIn
    <2> QED BY <1>2, <2>1, <2>2 DEF TableTypes
  <1>9. Stored(spans')
    <2>1. Stored(spans) /\ Stored(r)
      BY <1>2, <1>3 DEF TableTypes, CallType
    <2> QED BY <1>1, <2>1 DEF Stored, Overlay
  <1>10. TableTypes'
    <2>1. TracesIn(spans') \subseteq Traces
      BY <1>2, <1>5, <1>7 DEF TableTypes
    <2> QED BY <1>8, <1>9, <2>1 DEF TableTypes, Stored, TracesIn
  <1>11. AssembledIsCurrent'
    <2> SUFFICES ASSUME NEW d \in Collectors, d # c,
                        call[d].pc = "assembled",
                        NEW t \in call[d].changed
                 PROVE  TraceSpans(t, Overlay(spans', call[d].rows)) =
                          TraceSpans(t, Overlay(spans, call[d].rows))
      BY <1>2, <1>4 DEF AssembledIsCurrent, Idle
    <2>1. CallType(call[d])
      BY <1>2 DEF CallTypes
    <2>2. locks[t] = d
      BY <1>2, <2>1 DEF LocksHeld, CallType
    <2>3. t \notin call[c].changed
      BY <1>1, <1>2, <1>3, <2>2 DEF LocksHeld, CallType
    <2>4. TraceSpans(t, Overlay(spans, r)) = TraceSpans(t, spans)
      BY <1>5, <2>3, OverlayElsewhere
    <2> QED BY <1>1, <2>4, OverlayOfChanged
  <1>12. SummariesMatchSpans'
    <2>1. DOMAIN summaries' = DOMAIN summaries \cup call[c].changed
      BY <1>1, <1>6 DEF Overlay
    <2>2. TracesIn(spans) = DOMAIN summaries
      BY <1>2 DEF SummariesMatchSpans, TracesIn
    <2>3. TracesIn(spans') = DOMAIN summaries'
      BY <1>7, <2>1, <2>2
    <2>4. ASSUME NEW t \in call[c].changed
          PROVE  summaries'[t].of = Assemble(TraceSpans(t, spans'))
      <3>1. summaries'[t].of = call[c].summed[t]
        BY <1>1, <1>6 DEF Overlay
      <3> QED BY <1>1, <1>2, <3>1 DEF AssembledIsCurrent
    <2>5. ASSUME NEW t \in DOMAIN summaries, t \notin call[c].changed
          PROVE  summaries'[t].of = Assemble(TraceSpans(t, spans'))
      <3>1. summaries'[t] = summaries[t]
        BY <1>1, <1>6, <2>5 DEF Overlay
      <3>2. TraceSpans(t, spans') = TraceSpans(t, spans)
        BY <1>1, <1>5, <2>5, OverlayElsewhere
      <3> QED BY <1>2, <3>1, <3>2 DEF SummariesMatchSpans
    <2>6. \A t \in DOMAIN summaries' :
            summaries'[t].of = Assemble(TraceSpans(t, spans'))
      BY <2>1, <2>4, <2>5
    <2> QED BY <2>3, <2>6 DEF SummariesMatchSpans, TracesIn, TraceSpans, SpansOf
  <1> QED BY <1>4, <1>10, <1>11, <1>12 DEF SummaryInv
-----------------------------------------------------------------------------
(* The retention job *)

\* A step of the retention job that takes or drops locks.
LEMMA PruneOnly ==
    ASSUME SummaryInv, UNCHANGED <<tables, call>>, LocksHeld'
    PROVE  SummaryInv'
  <1>1. CallTypes'
    BY DEF SummaryInv, CallTypes, CallType, Shape
  <1>2. AssembledIsCurrent'
    BY DEF SummaryInv, AssembledIsCurrent, tables
  <1> QED BY <1>1, <1>2, TablesStay DEF SummaryInv

LEMMA PruneSelectStep == ASSUME SummaryInv, PruneSelect
                         PROVE  SummaryInv'
  <1> DEFINE of == {k[1] : k \in Lapsed(now)}
                     \cup {t \in DOMAIN summaries : Old(t, now)}
  <1>1. /\ prune' = [pc |-> "locking", at |-> now, want |-> of, of |-> of]
        /\ UNCHANGED <<tables, locks, call>>
    BY DEF PruneSelect
  <1>2. of \subseteq Traces
    <2>1. DOMAIN summaries \subseteq Traces
      BY DEF SummaryInv, TableTypes, SummariesMatchSpans, TracesIn
    <2>2. \A k \in DOMAIN docs : k[1] \in Traces
      BY DEF SummaryInv, TableTypes, TracesIn
    <2> QED BY <2>1, <2>2 DEF Lapsed
  <1> HIDE DEF of
  <1>3. LocksHeld'
    BY <1>1, <1>2 DEF SummaryInv, LocksHeld
  <1> QED BY <1>1, <1>3, PruneOnly

LEMMA PruneLockStep == ASSUME SummaryInv, PruneLock
                       PROVE  SummaryInv'
  <1>1. PICK t \in prune.want :
          /\ locks[t] = NoHolder /\ locks' = [locks EXCEPT ![t] = Pruner]
          /\ prune' = [prune EXCEPT !.want = @ \ {t}]
    BY DEF PruneLock, SortedTraceIDs
  <1>2. prune.pc = "locking" /\ UNCHANGED <<tables, call>>
    BY DEF PruneLock
  <1>3. LocksHeld /\ CallTypes
    BY DEF SummaryInv
  <1>4. /\ DOMAIN prune' = {"pc", "at", "want", "of"}
        /\ prune'.pc = prune.pc /\ prune'.of = prune.of
        /\ prune'.want = prune.want \ {t}
    BY <1>1, <1>3 DEF LocksHeld
  <1>5. t \in Traces
    BY <1>1, <1>3 DEF LocksHeld
  <1>6. \A u \in Traces : locks'[u] = IF u = t THEN Pruner ELSE locks[u]
    BY <1>1, <1>3 DEF LocksHeld
  <1>7. \A c \in Collectors : TracesOf(call[c].batch) \subseteq Traces
    BY <1>3, TracesAreOfRequests DEF CallTypes
  <1>8. LocksHeld'
    BY <1>1, <1>2, <1>3, <1>4, <1>5, <1>6, <1>7, TraceAssumption
       DEF LocksHeld, TraceAssumption
  <1> QED BY <1>2, <1>8, PruneOnly

\* The end of the job's transaction, whatever ended it.
LEMMA PruneEnds ==
    ASSUME SummaryInv, Release(Pruner), prune' = NoPrune, UNCHANGED call
    PROVE  LocksHeld'
  <1>1. LocksHeld /\ CallTypes
    BY DEF SummaryInv
  <1>2. \A c \in Collectors : TracesOf(call[c].batch) \subseteq Traces
    BY <1>1, TracesAreOfRequests DEF CallTypes
  <1>3. /\ DOMAIN locks' = Traces
        /\ \A t \in Traces : locks[t] # Pruner => locks'[t] = locks[t]
    BY DEF Release
  <1>4. \A c \in Collectors : c # Pruner
    BY TraceAssumption DEF TraceAssumption
  <1>5. /\ prune'.pc = "idle" /\ prune'.of = {} /\ prune'.want = {}
        /\ DOMAIN prune' = {"pc", "at", "want", "of"}
    BY DEF NoPrune
  <1> QED BY <1>1, <1>2, <1>3, <1>4, <1>5 DEF LocksHeld

LEMMA PruneAbortStep == ASSUME SummaryInv, PruneAbort
                        PROVE  SummaryInv'
  BY PruneEnds, PruneOnly DEF PruneAbort

\* What the job deletes or marks shows in no trace a Collector has assembled,
\* and a marked span looks the same to the assembler.
LEMMA PruneCommitStep == ASSUME SummaryInv, PruneCommit
                         PROVE  SummaryInv'
  <1> DEFINE gone == Deletable(prune.of, prune.at)
             Gone(f) == {k \in DOMAIN f : k[1] \in gone}
             kept == LapsedDocs(prune.at)
             marked == [k \in DOMAIN spans |->
                          IF k \in Marked(prune.at)
                          THEN [spans[k] EXCEPT !.content = "expired"]
                          ELSE spans[k]]
  <1>1. /\ prune.pc = "locking" /\ prune.want = {}
        /\ docs' = Without(kept, Gone(docs))
        /\ spans' = Without(marked, Gone(spans))
        /\ summaries' = Without(summaries, gone)
        /\ Release(Pruner) /\ prune' = NoPrune /\ UNCHANGED call
    BY DEF PruneCommit, PruneTraces
  <1>2. /\ TableTypes /\ CallTypes /\ LocksHeld /\ AssembledIsCurrent
        /\ SummariesMatchSpans
    BY DEF SummaryInv
  <1>3. gone \subseteq prune.of
    BY DEF Deletable
  <1>4. DOMAIN kept = DOMAIN docs /\ DOMAIN marked = DOMAIN spans
    BY DEF LapsedDocs
  <1>5. \A k \in DOMAIN spans :
          \/ marked[k] = spans[k]
          \/ marked[k] = [spans[k] EXCEPT !.content = "expired"]
    OBVIOUS
  <1> HIDE DEF kept, marked, gone
  <1>6. \A k \in DOMAIN spans :
          /\ marked[k] \in Row
          /\ marked[k].at = spans[k].at /\ marked[k].end = spans[k].end
          /\ marked[k].root = spans[k].root
          /\ marked[k].calls = spans[k].calls /\ marked[k].err = spans[k].err
    <2> TAKE k \in DOMAIN spans
    <2>1. spans[k] \in Row
      BY <1>2 DEF TableTypes, Stored
    <2> QED BY <1>5, <2>1 DEF Row
  <1>7. /\ DOMAIN spans' = {k \in DOMAIN spans : k[1] \notin gone}
        /\ \A k \in DOMAIN spans' : spans'[k] = marked[k]
    BY <1>1, <1>4 DEF Without
  <1>8. /\ DOMAIN summaries' = DOMAIN summaries \ gone
        /\ \A t \in DOMAIN summaries' : summaries'[t] = summaries[t]
    BY <1>1 DEF Without
  <1>9. TracesIn(docs') \subseteq TracesIn(docs)
    BY <1>1, <1>4 DEF Without, TracesIn
  <1>10. ASSUME NEW t, t \notin gone
         PROVE  TraceSpans(t, spans') = TraceSpans(t, spans)
    <2>1. SpansOf(t, spans') = SpansOf(t, spans)
      BY <1>7, <1>10 DEF SpansOf
    <2>2. \A k \in SpansOf(t, spans) : k \in DOMAIN spans' /\ k \in DOMAIN spans
      BY <2>1 DEF SpansOf
    <2>3. \A k \in SpansOf(t, spans') :
             /\ spans'[k].at = spans[k].at /\ spans'[k].end = spans[k].end
             /\ spans'[k].root = spans[k].root
             /\ spans'[k].calls = spans[k].calls
             /\ spans'[k].err = spans[k].err
      BY <1>6, <1>7, <2>1, <2>2
    <2> QED BY <2>1, <2>3, TraceIsLocal
  <1>11. TableTypes'
    <2>1. Stored(spans')
      BY <1>6, <1>7 DEF Stored
    <2>2. TracesIn(spans') \subseteq Traces
      BY <1>2, <1>7 DEF TableTypes, TracesIn
    <2>3. TracesIn(docs') \subseteq Traces
      BY <1>2, <1>9 DEF TableTypes
    <2> QED BY <2>1, <2>2, <2>3 DEF TableTypes, Stored, TracesIn
  <1>12. CallTypes'
    BY <1>1, <1>2 DEF CallTypes, CallType, Shape
  <1>13. LocksHeld'
    BY <1>1, PruneEnds
  <1>14. AssembledIsCurrent'
    <2> SUFFICES ASSUME NEW c \in Collectors, call[c].pc = "assembled",
                        NEW t \in call[c].changed
                 PROVE  TraceSpans(t, Overlay(spans', call[c].rows)) =
                          TraceSpans(t, Overlay(spans, call[c].rows))
      BY <1>1, <1>2 DEF AssembledIsCurrent
    <2>1. CallType(call[c])
      BY <1>2 DEF CallTypes
    <2>2. locks[t] = c /\ c # Pruner
      BY <1>2, <2>1, TraceAssumption
         DEF LocksHeld, CallType, TraceAssumption
    <2>3. t \notin gone
      BY <1>1, <1>2, <1>3, <2>2 DEF LocksHeld
    <2> QED BY <1>10, <2>3, OverlayOfChanged
  <1>15. SummariesMatchSpans'
    <2>1. TracesIn(spans) = DOMAIN summaries
      BY <1>2 DEF SummariesMatchSpans, TracesIn
    <2>2. TracesIn(spans') = DOMAIN summaries'
      BY <1>7, <1>8, <2>1 DEF TracesIn
    <2>3. \A t \in DOMAIN summaries' :
            summaries'[t].of = Assemble(TraceSpans(t, spans'))
      BY <1>2, <1>8, <1>10 DEF SummariesMatchSpans
    <2> QED BY <2>2, <2>3 DEF SummariesMatchSpans, TracesIn, TraceSpans, SpansOf
  <1> QED BY <1>11, <1>12, <1>13, <1>14, <1>15 DEF SummaryInv
-----------------------------------------------------------------------------
\* Steps that touch neither the tables nor a transaction: the clock, readers.
LEMMA StutterStep == ASSUME SummaryInv, UNCHANGED <<tables, txVars>>
                     PROVE  SummaryInv'
  <1>1. LocksHeld'
    BY DEF SummaryInv, LocksHeld, txVars
  <1> QED BY <1>1, PruneOnly DEF txVars

LEMMA NextSummaries == SummaryInv /\ [Next]_vars => SummaryInv'
  <1> SUFFICES ASSUME SummaryInv, [Next]_vars
               PROVE  SummaryInv'
    OBVIOUS
  <1>1. CASE Tick /\ UNCHANGED <<txVars, readVars>>
    BY <1>1, StutterStep DEF Tick
  <1>2. ASSUME NEW c \in Collectors, NEW b \in Batches, Receive(c, b)
        PROVE  SummaryInv'
    BY <1>2, ReceiveStep
  <1>3. ASSUME NEW c \in Collectors, Work(c)
        PROVE  SummaryInv'
    BY <1>3, LockTraceStep, WriteRowsStep, LockOutboxStep, AssembleStep,
       CommitBatchStep DEF Work
  <1>4. ASSUME NEW c \in Collectors, AbortBatch(c)
        PROVE  SummaryInv'
    BY <1>4, AbortBatchStep
  <1>5. CASE PruneSelect \/ PruneWork \/ PruneAbort
    BY <1>5, PruneSelectStep, PruneLockStep, PruneCommitStep, PruneAbortStep
       DEF PruneWork
  <1>6. ASSUME NEW r \in Readers, Read(r)
        PROVE  SummaryInv'
    <2>1. UNCHANGED <<tables, txVars>>
      BY <1>6 DEF Read, StartListing, ReadPage, FinishListing, OpenDetail,
                  ReadGraph, CloseDetail
    <2> QED BY <2>1, StutterStep
  <1>7. CASE UNCHANGED vars
    BY <1>7, StutterStep DEF vars
  <1> QED BY <1>1, <1>2, <1>3, <1>4, <1>5, <1>6, <1>7 DEF Next

\* The inductive invariant: what transactions hold and have assembled, and
\* the types this needs (WriteBatch, PruneTraces).
THEOREM SummaryInvariant == Spec => []SummaryInv
  BY InitSummaries, NextSummaries, PTL DEF Spec

\* A trace's stored summary is the one its stored spans give, whichever
\* Collectors and retention job committed, in whatever order (upsertSummary,
\* PruneTraces).
THEOREM SummariesAreTrue == Spec => []SummariesMatchSpans
  <1>1. SummaryInv => SummariesMatchSpans
    BY DEF SummaryInv
  <1> QED BY <1>1, SummaryInvariant, PTL
-----------------------------------------------------------------------------
(* Locks are taken in one order *)

\* Whoever holds a lock has a transaction that took it, before all those it
\* still wants.
Owned == \A t \in Traces :
    /\ \A c \in Collectors : locks[t] = c =>
         call[c].pc # "idle" /\ t \in TracesOf(call[c].batch) \ call[c].want
    /\ locks[t] = Pruner => prune.pc # "idle" /\ t \in prune.of \ prune.want
InOrder(of, want) == \A t \in of \ want : \A u \in want : t < u
Ordered == /\ \A c \in Collectors :
                InOrder(TracesOf(call[c].batch), call[c].want)
           /\ InOrder(prune.of, prune.want)
OutboxOwned == /\ outboxRow # Pruner
               /\ \A c \in Collectors :
                    outboxRow = c => call[c].pc \in {"assembling", "assembled"}
LockInv == Owned /\ Ordered /\ OutboxOwned

\* Steps of a Collector that take and drop no lock of a trace.
LEMMA SameLocks ==
    ASSUME LockInv, NEW c \in Collectors, call[c].pc # "idle",
           UNCHANGED <<locks, prune>>,
           call'[c].pc # "idle", call'[c].batch = call[c].batch,
           call'[c].want = call[c].want,
           \A d \in Collectors : d # c => call'[d] = call[d]
    PROVE  Owned' /\ Ordered'
  <1>1. Owned'
    BY DEF LockInv, Owned
  <1>2. Ordered'
    BY DEF LockInv, Ordered, InOrder
  <1> QED BY <1>1, <1>2

LEMMA TracesAreNumbers == Traces \subseteq Int
  BY SpanAssumption DEF SpanAssumption, Traces, TracesOf

\* The lock taken next is before those still wanted, after those held.
LEMMA TakenInOrder ==
    ASSUME NEW of, NEW want, NEW t \in SortedTraceIDs(want), of \subseteq Int,
           want \subseteq of, InOrder(of, want)
    PROVE  InOrder(of, want \ {t})
  BY DEF InOrder, SortedTraceIDs

LEMMA LockTraceOrder ==
    ASSUME SummaryInv, LockInv, NEW c \in Collectors, LockTrace(c)
    PROVE  LockInv'
  <1>1. PICK t \in SortedTraceIDs(call[c].want) :
          /\ call[c].pc = "locking"
          /\ locks[t] = NoHolder /\ locks' = [locks EXCEPT ![t] = c]
          /\ call' = [call EXCEPT ![c].want = @ \ {t}]
    BY DEF LockTrace
  <1>2. UNCHANGED <<outboxRow, prune>>
    BY DEF LockTrace
  <1>3. LocksHeld /\ CallTypes /\ CallType(call[c])
    BY DEF SummaryInv, CallTypes
  <1>4. /\ call'[c].pc = call[c].pc /\ call'[c].batch = call[c].batch
        /\ call'[c].want = call[c].want \ {t}
        /\ \A d \in Collectors : d # c => call'[d] = call[d]
    BY <1>1, <1>3 DEF CallTypes, CallType, Shape
  <1>5. /\ t \in call[c].want /\ call[c].want \subseteq TracesOf(call[c].batch)
        /\ TracesOf(call[c].batch) \subseteq Int
    BY <1>1, <1>3, TracesAreOfRequests, TracesAreNumbers
       DEF SortedTraceIDs, CallType
  <1>6. \A u \in Traces : locks'[u] = IF u = t THEN c ELSE locks[u]
    BY <1>1, <1>3 DEF LocksHeld
  <1>7. Owned'
    BY <1>1, <1>2, <1>4, <1>5, <1>6, TraceAssumption
       DEF LockInv, Owned, TraceAssumption
  <1>8. InOrder(TracesOf(call'[c].batch), call'[c].want)
    BY <1>1, <1>4, <1>5, TakenInOrder DEF LockInv, Ordered
  <1>9. Ordered'
    BY <1>2, <1>4, <1>8 DEF LockInv, Ordered, InOrder
  <1>10. OutboxOwned'
    BY <1>2, <1>4 DEF LockInv, OutboxOwned
  <1> QED BY <1>7, <1>9, <1>10 DEF LockInv

LEMMA ReceiveOrder ==
    ASSUME SummaryInv, LockInv, NEW c \in Collectors, NEW request \in Batches,
           Receive(c, request)
    PROVE  LockInv'
  <1> DEFINE batch == Normalized(request, now)
             x == [Idle EXCEPT !.pc = "locking", !.batch = batch, !.at = now,
                               !.want = TracesOf(batch)]
  <1>1. /\ call[c].pc = "idle" /\ call' = [call EXCEPT ![c] = x]
        /\ UNCHANGED <<locks, outboxRow, prune>>
    BY DEF Receive
  <1>2. CallTypes
    BY DEF SummaryInv
  <1> HIDE DEF batch
  <1>3. x.pc = "locking" /\ x.batch = batch /\ x.want = TracesOf(batch)
    BY DEF Idle
  <1> HIDE DEF x
  <1>4. /\ call'[c] = x
        /\ \A d \in Collectors : d # c => call'[d] = call[d]
    BY <1>1, <1>2 DEF CallTypes
  <1>5. Owned'
    BY <1>1, <1>4 DEF LockInv, Owned
  <1>6. Ordered'
    BY <1>1, <1>3, <1>4 DEF LockInv, Ordered, InOrder
  <1>7. OutboxOwned'
    BY <1>1, <1>4 DEF LockInv, OutboxOwned
  <1> QED BY <1>5, <1>6, <1>7 DEF LockInv

LEMMA WriteRowsOrder ==
    ASSUME SummaryInv, LockInv, NEW c \in Collectors, WriteRows(c)
    PROVE  LockInv'
  <1>1. PICK upserted, written, changed :
          /\ call[c].pc = "locking" /\ UNCHANGED <<locks, outboxRow, prune>>
          /\ call' = [call EXCEPT ![c] = [@ EXCEPT !.pc = "written",
                !.rows = upserted, !.docs = written, !.changed = changed]]
    BY DEF WriteRows
  <1>2. DOMAIN call = Collectors /\ Shape(call[c])
    BY DEF SummaryInv, CallTypes, CallType
  <1>3. /\ call'[c].pc = "written" /\ call'[c].batch = call[c].batch
        /\ call'[c].want = call[c].want
        /\ \A d \in Collectors : d # c => call'[d] = call[d]
    BY <1>1, <1>2 DEF Shape
  <1>4. Owned' /\ Ordered'
    BY <1>1, <1>3, SameLocks
  <1>5. OutboxOwned'
    BY <1>1, <1>3 DEF LockInv, OutboxOwned
  <1> QED BY <1>4, <1>5 DEF LockInv

LEMMA LockOutboxOrder ==
    ASSUME SummaryInv, LockInv, NEW c \in Collectors, LockOutbox(c)
    PROVE  LockInv'
  <1>1. /\ call[c].pc = "written" /\ UNCHANGED <<locks, prune>>
        /\ call' = [call EXCEPT ![c].pc = "assembling"]
        /\ outboxRow' = outboxRow \/ outboxRow' = c
    BY DEF LockOutbox
  <1>2. DOMAIN call = Collectors /\ Shape(call[c])
    BY DEF SummaryInv, CallTypes, CallType
  <1>3. /\ call'[c].pc = "assembling" /\ call'[c].batch = call[c].batch
        /\ call'[c].want = call[c].want
        /\ \A d \in Collectors : d # c => call'[d] = call[d]
    BY <1>1, <1>2 DEF Shape
  <1>4. Owned' /\ Ordered'
    BY <1>1, <1>3, SameLocks
  <1>5. OutboxOwned'
    BY <1>1, <1>3, TraceAssumption DEF LockInv, OutboxOwned, TraceAssumption
  <1> QED BY <1>4, <1>5 DEF LockInv

LEMMA AssembleOrder ==
    ASSUME SummaryInv, LockInv, NEW c \in Collectors, AssembleSummaries(c)
    PROVE  LockInv'
  <1>1. PICK summed :
          /\ call[c].pc = "assembling" /\ UNCHANGED <<locks, outboxRow, prune>>
          /\ call' = [call EXCEPT ![c] = [@ EXCEPT !.pc = "assembled",
                                                   !.summed = summed]]
    BY DEF AssembleSummaries
  <1>2. DOMAIN call = Collectors /\ Shape(call[c])
    BY DEF SummaryInv, CallTypes, CallType
  <1>3. /\ call'[c].pc = "assembled" /\ call'[c].batch = call[c].batch
        /\ call'[c].want = call[c].want
        /\ \A d \in Collectors : d # c => call'[d] = call[d]
    BY <1>1, <1>2 DEF Shape
  <1>4. Owned' /\ Ordered'
    BY <1>1, <1>3, SameLocks
  <1>5. OutboxOwned'
    BY <1>1, <1>3 DEF LockInv, OutboxOwned
  <1> QED BY <1>4, <1>5 DEF LockInv

LEMMA EndOrder ==
    ASSUME SummaryInv, LockInv, NEW c \in Collectors, Release(c),
           call' = [call EXCEPT ![c] = Idle], UNCHANGED prune
    PROVE  LockInv'
  <1>1. /\ call'[c] = Idle
        /\ \A d \in Collectors : d # c => call'[d] = call[d]
    BY CallEnds
  <1>2. \A t \in Traces : locks'[t] = IF locks[t] = c THEN NoHolder ELSE locks[t]
    BY DEF Release
  <1>3. outboxRow' = IF outboxRow = c THEN NoHolder ELSE outboxRow
    BY DEF Release
  <1>4. Owned'
    BY <1>1, <1>2, TraceAssumption DEF LockInv, Owned, TraceAssumption
  <1>5. Ordered'
    BY <1>1 DEF LockInv, Ordered, InOrder, Idle
  <1>6. OutboxOwned'
    BY <1>1, <1>3, TraceAssumption DEF LockInv, OutboxOwned, TraceAssumption
  <1> QED BY <1>4, <1>5, <1>6 DEF LockInv

LEMMA PruneSelectOrder == ASSUME SummaryInv, LockInv, PruneSelect
                          PROVE  LockInv'
  <1>1. PICK of :
          /\ prune.pc = "idle" /\ UNCHANGED <<locks, outboxRow, call>>
          /\ prune' = [pc |-> "locking", at |-> now, want |-> of, of |-> of]
    BY DEF PruneSelect
  <1> QED BY <1>1 DEF LockInv, Owned, Ordered, OutboxOwned, InOrder

LEMMA PruneLockOrder == ASSUME SummaryInv, LockInv, PruneLock
                        PROVE  LockInv'
  <1>1. PICK t \in SortedTraceIDs(prune.want) :
          /\ locks[t] = NoHolder /\ locks' = [locks EXCEPT ![t] = Pruner]
          /\ prune' = [prune EXCEPT !.want = @ \ {t}]
    BY DEF PruneLock
  <1>2. prune.pc = "locking" /\ UNCHANGED <<outboxRow, call>>
    BY DEF PruneLock
  <1>3. LocksHeld
    BY DEF SummaryInv
  <1>4. /\ prune'.pc = prune.pc /\ prune'.of = prune.of
        /\ prune'.want = prune.want \ {t}
    BY <1>1, <1>3 DEF LocksHeld
  <1>5. t \in prune.want /\ prune.want \subseteq prune.of /\ prune.of \subseteq Int
    BY <1>1, <1>3, TracesAreNumbers DEF SortedTraceIDs, LocksHeld
  <1>6. \A u \in Traces : locks'[u] = IF u = t THEN Pruner ELSE locks[u]
    BY <1>1, <1>3 DEF LocksHeld
  <1>7. Owned'
    BY <1>2, <1>4, <1>5, <1>6, TraceAssumption
       DEF LockInv, Owned, TraceAssumption
  <1>8. InOrder(prune'.of, prune'.want)
    BY <1>1, <1>4, <1>5, TakenInOrder DEF LockInv, Ordered
  <1>9. Ordered'
    BY <1>2, <1>8 DEF LockInv, Ordered, InOrder
  <1>10. OutboxOwned'
    BY <1>2 DEF LockInv, OutboxOwned
  <1> QED BY <1>7, <1>9, <1>10 DEF LockInv

LEMMA PruneEndOrder ==
    ASSUME LockInv, Release(Pruner), prune' = NoPrune, UNCHANGED call
    PROVE  LockInv'
  <1>1. \A t \in Traces :
          locks'[t] = IF locks[t] = Pruner THEN NoHolder ELSE locks[t]
    BY DEF Release
  <1>2. outboxRow' = IF outboxRow = Pruner THEN NoHolder ELSE outboxRow
    BY DEF Release
  <1>3. Owned'
    BY <1>1, TraceAssumption DEF LockInv, Owned, TraceAssumption
  <1>4. Ordered'
    BY DEF LockInv, Ordered, InOrder, NoPrune
  <1>5. OutboxOwned'
    BY <1>2, TraceAssumption DEF LockInv, OutboxOwned, TraceAssumption
  <1> QED BY <1>3, <1>4, <1>5 DEF LockInv

LEMMA InitLocks == Init => LockInv
  <1> SUFFICES ASSUME Init PROVE LockInv
    OBVIOUS
  <1>1. Owned
    BY TraceAssumption DEF Init, Owned, TraceAssumption
  <1>2. Ordered
    BY DEF Init, Ordered, InOrder, Idle, NoPrune
  <1>3. OutboxOwned
    BY TraceAssumption DEF Init, OutboxOwned, TraceAssumption
  <1> QED BY <1>1, <1>2, <1>3 DEF LockInv

LEMMA NextLocks == SummaryInv /\ LockInv /\ [Next]_vars => LockInv'
  <1> SUFFICES ASSUME SummaryInv, LockInv, [Next]_vars
               PROVE  LockInv'
    OBVIOUS
  <1>1. ASSUME UNCHANGED txVars PROVE LockInv'
    BY <1>1 DEF txVars, LockInv, Owned, Ordered, OutboxOwned, InOrder
  <1>2. CASE Tick /\ UNCHANGED <<txVars, readVars>>
    BY <1>1, <1>2 DEF Tick
  <1>3. ASSUME NEW c \in Collectors, NEW b \in Batches, Receive(c, b)
        PROVE  LockInv'
    BY <1>3, ReceiveOrder
  <1>4. ASSUME NEW c \in Collectors, Work(c)
        PROVE  LockInv'
    <2>1. CASE CommitBatch(c)
      BY <2>1, EndOrder DEF CommitBatch
    <2> QED BY <1>4, <2>1, LockTraceOrder, WriteRowsOrder, LockOutboxOrder,
               AssembleOrder DEF Work
  <1>5. ASSUME NEW c \in Collectors, AbortBatch(c)
        PROVE  LockInv'
    BY <1>5, EndOrder DEF AbortBatch
  <1>6. CASE PruneSelect \/ PruneWork \/ PruneAbort
    <2>1. CASE PruneCommit \/ PruneAbort
      BY <2>1, PruneEndOrder DEF PruneCommit, PruneAbort
    <2> QED BY <1>6, <2>1, PruneSelectOrder, PruneLockOrder DEF PruneWork
  <1>7. ASSUME NEW r \in Readers, Read(r)
        PROVE  LockInv'
    <2>1. UNCHANGED txVars
      BY <1>7 DEF Read, StartListing, ReadPage, FinishListing, OpenDetail,
                  ReadGraph, CloseDetail
    <2> QED BY <1>1, <2>1
  <1>8. CASE UNCHANGED vars
    BY <1>1, <1>8 DEF vars
  <1> QED BY <1>2, <1>3, <1>4, <1>5, <1>6, <1>7, <1>8 DEF Next

\* Locks are taken in the order of trace IDs, the outbox row last: no ring.
LEMMA NoRing ==
    ASSUME SummaryInv, LockInv
    PROVE  NoLockRing
  <1>1. LocksHeld /\ CallTypes /\ Owned /\ Ordered /\ OutboxOwned
    BY DEF SummaryInv, LockInv
  <1>2. \A c \in Collectors : TracesOf(call[c].batch) \subseteq Traces
          /\ call[c].want \subseteq TracesOf(call[c].batch)
    BY <1>1, TracesAreOfRequests DEF CallTypes, CallType
  <1>3. ASSUME NEW c \in Collectors, NEW d \in Collectors,
               Waiting(c, d), Waiting(d, c)
        PROVE  FALSE
    <2>1. call[c].pc = "locking" /\ call[d].pc = "locking"
      BY <1>1, <1>3 DEF Waiting, OutboxOwned
    <2>2. PICK t \in call[c].want : locks[t] = d
      BY <1>3, <2>1 DEF Waiting, SortedTraceIDs
    <2>3. PICK u \in call[d].want : locks[u] = c
      BY <1>3, <2>1 DEF Waiting, SortedTraceIDs
    <2>4. t < u /\ u < t
      BY <1>1, <1>2, <2>2, <2>3 DEF Owned, Ordered, InOrder
    <2>5. t \in Int /\ u \in Int
      BY <1>2, <2>2, <2>3, TracesAreNumbers
    <2> QED BY <2>4, <2>5
  <1>4. ASSUME NEW c \in Collectors, Waiting(c, Pruner), PruneWaits(c)
        PROVE  FALSE
    <2>1. PICK u \in prune.want : locks[u] = c
      BY <1>4 DEF PruneWaits, SortedTraceIDs
    <2>2. call[c].pc = "locking"
      BY <1>1, <1>4 DEF Waiting, OutboxOwned
    <2>3. PICK t \in call[c].want : locks[t] = Pruner
      BY <1>4, <2>2 DEF Waiting, SortedTraceIDs
    <2>4. t < u /\ u < t
      BY <1>1, <1>2, <2>1, <2>3 DEF Owned, Ordered, InOrder, LocksHeld
    <2>5. t \in Int /\ u \in Int
      BY <1>1, <1>2, <2>1, <2>3, TracesAreNumbers DEF LocksHeld
    <2> QED BY <2>4, <2>5
  <1> QED BY <1>3, <1>4 DEF NoLockRing

\* No two transactions, the retention job's among them, wait for each other:
\* locks are taken in the order of trace IDs and the outbox row comes last
\* (sortedTraceIDs, WriteBatch, PruneTraces).
THEOREM LocksFormNoRing == Spec => []NoLockRing
  <1>1. Spec => []LockInv
    BY InitLocks, NextLocks, SummaryInvariant, PTL DEF Spec
  <1>2. SummaryInv /\ LockInv => NoLockRing
    BY NoRing
  <1> QED BY <1>1, <1>2, SummaryInvariant, PTL
-----------------------------------------------------------------------------
(* A detail query *)

DetailInv ==
    /\ DOMAIN detail = Readers
    /\ \A r \in Readers :
         /\ DOMAIN detail[r] = {"pc", "trace", "count", "snapshot", "spans"}
         /\ detail[r].pc \in {"open", "read"} =>
              detail[r].count = detail[r].snapshot
         /\ detail[r].pc = "read" => detail[r].spans = detail[r].snapshot

\* A step of one reader's query.
LEMMA OneDetail ==
    ASSUME DetailInv, NEW r \in Readers, NEW x,
           detail' = [detail EXCEPT ![r] = x],
           DOMAIN x = {"pc", "trace", "count", "snapshot", "spans"},
           x.pc \in {"open", "read"} => x.count = x.snapshot,
           x.pc = "read" => x.spans = x.snapshot
    PROVE  DetailInv'
  BY DEF DetailInv

LEMMA OpenDetailStep ==
    ASSUME SummaryInv, DetailInv, NEW r \in Readers, NEW t \in Traces,
           OpenDetail(r, t)
    PROVE  DetailInv'
  <1> DEFINE n == Cardinality(SpansOf(t, spans))
             x == [NoDetail EXCEPT !.pc = "open", !.trace = t,
                     !.count = summaries[t].of.count, !.snapshot = n]
  <1>1. detail' = [detail EXCEPT ![r] = x] /\ t \in DOMAIN summaries
    BY DEF OpenDetail, GetTraceDetail
  <1>2. summaries[t].of.count = n
    <2>1. summaries[t].of = Assemble(TraceSpans(t, spans))
      BY <1>1 DEF SummaryInv, SummariesMatchSpans
    <2>2. Assemble(TraceSpans(t, spans)).count
            = Cardinality(DOMAIN TraceSpans(t, spans))
      BY DEF Assemble
    <2>3. DOMAIN TraceSpans(t, spans) = SpansOf(t, spans)
      BY DEF TraceSpans
    <2> QED BY <2>1, <2>2, <2>3
  <1> HIDE DEF n
  <1>3. /\ DOMAIN x = {"pc", "trace", "count", "snapshot", "spans"}
        /\ x.pc = "open" /\ x.count = summaries[t].of.count /\ x.snapshot = n
    BY DEF NoDetail
  <1> HIDE DEF x
  <1> QED BY <1>1, <1>2, <1>3, OneDetail

LEMMA NextDetails == SummaryInv /\ DetailInv /\ [Next]_vars => DetailInv'
  <1> SUFFICES ASSUME SummaryInv, DetailInv, [Next]_vars
               PROVE  DetailInv'
    OBVIOUS
  <1>1. CASE UNCHANGED detail
    BY <1>1 DEF DetailInv
  <1>2. ASSUME NEW r \in Readers, NEW t \in Traces, OpenDetail(r, t)
        PROVE  DetailInv'
    BY <1>2, OpenDetailStep
  <1>3. ASSUME NEW r \in Readers, ReadGraph(r)
        PROVE  DetailInv'
    <2>1. \A q \in Readers \ {r} : detail'[q] = detail[q]
      BY <1>3 DEF ReadGraph, DetailInv
    <2>2. DOMAIN detail' = Readers
      BY <1>3 DEF ReadGraph, DetailInv
    <2>3. /\ detail[r].pc = "open"
          /\ detail'[r].snapshot = detail[r].snapshot
          /\ detail'[r].count = detail[r].count
          /\ detail'[r].spans = detail[r].snapshot
          /\ DOMAIN detail'[r] = DOMAIN detail[r]
      BY <1>3 DEF ReadGraph, SnapshotSpans, DetailInv
    <2> QED BY <2>1, <2>2, <2>3 DEF DetailInv
  <1>4. ASSUME NEW r \in Readers, CloseDetail(r)
        PROVE  DetailInv'
    <2>1. /\ NoDetail.pc = "idle"
          /\ DOMAIN NoDetail = {"pc", "trace", "count", "snapshot", "spans"}
      BY DEF NoDetail
    <2> QED BY <1>4, <2>1, OneDetail DEF CloseDetail
  <1>5. CASE \E c \in Collectors : \/ \E b \in Batches : Receive(c, b)
                                   \/ Work(c) \/ AbortBatch(c)
    BY <1>1, <1>5 DEF Receive, Work, LockTrace, WriteRows, LockOutbox,
         AssembleSummaries, CommitBatch, AbortBatch, readVars
  <1>6. CASE PruneSelect \/ PruneWork \/ PruneAbort
    BY <1>1, <1>6 DEF PruneSelect, PruneWork, PruneLock, PruneCommit,
         PruneAbort, readVars
  <1>7. ASSUME NEW r \in Readers, Read(r)
        PROVE  DetailInv'
    BY <1>1, <1>2, <1>3, <1>4, <1>7
       DEF Read, StartListing, ReadPage, FinishListing
  <1>8. CASE (Tick /\ UNCHANGED <<txVars, readVars>>) \/ UNCHANGED vars
    BY <1>1, <1>8 DEF Tick, vars, readVars
  <1> QED BY <1>5, <1>6, <1>7, <1>8 DEF Next

\* What a detail query says of a trace agrees with the spans it returns,
\* whatever commits between its reads (GetTraceDetail).
THEOREM DetailsAreConsistent == Spec => []DetailsAgree
  <1>1. Init => DetailInv
    BY DEF Init, DetailInv, NoDetail
  <1>2. DetailInv => DetailsAgree
    BY DEF DetailInv, DetailsAgree
  <1> QED BY <1>1, <1>2, NextDetails, SummaryInvariant, PTL DEF Spec
-----------------------------------------------------------------------------
(* Calls take effect at once *)

\* A transaction works with a reading of the clock and, for a batch, with what
\* was in retention then.
Clocks ==
    /\ now \in Nat
    /\ \A c \in Collectors : call[c].pc # "idle" =>
         /\ call[c].at \in 0..now
         /\ \E request \in Batches :
              call[c].batch = Normalized(request, call[c].at)
    /\ prune.pc # "idle" => prune.at \in 0..now

\* What a Collector has written is what it would write now.
IsCurrent(c) ==
    /\ call[c].rows = RowsOf(call[c].batch)
    /\ call[c].docs = DocsOf(call[c].batch, call[c].at)
    /\ call[c].changed = TracesOf(Changed(call[c].batch))
HasWritten(c) == call[c].pc \notin {"idle", "locking"}
WrittenIsCurrent == \A c \in Collectors : HasWritten(c) => IsCurrent(c)

Holders == /\ \A t \in Traces : locks[t] \in Collectors \cup {NoHolder, Pruner}
           /\ prune.pc \in {"idle", "locking"}

Numbers == /\ nextList \in Nat \ {0}
           /\ \A t \in DOMAIN summaries : summaries[t].list \in 1..nextList - 1

\* Documents belong to spans.
DocTypes == /\ DOMAIN docs \subseteq DOMAIN spans
            /\ \A k \in DOMAIN docs : DOMAIN docs[k] = {"doc", "until"}

StoreInv == /\ Clocks /\ WrittenIsCurrent /\ Holders /\ Numbers
            /\ DocTypes /\ IsFiniteSet(DOMAIN spans)

\* What a Collector would write depends on the rows its batch is about.
LEMMA RowsAreLocal ==
    ASSUME NEW c \in Collectors, call'[c] = call[c],
           \A v \in call[c].batch :
             /\ Key(v) \in DOMAIN spans' <=> Key(v) \in DOMAIN spans
             /\ Key(v) \in DOMAIN spans => spans'[Key(v)] = spans[Key(v)]
             /\ Key(v) \in DOMAIN docs' <=> Key(v) \in DOMAIN docs
             /\ Key(v) \in DOMAIN docs => docs'[Key(v)] = docs[Key(v)],
           IsCurrent(c)
    PROVE  IsCurrent(c)'
  <1> DEFINE B == call[c].batch
             at == call[c].at
  <1>1. \A v \in B : Upserted(v)' = Upserted(v)
    BY DEF Upserted
  <1>2. Changed(B)' = Changed(B)
    BY <1>1 DEF Changed
  <1>3. RowsOf(B)' = RowsOf(B)
    <2>1. \A k \in {Key(v) : v \in Changed(B)} :
            (CHOOSE v \in B : Key(v) = k) \in B
      BY DEF Changed
    <2> QED BY <1>1, <1>2, <2>1 DEF RowsOf
  <1>4. \A v \in B : Documented(v, at)' = Documented(v, at)
    BY DEF Documented
  <1>5. \A v \in B : Until(Key(v), at)' = Until(Key(v), at)
    BY DEF Until
  <1>6. DocsOf(B, at)' = DocsOf(B, at)
    <2> DEFINE D == {w \in B : Documented(w, at)}
    <2>1. D' = D
      BY <1>4
    <2>2. \A k \in {Key(v) : v \in D} : Until(k, at)' = Until(k, at)
      BY <1>5
    <2> HIDE DEF D
    <2>3. {w \in B : Documented(w, at)} = D /\ {w \in B : Documented(w, at)}' = D'
      BY DEF D
    <2> QED BY <2>1, <2>2, <2>3 DEF DocsOf
  <1> QED BY <1>2, <1>3, <1>6 DEF IsCurrent

\* A step of one Collector: what becomes of the calls.
Moved(c) ==
    /\ \A d \in Collectors \ {c} : call'[d] = call[d]
    /\ \/ call'[c].pc = "idle"
       \/ /\ call'[c].pc = "locking" /\ call'[c].at = now
          /\ \E request \in Batches : call'[c].batch = Normalized(request, now)
       \/ /\ call[c].pc # "idle" /\ call'[c].pc # "idle"
          /\ call'[c].at = call[c].at /\ call'[c].batch = call[c].batch
          /\ HasWritten(c)' => IsCurrent(c)'

LEMMA ReceiveMoves ==
    ASSUME SummaryInv, NEW c \in Collectors, NEW request \in Batches,
           Receive(c, request)
    PROVE  Moved(c)
  <1> DEFINE batch == Normalized(request, now)
             x == [Idle EXCEPT !.pc = "locking", !.batch = batch, !.at = now,
                               !.want = TracesOf(batch)]
  <1>1. call' = [call EXCEPT ![c] = x] /\ DOMAIN call = Collectors
    BY DEF Receive, SummaryInv, CallTypes
  <1>2. x.pc = "locking" /\ x.at = now /\ x.batch = batch
    BY DEF Idle
  <1> HIDE DEF x
  <1>3. call'[c] = x /\ \A d \in Collectors \ {c} : call'[d] = call[d]
    BY <1>1
  <1> QED BY <1>2, <1>3 DEF Moved

LEMMA LockTraceMoves ==
    ASSUME SummaryInv, NEW c \in Collectors, LockTrace(c)
    PROVE  Moved(c)
  <1>1. DOMAIN call = Collectors /\ Shape(call[c])
    BY DEF SummaryInv, CallTypes, CallType
  <1>2. PICK t : call' = [call EXCEPT ![c].want = @ \ {t}]
    BY DEF LockTrace
  <1>3. /\ call'[c].pc = call[c].pc /\ call'[c].at = call[c].at
        /\ call'[c].batch = call[c].batch
        /\ \A d \in Collectors \ {c} : call'[d] = call[d]
    BY <1>1, <1>2 DEF Shape
  <1>4. call[c].pc = "locking"
    BY DEF LockTrace
  <1> QED BY <1>3, <1>4 DEF Moved, HasWritten

\* As long as no transaction commits, what was written stays current.
LEMMA CurrentStays ==
    ASSUME UNCHANGED tables, NEW B, NEW at
    PROVE  /\ RowsOf(B)' = RowsOf(B) /\ DocsOf(B, at)' = DocsOf(B, at)
           /\ Changed(B)' = Changed(B)
  BY DEF tables, RowsOf, DocsOf, Changed, Upserted, Documented, Until

LEMMA WriteRowsMoves ==
    ASSUME SummaryInv, NEW c \in Collectors, WriteRows(c)
    PROVE  Moved(c)
  <1> DEFINE B == call[c].batch
             R == RowsOf(B)
             D == DocsOf(B, call[c].at)
             T == TracesOf(Changed(B))
  <1>1. DOMAIN call = Collectors /\ Shape(call[c])
    BY DEF SummaryInv, CallTypes, CallType
  <1>2. /\ call' = [call EXCEPT ![c] = [@ EXCEPT !.pc = "written",
                      !.rows = R, !.docs = D, !.changed = T]]
        /\ UNCHANGED tables /\ call[c].pc = "locking"
    BY DEF WriteRows
  <1> HIDE DEF R, D, T
  <1>3. /\ call'[c].pc = "written" /\ call'[c].at = call[c].at
        /\ call'[c].batch = B
        /\ call'[c].rows = R /\ call'[c].docs = D /\ call'[c].changed = T
        /\ \A d \in Collectors \ {c} : call'[d] = call[d]
    BY <1>1, <1>2 DEF Shape
  <1>4. /\ R = RowsOf(B)' /\ D = DocsOf(B, call[c].at)'
        /\ T = TracesOf(Changed(B))'
    BY <1>2, CurrentStays DEF R, D, T, TracesOf
  <1>5. IsCurrent(c)'
    BY <1>3, <1>4 DEF IsCurrent
  <1> QED BY <1>2, <1>3, <1>5 DEF Moved

LEMMA LockOutboxMoves ==
    ASSUME SummaryInv, WrittenIsCurrent, NEW c \in Collectors, LockOutbox(c)
    PROVE  Moved(c)
  <1>1. DOMAIN call = Collectors /\ Shape(call[c])
    BY DEF SummaryInv, CallTypes, CallType
  <1>2. /\ call' = [call EXCEPT ![c].pc = "assembling"]
        /\ UNCHANGED tables /\ call[c].pc = "written"
    BY DEF LockOutbox
  <1>3. /\ call'[c].pc = "assembling" /\ call'[c].at = call[c].at
        /\ call'[c].batch = call[c].batch /\ call'[c].rows = call[c].rows
        /\ call'[c].docs = call[c].docs /\ call'[c].changed = call[c].changed
        /\ \A d \in Collectors \ {c} : call'[d] = call[d]
    BY <1>1, <1>2 DEF Shape
  <1>4. IsCurrent(c)
    BY <1>2 DEF WrittenIsCurrent, HasWritten
  <1>5. IsCurrent(c)'
    BY <1>2, <1>3, <1>4, CurrentStays DEF IsCurrent, TracesOf
  <1> QED BY <1>2, <1>3, <1>5 DEF Moved

LEMMA AssembleMoves ==
    ASSUME SummaryInv, WrittenIsCurrent, NEW c \in Collectors,
           AssembleSummaries(c)
    PROVE  Moved(c)
  <1> DEFINE s == [t \in call[c].changed |->
                     Assemble(TraceSpans(t, Overlay(spans, call[c].rows)))]
  <1>1. DOMAIN call = Collectors /\ Shape(call[c])
    BY DEF SummaryInv, CallTypes, CallType
  <1>2. /\ call' = [call EXCEPT ![c] = [@ EXCEPT !.pc = "assembled",
                                                 !.summed = s]]
        /\ UNCHANGED tables /\ call[c].pc = "assembling"
    BY DEF AssembleSummaries
  <1> HIDE DEF s
  <1>3. /\ call'[c].pc = "assembled" /\ call'[c].at = call[c].at
        /\ call'[c].batch = call[c].batch /\ call'[c].rows = call[c].rows
        /\ call'[c].docs = call[c].docs /\ call'[c].changed = call[c].changed
        /\ \A d \in Collectors \ {c} : call'[d] = call[d]
    BY <1>1, <1>2 DEF Shape
  <1>4. IsCurrent(c)
    BY <1>2 DEF WrittenIsCurrent, HasWritten
  <1>5. IsCurrent(c)'
    BY <1>2, <1>3, <1>4, CurrentStays DEF IsCurrent, TracesOf
  <1> QED BY <1>2, <1>3, <1>5 DEF Moved

LEMMA EndMoves ==
    ASSUME SummaryInv, NEW c \in Collectors, call' = [call EXCEPT ![c] = Idle]
    PROVE  Moved(c)
  <1>1. DOMAIN call = Collectors
    BY DEF SummaryInv, CallTypes
  <1>2. call'[c] = Idle /\ \A d \in Collectors \ {c} : call'[d] = call[d]
    BY <1>1
  <1> QED BY <1>2 DEF Moved, Idle

\* Who has written holds the locks of the traces of its batch.
LEMMA WrittenHasLocks ==
    ASSUME SummaryInv, NEW c \in Collectors, HasWritten(c)
    PROVE  /\ \A v \in call[c].batch : locks[v.trace] = c
           /\ \A k \in DOMAIN call[c].rows \cup DOMAIN call[c].docs :
                locks[k[1]] = c
  <1>1. call[c].want = {} /\ \A t \in TracesOf(call[c].batch) : locks[t] = c
    BY DEF SummaryInv, LocksHeld, HasWritten
  <1>2. CallType(call[c])
    BY DEF SummaryInv, CallTypes
  <1>3. \A v \in call[c].batch : v.trace \in TracesOf(call[c].batch)
    BY DEF TracesOf
  <1>4. \A k \in DOMAIN call[c].rows \cup DOMAIN call[c].docs :
          k[1] \in TracesOf(call[c].batch)
    BY <1>2 DEF CallType, TracesIn
  <1> QED BY <1>1, <1>3, <1>4

\* A commit changes nothing that another Collector has written about.
LEMMA CommitKeepsOthers ==
    ASSUME SummaryInv, NEW c \in Collectors, CommitBatch(c),
           NEW d \in Collectors \ {c}, HasWritten(d), IsCurrent(d),
           call'[d] = call[d]
    PROVE  IsCurrent(d)'
  <1>1. /\ spans' = Overlay(spans, call[c].rows)
        /\ docs' = Overlay(docs, call[c].docs)
        /\ HasWritten(c)
    BY DEF CommitBatch, HasWritten
  <1>2. ASSUME NEW v \in call[d].batch
        PROVE  Key(v) \notin DOMAIN call[c].rows \cup DOMAIN call[c].docs
    <2>1. locks[v.trace] = d
      BY WrittenHasLocks
    <2>2. Key(v)[1] = v.trace
      BY DEF Key
    <2> QED BY <1>1, <2>1, <2>2, WrittenHasLocks
  <1>3. \A v \in call[d].batch :
          /\ Key(v) \in DOMAIN spans' <=> Key(v) \in DOMAIN spans
          /\ Key(v) \in DOMAIN spans => spans'[Key(v)] = spans[Key(v)]
          /\ Key(v) \in DOMAIN docs' <=> Key(v) \in DOMAIN docs
          /\ Key(v) \in DOMAIN docs => docs'[Key(v)] = docs[Key(v)]
    BY <1>1, <1>2 DEF Overlay
  <1> QED BY <1>3, RowsAreLocal

\* Marking a span that a version would not change leaves it unchanged by it.
LEMMA MarkedIsTheSame ==
    ASSUME NEW old \in Row, NEW new \in Row, old = MergeSpan(old, new),
           NEW marked, marked = [old EXCEPT !.content = "expired"]
    PROVE  marked = MergeSpan(marked, new)
  <1>1. /\ marked \in Row /\ marked.content = "expired"
        /\ marked.at = old.at /\ marked.end = old.end
        /\ marked.root = old.root /\ marked.calls = old.calls
        /\ marked.err = old.err
    BY DEF Row
  <1>2. CASE Stale(old, new)
    BY <1>1, <1>2 DEF MergeSpan, Stale
  <1>3. CASE ~Stale(old, new)
    <2>1. old.at = new.at /\ old.end = new.end /\ old.root = new.root
          /\ old.calls = new.calls /\ old.err = new.err
      BY <1>3 DEF MergeSpan, Row
    <2>2. ~Stale(marked, new)
      BY <1>1, <1>3 DEF Stale
    <2>3. MergeSpan(marked, new) = [new EXCEPT !.content = "expired"]
      BY <1>1, <2>2 DEF MergeSpan
    <2> HIDE DEF Row
    <2>4. marked = [new EXCEPT !.content = "expired"]
      BY <1>1, <2>1 DEF Row
    <2> QED BY <2>3, <2>4
  <1> QED BY <1>2, <1>3

\* What a round of the retention job does to the rows it keeps.
LEMMA PruneKeeps ==
    ASSUME NEW of, NEW at, PruneTraces(of, at), NEW k, k[1] \notin of
    PROVE  /\ k \in DOMAIN spans' <=> k \in DOMAIN spans
           /\ k \in DOMAIN spans => spans'[k] =
                IF k \in Marked(at) THEN [spans[k] EXCEPT !.content = "expired"]
                ELSE spans[k]
           /\ k \in DOMAIN docs' <=> k \in DOMAIN docs
           /\ k \in DOMAIN docs => docs'[k] =
                IF k \in Lapsed(at) THEN [docs[k] EXCEPT !.doc = "expired"]
                ELSE docs[k]
  <1> DEFINE gone == Deletable(of, at)
             Gone(f) == {x \in DOMAIN f : x[1] \in gone}
             kept == LapsedDocs(at)
             marked == [x \in DOMAIN spans |->
                          IF x \in Marked(at)
                          THEN [spans[x] EXCEPT !.content = "expired"]
                          ELSE spans[x]]
  <1>1. docs' = Without(kept, Gone(docs)) /\ spans' = Without(marked, Gone(spans))
    BY DEF PruneTraces
  <1>2. k[1] \notin gone
    BY DEF Deletable
  <1>3. DOMAIN kept = DOMAIN docs /\ DOMAIN marked = DOMAIN spans
    BY DEF LapsedDocs
  <1>4. /\ k \in DOMAIN spans => marked[k] =
             IF k \in Marked(at) THEN [spans[k] EXCEPT !.content = "expired"]
             ELSE spans[k]
        /\ k \in DOMAIN docs => kept[k] =
             IF k \in Lapsed(at) THEN [docs[k] EXCEPT !.doc = "expired"]
             ELSE docs[k]
    BY DEF LapsedDocs
  <1> HIDE DEF kept, marked, gone
  <1> QED BY <1>1, <1>2, <1>3, <1>4 DEF Without

\* The job waits for the rows that Collectors have written and would be marked,
\* and it marks no other row of their batches so that they would change it.
LEMMA PruneKeepsOthers ==
    ASSUME SummaryInv, DocTypes, PruneCommit, NEW c \in Collectors,
           HasWritten(c), IsCurrent(c)
    PROVE  IsCurrent(c)'
  <1> DEFINE B == call[c].batch
             at == call[c].at
             D == {w \in B : Documented(w, at)}
  <1>1. /\ DOMAIN call[c].docs \cap Lapsed(prune.at) = {}
        /\ DOMAIN call[c].rows \cap Marked(prune.at) = {}
        /\ PruneTraces(prune.of, prune.at) /\ UNCHANGED call
        /\ prune.pc = "locking" /\ prune.want = {}
    BY DEF PruneCommit
  <1>2. \A v \in B : Key(v)[1] \notin prune.of
    <2>1. \A t \in prune.of : locks[t] = Pruner
      BY <1>1 DEF SummaryInv, LocksHeld
    <2>2. Pruner \notin Collectors
      BY TraceAssumption DEF TraceAssumption
    <2> QED BY <2>1, <2>2, WrittenHasLocks DEF Key
  <1>3. \A v \in B :
          LET k == Key(v) IN
          /\ k \in DOMAIN spans' <=> k \in DOMAIN spans
          /\ k \in DOMAIN spans => spans'[k] =
               IF k \in Marked(prune.at) THEN [spans[k] EXCEPT !.content = "expired"]
               ELSE spans[k]
          /\ k \in DOMAIN docs' <=> k \in DOMAIN docs
          /\ k \in DOMAIN docs => docs'[k] =
               IF k \in Lapsed(prune.at) THEN [docs[k] EXCEPT !.doc = "expired"]
               ELSE docs[k]
    BY <1>1, <1>2, PruneKeeps
  <1>4. /\ DOMAIN RowsOf(B) = {Key(v) : v \in Changed(B)}
        /\ DOMAIN DocsOf(B, at) = {Key(v) : v \in D}
    BY DEF RowsOf, DocsOf
  <1>5. \A v \in B : Key(v) \notin Marked(prune.at) => Upserted(v)' = Upserted(v)
    BY <1>3 DEF Upserted
  <1>6. \A v \in Changed(B) : Key(v) \notin Marked(prune.at)
    BY <1>1, <1>4 DEF IsCurrent
  <1>7. Changed(B)' = Changed(B)
    <2>1. ASSUME NEW v \in B, Key(v) \notin Marked(prune.at)
          PROVE  v \in Changed(B)' <=> v \in Changed(B)
      BY <1>1, <1>3, <1>5, <2>1 DEF Changed
    <2>2. ASSUME NEW v \in B, Key(v) \in Marked(prune.at)
          PROVE  v \notin Changed(B)'
      <3>1. v \notin Changed(B) /\ Key(v) \in DOMAIN spans
        BY <1>6, <2>2 DEF Marked
      <3>2. spans[Key(v)] = MergeSpan(spans[Key(v)], RowOf(v))
        BY <3>1 DEF Changed, Upserted
      <3>3. spans[Key(v)] \in Row /\ RowOf(v) \in Row
        <4>1. \E request \in Batches : v \in request
          BY DEF SummaryInv, CallTypes, CallType
        <4>2. RowOf(v) \in Row
          BY <4>1, VersionIsARow
        <4> QED BY <3>1, <4>2 DEF SummaryInv, TableTypes, Stored
      <3>4. /\ Key(v) \in DOMAIN spans'
            /\ spans'[Key(v)] = [spans[Key(v)] EXCEPT !.content = "expired"]
        BY <1>3, <2>2, <3>1
      <3>5. spans'[Key(v)] = MergeSpan(spans'[Key(v)], RowOf(v))
        BY <3>2, <3>3, <3>4, MarkedIsTheSame
      <3>6. Upserted(v)' = spans'[Key(v)]
        BY <3>4, <3>5 DEF Upserted
      <3> QED BY <3>4, <3>6 DEF Changed
    <2>3. \A v \in B : v \in Changed(B)' <=> v \in Changed(B)
      BY <1>6, <2>1, <2>2
    <2>4. Changed(B) \subseteq B /\ Changed(B)' \subseteq B
      BY <1>1 DEF Changed
    <2> QED BY <2>3, <2>4
  <1>8. RowsOf(B)' = RowsOf(B)
    <2>1. \A k \in {Key(v) : v \in Changed(B)} :
            LET u == CHOOSE v \in B : Key(v) = k
            IN u \in B /\ Key(u) \notin Marked(prune.at)
      <3> TAKE k \in {Key(v) : v \in Changed(B)}
      <3>1. \E v \in B : Key(v) = k
        BY DEF Changed
      <3>2. k \notin Marked(prune.at)
        BY <1>6
      <3> QED BY <3>1, <3>2
    <2>2. B' = B
      BY <1>1
    <2> QED BY <1>5, <1>7, <2>1, <2>2 DEF RowsOf
  <1>9. \A v \in D : Key(v) \notin Lapsed(prune.at)
    BY <1>1, <1>4 DEF IsCurrent
  <1>10. \A v \in B : Documented(v, at)' <=> Documented(v, at)
    <2> TAKE v \in B
    <2>1. Key(v) \in DOMAIN spans =>
            /\ spans[Key(v)] \in Row
            /\ spans'[Key(v)].end = spans[Key(v)].end
      <3>1. Key(v) \in DOMAIN spans => spans[Key(v)] \in Row
        BY DEF SummaryInv, TableTypes, Stored
      <3> QED BY <1>3, <3>1 DEF Row
    <2>2. Key(v) \in DOMAIN spans =>
            (Stale(spans[Key(v)], RowOf(v))' <=> Stale(spans[Key(v)], RowOf(v)))
      BY <1>3, <2>1 DEF Stale, RowOf
    <2>3. CASE Key(v) \in Lapsed(prune.at)
      <3>1. ~Documented(v, at)
        BY <1>9, <2>3
      <3>2. Key(v) \in DOMAIN docs' /\ docs'[Key(v)].doc = "expired"
        BY <1>3, <2>3 DEF Lapsed, DocTypes
      <3> QED BY <3>1, <3>2 DEF Documented
    <2>4. CASE Key(v) \notin Lapsed(prune.at)
      <3>1. /\ Key(v) \in DOMAIN docs' <=> Key(v) \in DOMAIN docs
            /\ Key(v) \in DOMAIN docs => docs'[Key(v)] = docs[Key(v)]
        BY <1>3, <2>4
      <3> QED BY <1>1, <1>3, <2>2, <3>1 DEF Documented
    <2> QED BY <2>3, <2>4
  <1>11. \A v \in D : Until(Key(v), at)' = Until(Key(v), at)
    BY <1>1, <1>3, <1>9 DEF Until
  <1>12. DocsOf(B, at)' = DocsOf(B, at)
    <2>1. D' = D
      BY <1>1, <1>10
    <2>2. \A k \in {Key(v) : v \in D} : Until(k, at)' = Until(k, at)
      BY <1>11
    <2>3. B' = B /\ at' = at
      BY <1>1
    <2> HIDE DEF D
    <2>4. {w \in B : Documented(w, at)} = D /\ {w \in B : Documented(w, at)}' = D'
      BY DEF D
    <2> QED BY <2>1, <2>2, <2>3, <2>4 DEF DocsOf
  <1> QED BY <1>1, <1>7, <1>8, <1>12 DEF IsCurrent, TracesOf

-----------------------------------------------------------------------------
(* Requests are finite, and so are the tables *)

LEMMA BatchIsFinite ==
    ASSUME Clocks, NEW c \in Collectors, call[c].pc # "idle"
    PROVE  IsFiniteSet(call[c].batch)
  <1>1. PICK request \in Batches : call[c].batch \subseteq request
    BY DEF Clocks, Normalized
  <1>2. IsFiniteSet(request)
    BY SpanAssumption DEF SpanAssumption
  <1> QED BY <1>1, <1>2, FS_Subset

LEMMA ChangedIsFinite ==
    ASSUME Clocks, NEW c \in Collectors, call[c].pc # "idle", IsCurrent(c)
    PROVE  IsFiniteSet(call[c].changed) /\ IsFiniteSet(DOMAIN call[c].rows)
  <1> DEFINE W == Changed(call[c].batch)
             f == [v \in W |-> Key(v)]
             g == [v \in W |-> v.trace]
  <1>1. IsFiniteSet(W)
    <2>1. W \in SUBSET call[c].batch
      BY DEF Changed
    <2> HIDE DEF W
    <2> QED BY <2>1, BatchIsFinite, FS_Subset
  <1>2. DOMAIN call[c].rows = {f[v] : v \in W} /\ call[c].changed = {g[v] : v \in W}
    BY DEF IsCurrent, RowsOf, TracesOf
  <1>3. f = [v \in W |-> f[v]] /\ g = [v \in W |-> g[v]]
    OBVIOUS
  <1> HIDE DEF W, f, g
  <1> QED BY <1>1, <1>2, <1>3, FiniteImage

-----------------------------------------------------------------------------
(* The invariant, step by step *)

\* A step of a Collector that commits nothing.
LEMMA ClocksMove ==
    ASSUME Clocks, NEW c \in Collectors, Moved(c), UNCHANGED <<now, prune>>
    PROVE  Clocks'
  <1>1. \A d \in Collectors \ {c} : call'[d] = call[d]
    BY DEF Moved
  <1>2. call'[c].pc # "idle" =>
          /\ call'[c].at \in 0..now
          /\ \E request \in Batches :
               call'[c].batch = Normalized(request, call'[c].at)
    <2>1. now \in 0..now
      BY DEF Clocks
    <2> QED BY <2>1 DEF Moved, Clocks
  <1> QED BY <1>1, <1>2 DEF Clocks, Normalized

LEMMA WrittenMoves ==
    ASSUME WrittenIsCurrent, NEW c \in Collectors, Moved(c),
           \A d \in Collectors \ {c} :
             HasWritten(d) /\ IsCurrent(d) /\ call'[d] = call[d] => IsCurrent(d)'
    PROVE  WrittenIsCurrent'
  <1>1. ASSUME NEW d \in Collectors \ {c}, HasWritten(d)'
        PROVE  IsCurrent(d)'
    <2>1. call'[d] = call[d]
      BY DEF Moved
    <2>2. HasWritten(d)
      BY <1>1, <2>1 DEF HasWritten
    <2> QED BY <2>1, <2>2 DEF WrittenIsCurrent
  <1>2. HasWritten(c)' => IsCurrent(c)'
    BY DEF Moved, HasWritten
  <1> QED BY <1>1, <1>2 DEF WrittenIsCurrent

LEMMA CurrentStaysCurrent ==
    ASSUME UNCHANGED tables, NEW d \in Collectors, call'[d] = call[d],
           IsCurrent(d)
    PROVE  IsCurrent(d)'
  BY CurrentStays DEF IsCurrent, TracesOf

LEMMA TableFactsStay ==
    ASSUME StoreInv, UNCHANGED tables
    PROVE  Numbers' /\ DocTypes' /\ IsFiniteSet(DOMAIN spans)'
  BY DEF StoreInv, tables, Numbers, DocTypes

LEMMA HoldersStay ==
    ASSUME Holders, LocksHeld,
           \/ UNCHANGED locks
           \/ \E h \in Collectors \cup {Pruner}, t \in Traces :
                locks' = [locks EXCEPT ![t] = h]
           \/ \E h \in Collectors \cup {Pruner} : Release(h),
           prune'.pc \in {"idle", "locking"}
    PROVE  Holders'
  <1>1. DOMAIN locks = Traces
    BY DEF LocksHeld
  <1>2. CASE UNCHANGED locks
    BY <1>2 DEF Holders
  <1>3. CASE \E h \in Collectors \cup {Pruner}, t \in Traces :
               locks' = [locks EXCEPT ![t] = h]
    BY <1>1, <1>3 DEF Holders
  <1>4. CASE \E h \in Collectors \cup {Pruner} : Release(h)
    BY <1>4 DEF Holders, Release
  <1> QED BY <1>2, <1>3, <1>4

\* Steps of a Collector other than its commit.
LEMMA CollectorKeepsStore ==
    ASSUME SummaryInv, StoreInv, NEW c \in Collectors,
           \/ \E b \in Batches : Receive(c, b)
           \/ LockTrace(c) \/ WriteRows(c) \/ LockOutbox(c)
           \/ AssembleSummaries(c) \/ AbortBatch(c)
    PROVE  StoreInv'
  <1>1. Moved(c)
    BY ReceiveMoves, LockTraceMoves, WriteRowsMoves, LockOutboxMoves,
       AssembleMoves, EndMoves DEF StoreInv, AbortBatch
  <1>2. UNCHANGED <<now, tables, prune>>
    BY DEF Receive, LockTrace, WriteRows, LockOutbox, AssembleSummaries,
           AbortBatch
  <1>3. Clocks'
    BY <1>1, <1>2, ClocksMove DEF StoreInv
  <1>4. WrittenIsCurrent'
    BY <1>1, <1>2, WrittenMoves, CurrentStaysCurrent DEF StoreInv
  <1>5. \/ UNCHANGED locks
        \/ \E h \in Collectors \cup {Pruner}, t \in Traces :
             locks' = [locks EXCEPT ![t] = h]
        \/ \E h \in Collectors \cup {Pruner} : Release(h)
    <2>1. CASE LockTrace(c)
      <3>1. call[c].want \subseteq Traces
        BY TracesAreOfRequests DEF SummaryInv, CallTypes, CallType
      <3> QED BY <2>1, <3>1 DEF LockTrace, SortedTraceIDs
    <2> QED BY <2>1 DEF Receive, WriteRows, LockOutbox, AssembleSummaries,
                        AbortBatch
  <1>6. Holders'
    BY <1>2, <1>5, HoldersStay DEF StoreInv, SummaryInv, Holders
  <1> QED BY <1>2, <1>3, <1>4, <1>6, TableFactsStay DEF StoreInv

\* What a transaction commits is what one call would write now, with the
\* reading of the clock it began with (WriteBatch).
LEMMA CommitIsOneCall ==
    ASSUME SummaryInv, StoreInv, NEW c \in Collectors, CommitBatch(c)
    PROVE  WriteBatch(call[c].batch, call[c].at)
  <1> DEFINE B == call[c].batch
             changed == TracesOf(Changed(B))
             of == [t \in changed |-> Assemble(TraceSpans(t, spans'))]
  <1>1. /\ call[c].pc = "assembled"
        /\ spans' = Overlay(spans, call[c].rows)
        /\ docs' = Overlay(docs, call[c].docs)
        /\ Numbered(call[c].changed, call[c].summed) /\ UNCHANGED now
    BY DEF CommitBatch
  <1>2. /\ call[c].rows = RowsOf(B) /\ call[c].docs = DocsOf(B, call[c].at)
        /\ call[c].changed = changed
    BY <1>1 DEF StoreInv, WrittenIsCurrent, HasWritten, IsCurrent
  <1>3. \A t \in changed : call[c].summed[t] = of[t]
    BY <1>1, <1>2 DEF SummaryInv, AssembledIsCurrent
  <1> HIDE DEF changed, of
  <1>4. Numbered(changed, of)
    BY <1>1, <1>2, <1>3 DEF Numbered
  <1> QED BY <1>1, <1>2, <1>4 DEF WriteBatch, changed, of

LEMMA RankIsBelow ==
    ASSUME NEW S, IsFiniteSet(S), S \subseteq Int, NEW t \in S
    PROVE  /\ Cardinality(S) \in Nat
           /\ Cardinality({u \in S : u < t}) \in 0..Cardinality(S) - 1
  <1> DEFINE U == {u \in S : u < t}
  <1>1. U \in SUBSET S /\ t \notin U
    <2>1. ~(t < t)
      BY t \in Int
    <2> QED BY <2>1
  <1> HIDE DEF U
  <1>2. /\ IsFiniteSet(U) /\ Cardinality(U) \in Nat /\ Cardinality(S) \in Nat
        /\ Cardinality(U) <= Cardinality(S)
        /\ Cardinality(U) = Cardinality(S) => U = S
    BY <1>1, FS_Subset, FS_CardinalityType
  <1>3. Cardinality(U) # Cardinality(S)
    BY <1>1, <1>2
  <1>4. Cardinality(U) \in 0..Cardinality(S) - 1
    BY <1>2, <1>3
  <1> QED BY <1>2, <1>4 DEF U

\* Numbers are given to new summaries once, from the next one on.
LEMMA CommitNumbers ==
    ASSUME Numbers, NEW changed, IsFiniteSet(changed), changed \subseteq Traces,
           NEW of, Numbered(changed, of)
    PROVE  Numbers'
  <1> DEFINE fresh == changed \ DOMAIN summaries
             Rank(t) == Cardinality({u \in fresh : u < t})
             g == [t \in changed |->
                     [list |-> IF t \in fresh THEN nextList + Rank(t)
                               ELSE summaries[t].list,
                      of   |-> of[t]]]
             n == Cardinality(fresh)
  <1>1. nextList' = nextList + n /\ summaries' = Overlay(summaries, g)
    BY DEF Numbered
  <1>2. fresh \subseteq Int /\ IsFiniteSet(fresh)
    <2>1. fresh \in SUBSET changed
      OBVIOUS
    <2> HIDE DEF fresh
    <2> QED BY <2>1, FS_Subset, TracesAreNumbers
  <1>3. n \in Nat /\ \A t \in fresh : Rank(t) \in 0..n - 1
    <2>1. n \in Nat
      <3> HIDE DEF fresh
      <3> QED BY <1>2, FS_CardinalityType
    <2>2. ASSUME NEW t \in fresh PROVE Rank(t) \in 0..n - 1
      <3> HIDE DEF fresh
      <3> QED BY <1>2, <2>2, RankIsBelow
    <2> QED BY <2>1, <2>2
  <1>4. /\ DOMAIN g = changed
        /\ \A t \in changed : g[t].list = IF t \in fresh THEN nextList + Rank(t)
                                          ELSE summaries[t].list
    OBVIOUS
  <1>5. nextList \in Nat \ {0} /\ nextList' \in Nat \ {0} /\ nextList <= nextList'
    <2> HIDE DEF n
    <2> QED BY <1>1, <1>3 DEF Numbers
  <1>6. ASSUME NEW t \in DOMAIN summaries'
        PROVE  summaries'[t].list \in 1..nextList' - 1
    <2>1. CASE t \in fresh
      <3>1. summaries'[t].list = nextList + Rank(t)
        BY <1>1, <1>4, <2>1 DEF Overlay
      <3> HIDE DEF Rank, n
      <3> QED BY <1>1, <1>3, <1>5, <2>1, <3>1
    <2>2. CASE t \notin fresh
      <3>1. t \in DOMAIN summaries /\ summaries'[t].list = summaries[t].list
        BY <1>1, <1>4, <2>2 DEF Overlay
      <3>2. summaries[t].list \in 1..nextList - 1
        BY <3>1 DEF Numbers
      <3> QED BY <1>5, <3>1, <3>2
    <2> QED BY <2>1, <2>2
  <1> QED BY <1>5, <1>6 DEF Numbers

LEMMA CommitKeepsStore ==
    ASSUME SummaryInv, StoreInv, NEW c \in Collectors, CommitBatch(c)
    PROVE  StoreInv'
  <1>1. /\ call[c].pc = "assembled" /\ Release(c)
        /\ spans' = Overlay(spans, call[c].rows)
        /\ docs' = Overlay(docs, call[c].docs)
        /\ Numbered(call[c].changed, call[c].summed)
        /\ call' = [call EXCEPT ![c] = Idle] /\ UNCHANGED <<now, prune>>
    BY DEF CommitBatch
  <1>2. IsCurrent(c) /\ CallType(call[c])
    BY <1>1 DEF StoreInv, WrittenIsCurrent, HasWritten, SummaryInv, CallTypes
  <1>3. Moved(c)
    BY <1>1, EndMoves
  <1>4. Clocks'
    BY <1>1, <1>3, ClocksMove DEF StoreInv
  <1>5. WrittenIsCurrent'
    BY <1>3, WrittenMoves, CommitKeepsOthers DEF StoreInv
  <1>6. Holders'
    BY <1>1, HoldersStay DEF StoreInv, SummaryInv, Holders
  <1>7. IsFiniteSet(call[c].changed) /\ IsFiniteSet(DOMAIN call[c].rows)
    BY <1>1, <1>2, ChangedIsFinite DEF StoreInv
  <1>8. Numbers'
    <2>1. call[c].changed \subseteq Traces
      BY <1>2, TracesAreOfRequests DEF CallType
    <2> QED BY <1>1, <1>7, <2>1, CommitNumbers DEF StoreInv
  <1>9. DOMAIN spans' = DOMAIN spans \cup DOMAIN call[c].rows
        /\ IsFiniteSet(DOMAIN spans)'
    BY <1>1, <1>7, FS_Union DEF StoreInv, Overlay
  <1>10. DocTypes'
    <2> DEFINE B == call[c].batch
    <2>1. call[c].docs = DocsOf(B, call[c].at) /\ call[c].rows = RowsOf(B)
      BY <1>2 DEF IsCurrent
    <2>2. \A k \in DOMAIN call[c].docs : DOMAIN call[c].docs[k] = {"doc", "until"}
      BY <2>1 DEF DocsOf
    <2>3. \A k \in DOMAIN call[c].docs :
            k \in DOMAIN spans \cup DOMAIN call[c].rows
      BY <2>1 DEF DocsOf, RowsOf, Changed
    <2> QED BY <1>1, <1>9, <2>2, <2>3 DEF StoreInv, DocTypes, Overlay
  <1> QED BY <1>4, <1>5, <1>6, <1>8, <1>9, <1>10 DEF StoreInv

\* The retention job.
LEMMA PruneKeepsStore ==
    ASSUME SummaryInv, StoreInv, PruneSelect \/ PruneLock \/ PruneAbort
    PROVE  StoreInv'
  <1>1. UNCHANGED <<now, tables, call>>
    BY DEF PruneSelect, PruneLock, PruneAbort
  <1>2. DOMAIN prune = {"pc", "at", "want", "of"}
    BY DEF SummaryInv, LocksHeld
  <1>3. /\ prune'.pc \in {"idle", "locking"}
        /\ prune'.pc # "idle" => prune'.at \in 0..now
    <2>1. CASE PruneSelect
      <3>1. prune'.pc = "locking" /\ prune'.at = now
        BY <2>1 DEF PruneSelect
      <3>2. now \in 0..now
        BY DEF StoreInv, Clocks
      <3> QED BY <3>1, <3>2
    <2>2. CASE PruneLock
      <3>1. prune'.pc = prune.pc /\ prune'.at = prune.at /\ prune.pc = "locking"
        BY <1>2, <2>2 DEF PruneLock
      <3> QED BY <3>1 DEF StoreInv, Clocks
    <2>3. CASE PruneAbort
      BY <2>3 DEF PruneAbort, NoPrune
    <2> QED BY <2>1, <2>2, <2>3
  <1>4. Clocks'
    BY <1>1, <1>3 DEF StoreInv, Clocks, Normalized
  <1>5. WrittenIsCurrent'
    BY <1>1, CurrentStays
       DEF StoreInv, WrittenIsCurrent, HasWritten, IsCurrent, TracesOf
  <1>6. Holders'
    <2>1. \/ UNCHANGED locks
          \/ \E h \in Collectors \cup {Pruner}, t \in Traces :
               locks' = [locks EXCEPT ![t] = h]
          \/ \E h \in Collectors \cup {Pruner} : Release(h)
      <3>1. prune.want \subseteq Traces
        BY DEF SummaryInv, LocksHeld
      <3> QED BY <3>1 DEF PruneSelect, PruneLock, PruneAbort, SortedTraceIDs
    <2> QED BY <1>3, <2>1, HoldersStay DEF StoreInv, SummaryInv
  <1> QED BY <1>1, <1>4, <1>5, <1>6, TableFactsStay DEF StoreInv

LEMMA PruneCommitKeepsStore ==
    ASSUME SummaryInv, StoreInv, PruneCommit
    PROVE  StoreInv'
  <1> DEFINE gone == Deletable(prune.of, prune.at)
             Gone(f) == {x \in DOMAIN f : x[1] \in gone}
             kept == LapsedDocs(prune.at)
             marked == [x \in DOMAIN spans |->
                          IF x \in Marked(prune.at)
                          THEN [spans[x] EXCEPT !.content = "expired"]
                          ELSE spans[x]]
  <1>1. /\ prune' = NoPrune /\ Release(Pruner)
        /\ UNCHANGED <<now, nextList, call>>
        /\ docs' = Without(kept, Gone(docs))
        /\ spans' = Without(marked, Gone(spans))
        /\ summaries' = Without(summaries, gone)
    BY DEF PruneCommit, PruneTraces
  <1>2. NoPrune.pc = "idle"
    BY DEF NoPrune
  <1>3. Clocks'
    BY <1>1, <1>2 DEF StoreInv, Clocks, Normalized
  <1>4. WrittenIsCurrent'
    BY <1>1, PruneKeepsOthers DEF StoreInv, WrittenIsCurrent, HasWritten
  <1>5. Holders'
    BY <1>1, <1>2, HoldersStay DEF StoreInv, SummaryInv
  <1>6. Numbers'
    BY <1>1 DEF StoreInv, Numbers, Without
  <1>7. /\ DOMAIN kept = DOMAIN docs /\ DOMAIN marked = DOMAIN spans
        /\ \A k \in DOMAIN docs : DOMAIN kept[k] = DOMAIN docs[k]
    BY DEF LapsedDocs
  <1> HIDE DEF kept, marked, gone
  <1>8. DOMAIN spans' = DOMAIN spans \ Gone(spans)
        /\ DOMAIN docs' = DOMAIN docs \ Gone(docs)
    BY <1>1, <1>7 DEF Without
  <1>9. IsFiniteSet(DOMAIN spans)'
    <2>1. DOMAIN spans' \in SUBSET DOMAIN spans
      BY <1>8
    <2> QED BY <2>1, FS_Subset DEF StoreInv
  <1>10. DocTypes'
    <2>1. \A k \in DOMAIN docs' : DOMAIN docs'[k] = {"doc", "until"}
      BY <1>1, <1>7 DEF StoreInv, DocTypes, Without
    <2>2. DOMAIN docs' \subseteq DOMAIN spans'
      BY <1>8 DEF StoreInv, DocTypes
    <2> QED BY <2>1, <2>2 DEF DocTypes
  <1> QED BY <1>3, <1>4, <1>5, <1>6, <1>9, <1>10 DEF StoreInv

\* The clock and the readers.
LEMMA OthersKeepStore ==
    ASSUME StoreInv, UNCHANGED <<tables, txVars>>,
           now' = now \/ now' = now + 1
    PROVE  StoreInv'
  <1>1. UNCHANGED <<locks, call, prune>>
    BY DEF txVars
  <1>2. now' \in Nat /\ 0..now \subseteq 0..now'
    <2>1. now \in Nat
      BY DEF StoreInv, Clocks
    <2> QED BY <2>1
  <1>3. Clocks'
    BY <1>1, <1>2 DEF StoreInv, Clocks, Normalized
  <1>4. WrittenIsCurrent'
    BY <1>1, CurrentStays
       DEF StoreInv, WrittenIsCurrent, HasWritten, IsCurrent, TracesOf
  <1>5. Holders'
    BY <1>1 DEF StoreInv, Holders
  <1> QED BY <1>3, <1>4, <1>5, TableFactsStay DEF StoreInv

LEMMA InitStore == Init => StoreInv
  <1> SUFFICES ASSUME Init PROVE StoreInv
    OBVIOUS
  <1>1. Clocks
    BY DEF Init, SpanInit, Clocks, Idle, NoPrune
  <1>2. WrittenIsCurrent
    BY DEF Init, WrittenIsCurrent, HasWritten, Idle
  <1>3. Holders
    BY DEF Init, Holders, NoPrune
  <1>4. Numbers /\ DocTypes
    BY DEF Init, SpanInit, Numbers, DocTypes, None
  <1>5. IsFiniteSet(DOMAIN spans)
    <2>1. DOMAIN spans = {}
      BY DEF Init, SpanInit, None
    <2> QED BY <2>1, FS_EmptySet
  <1> QED BY <1>1, <1>2, <1>3, <1>4, <1>5 DEF StoreInv

LEMMA NextStore == SummaryInv /\ StoreInv /\ [Next]_vars => StoreInv'
  <1> SUFFICES ASSUME SummaryInv, StoreInv, [Next]_vars
               PROVE  StoreInv'
    OBVIOUS
  <1>1. CASE Tick /\ UNCHANGED <<txVars, readVars>>
    BY <1>1, OthersKeepStore DEF Tick
  <1>2. ASSUME NEW c \in Collectors,
               \/ \E b \in Batches : Receive(c, b)
               \/ Work(c) \/ AbortBatch(c)
        PROVE  StoreInv'
    BY <1>2, CollectorKeepsStore, CommitKeepsStore DEF Work
  <1>3. CASE PruneSelect \/ PruneWork \/ PruneAbort
    BY <1>3, PruneKeepsStore, PruneCommitKeepsStore DEF PruneWork
  <1>4. ASSUME NEW r \in Readers, Read(r)
        PROVE  StoreInv'
    <2>1. UNCHANGED <<now, tables, txVars>>
      BY <1>4 DEF Read, StartListing, ReadPage, FinishListing, OpenDetail,
                  ReadGraph, CloseDetail
    <2> QED BY <2>1, OthersKeepStore
  <1>5. CASE UNCHANGED vars
    BY <1>5, OthersKeepStore DEF vars
  <1> QED BY <1>1, <1>2, <1>3, <1>4, <1>5 DEF Next

\* What a transaction has written is what one call would write now, whatever
\* others committed since (WriteBatch, PruneTraces).
THEOREM StoreInvariant == Spec => []StoreInv
  BY InitStore, NextStore, SummaryInvariant, PTL DEF Spec

\* The types of the trace store follow from its invariants.
LEMMA TraceTypesHold == StoreInv /\ LockInv => TypeOK
  <1> SUFFICES ASSUME StoreInv, LockInv PROVE TypeOK
    OBVIOUS
  <1>1. ASSUME NEW t \in Traces
        PROVE  \/ locks[t] = NoHolder
               \/ locks[t] = Pruner /\ prune.pc = "locking" /\ t \in prune.of
               \/ \E c \in Collectors : /\ locks[t] = c /\ call[c].pc # "idle"
                                        /\ t \in TracesOf(call[c].batch)
    BY DEF StoreInv, Holders, LockInv, Owned
  <1> QED BY <1>1 DEF TypeOK, StoreInv, DocTypes, Numbers, LockInv, OutboxOwned

\* Documents belong to spans, numbers were drawn, and no lock outlives the
\* transaction that took it (WriteBatch, PruneTraces, their deferred Rollback).
THEOREM TraceTypes == Spec => []TypeOK
  BY TraceTypesHold, StoreInvariant, InitLocks, NextLocks, SummaryInvariant, PTL
     DEF Spec
-----------------------------------------------------------------------------
(* The database keeps what the in-memory store promises *)

LEMMA StepIsOneCall ==
    ASSUME SummaryInv, StoreInv, [Next]_vars
    PROVE  [SpanNext]_<<now, tables>>
  <1>1. CASE Tick /\ UNCHANGED <<txVars, readVars>>
    BY <1>1 DEF SpanNext
  <1>2. ASSUME NEW c \in Collectors, CommitBatch(c)
        PROVE  SpanNext
    <2>1. WriteBatch(call[c].batch, call[c].at)
      BY <1>2, CommitIsOneCall
    <2>2. PICK request \in Batches :
            call[c].batch = Normalized(request, call[c].at)
      BY <1>2 DEF StoreInv, Clocks, CommitBatch
    <2>3. call[c].at \in 0..now
      BY <1>2 DEF StoreInv, Clocks, CommitBatch
    <2> QED BY <2>1, <2>2, <2>3 DEF SpanNext
  <1>3. CASE PruneCommit
    <2> DEFINE of == prune.of \cap DOMAIN summaries
    <2>1. PruneTraces(prune.of, prune.at) /\ prune.at \in 0..now
      BY <1>3 DEF PruneCommit, StoreInv, Clocks
    <2>2. Deletable(of, prune.at) = Deletable(prune.of, prune.at)
      BY DEF Deletable
    <2>3. of \in SUBSET DOMAIN summaries
      OBVIOUS
    <2> HIDE DEF of
    <2>4. PruneTraces(of, prune.at)
      BY <2>1, <2>2 DEF PruneTraces
    <2> QED BY <2>1, <2>3, <2>4 DEF SpanNext
  <1>4. ASSUME NEW c \in Collectors,
               \/ \E b \in Batches : Receive(c, b)
               \/ LockTrace(c) \/ WriteRows(c) \/ LockOutbox(c)
               \/ AssembleSummaries(c) \/ AbortBatch(c)
        PROVE  UNCHANGED <<now, tables>>
    BY <1>4 DEF Receive, LockTrace, WriteRows, LockOutbox, AssembleSummaries,
                AbortBatch
  <1>5. CASE PruneSelect \/ PruneLock \/ PruneAbort
    BY <1>5 DEF PruneSelect, PruneLock, PruneAbort
  <1>6. ASSUME NEW r \in Readers, Read(r)
        PROVE  UNCHANGED <<now, tables>>
    BY <1>6 DEF Read, StartListing, ReadPage, FinishListing, OpenDetail,
                ReadGraph, CloseDetail
  <1>7. CASE UNCHANGED vars
    BY <1>7 DEF vars
  <1> QED BY <1>1, <1>2, <1>3, <1>4, <1>5, <1>6, <1>7 DEF Next, Work, PruneWork

\* Every transaction takes effect as one call of the store that one mutex
\* serves: its commit is that call, every other step is none.
THEOREM TransactionsAreAtomic == Spec => ImplementsSpanStore
  <1>1. Init => SpanInit
    BY DEF Init
  <1>2. SummaryInv /\ StoreInv /\ [Next]_vars => [SpanNext]_<<now, tables>>
    BY StepIsOneCall
  <1> QED BY <1>1, <1>2, SummaryInvariant, StoreInvariant, PTL
          DEF Spec, ImplementsSpanStore, SpanSpec

-----------------------------------------------------------------------------
(* Finished spans stay *)

\* A merged span that was finished is still finished, and no earlier.
LEMMA MergeKeepsEnd ==
    ASSUME NEW old \in Row, NEW new \in Row, old.end # NoEnd
    PROVE  MergeSpan(old, new).end >= old.end
  <1>1. CASE Stale(old, new)
    <2>1. MergeSpan(old, new) = old /\ old.end \in Int
      BY <1>1 DEF MergeSpan, Row
    <2> QED BY <2>1
  <1>2. CASE ~Stale(old, new)
    <2>1. MergeSpan(old, new).end = new.end
      BY <1>2 DEF MergeSpan, Row
    <2>2. new.end \in Int /\ old.end \in Int /\ ~(new.end < old.end)
      BY <1>2 DEF Stale, Row
    <2> QED BY <2>1, <2>2
  <1> QED BY <1>1, <1>2

\* The summary of a trace reaches as far as each of its spans.
LEMMA SummaryReachesSpans ==
    ASSUME SummaryInv, IsFiniteSet(DOMAIN spans), NEW k \in DOMAIN spans
    PROVE  /\ LastAt(spans[k]) \in Int /\ summaries[k[1]].of.last \in Int
           /\ LastAt(spans[k]) <= summaries[k[1]].of.last
  <1> DEFINE of == TraceSpans(k[1], spans)
             ks == SpansOf(k[1], spans)
             f == [j \in ks |-> LastAt(of[j])]
             S == {LastAt(of[j]) : j \in DOMAIN of}
  <1>1. \A j \in ks : /\ LastAt(of[j]) = LastAt(spans[j])
                      /\ LastAt(spans[j]) \in Int
    <2> TAKE j \in ks
    <2>1. spans[j] \in Row
      BY DEF SummaryInv, TableTypes, Stored, SpansOf
    <2>2. of[j].at = spans[j].at /\ of[j].end = spans[j].end
      BY DEF TraceSpans
    <2> QED BY <2>1, <2>2 DEF LastAt, Row
  <1>2. k \in ks /\ DOMAIN of = ks
    BY DEF SpansOf, TraceSpans
  <1>3. IsFiniteSet(ks)
    <2>1. ks \in SUBSET DOMAIN spans
      BY DEF SpansOf
    <2> HIDE DEF ks
    <2> QED BY <2>1, FS_Subset
  <1>4. S = {f[j] : j \in ks} /\ f = [j \in ks |-> f[j]]
    BY <1>2
  <1>5. IsFiniteSet(S)
    <2> HIDE DEF f, S, ks
    <2> QED BY <1>3, <1>4, FiniteImage
  <1>6. S \subseteq Int /\ LastAt(spans[k]) \in S
    BY <1>1, <1>2
  <1>7. summaries[k[1]].of.last = Greatest(S)
    <2>1. k[1] \in DOMAIN summaries
      BY DEF SummaryInv, SummariesMatchSpans
    <2>2. summaries[k[1]].of = Assemble(of)
      BY <2>1 DEF SummaryInv, SummariesMatchSpans
    <2>3. Assemble(of).last = Greatest(S)
      BY DEF Assemble
    <2> QED BY <2>2, <2>3
  <1> HIDE DEF S
  <1>8. Greatest(S) \in S /\ \A s \in S : s <= Greatest(S)
    BY <1>5, <1>6, GreatestIsThere
  <1> QED BY <1>6, <1>7, <1>8

LEMMA StepKeepsFinished ==
    ASSUME SummaryInv, StoreInv, [Next]_vars, NEW k \in DOMAIN spans
    PROVE  IF k \in DOMAIN spans'
           THEN spans[k].end # NoEnd => spans'[k].end >= spans[k].end
           ELSE LastAt(spans[k]) < now - TraceRetention
  <1>0. spans[k] \in Row /\ spans[k].end >= spans[k].end
    <2>1. spans[k] \in Row
      BY DEF SummaryInv, TableTypes, Stored
    <2>2. spans[k].end \in Int
      BY <2>1 DEF Row
    <2> QED BY <2>1, <2>2
  <1>1. CASE UNCHANGED spans
    BY <1>0, <1>1
  <1>2. ASSUME NEW c \in Collectors, CommitBatch(c)
        PROVE  k \in DOMAIN spans' /\
               (spans[k].end # NoEnd => spans'[k].end >= spans[k].end)
    <2> DEFINE B == call[c].batch
    <2>1. spans' = Overlay(spans, call[c].rows) /\ HasWritten(c)
      BY <1>2 DEF CommitBatch, HasWritten
    <2>2. call[c].rows = RowsOf(B)
      BY <2>1 DEF StoreInv, WrittenIsCurrent, IsCurrent
    <2>3. k \in DOMAIN spans'
      BY <2>1 DEF Overlay
    <2>4. CASE k \notin DOMAIN call[c].rows
      BY <1>0, <2>1, <2>3, <2>4 DEF Overlay
    <2>5. CASE k \in DOMAIN call[c].rows
      <3> DEFINE v == CHOOSE u \in B : Key(u) = k
      <3>1. v \in B /\ Key(v) = k
        BY <2>2, <2>5 DEF RowsOf, Changed
      <3>2. call[c].rows[k] = Upserted(v)
        BY <2>2, <2>5 DEF RowsOf
      <3> HIDE DEF v
      <3>3. Upserted(v) = MergeSpan(spans[k], RowOf(v))
        BY <3>1 DEF Upserted
      <3>4. RowOf(v) \in Row
        BY <3>1, VersionIsARow DEF SummaryInv, CallTypes, CallType
      <3>5. spans'[k] = MergeSpan(spans[k], RowOf(v))
        BY <2>1, <2>5, <3>2, <3>3 DEF Overlay
      <3> QED BY <1>0, <2>3, <3>4, <3>5, MergeKeepsEnd
    <2> QED BY <2>4, <2>5
  <1>3. CASE PruneCommit
    <2> DEFINE gone == Deletable(prune.of, prune.at)
               marked == [x \in DOMAIN spans |->
                            IF x \in Marked(prune.at)
                            THEN [spans[x] EXCEPT !.content = "expired"]
                            ELSE spans[x]]
    <2>1. spans' = Without(marked, {x \in DOMAIN spans : x[1] \in gone})
      BY <1>3 DEF PruneCommit, PruneTraces
    <2>2. marked[k].end = spans[k].end /\ DOMAIN marked = DOMAIN spans
      BY <1>0 DEF Row
    <2> HIDE DEF gone, marked
    <2>3. CASE k[1] \notin gone
      BY <1>0, <2>1, <2>2, <2>3 DEF Without
    <2>4. CASE k[1] \in gone
      <3>1. k \notin DOMAIN spans'
        BY <2>1, <2>2, <2>4 DEF Without
      <3>2. summaries[k[1]].of.last < prune.at - TraceRetention
        BY <2>4 DEF gone, Deletable, Old
      <3>3. prune.at \in 0..now /\ now \in Nat
        BY <1>3 DEF StoreInv, Clocks, PruneCommit
      <3>4. /\ LastAt(spans[k]) \in Int /\ summaries[k[1]].of.last \in Int
            /\ LastAt(spans[k]) <= summaries[k[1]].of.last
        BY SummaryReachesSpans DEF StoreInv
      <3> QED BY <3>1, <3>2, <3>3, <3>4, SpanAssumption DEF SpanAssumption
    <2> QED BY <2>3, <2>4
  <1>4. ASSUME NEW c \in Collectors,
               \/ \E b \in Batches : Receive(c, b)
               \/ LockTrace(c) \/ WriteRows(c) \/ LockOutbox(c)
               \/ AssembleSummaries(c) \/ AbortBatch(c)
        PROVE  UNCHANGED spans
    BY <1>4 DEF Receive, LockTrace, WriteRows, LockOutbox, AssembleSummaries,
                AbortBatch, tables
  <1>5. CASE PruneSelect \/ PruneLock \/ PruneAbort
    BY <1>1, <1>5 DEF PruneSelect, PruneLock, PruneAbort, tables
  <1>6. ASSUME NEW r \in Readers, Read(r)
        PROVE  UNCHANGED spans
    BY <1>6 DEF Read, StartListing, ReadPage, FinishListing, OpenDetail,
                ReadGraph, CloseDetail, tables
  <1>7. CASE UNCHANGED vars
    BY <1>1, <1>7 DEF vars, tables
  <1>8. CASE Tick /\ UNCHANGED <<txVars, readVars>>
    BY <1>1, <1>8 DEF Tick, tables
  <1> QED BY <1>1, <1>2, <1>3, <1>4, <1>5, <1>6, <1>7, <1>8
          DEF Next, Work, PruneWork

\* No late or repeated version takes back that a span has finished, and a span
\* is deleted only out of retention (MergeSpan, PruneTraces).
THEOREM FinishedStaysFinished == Spec => FinishedSpansStay
  <1>1. SummaryInv /\ StoreInv /\ [Next]_vars =>
          [\A k \in DOMAIN spans :
             IF k \in DOMAIN spans'
             THEN spans[k].end # NoEnd => spans'[k].end >= spans[k].end
             ELSE LastAt(spans[k]) < now - TraceRetention]_vars
    BY StepKeepsFinished
  <1> QED BY <1>1, SummaryInvariant, StoreInvariant, PTL
          DEF Spec, FinishedSpansStay

-----------------------------------------------------------------------------
(* Pages of a listing of events *)

Bodies == {e.body : e \in Events}
EventRow == [seq : 1..MaxSeq, at : Int, body : Bodies]
Places == Int \X Int

\* Places are ordered strictly and totally.
LEMMA PlacesAreOrdered ==
    /\ \A p, q, r \in Places : AS!Before(p, q) /\ AS!Before(q, r) => AS!Before(p, r)
    /\ \A p \in Places : ~AS!Before(p, p)
    /\ \A p, q \in Places : p = q \/ AS!Before(p, q) \/ AS!Before(q, p)
  BY DEF Places, AS!Before

LEMMA ExtremesAreThere ==
    ASSUME NEW S, IsFiniteSet(S), S # {}, S \subseteq Places
    PROVE  /\ \E m \in S : \A s \in S : s = m \/ AS!Before(m, s)
           /\ \E m \in S : \A s \in S : s = m \/ AS!Before(s, m)
  <1> DEFINE R == {x \in S \X S : AS!Before(x[1], x[2])}
             Q == {x \in S \X S : AS!Before(x[2], x[1])}
  <1>1. \A x, y \in S : (<<x, y>> \in R) = AS!Before(x, y)
    BY DEF AS!Before
  <1>2. \A x, y \in S : (<<x, y>> \in Q) = AS!Before(y, x)
    BY DEF AS!Before
  <1> HIDE DEF R, Q
  <1>3. /\ \A p, q, r \in S : AS!Before(p, q) /\ AS!Before(q, r) => AS!Before(p, r)
        /\ \A p \in S : ~AS!Before(p, p)
        /\ \A p, q \in S : p = q \/ AS!Before(p, q) \/ AS!Before(q, p)
    BY PlacesAreOrdered
  <1>4. \E m \in S : \A s \in S : s = m \/ <<m, s>> \in R
    <2>1. Orders(R, S)
      <3>1. \A x, y, z \in S : <<x, y>> \in R /\ <<y, z>> \in R => <<x, z>> \in R
        BY <1>1, <1>3
      <3>2. \A x \in S : <<x, x>> \notin R
        BY <1>1, <1>3
      <3>3. \A x, y \in S : x = y \/ <<x, y>> \in R \/ <<y, x>> \in R
        BY <1>1, <1>3
      <3> QED BY <3>1, <3>2, <3>3 DEF Orders
    <2> QED BY <2>1, FirstIsThere
  <1>5. \E m \in S : \A s \in S : s = m \/ <<m, s>> \in Q
    <2>1. Orders(Q, S)
      <3>1. \A x, y, z \in S : <<x, y>> \in Q /\ <<y, z>> \in Q => <<x, z>> \in Q
        BY <1>2, <1>3
      <3>2. \A x \in S : <<x, x>> \notin Q
        BY <1>2, <1>3
      <3>3. \A x, y \in S : x = y \/ <<x, y>> \in Q \/ <<y, x>> \in Q
        BY <1>2, <1>3
      <3> QED BY <3>1, <3>2, <3>3 DEF Orders
    <2> QED BY <2>1, FirstIsThere
  <1> QED BY <1>1, <1>2, <1>4, <1>5

\* Stored events are typed, and their numbers are distinct.
RowsTyped == /\ \A k \in DOMAIN rows : rows[k] \in EventRow
             /\ \A j, k \in DOMAIN rows : rows[j].seq = rows[k].seq => j = k

LEMMA RowsAreFinite ==
    ASSUME RowsTyped
    PROVE  IsFiniteSet(DOMAIN rows)
  <1> DEFINE f == [k \in DOMAIN rows |-> rows[k].seq]
  <1>1. f \in Injection(DOMAIN rows, 1..MaxSeq)
    BY DEF RowsTyped, EventRow, Injection, IsInjective
  <1>2. IsFiniteSet(1..MaxSeq)
    <2>1. 1 \in Int /\ MaxSeq \in Int
      BY EventAssumption DEF EventAssumption
    <2> QED BY <2>1, FS_Interval
  <1> HIDE DEF f
  <1> QED BY <1>1, <1>2, FS_Injection

\* Every stored event is listed at a place of its own.
LEMMA PlacesAreDistinct ==
    ASSUME RowsTyped
    PROVE  /\ \A k \in DOMAIN rows : AS!Place(rows[k]) \in Places
           /\ \A j, k \in DOMAIN rows :
                AS!Place(rows[j]) = AS!Place(rows[k]) => j = k
  <1>1. \A k \in DOMAIN rows : rows[k].at \in Int /\ rows[k].seq \in 1..MaxSeq
    BY DEF RowsTyped, EventRow
  <1>2. ASSUME NEW k \in DOMAIN rows PROVE AS!Place(rows[k]) \in Places
    BY <1>1, EventAssumption DEF EventAssumption, Places, AS!Place
  <1>3. ASSUME NEW j \in DOMAIN rows, NEW k \in DOMAIN rows,
               AS!Place(rows[j]) = AS!Place(rows[k])
        PROVE  j = k
    <2>1. RowId[rows[j].seq] = RowId[rows[k].seq]
      BY <1>3 DEF AS!Place
    <2>2. rows[j].seq = rows[k].seq
      BY <1>1, <2>1, EventAssumption DEF EventAssumption
    <2> QED BY <2>2 DEF RowsTyped
  <1> QED BY <1>2, <1>3

\* The keys of the rows before a row on the list.
Ahead(S, k) == {j \in S : AS!Before(AS!Place(rows[j]), AS!Place(rows[k]))}
Leading(S) == {k \in S : Cardinality(Ahead(S, k)) < Limit}

\* A page of at most Limit rows is the first part of what is left.
LEMMA PageLeads ==
    ASSUME RowsTyped, NEW S, S \subseteq DOMAIN rows
    PROVE  /\ IsFiniteSet(S)
           /\ Cardinality(S) <= Limit => Leading(S) = S
           /\ Cardinality(S) > Limit => Leading(S) # {}
           /\ \A j \in Leading(S), k \in S \ Leading(S) :
                AS!Before(AS!Place(rows[j]), AS!Place(rows[k]))
  <1>1. IsFiniteSet(S)
    BY RowsAreFinite, FS_Subset
  <1>2. \A k \in S : /\ AS!Place(rows[k]) \in Places
                     /\ \A j \in S : AS!Place(rows[j]) = AS!Place(rows[k]) => j = k
    BY PlacesAreDistinct
  <1>3. Limit \in Nat \ {0}
    BY SpanAssumption DEF SpanAssumption
  <1>4. \A k \in S : /\ Ahead(S, k) \in SUBSET S /\ IsFiniteSet(Ahead(S, k))
                     /\ Cardinality(Ahead(S, k)) \in Nat
    <2> TAKE k \in S
    <2>1. Ahead(S, k) \in SUBSET S
      BY DEF Ahead
    <2> QED BY <1>1, <2>1, FS_Subset, FS_CardinalityType
  <1>5. ASSUME Cardinality(S) <= Limit
        PROVE  Leading(S) = S
    <2> SUFFICES ASSUME NEW k \in S PROVE Cardinality(Ahead(S, k)) < Limit
      BY DEF Leading
    <2>1. k \notin Ahead(S, k)
      BY <1>2, PlacesAreOrdered DEF Ahead
    <2>2. Cardinality(Ahead(S, k)) <= Cardinality(S)
          /\ Cardinality(Ahead(S, k)) # Cardinality(S)
      BY <1>1, <1>4, <2>1, FS_Subset
    <2>3. Cardinality(S) \in Nat
      BY <1>1, FS_CardinalityType
    <2> QED BY <1>3, <1>4, <1>5, <2>2, <2>3
  <1>6. ASSUME Cardinality(S) > Limit
        PROVE  Leading(S) # {}
    <2>1. S # {}
      BY <1>3, <1>6, FS_EmptySet
    <2> DEFINE f == [k \in S |-> AS!Place(rows[k])]
               P == {f[k] : k \in S}
    <2>2. f = [k \in S |-> f[k]] /\ \A k \in S : f[k] = AS!Place(rows[k])
      OBVIOUS
    <2> HIDE DEF f
    <2>3. IsFiniteSet(P)
      BY <1>1, <2>2, FiniteImage
    <2>4. P \subseteq Places /\ P # {}
      BY <1>2, <2>1, <2>2
    <2>5. PICK m \in P : \A s \in P : s = m \/ AS!Before(m, s)
      <3> HIDE DEF P
      <3> QED BY <2>3, <2>4, ExtremesAreThere
    <2>6. PICK k \in S : m = f[k]
      OBVIOUS
    <2>7. Ahead(S, k) = {}
      <3> SUFFICES ASSUME NEW j \in S, AS!Before(f[j], f[k]) PROVE FALSE
        BY <2>2 DEF Ahead
      <3>1. f[j] = f[k] \/ AS!Before(f[k], f[j])
        BY <2>5, <2>6
      <3>2. f[j] \in Places /\ f[k] \in Places
        BY <1>2, <2>2
      <3> QED BY <3>1, <3>2, PlacesAreOrdered
    <2>8. Cardinality(Ahead(S, k)) = 0
      BY <2>7, FS_EmptySet
    <2> QED BY <1>3, <2>8 DEF Leading
  <1>7. ASSUME NEW j \in Leading(S), NEW k \in S \ Leading(S),
               ~AS!Before(AS!Place(rows[j]), AS!Place(rows[k]))
        PROVE  FALSE
    <2>1. j \in S /\ Cardinality(Ahead(S, j)) < Limit
          /\ ~(Cardinality(Ahead(S, k)) < Limit)
      BY DEF Leading
    <2>2. AS!Before(AS!Place(rows[k]), AS!Place(rows[j]))
      <3>1. AS!Place(rows[j]) # AS!Place(rows[k])
        BY <1>2, <2>1
      <3> QED BY <1>2, <1>7, <2>1, <3>1, PlacesAreOrdered
    <2>3. Ahead(S, k) \in SUBSET Ahead(S, j)
      <3> SUFFICES ASSUME NEW i \in S,
                          AS!Before(AS!Place(rows[i]), AS!Place(rows[k]))
                   PROVE  AS!Before(AS!Place(rows[i]), AS!Place(rows[j]))
        BY DEF Ahead
      <3> QED BY <1>2, <2>1, <2>2, PlacesAreOrdered
    <2>4. Cardinality(Ahead(S, k)) <= Cardinality(Ahead(S, j))
      BY <1>4, <2>1, <2>3, FS_Subset
    <2> QED BY <1>3, <1>4, <2>1, <2>4
  <1> QED BY <1>1, <1>5, <1>6, <1>7

-----------------------------------------------------------------------------
(* The transactions that store events *)

Fresh(x) == x.wrote = AS!NoRows /\ x.docs = AS!NoRows /\ x.note = AS!NoRows

TxType(x) ==
    /\ DOMAIN x = {"pc", "batch", "left", "stamp", "wrote", "docs", "note"}
    /\ x.pc \in {"idle", "begun", "open"}
    /\ x.batch \in Seq(Events) /\ x.left \in Seq(Events)
    /\ x.stamp \in 0..now

\* What a transaction is about to store keeps the number and the time of rows
\* that exist, gives others new numbers, and revises readable documents only.
RowsWritten(x) ==
    /\ \A k \in DOMAIN x.wrote :
         /\ x.wrote[k] \in EventRow
         /\ k \in DOMAIN rows => /\ x.wrote[k].seq = rows[k].seq
                                 /\ x.wrote[k].at = rows[k].at
         /\ k \notin DOMAIN rows => /\ lastSeq < x.wrote[k].seq
                                    /\ x.wrote[k].seq < nextSeq
    /\ \A j, k \in DOMAIN x.wrote : x.wrote[j].seq = x.wrote[k].seq => j = k
    /\ \A s \in DOMAIN x.docs : x.docs[s].until \in Int
                                /\ \E k \in DOMAIN x.wrote : x.wrote[k].seq = s
    /\ \A k \in DOMAIN rows : rows[k].seq \in DOMAIN x.docs =>
         /\ rows[k].seq \in DOMAIN payloads
         /\ payloads[rows[k].seq].until = x.docs[rows[k].seq].until

\* Only the holder of the outbox row has events, and only it writes.
TxOf(w) ==
    /\ TxType(tx[w])
    /\ tx[w].pc \in {"idle", "begun"} => Fresh(tx[w])
    /\ tx[w].pc = "begun" => tx[w].left = tx[w].batch
    /\ outboxRow = w => tx[w].pc = "open" /\ RowsWritten(tx[w])
    /\ tx[w].pc = "open" /\ outboxRow # w =>
         tx[w].batch = <<>> /\ tx[w].left = <<>> /\ Fresh(tx[w])
TxInv == /\ DOMAIN tx = Writers
         /\ \A w \in Writers : TxOf(w)

EventNumbers ==
    /\ now \in Nat /\ lastSeq \in Nat /\ nextSeq \in Nat
    /\ lastSeq < nextSeq /\ nextSeq <= MaxSeq + 1
    /\ \A k \in DOMAIN rows : rows[k].seq <= lastSeq

PayloadsTyped == \A s \in DOMAIN payloads :
                   payloads[s].until \in Int /\ s \in AS!SeqsOf(rows)

IsFun(f) == f = [x \in DOMAIN f |-> f[x]]
TablesAreFunctions == IsFun(rows) /\ IsFun(payloads) /\ IsFun(notified)

EventsInv == /\ RowsTyped /\ EventNumbers /\ PayloadsTyped
             /\ TablesAreFunctions /\ TxInv

\* A transaction that changes no table moves one writer.
LEMMA OneTx ==
    ASSUME TxInv, NEW w \in Writers, NEW x, tx' = [tx EXCEPT ![w] = x]
    PROVE  /\ DOMAIN tx' = Writers /\ tx'[w] = x
           /\ \A d \in Writers : d # w => tx'[d] = tx[d]
  BY DEF TxInv

LEMMA TxStays ==
    ASSUME TxInv, EventNumbers, NEW d \in Writers, tx'[d] = tx[d],
           UNCHANGED <<rows, payloads, lastSeq>>,
           nextSeq' \in Int, nextSeq <= nextSeq',
           now' \in Int, now <= now',
           outboxRow' = d <=> outboxRow = d
    PROVE  TxOf(d)'
  <1>1. TxOf(d)
    BY DEF TxInv
  <1>2. TxType(tx[d])'
    <2>1. 0..now \subseteq 0..now'
      BY DEF EventNumbers
    <2> QED BY <1>1, <2>1 DEF TxOf, TxType
  <1>3. RowsWritten(tx[d]) => RowsWritten(tx[d])'
    <2>1. \A n \in Int : lastSeq < n /\ n < nextSeq => lastSeq' < n /\ n < nextSeq'
      BY DEF EventNumbers
    <2>2. \A k \in DOMAIN tx[d].wrote : tx[d].wrote[k] \in EventRow =>
                                         tx[d].wrote[k].seq \in Int
      BY DEF EventRow
    <2> QED BY <2>1, <2>2 DEF RowsWritten
  <1> QED BY <1>1, <1>2, <1>3 DEF TxOf, Fresh

LEMMA SameTables ==
    ASSUME EventsInv, UNCHANGED <<rows, payloads, lastSeq, notified>>,
           now' \in Nat, nextSeq' \in Nat, nextSeq <= nextSeq',
           nextSeq' <= MaxSeq + 1
    PROVE  RowsTyped' /\ EventNumbers' /\ PayloadsTyped' /\ TablesAreFunctions'
  <1>1. RowsTyped' /\ PayloadsTyped' /\ TablesAreFunctions'
    BY DEF EventsInv, RowsTyped, PayloadsTyped, AS!SeqsOf, TablesAreFunctions,
           IsFun
  <1>2. EventNumbers'
    BY DEF EventsInv, EventNumbers
  <1> QED BY <1>1, <1>2

\* Steps of a writer before and after it writes.
LEMMA QuietTxStep ==
    ASSUME EventsInv, NEW w \in Writers, NEW x, tx' = [tx EXCEPT ![w] = x],
           UNCHANGED <<now, rows, payloads, lastSeq, notified>>,
           nextSeq' \in Nat, nextSeq <= nextSeq', nextSeq' <= MaxSeq + 1,
           \A d \in Writers : d # w => (outboxRow' = d <=> outboxRow = d),
           tx'[w] = x => TxOf(w)'
    PROVE  EventsInv'
  <1>1. /\ DOMAIN tx' = Writers /\ tx'[w] = x
        /\ \A d \in Writers : d # w => tx'[d] = tx[d]
    BY OneTx DEF EventsInv
  <1>2. now \in Nat
    BY DEF EventsInv, EventNumbers
  <1>3. \A d \in Writers : d # w => TxOf(d)'
    BY <1>1, <1>2, TxStays DEF EventsInv
  <1>4. TxInv'
    BY <1>1, <1>3 DEF TxInv
  <1> QED BY <1>2, <1>4, SameTables DEF EventsInv

LEMMA NothingWritten ==
    ASSUME NEW x, Fresh(x)
    PROVE  RowsWritten(x) /\ RowsWritten(x)'
  BY DEF Fresh, RowsWritten, AS!NoRows

LEMMA NoTxIsTyped == EventNumbers => TxType(AS!NoTx) /\ Fresh(AS!NoTx)
                                     /\ AS!NoTx.pc = "idle"
  BY DEF TxType, Fresh, AS!NoTx, EventNumbers

LEMMA BeginStep ==
    ASSUME EventsInv, NEW w \in Writers, NEW batch \in EventBatches,
           AS!BeginPersist(w, batch)
    PROVE  EventsInv'
  <1> DEFINE x == [AS!NoTx EXCEPT !.pc = "begun", !.batch = batch,
                                  !.left = batch]
  <1>1. /\ tx[w].pc = "idle" /\ tx' = [tx EXCEPT ![w] = x]
        /\ UNCHANGED <<now, rows, payloads, lastSeq, notified, nextSeq,
                       outboxRow>>
    BY DEF AS!BeginPersist, AS!storeVars
  <1>2. /\ x.pc = "begun" /\ x.left = x.batch /\ Fresh(x)
        /\ TxType(x)
    BY EventAssumption DEF EventAssumption, AS!NoTx, Fresh, TxType, EventsInv,
       EventNumbers
  <1> HIDE DEF x
  <1>3. outboxRow # w
    BY <1>1 DEF EventsInv, TxInv, TxOf
  <1>4. ASSUME tx'[w] = x PROVE TxOf(w)'
    BY <1>1, <1>2, <1>3, <1>4 DEF TxOf, TxType, Fresh
  <1>20. nextSeq' \in Nat /\ nextSeq <= nextSeq' /\ nextSeq' <= MaxSeq + 1
    BY <1>1 DEF EventsInv, EventNumbers
  <1> QED BY <1>1, <1>4, <1>20, QuietTxStep

LEMMA LockAndStampStep ==
    ASSUME EventsInv, NEW w \in Writers, AS!LockAndStamp(w)
    PROVE  EventsInv'
  <1> DEFINE x == [tx[w] EXCEPT !.pc = "open", !.stamp = now]
  <1>1. /\ tx[w].pc = "begun"
        /\ tx' = [tx EXCEPT ![w].pc = "open", ![w].stamp = now]
        /\ IF tx[w].batch = <<>> THEN UNCHANGED outboxRow
           ELSE outboxRow = NoHolder /\ outboxRow' = w
        /\ UNCHANGED <<now, rows, payloads, lastSeq, notified, nextSeq>>
    BY DEF AS!LockAndStamp, AS!storeVars
  <1>2. /\ TxOf(w) /\ DOMAIN tx = Writers /\ EventNumbers
    BY DEF EventsInv, TxInv
  <1>3. tx' = [tx EXCEPT ![w] = x]
    BY <1>1, <1>2
  <1>4. /\ x.pc = "open" /\ x.batch = tx[w].batch /\ x.left = tx[w].batch
        /\ Fresh(x) /\ TxType(x)
    BY <1>1, <1>2 DEF TxOf, TxType, Fresh, EventNumbers
  <1> HIDE DEF x
  <1>5. outboxRow # w
    BY <1>1, <1>2 DEF TxOf
  <1>6. \A d \in Writers : d # w => (outboxRow' = d <=> outboxRow = d)
    BY <1>1, EventAssumption DEF EventAssumption
  <1>7. ASSUME tx'[w] = x PROVE TxOf(w)'
    <2>1. TxType(tx[w])'
      BY <1>1, <1>4, <1>7 DEF TxType
    <2>2. RowsWritten(tx[w])' /\ Fresh(tx[w])'
      BY <1>4, <1>7, NothingWritten DEF Fresh, RowsWritten
    <2> QED BY <1>1, <1>4, <1>5, <1>7, <2>1, <2>2 DEF TxOf
  <1>20. nextSeq' \in Nat /\ nextSeq <= nextSeq' /\ nextSeq' <= MaxSeq + 1
    BY <1>1 DEF EventsInv, EventNumbers
  <1> QED BY <1>1, <1>3, <1>6, <1>7, <1>20, QuietTxStep

LEMMA RollbackStep ==
    ASSUME EventsInv, NEW w \in Writers, AS!RollbackPersist(w)
    PROVE  EventsInv'
  <1>1. /\ tx' = [tx EXCEPT ![w] = AS!NoTx]
        /\ outboxRow' = IF outboxRow = w THEN NoHolder ELSE outboxRow
        /\ UNCHANGED <<now, rows, payloads, lastSeq, notified, nextSeq>>
    BY DEF AS!RollbackPersist, AS!Released, AS!storeVars
  <1>2. \A d \in Writers : d # w => (outboxRow' = d <=> outboxRow = d)
    BY <1>1, EventAssumption DEF EventAssumption
  <1>3. outboxRow' # w
    BY <1>1, EventAssumption DEF EventAssumption
  <1>4. ASSUME tx'[w] = AS!NoTx PROVE TxOf(w)'
    <2>1. TxType(AS!NoTx) /\ Fresh(AS!NoTx) /\ AS!NoTx.pc = "idle"
      BY NoTxIsTyped DEF EventsInv
    <2> QED BY <1>1, <1>3, <1>4, <2>1 DEF TxOf, TxType, Fresh
  <1>20. nextSeq' \in Nat /\ nextSeq <= nextSeq' /\ nextSeq' <= MaxSeq + 1
    BY <1>1 DEF EventsInv, EventNumbers
  <1> QED BY <1>1, <1>2, <1>4, <1>20, QuietTxStep

\* Only the holder of the outbox row has events left.
LEMMA WriterHolds ==
    ASSUME TxInv, NEW w \in Writers, tx[w].pc = "open", tx[w].left # <<>>
    PROVE  /\ outboxRow = w /\ RowsWritten(tx[w]) /\ TxType(tx[w])
           /\ Head(tx[w].left) \in Events /\ Tail(tx[w].left) \in Seq(Events)
  <1>1. TxOf(w)
    BY DEF TxInv
  <1>2. outboxRow = w
    BY <1>1 DEF TxOf
  <1>3. tx[w].left \in Seq(Events)
    BY <1>1 DEF TxOf, TxType
  <1> QED BY <1>1, <1>2, <1>3 DEF TxOf

LEMMA SkipStep ==
    ASSUME EventsInv, NEW w \in Writers, AS!SkipEvent(w)
    PROVE  EventsInv'
  <1> DEFINE x == [tx[w] EXCEPT !.left = Tail(@)]
  <1>1. /\ tx[w].pc = "open" /\ tx[w].left # <<>>
        /\ tx' = [tx EXCEPT ![w].left = Tail(@)]
        /\ UNCHANGED <<now, rows, payloads, lastSeq, notified, nextSeq,
                       outboxRow>>
    BY DEF AS!SkipEvent, AS!storeVars
  <1>2. /\ TxOf(w) /\ DOMAIN tx = Writers
    BY DEF EventsInv, TxInv
  <1>3. tx' = [tx EXCEPT ![w] = x]
    BY <1>1, <1>2
  <1>4. /\ outboxRow = w /\ RowsWritten(tx[w]) /\ TxType(tx[w])
        /\ Tail(tx[w].left) \in Seq(Events)
    BY <1>1, WriterHolds DEF EventsInv
  <1>5. /\ x.pc = "open" /\ x.left = Tail(tx[w].left)
        /\ x.batch = tx[w].batch /\ x.stamp = tx[w].stamp
        /\ x.wrote = tx[w].wrote /\ x.docs = tx[w].docs
        /\ DOMAIN x = DOMAIN tx[w]
    BY <1>1, <1>4 DEF TxType
  <1> HIDE DEF x
  <1>6. ASSUME tx'[w] = x PROVE TxOf(w)'
    <2>1. TxType(tx[w])'
      BY <1>1, <1>4, <1>5, <1>6 DEF TxType
    <2>2. RowsWritten(tx[w])'
      BY <1>1, <1>4, <1>5, <1>6 DEF RowsWritten
    <2> QED BY <1>1, <1>4, <1>5, <1>6, <2>1, <2>2 DEF TxOf
  <1>20. nextSeq' \in Nat /\ nextSeq <= nextSeq' /\ nextSeq' <= MaxSeq + 1
    BY <1>1 DEF EventsInv, EventNumbers
  <1> QED BY <1>1, <1>3, <1>6, <1>20, QuietTxStep

\* Two tables, one laid over the other, and a table with one more entry.
LEMMA OverlayFacts ==
    \A f, g :
      /\ DOMAIN AS!Overlay(f, g) = DOMAIN f \cup DOMAIN g
      /\ \A x \in DOMAIN g : AS!Overlay(f, g)[x] = g[x]
      /\ \A x \in DOMAIN f \ DOMAIN g : AS!Overlay(f, g)[x] = f[x]
  BY DEF AS!Overlay

\* What a transaction sees of the event it is about to revise.
LEMMA SeenRow ==
    ASSUME RowsTyped, EventNumbers, NEW x, RowsWritten(x),
           NEW k \in DOMAIN AS!Overlay(rows, x.wrote), NEW seen,
           seen = AS!Overlay(rows, x.wrote)[k]
    PROVE  /\ seen \in EventRow
           /\ k \in DOMAIN rows => seen.seq = rows[k].seq /\ seen.at = rows[k].at
           /\ k \notin DOMAIN rows => lastSeq < seen.seq /\ seen.seq < nextSeq
           /\ k \in DOMAIN x.wrote => x.wrote[k].seq = seen.seq
           /\ \A j \in DOMAIN x.wrote : x.wrote[j].seq = seen.seq => j = k
  <1>1. CASE k \in DOMAIN x.wrote
    <2>1. seen = x.wrote[k]
      BY <1>1, OverlayFacts
    <2> QED BY <1>1, <2>1 DEF RowsWritten
  <1>2. CASE k \notin DOMAIN x.wrote
    <2>1. k \in DOMAIN rows /\ seen = rows[k]
      BY <1>2 DEF AS!Overlay
    <2>2. seen \in EventRow /\ seen.seq <= lastSeq /\ seen.seq \in Int
      BY <2>1 DEF RowsTyped, EventNumbers, EventRow
    <2>3. ASSUME NEW j \in DOMAIN x.wrote, x.wrote[j].seq = rows[k].seq
          PROVE  FALSE
      <3>1. CASE j \in DOMAIN rows
        <4>1. rows[j].seq = rows[k].seq
          BY <2>3, <3>1 DEF RowsWritten
        <4> QED BY <1>2, <2>1, <3>1, <4>1 DEF RowsTyped
      <3>2. CASE j \notin DOMAIN rows
        <4>1. lastSeq < x.wrote[j].seq
          BY <3>2 DEF RowsWritten
        <4>2. lastSeq \in Int
          BY DEF EventNumbers
        <4> QED BY <2>1, <2>2, <2>3, <4>1, <4>2
      <3> QED BY <3>1, <3>2
    <2> QED BY <1>2, <2>1, <2>2, <2>3
  <1> QED BY <1>1, <1>2

\* The document the transaction sees has the expiry of the stored one.
LEMMA SeenDocument ==
    ASSUME RowsTyped, PayloadsTyped, NEW w, RowsWritten(tx[w]), NEW s,
           s \in DOMAIN AS!Overlay(payloads, tx[w].docs)
    PROVE  /\ AS!Until(w, s) \in Int
           /\ \A k \in DOMAIN rows : rows[k].seq = s =>
                s \in DOMAIN payloads /\ payloads[s].until = AS!Until(w, s)
  <1>1. AS!Until(w, s) = AS!Overlay(payloads, tx[w].docs)[s].until
    BY DEF AS!Until
  <1>2. CASE s \in DOMAIN tx[w].docs
    <2>1. AS!Until(w, s) = tx[w].docs[s].until
      BY <1>1, <1>2, OverlayFacts
    <2> QED BY <1>2, <2>1 DEF RowsWritten
  <1>3. CASE s \notin DOMAIN tx[w].docs
    <2>1. s \in DOMAIN payloads /\ AS!Until(w, s) = payloads[s].until
      BY <1>1, <1>3 DEF AS!Overlay
    <2> QED BY <2>1 DEF PayloadsTyped
  <1> QED BY <1>2, <1>3

LEMMA UpdateStep ==
    ASSUME EventsInv, NEW w \in Writers, AS!UpdateEvent(w)
    PROVE  EventsInv'
  <1> DEFINE e    == Head(tx[w].left)
             seen == AS!Overlay(rows, tx[w].wrote)
             row  == AS!Revision(seen[e.key], e)
             doc  == [doc |-> e.doc, until |-> AS!Until(w, row.seq)]
             revised == AS!RevisesDocument(w, row.seq, e)
             wrote == AS!With(tx[w].wrote, e.key, row)
             written == IF revised THEN AS!With(tx[w].docs, row.seq, doc)
                        ELSE tx[w].docs
             note == IF row # seen[e.key] \/ revised
                     THEN AS!With(tx[w].note, e.key, e.body) ELSE tx[w].note
             x == [tx[w] EXCEPT !.left = Tail(@), !.wrote = wrote,
                                !.docs = written, !.note = note]
  <1>1. /\ tx[w].pc = "open" /\ tx[w].left # <<>>
        /\ e.key \in DOMAIN seen
        /\ tx' = [tx EXCEPT ![w].left = Tail(@),
                   ![w].wrote = AS!With(@, e.key, row),
                   ![w].docs = IF revised THEN AS!With(@, row.seq, doc) ELSE @,
                   ![w].note = IF row # seen[e.key] \/ revised
                               THEN AS!With(@, e.key, e.body) ELSE @]
        /\ UNCHANGED <<now, rows, payloads, lastSeq, notified, nextSeq,
                       outboxRow>>
    BY DEF AS!UpdateEvent, AS!storeVars
  <1>2. TxOf(w) /\ DOMAIN tx = Writers
    BY DEF EventsInv, TxInv
  <1>3. tx' = [tx EXCEPT ![w] = x]
    BY <1>1, <1>2
  <1>4. /\ outboxRow = w /\ RowsWritten(tx[w]) /\ TxType(tx[w])
        /\ e \in Events /\ Tail(tx[w].left) \in Seq(Events)
    BY <1>1, WriterHolds DEF EventsInv
  <1>5. /\ seen[e.key] \in EventRow
        /\ e.key \in DOMAIN rows => /\ seen[e.key].seq = rows[e.key].seq
                                    /\ seen[e.key].at = rows[e.key].at
        /\ e.key \notin DOMAIN rows => /\ lastSeq < seen[e.key].seq
                                       /\ seen[e.key].seq < nextSeq
        /\ e.key \in DOMAIN tx[w].wrote =>
             tx[w].wrote[e.key].seq = seen[e.key].seq
        /\ \A j \in DOMAIN tx[w].wrote :
             tx[w].wrote[j].seq = seen[e.key].seq => j = e.key
    <2>1. RowsTyped /\ EventNumbers
      BY DEF EventsInv
    <2>2. e.key \in DOMAIN AS!Overlay(rows, tx[w].wrote)
          /\ seen[e.key] = AS!Overlay(rows, tx[w].wrote)[e.key]
      BY <1>1
    <2> HIDE DEF e, seen
    <2> QED BY <1>4, <2>1, <2>2, SeenRow
  <1>6. row \in EventRow /\ row.seq = seen[e.key].seq /\ row.at = seen[e.key].at
    BY <1>4, <1>5 DEF AS!Revision, EventRow, Bodies
  <1>7. revised => /\ doc.until \in Int
                   /\ \A k \in DOMAIN rows : rows[k].seq = row.seq =>
                        /\ row.seq \in DOMAIN payloads
                        /\ payloads[row.seq].until = doc.until
    <2> SUFFICES ASSUME revised
                 PROVE  row.seq \in DOMAIN AS!Overlay(payloads, tx[w].docs)
      BY <1>4, SeenDocument DEF EventsInv
    <2> QED BY DEF AS!RevisesDocument, AS!Readable
  <1>8. /\ DOMAIN wrote = DOMAIN tx[w].wrote \cup {e.key} /\ wrote[e.key] = row
        /\ \A y \in DOMAIN tx[w].wrote : y # e.key => wrote[y] = tx[w].wrote[y]
    <2> HIDE DEF row, e
    <2> QED BY DEF AS!With
  <1>9. /\ ~revised => written = tx[w].docs
        /\ revised => /\ DOMAIN written = DOMAIN tx[w].docs \cup {row.seq}
                      /\ written[row.seq] = doc
                      /\ \A y \in DOMAIN tx[w].docs :
                           y # row.seq => written[y] = tx[w].docs[y]
    <2> HIDE DEF row, doc, revised
    <2> QED BY DEF AS!With
  <1>10. /\ DOMAIN x = DOMAIN tx[w] /\ x.pc = "open" /\ x.left = Tail(tx[w].left)
         /\ x.batch = tx[w].batch /\ x.stamp = tx[w].stamp
         /\ x.wrote = wrote /\ x.docs = written
    BY <1>1, <1>4 DEF TxType
  <1> HIDE DEF row, doc, revised, wrote, written, note, x, e, seen
  <1>11. RowsWritten(x)
    <2>1. \A k \in DOMAIN wrote :
            /\ wrote[k] \in EventRow
            /\ k \in DOMAIN rows => /\ wrote[k].seq = rows[k].seq
                                    /\ wrote[k].at = rows[k].at
            /\ k \notin DOMAIN rows => /\ lastSeq < wrote[k].seq
                                       /\ wrote[k].seq < nextSeq
      BY <1>4, <1>5, <1>6, <1>8 DEF RowsWritten
    <2>2. \A j, k \in DOMAIN wrote : wrote[j].seq = wrote[k].seq => j = k
      BY <1>4, <1>5, <1>6, <1>8 DEF RowsWritten
    <2>3. \A s \in DOMAIN written :
            written[s].until \in Int /\ \E k \in DOMAIN wrote : wrote[k].seq = s
      <3> TAKE s \in DOMAIN written
      <3>1. CASE revised /\ s = row.seq
        BY <1>7, <1>8, <1>9, <3>1
      <3>2. CASE ~(revised /\ s = row.seq)
        <4>1. s \in DOMAIN tx[w].docs /\ written[s] = tx[w].docs[s]
          BY <1>9, <3>2
        <4>2. PICK k \in DOMAIN tx[w].wrote : tx[w].wrote[k].seq = s
          BY <1>4, <4>1 DEF RowsWritten
        <4>3. k \in DOMAIN wrote /\ wrote[k].seq = s
          BY <1>5, <1>6, <1>8, <4>2
        <4>4. tx[w].docs[s].until \in Int
          BY <1>4, <4>1 DEF RowsWritten
        <4> QED BY <4>1, <4>3, <4>4
      <3> QED BY <3>1, <3>2
    <2>4. \A k \in DOMAIN rows : rows[k].seq \in DOMAIN written =>
            /\ rows[k].seq \in DOMAIN payloads
            /\ payloads[rows[k].seq].until = written[rows[k].seq].until
      <3> TAKE k \in DOMAIN rows
      <3>1. CASE revised /\ rows[k].seq = row.seq
        BY <1>7, <1>9, <3>1
      <3>2. CASE ~(revised /\ rows[k].seq = row.seq)
        BY <1>4, <1>9, <3>2 DEF RowsWritten
      <3> QED BY <3>1, <3>2
    <2>5. x.wrote = wrote /\ x.docs = written
      BY <1>10
    <2> QED BY <2>1, <2>2, <2>3, <2>4, <2>5 DEF RowsWritten
  <1>12. ASSUME tx'[w] = x PROVE TxOf(w)'
    <2>1. TxType(tx[w])'
      BY <1>1, <1>4, <1>10, <1>12 DEF TxType
    <2>2. RowsWritten(tx[w])'
      <3>1. UNCHANGED <<rows, payloads, lastSeq, nextSeq>>
        BY <1>1
      <3> QED BY <1>11, <1>12, <3>1 DEF RowsWritten
    <2> QED BY <1>1, <1>4, <1>10, <1>12, <2>1, <2>2 DEF TxOf
  <1>20. nextSeq' \in Nat /\ nextSeq <= nextSeq' /\ nextSeq' <= MaxSeq + 1
    BY <1>1 DEF EventsInv, EventNumbers
  <1> QED BY <1>1, <1>3, <1>12, <1>20, QuietTxStep

LEMMA InsertStep ==
    ASSUME EventsInv, NEW w \in Writers, AS!InsertEvent(w)
    PROVE  EventsInv'
  <1> DEFINE e   == Head(tx[w].left)
             row == [seq |-> nextSeq, at |-> e.at, body |-> e.body]
             doc == [doc |-> e.doc, until |-> tx[w].stamp + PayloadRetention]
             wrote == AS!With(tx[w].wrote, e.key, row)
             written == IF e.doc = Nothing THEN tx[w].docs
                        ELSE AS!With(tx[w].docs, nextSeq, doc)
             note == AS!With(tx[w].note, e.key, e.body)
             x == [tx[w] EXCEPT !.left = Tail(@), !.wrote = wrote,
                                !.docs = written, !.note = note]
  <1>1. /\ tx[w].pc = "open" /\ tx[w].left # <<>>
        /\ e.key \notin DOMAIN AS!Overlay(rows, tx[w].wrote)
        /\ nextSeq <= MaxSeq /\ nextSeq' = nextSeq + 1
        /\ tx' = [tx EXCEPT ![w].left = Tail(@),
                   ![w].wrote = AS!With(@, e.key, row),
                   ![w].docs = IF e.doc = Nothing THEN @
                               ELSE AS!With(@, nextSeq, doc),
                   ![w].note = AS!With(@, e.key, e.body)]
        /\ UNCHANGED <<now, rows, payloads, lastSeq, notified, outboxRow>>
    BY DEF AS!InsertEvent, AS!storeVars
  <1>2. TxOf(w) /\ DOMAIN tx = Writers
    BY DEF EventsInv, TxInv
  <1>3. tx' = [tx EXCEPT ![w] = x]
    BY <1>1, <1>2
  <1>4. /\ outboxRow = w /\ RowsWritten(tx[w]) /\ TxType(tx[w])
        /\ e \in Events /\ Tail(tx[w].left) \in Seq(Events)
    BY <1>1, WriterHolds DEF EventsInv
  <1>5. e.key \notin DOMAIN rows /\ e.key \notin DOMAIN tx[w].wrote
    BY <1>1 DEF AS!Overlay
  <1>6. /\ nextSeq \in Nat /\ lastSeq \in Nat /\ lastSeq < nextSeq
        /\ \A k \in DOMAIN rows : rows[k].seq \in Int /\ rows[k].seq <= lastSeq
    BY DEF EventsInv, EventNumbers, RowsTyped, EventRow
  <1>7. row \in EventRow /\ row.seq = nextSeq
    <2>1. MaxSeq \in Nat /\ e.at \in Int
      BY <1>4, EventAssumption DEF EventAssumption
    <2>2. nextSeq \in 1..MaxSeq /\ e.body \in Bodies
      BY <1>1, <1>4, <1>6, <2>1 DEF Bodies
    <2> QED BY <2>1, <2>2 DEF EventRow
  <1>8. doc.until \in Int
    BY <1>4, EventAssumption DEF EventAssumption, TxType
  <1>9. /\ DOMAIN wrote = DOMAIN tx[w].wrote \cup {e.key} /\ wrote[e.key] = row
        /\ \A y \in DOMAIN tx[w].wrote : wrote[y] = tx[w].wrote[y]
    <2> HIDE DEF row, e
    <2> QED BY <1>5 DEF AS!With
  <1>10. /\ DOMAIN written \subseteq DOMAIN tx[w].docs \cup {nextSeq}
         /\ \A y \in DOMAIN written :
              written[y] = IF y = nextSeq /\ e.doc # Nothing THEN doc
                           ELSE tx[w].docs[y]
    <2> HIDE DEF doc, e
    <2> QED BY DEF AS!With
  <1>11. /\ DOMAIN x = DOMAIN tx[w] /\ x.pc = "open" /\ x.left = Tail(tx[w].left)
         /\ x.batch = tx[w].batch /\ x.stamp = tx[w].stamp
         /\ x.wrote = wrote /\ x.docs = written
    BY <1>1, <1>4 DEF TxType
  <1>12. /\ \A j \in DOMAIN tx[w].wrote :
              /\ tx[w].wrote[j] \in EventRow
              /\ tx[w].wrote[j].seq \in Int /\ tx[w].wrote[j].seq < nextSeq
         /\ \A s \in DOMAIN tx[w].docs : s # nextSeq
    <2>1. ASSUME NEW j \in DOMAIN tx[w].wrote
          PROVE  /\ tx[w].wrote[j] \in EventRow
                 /\ tx[w].wrote[j].seq \in Int /\ tx[w].wrote[j].seq < nextSeq
      <3>1. tx[w].wrote[j] \in EventRow
        BY <1>4 DEF RowsWritten
      <3>2. tx[w].wrote[j].seq \in Int
        BY <3>1 DEF EventRow
      <3>3. \/ tx[w].wrote[j].seq < nextSeq
            \/ j \in DOMAIN rows /\ tx[w].wrote[j].seq = rows[j].seq
        BY <1>4 DEF RowsWritten
      <3> QED BY <1>6, <3>1, <3>2, <3>3
    <2>2. ASSUME NEW s \in DOMAIN tx[w].docs PROVE s # nextSeq
      <3>1. PICK k \in DOMAIN tx[w].wrote : tx[w].wrote[k].seq = s
        BY <1>4 DEF RowsWritten
      <3> QED BY <1>6, <2>1, <3>1
    <2> QED BY <2>1, <2>2
  <1>13. UNCHANGED <<rows, payloads, lastSeq>> /\ nextSeq' = nextSeq + 1
    BY <1>1
  <1> HIDE DEF row, doc, wrote, written, note, x, e
  <1>14. ASSUME tx'[w] = x PROVE RowsWritten(tx[w])'
    <2>1. \A k \in DOMAIN wrote :
            /\ wrote[k] \in EventRow
            /\ k \in DOMAIN rows => /\ wrote[k].seq = rows[k].seq
                                    /\ wrote[k].at = rows[k].at
            /\ k \notin DOMAIN rows => lastSeq < wrote[k].seq
            /\ wrote[k].seq < nextSeq + 1
      <3> TAKE k \in DOMAIN wrote
      <3>1. CASE k = e.key
        BY <1>5, <1>6, <1>7, <1>9, <3>1
      <3>2. CASE k # e.key
        <4>1. k \in DOMAIN tx[w].wrote /\ wrote[k] = tx[w].wrote[k]
          BY <1>9, <3>2
        <4>2. /\ k \in DOMAIN rows => /\ wrote[k].seq = rows[k].seq
                                      /\ wrote[k].at = rows[k].at
              /\ k \notin DOMAIN rows => lastSeq < wrote[k].seq
          BY <1>4, <4>1 DEF RowsWritten
        <4> QED BY <1>6, <1>12, <4>1, <4>2
      <3> QED BY <3>1, <3>2
    <2>2. \A j, k \in DOMAIN wrote : wrote[j].seq = wrote[k].seq => j = k
      <3>1. \A j, k \in DOMAIN tx[w].wrote :
              tx[w].wrote[j].seq = tx[w].wrote[k].seq => j = k
        BY <1>4 DEF RowsWritten
      <3>2. \A j \in DOMAIN tx[w].wrote : tx[w].wrote[j].seq # nextSeq
        BY <1>6, <1>12
      <3> QED BY <1>7, <1>9, <3>1, <3>2
    <2>3. \A s \in DOMAIN written :
            written[s].until \in Int /\ \E k \in DOMAIN wrote : wrote[k].seq = s
      <3> TAKE s \in DOMAIN written
      <3>1. CASE s = nextSeq
        <4>1. written[s] = doc
          <5>1. s \notin DOMAIN tx[w].docs
            BY <1>12, <3>1
          <5>2. e.doc # Nothing
            BY <5>1 DEF written
          <5> QED BY <1>10, <3>1, <5>2
        <4>2. wrote[e.key].seq = s /\ e.key \in DOMAIN wrote
          BY <1>7, <1>9, <3>1
        <4> QED BY <1>8, <4>1, <4>2
      <3>2. CASE s # nextSeq
        <4>1. s \in DOMAIN tx[w].docs /\ written[s] = tx[w].docs[s]
          BY <1>10, <3>2
        <4>2. PICK k \in DOMAIN tx[w].wrote : tx[w].wrote[k].seq = s
          BY <1>4, <4>1 DEF RowsWritten
        <4>3. k \in DOMAIN wrote /\ wrote[k].seq = s
          BY <1>9, <4>2
        <4>4. tx[w].docs[s].until \in Int
          BY <1>4, <4>1 DEF RowsWritten
        <4> QED BY <4>1, <4>3, <4>4
      <3> QED BY <3>1, <3>2
    <2>4. \A k \in DOMAIN rows : rows[k].seq \in DOMAIN written =>
            /\ rows[k].seq \in DOMAIN payloads
            /\ payloads[rows[k].seq].until = written[rows[k].seq].until
      <3> SUFFICES ASSUME NEW k \in DOMAIN rows, rows[k].seq \in DOMAIN written
                   PROVE  /\ rows[k].seq \in DOMAIN payloads
                          /\ payloads[rows[k].seq].until
                               = written[rows[k].seq].until
        OBVIOUS
      <3>1. rows[k].seq # nextSeq
        BY <1>6
      <3>2. rows[k].seq \in DOMAIN tx[w].docs
            /\ written[rows[k].seq] = tx[w].docs[rows[k].seq]
        BY <1>10, <3>1
      <3> QED BY <1>4, <3>2 DEF RowsWritten
    <2>5. tx'[w].wrote = wrote /\ tx'[w].docs = written
      BY <1>11, <1>14
    <2> QED BY <1>13, <2>1, <2>2, <2>3, <2>4, <2>5 DEF RowsWritten
  <1>15. ASSUME tx'[w] = x PROVE TxOf(w)'
    <2>1. TxType(tx[w])'
      BY <1>1, <1>4, <1>11, <1>15 DEF TxType
    <2> QED BY <1>1, <1>4, <1>11, <1>14, <1>15, <2>1 DEF TxOf
  <1>20. nextSeq' \in Nat /\ nextSeq <= nextSeq' /\ nextSeq' <= MaxSeq + 1
    <2>1. MaxSeq \in Nat
      BY EventAssumption DEF EventAssumption
    <2> QED BY <1>1, <1>6, <2>1
  <1> QED BY <1>1, <1>3, <1>15, <1>20, QuietTxStep

\* Laying nothing over a table changes nothing.
LEMMA OverlayOfNothing == \A f : IsFun(f) => AS!Overlay(f, AS!NoRows) = f
  BY DEF IsFun, AS!Overlay, AS!NoRows

\* A commit of rows: they are stored, and the others stay.
LEMMA CommitRows ==
    ASSUME EventsInv, NEW x, RowsWritten(x), rows' = AS!Overlay(rows, x.wrote),
           payloads' = AS!Overlay(payloads, x.docs),
           lastSeq' = AS!Highest(AS!SeqsOf(x.wrote) \cup {lastSeq}),
           UNCHANGED <<now, nextSeq>>
    PROVE  /\ RowsTyped' /\ EventNumbers' /\ PayloadsTyped'
           /\ \A k \in DOMAIN rows : /\ k \in DOMAIN rows'
                                     /\ rows'[k].seq = rows[k].seq
                                     /\ rows'[k].at = rows[k].at
  <1> DEFINE wrote == x.wrote
             T == AS!SeqsOf(wrote) \cup {lastSeq}
  <1>1. /\ \A k \in DOMAIN rows : rows[k] \in EventRow /\ rows[k].seq <= lastSeq
        /\ \A j, k \in DOMAIN rows : rows[j].seq = rows[k].seq => j = k
        /\ lastSeq \in Nat /\ nextSeq \in Nat /\ lastSeq < nextSeq
    BY DEF EventsInv, RowsTyped, EventNumbers
  <1>2. \A k \in DOMAIN wrote :
          /\ wrote[k] \in EventRow
          /\ k \in DOMAIN rows => /\ wrote[k].seq = rows[k].seq
                                  /\ wrote[k].at = rows[k].at
          /\ k \notin DOMAIN rows => lastSeq < wrote[k].seq /\ wrote[k].seq < nextSeq
    BY DEF RowsWritten
  <1>3. \A j, k \in DOMAIN wrote : wrote[j].seq = wrote[k].seq => j = k
    BY DEF RowsWritten
  <1>4. /\ DOMAIN rows' = DOMAIN rows \cup DOMAIN wrote
        /\ \A k \in DOMAIN rows' :
             rows'[k] = IF k \in DOMAIN wrote THEN wrote[k] ELSE rows[k]
    BY DEF AS!Overlay
  <1> HIDE DEF wrote
  <1>5. \A r \in EventRow : r.seq \in 1..MaxSeq /\ r.seq \in Nat
    <2>1. MaxSeq \in Nat
      BY EventAssumption DEF EventAssumption
    <2>2. \A r \in EventRow : r.seq \in 1..MaxSeq
      BY DEF EventRow
    <2> QED BY <2>1, <2>2
  <1>6. \A k \in DOMAIN wrote : wrote[k].seq \in Nat /\ wrote[k].seq < nextSeq
    BY <1>1, <1>2, <1>5
  <1>7. /\ lastSeq' \in T /\ \A n \in T : n <= lastSeq'
        /\ T \subseteq Nat /\ \A n \in T : n < nextSeq
    <2>1. T \in SUBSET Nat /\ \A n \in T : n < nextSeq
      BY <1>1, <1>6 DEF AS!SeqsOf
    <2>2. lastSeq \in T /\ T # {}
      OBVIOUS
    <2>3. lastSeq' = AS!Highest(T)
      BY DEF wrote
    <2> HIDE DEF T
    <2>4. IsFiniteSet(T)
      <3>1. \A n \in T : n <= nextSeq
        BY <1>1, <2>1
      <3> QED BY <1>1, <2>1, <3>1, FS_BoundedSetOfNaturals
    <2>5. T \subseteq Int
      BY <2>1
    <2>6. AS!Highest(T) \in T /\ \A n \in T : n <= AS!Highest(T)
      BY <2>2, <2>4, <2>5, HighestIsThere
    <2> QED BY <2>1, <2>3, <2>6
  <1>8. \A k \in DOMAIN wrote : wrote[k].seq <= lastSeq'
    BY <1>7 DEF AS!SeqsOf
  <1>9. lastSeq <= lastSeq' /\ lastSeq' \in Nat /\ lastSeq' < nextSeq
    BY <1>7
  <1> HIDE DEF T
  <1>10. RowsTyped'
    <2>1. \A k \in DOMAIN rows' : rows'[k] \in EventRow
      BY <1>1, <1>2, <1>4
    <2>2. ASSUME NEW j \in DOMAIN rows', NEW k \in DOMAIN rows',
                 rows'[j].seq = rows'[k].seq
          PROVE  j = k
      <3>1. ASSUME NEW m \in DOMAIN rows, NEW n \in DOMAIN wrote,
                   rows[m].seq = wrote[n].seq
            PROVE  m = n
        <4>1. n \in DOMAIN rows
          <5>1. rows[m].seq <= lastSeq /\ rows[m].seq \in Nat
            BY <1>1, <1>5
          <5> QED BY <1>1, <1>2, <3>1, <5>1
        <4> QED BY <1>1, <1>2, <3>1, <4>1
      <3>2. CASE j \in DOMAIN wrote /\ k \in DOMAIN wrote
        BY <1>3, <1>4, <2>2, <3>2
      <3>3. CASE j \in DOMAIN wrote /\ k \notin DOMAIN wrote
        <4>1. k \in DOMAIN rows /\ rows[k].seq = wrote[j].seq
          BY <1>4, <2>2, <3>3
        <4> QED BY <3>1, <3>3, <4>1
      <3>4. CASE j \notin DOMAIN wrote /\ k \in DOMAIN wrote
        <4>1. j \in DOMAIN rows /\ rows[j].seq = wrote[k].seq
          BY <1>4, <2>2, <3>4
        <4> QED BY <3>1, <3>4, <4>1
      <3>5. CASE j \notin DOMAIN wrote /\ k \notin DOMAIN wrote
        BY <1>1, <1>4, <2>2, <3>5
      <3> QED BY <3>2, <3>3, <3>4, <3>5
    <2> QED BY <2>1, <2>2 DEF RowsTyped
  <1>11. EventNumbers'
    <2>1. ASSUME NEW k \in DOMAIN rows' PROVE rows'[k].seq <= lastSeq'
      <3>1. CASE k \in DOMAIN wrote
        BY <1>4, <1>8, <3>1
      <3>2. CASE k \notin DOMAIN wrote
        <4>1. rows'[k] = rows[k] /\ rows[k].seq <= lastSeq /\ rows[k].seq \in Nat
          BY <1>1, <1>4, <1>5, <3>2
        <4> QED BY <1>1, <1>9, <4>1
      <3> QED BY <3>1, <3>2
    <2> QED BY <1>1, <1>9, <2>1 DEF EventsInv, EventNumbers
  <1>12. \A k \in DOMAIN rows : /\ k \in DOMAIN rows'
                                /\ rows'[k].seq = rows[k].seq
                                /\ rows'[k].at = rows[k].at
    BY <1>2, <1>4
  <1>13. PayloadsTyped'
    <2> SUFFICES ASSUME NEW s \in DOMAIN payloads'
                 PROVE  /\ payloads'[s].until \in Int
                        /\ \E k \in DOMAIN rows' : rows'[k].seq = s
      BY DEF PayloadsTyped, AS!SeqsOf
    <2>1. CASE s \in DOMAIN x.docs
      <3>1. payloads'[s] = x.docs[s]
        BY <2>1 DEF AS!Overlay
      <3>2. x.docs[s].until \in Int /\ \E k \in DOMAIN wrote : wrote[k].seq = s
        BY <2>1 DEF RowsWritten, wrote
      <3> QED BY <1>4, <3>1, <3>2
    <2>2. CASE s \notin DOMAIN x.docs
      <3>1. s \in DOMAIN payloads /\ payloads'[s] = payloads[s]
        BY <2>2 DEF AS!Overlay
      <3>2. payloads[s].until \in Int /\ \E k \in DOMAIN rows : rows[k].seq = s
        BY <3>1 DEF EventsInv, PayloadsTyped, AS!SeqsOf
      <3> QED BY <1>12, <3>1, <3>2
    <2> QED BY <2>1, <2>2
  <1> QED BY <1>10, <1>11, <1>12, <1>13

LEMMA CommitStep ==
    ASSUME EventsInv, NEW w \in Writers, AS!CommitPersist(w)
    PROVE  /\ EventsInv'
           /\ \A k \in DOMAIN rows : /\ k \in DOMAIN rows'
                                     /\ rows'[k].seq = rows[k].seq
                                     /\ rows'[k].at = rows[k].at
  <1>1. /\ tx[w].pc = "open" /\ tx[w].left = <<>>
        /\ rows' = AS!Overlay(rows, tx[w].wrote)
        /\ payloads' = AS!Overlay(payloads, tx[w].docs)
        /\ lastSeq' = AS!Highest(AS!SeqsOf(tx[w].wrote) \cup {lastSeq})
        /\ notified' = AS!Overlay(notified, tx[w].note)
        /\ outboxRow' = IF outboxRow = w THEN NoHolder ELSE outboxRow
        /\ tx' = [tx EXCEPT ![w] = AS!NoTx]
        /\ UNCHANGED <<now, nextSeq>>
    BY DEF AS!CommitPersist, AS!Released
  <1>2. TxOf(w) /\ DOMAIN tx = Writers
    BY DEF EventsInv, TxInv
  <1>3. RowsWritten(tx[w])
    BY <1>1, <1>2, NothingWritten DEF TxOf
  <1>4. /\ RowsTyped' /\ EventNumbers' /\ PayloadsTyped'
        /\ \A k \in DOMAIN rows : /\ k \in DOMAIN rows'
                                  /\ rows'[k].seq = rows[k].seq
                                  /\ rows'[k].at = rows[k].at
    BY <1>1, <1>3, CommitRows
  <1>5. TablesAreFunctions'
    BY <1>1 DEF TablesAreFunctions, IsFun, AS!Overlay
  <1>6. /\ DOMAIN tx' = Writers /\ tx'[w] = AS!NoTx
        /\ \A d \in Writers : d # w => tx'[d] = tx[d]
    BY <1>1, OneTx DEF EventsInv
  <1>7. TxOf(w)'
    <2>1. TxType(AS!NoTx)' /\ Fresh(AS!NoTx) /\ AS!NoTx.pc = "idle"
      BY <1>1, NoTxIsTyped DEF EventsInv, TxType
    <2>2. outboxRow' # w
      BY <1>1, EventAssumption DEF EventAssumption
    <2> QED BY <1>6, <2>1, <2>2 DEF TxOf, TxType, Fresh
  <1>8. ASSUME NEW d \in Writers, d # w PROVE TxOf(d)'
    <2>1. tx'[d] = tx[d] /\ TxOf(d)
      BY <1>6, <1>8 DEF EventsInv, TxInv
    <2>2. CASE outboxRow = w
      <3>1. outboxRow # d /\ outboxRow' # d
        BY <1>1, <1>8, <2>2, EventAssumption DEF EventAssumption
      <3>2. TxType(tx[d])'
        BY <1>1, <2>1 DEF TxOf, TxType
      <3> QED BY <2>1, <3>1, <3>2 DEF TxOf, Fresh
    <2>3. CASE outboxRow # w
      <3>1. Fresh(tx[w])
        BY <1>1, <1>2, <2>3 DEF TxOf
      <3>2. UNCHANGED <<rows, payloads>>
        BY <1>1, <3>1, OverlayOfNothing DEF Fresh, EventsInv, TablesAreFunctions
      <3>3. lastSeq' = lastSeq
        <4>1. AS!SeqsOf(tx[w].wrote) = {}
          BY <3>1 DEF Fresh, AS!SeqsOf, AS!NoRows
        <4>2. lastSeq' = AS!Highest({lastSeq}) /\ lastSeq \in Int
          BY <1>1, <4>1 DEF EventsInv, EventNumbers
        <4>3. AS!Highest({lastSeq}) \in {lastSeq}
          BY <4>2, HighestIsThere, FS_Singleton
        <4> QED BY <4>2, <4>3
      <3>4. outboxRow' = outboxRow /\ nextSeq' = nextSeq /\ now' = now
        BY <1>1, <2>3
      <3>5. nextSeq \in Int /\ nextSeq <= nextSeq /\ now \in Int /\ now <= now
        BY DEF EventsInv, EventNumbers
      <3> QED BY <2>1, <3>2, <3>3, <3>4, <3>5, TxStays DEF EventsInv
    <2> QED BY <2>2, <2>3
  <1>9. TxInv'
    BY <1>6, <1>7, <1>8 DEF TxInv
  <1> QED BY <1>4, <1>5, <1>9 DEF EventsInv

LEMMA TickStep ==
    ASSUME EventsInv, AS!Tick, UNCHANGED AS!txVars
    PROVE  EventsInv'
  <1>1. /\ now' = now + 1 /\ UNCHANGED <<rows, payloads, lastSeq, notified>>
        /\ UNCHANGED <<outboxRow, nextSeq, tx>>
    BY DEF AS!Tick, AS!storeVars, AS!txVars
  <1>2. now \in Nat /\ nextSeq \in Nat /\ nextSeq <= MaxSeq + 1
    BY DEF EventsInv, EventNumbers
  <1>3. now' \in Nat /\ now <= now' /\ nextSeq' \in Nat /\ nextSeq <= nextSeq'
        /\ nextSeq' <= MaxSeq + 1
    BY <1>1, <1>2
  <1>4. \A d \in Writers : TxOf(d)'
    <2> TAKE d \in Writers
    <2>1. tx'[d] = tx[d] /\ (outboxRow' = d <=> outboxRow = d)
      BY <1>1
    <2> QED BY <1>1, <1>3, <2>1, TxStays DEF EventsInv
  <1>5. TxInv'
    BY <1>1, <1>4 DEF EventsInv, TxInv
  <1> QED BY <1>1, <1>3, <1>5, SameTables DEF EventsInv

\* The retention job deletes no row that a transaction is about to store.
LEMMA PruneStep ==
    ASSUME EventsInv, NEW t, AS!Prune(t)
    PROVE  EventsInv'
  <1> DEFINE P == AS!Pruned(rows, t)
             X == AS!Expired(t)
  <1>1. /\ \A w \in Writers : /\ DOMAIN tx[w].wrote \cap P = {}
                              /\ DOMAIN tx[w].docs \cap X = {}
        /\ rows' = AS!Without(rows, P)
        /\ payloads' = AS!Without(payloads, {rows[k].seq : k \in P} \cup X)
        /\ UNCHANGED <<now, lastSeq, notified, outboxRow, nextSeq, tx>>
    BY DEF AS!Prune, AS!PruneAudit, AS!Expired, AS!txVars
  <1>2. P \subseteq DOMAIN rows
    BY DEF AS!Pruned
  <1> HIDE DEF P, X
  <1>3. /\ DOMAIN rows' = DOMAIN rows \ P
        /\ \A k \in DOMAIN rows' : rows'[k] = rows[k]
        /\ DOMAIN payloads' = DOMAIN payloads \ ({rows[k].seq : k \in P} \cup X)
        /\ \A s \in DOMAIN payloads' : payloads'[s] = payloads[s]
    BY <1>1 DEF AS!Without
  <1>4. RowsTyped'
    BY <1>3 DEF EventsInv, RowsTyped
  <1>5. EventNumbers'
    BY <1>1, <1>3 DEF EventsInv, EventNumbers
  <1>6. PayloadsTyped'
    <2> SUFFICES ASSUME NEW s \in DOMAIN payloads'
                 PROVE  /\ payloads'[s].until \in Int
                        /\ \E k \in DOMAIN rows' : rows'[k].seq = s
      BY DEF PayloadsTyped, AS!SeqsOf
    <2>1. s \in DOMAIN payloads /\ payloads'[s] = payloads[s]
      BY <1>3
    <2>2. PICK k \in DOMAIN rows : rows[k].seq = s
      BY <2>1 DEF EventsInv, PayloadsTyped, AS!SeqsOf
    <2>3. k \notin P
      BY <1>3, <2>2
    <2> QED BY <1>3, <2>1, <2>2, <2>3 DEF EventsInv, PayloadsTyped
  <1>7. TablesAreFunctions'
    BY <1>1 DEF EventsInv, TablesAreFunctions, IsFun, AS!Without
  <1>8. ASSUME NEW w \in Writers PROVE TxOf(w)'
    <2>1. TxOf(w)
      BY DEF EventsInv, TxInv
    <2>2. TxType(tx[w])'
      BY <1>1, <2>1 DEF TxOf, TxType
    <2>3. ASSUME RowsWritten(tx[w]) PROVE RowsWritten(tx[w])'
      <3> DEFINE x == tx[w]
      <3>1. /\ \A k \in DOMAIN x.wrote :
                 /\ x.wrote[k] \in EventRow
                 /\ k \in DOMAIN rows => /\ x.wrote[k].seq = rows[k].seq
                                         /\ x.wrote[k].at = rows[k].at
                 /\ k \notin DOMAIN rows => /\ lastSeq < x.wrote[k].seq
                                            /\ x.wrote[k].seq < nextSeq
            /\ \A j, k \in DOMAIN x.wrote : x.wrote[j].seq = x.wrote[k].seq => j = k
            /\ \A s \in DOMAIN x.docs :
                 x.docs[s].until \in Int /\ \E k \in DOMAIN x.wrote : x.wrote[k].seq = s
        BY <2>3 DEF RowsWritten
      <3>2. \A k \in DOMAIN x.wrote : k \in DOMAIN rows' <=> k \in DOMAIN rows
        BY <1>1, <1>3
      <3>3. ASSUME NEW k \in DOMAIN rows', rows'[k].seq \in DOMAIN x.docs
            PROVE  /\ rows'[k].seq \in DOMAIN payloads'
                   /\ payloads'[rows'[k].seq].until = x.docs[rows'[k].seq].until
        <4>1. k \in DOMAIN rows /\ k \notin P /\ rows'[k] = rows[k]
          BY <1>3
        <4>2. /\ rows[k].seq \in DOMAIN payloads
              /\ payloads[rows[k].seq].until = x.docs[rows[k].seq].until
          BY <2>3, <3>3, <4>1 DEF RowsWritten
        <4>3. rows[k].seq \notin {rows[j].seq : j \in P}
          BY <1>2, <4>1 DEF EventsInv, RowsTyped
        <4>4. rows[k].seq \notin X
          BY <1>1, <3>3, <4>1
        <4> QED BY <1>3, <4>1, <4>2, <4>3, <4>4
      <3>4. tx' = tx /\ lastSeq' = lastSeq /\ nextSeq' = nextSeq
        BY <1>1
      <3>5. \A k \in DOMAIN x.wrote :
              /\ k \in DOMAIN rows' => /\ x.wrote[k].seq = rows'[k].seq
                                       /\ x.wrote[k].at = rows'[k].at
              /\ k \notin DOMAIN rows' => /\ lastSeq < x.wrote[k].seq
                                          /\ x.wrote[k].seq < nextSeq
        BY <1>3, <3>1, <3>2
      <3> QED BY <3>1, <3>3, <3>4, <3>5 DEF RowsWritten
    <2> QED BY <1>1, <2>1, <2>2, <2>3 DEF TxOf, Fresh
  <1>9. TxInv'
    BY <1>1, <1>8 DEF EventsInv, TxInv
  <1> QED BY <1>4, <1>5, <1>6, <1>7, <1>9 DEF EventsInv

LEMMA InitEvents == AS!InitStore => EventsInv
  <1> SUFFICES ASSUME AS!InitStore PROVE EventsInv
    OBVIOUS
  <1>1. /\ now = 0 /\ lastSeq = 0 /\ nextSeq = 1 /\ outboxRow = NoHolder
        /\ rows = [k \in {} |-> 0] /\ payloads = [s \in {} |-> 0]
        /\ notified = [k \in Keys |-> Nothing]
        /\ tx = [w \in Writers |-> AS!NoTx]
    BY DEF AS!InitStore, AS!Init
  <1>2. RowsTyped /\ PayloadsTyped /\ TablesAreFunctions
    BY <1>1 DEF RowsTyped, PayloadsTyped, TablesAreFunctions, IsFun
  <1>3. EventNumbers
    BY <1>1, EventAssumption DEF EventNumbers, EventAssumption
  <1>4. TxInv
    <2>1. TxType(AS!NoTx) /\ Fresh(AS!NoTx) /\ AS!NoTx.pc = "idle"
      BY <1>3, NoTxIsTyped
    <2> QED BY <1>1, <2>1, EventAssumption DEF EventAssumption, TxInv, TxOf
  <1> QED BY <1>2, <1>3, <1>4 DEF EventsInv

LEMMA QuietEvents ==
    ASSUME EventsInv, UNCHANGED <<now, rows, payloads, lastSeq, notified,
                                  outboxRow, nextSeq, tx>>
    PROVE  EventsInv'
  BY DEF EventsInv, RowsTyped, EventNumbers, PayloadsTyped, TablesAreFunctions,
         IsFun, TxInv, TxOf, TxType, RowsWritten, Fresh, AS!SeqsOf

LEMMA NextEvents == EventsInv /\ [AS!NextStore]_(AS!vars) => EventsInv'
  <1> SUFFICES ASSUME EventsInv, [AS!NextStore]_(AS!vars) PROVE EventsInv'
    OBVIOUS
  <1>1. CASE AS!Tick /\ UNCHANGED <<AS!txVars, eventListing>>
    BY <1>1, TickStep
  <1>2. ASSUME NEW w \in Writers, AS!Persist(w) PROVE EventsInv'
    BY <1>2, BeginStep, LockAndStampStep, UpdateStep, InsertStep, SkipStep,
       CommitStep, RollbackStep DEF AS!Persist
  <1>3. ASSUME NEW t, AS!Prune(t) PROVE EventsInv'
    BY <1>3, PruneStep
  <1>4. ASSUME NEW r \in Readers, AS!List(r) PROVE EventsInv'
    BY <1>4, QuietEvents DEF AS!List, AS!StartListing, AS!ReadPage,
       AS!FinishListing, AS!storeVars, AS!txVars
  <1>5. CASE UNCHANGED AS!vars
    BY <1>5, QuietEvents DEF AS!vars, AS!storeVars, AS!txVars
  <1> QED BY <1>1, <1>2, <1>3, <1>4, <1>5 DEF AS!NextStore

-----------------------------------------------------------------------------
(* The pages of a listing of events *)

Shown(l) == UNION {l.got[i] : i \in DOMAIN l.got}
InOrderShown(l) == \A i, j \in DOMAIN l.got : i < j =>
                     \A p \in l.got[i], q \in l.got[j] : AS!Before(p, q)

\* The cursor is the last place shown.
CursorIsLast(l) ==
    \/ l.cursor = <<>> /\ l.got = <<>>
    \/ /\ l.cursor \in Places
       /\ \A i \in DOMAIN l.got : \A p \in l.got[i] :
            p = l.cursor \/ AS!Before(p, l.cursor)

\* What is due and has not been shown is still there, beyond the cursor.
DueIsAhead(l) ==
    \A p \in l.due : p \in Shown(l) \/ \E k \in AS!Remaining(l) :
                                          AS!Place(rows[k]) = p

ListingOK(l) ==
    /\ DOMAIN l = {"pc", "keys", "water", "cursor", "got", "due"}
    /\ l.pc \in {"idle", "paging", "done"}
    /\ l.got \in Seq(SUBSET Places)
    /\ InOrderShown(l)
    /\ l.pc = "paging" => CursorIsLast(l) /\ DueIsAhead(l)
    /\ l.pc = "done" => l.due \subseteq Shown(l)

ListingsInv == /\ DOMAIN eventListing = Readers
               /\ \A r \in Readers : ListingOK(eventListing[r])

\* Rows that keep their number and their time stay on the list.
LEMMA ListingStays ==
    ASSUME NEW l, ListingOK(l),
           \A k \in DOMAIN rows : /\ k \in DOMAIN rows'
                                  /\ rows'[k].seq = rows[k].seq
                                  /\ rows'[k].at = rows[k].at
    PROVE  ListingOK(l)'
  <1>1. ASSUME NEW k \in AS!Remaining(l)
        PROVE  k \in AS!Remaining(l)' /\ AS!Place(rows'[k]) = AS!Place(rows[k])
    BY <1>1 DEF AS!Remaining, AS!Place
  <1>2. DueIsAhead(l) => DueIsAhead(l)'
    BY <1>1 DEF DueIsAhead
  <1> QED BY <1>2 DEF ListingOK

LEMMA SameListings ==
    ASSUME ListingsInv, UNCHANGED eventListing,
           \A k \in DOMAIN rows : /\ k \in DOMAIN rows'
                                  /\ rows'[k].seq = rows[k].seq
                                  /\ rows'[k].at = rows[k].at
    PROVE  ListingsInv'
  <1>1. \A r \in Readers : ListingOK(eventListing[r])'
    BY ListingStays DEF ListingsInv
  <1> QED BY <1>1 DEF ListingsInv

\* One reader goes on, and no row changes.
LEMMA OneListing ==
    ASSUME ListingsInv, NEW r \in Readers, NEW l, ListingOK(l), UNCHANGED rows,
           eventListing' = [eventListing EXCEPT ![r] = l]
    PROVE  ListingsInv'
  <1>1. /\ DOMAIN eventListing' = Readers /\ eventListing'[r] = l
        /\ \A d \in Readers : d # r => eventListing'[d] = eventListing[d]
    BY DEF ListingsInv
  <1>3. ASSUME NEW d \in Readers PROVE ListingOK(eventListing[d])'
    <2>1. CASE d = r
      <3>1. eventListing'[d] = l /\ rows' = rows
        BY <1>1, <2>1
      <3> QED BY <3>1 DEF ListingOK, CursorIsLast, DueIsAhead, AS!Remaining
    <2>2. CASE d # r
      <3>1. eventListing'[d] = eventListing[d] /\ ListingOK(eventListing[d])
        BY <1>1, <2>2 DEF ListingsInv
      <3>2. rows' = rows
        OBVIOUS
      <3> QED BY <3>1, <3>2 DEF ListingOK, CursorIsLast, DueIsAhead, AS!Remaining
    <2> QED BY <2>1, <2>2
  <1> QED BY <1>1, <1>3 DEF ListingsInv

LEMMA NoListingIsOK == ListingOK(AS!NoListing) /\ ListingOK(AS!NoListing)'
  BY DEF AS!NoListing, ListingOK, InOrderShown

LEMMA StartListingStep ==
    ASSUME RowsTyped, TablesAreFunctions, ListingsInv, NEW r \in Readers,
           NEW keys, AS!StartListing(r, keys)
    PROVE  ListingsInv'
  <1> DEFINE water == AS!Highest(AS!SeqsOf(rows))
             due   == {AS!Place(rows[k]) : k \in keys \cap DOMAIN rows}
             l == [AS!NoListing EXCEPT !.pc = "paging", !.keys = keys,
                                       !.water = water, !.due = due]
  <1>1. /\ rows # AS!NoRows /\ UNCHANGED rows
        /\ eventListing' = [eventListing EXCEPT ![r] = l]
    BY DEF AS!StartListing, AS!storeVars
  <1>2. \A k \in DOMAIN rows : rows[k].seq <= water
    <2>1. DOMAIN rows # {}
      BY <1>1 DEF TablesAreFunctions, IsFun, AS!NoRows
    <2> DEFINE S == AS!SeqsOf(rows)
    <2>2. S \subseteq 1..MaxSeq /\ S # {}
      BY <2>1 DEF AS!SeqsOf, RowsTyped, EventRow
    <2>3. \A k \in DOMAIN rows : rows[k].seq \in S
      BY DEF AS!SeqsOf
    <2>4. MaxSeq \in Nat
      BY EventAssumption DEF EventAssumption
    <2> HIDE DEF S
    <2>5. S \subseteq Int /\ S \in SUBSET (1..MaxSeq)
      BY <2>2, <2>4
    <2>6. IsFiniteSet(S)
      <3>1. IsFiniteSet(1..MaxSeq)
        BY <2>4, FS_Interval
      <3> QED BY <2>5, <3>1, FS_Subset
    <2>7. \A n \in S : n <= AS!Highest(S)
      BY <2>2, <2>5, <2>6, HighestIsThere
    <2> QED BY <2>3, <2>7 DEF S
  <1>3. /\ DOMAIN l = {"pc", "keys", "water", "cursor", "got", "due"}
        /\ l.pc = "paging" /\ l.keys = keys /\ l.water = water
        /\ l.cursor = <<>> /\ l.got = <<>> /\ l.due = due
    BY DEF AS!NoListing
  <1> HIDE DEF l, water
  <1>4. DueIsAhead(l)
    <2> SUFFICES ASSUME NEW k \in keys \cap DOMAIN rows
                 PROVE  k \in AS!Remaining(l)
      BY <1>3 DEF DueIsAhead
    <2> QED BY <1>2, <1>3 DEF AS!Remaining
  <1>5. ListingOK(l)
    BY <1>3, <1>4 DEF ListingOK, InOrderShown, CursorIsLast
  <1> QED BY <1>1, <1>5, OneListing

\* One more page.
LEMMA ShownMore ==
    ASSUME NEW got \in Seq(SUBSET Places), NEW page \in SUBSET Places,
           NEW more, more = Append(got, page)
    PROVE  /\ more \in Seq(SUBSET Places) /\ Len(got) \in Nat
           /\ DOMAIN got = 1..Len(got) /\ DOMAIN more = 1..Len(got) + 1
           /\ \A i \in 1..Len(got) : more[i] = got[i]
           /\ more[Len(got) + 1] = page
  OBVIOUS

\* The instance counts as this module does.
LEMMA SameCardinality == \A S : AS!Cardinality(S) = Cardinality(S)
  BY DEF AS!Cardinality, Cardinality

\* A page is what leads in what is left.
LEMMA PageIsLeading == \A l : AS!PageOf(l) = Leading(AS!Remaining(l))
  BY Zenon, SameCardinality DEF AS!PageOf, Leading, Ahead

\* The listing after one more page.
PagedTo(l) ==
  [l EXCEPT !.pc = IF Cardinality(AS!Remaining(l)) <= Limit THEN "done" ELSE "paging",
            !.cursor = IF Cardinality(AS!Remaining(l)) <= Limit THEN <<>>
                       ELSE AS!LastOf({AS!Place(rows[k]) : k \in AS!PageOf(l)}),
            !.got = Append(@, {AS!Place(rows[k]) : k \in AS!PageOf(l)})]

LEMMA PagedStep ==
    ASSUME NEW r \in Readers, AS!ReadPage(r), DOMAIN eventListing = Readers
    PROVE  /\ eventListing[r].pc = "paging" /\ UNCHANGED rows
           /\ eventListing' = [eventListing EXCEPT ![r] = PagedTo(eventListing[r])]
  BY SameCardinality DEF AS!ReadPage, AS!storeVars, PagedTo

LEMMA ReadPageStep ==
    ASSUME RowsTyped, ListingsInv, NEW r \in Readers, AS!ReadPage(r)
    PROVE  ListingsInv'
  <1> DEFINE l == eventListing[r]
             S == AS!Remaining(l)
             page == {AS!Place(rows[k]) : k \in Leading(S)}
             isEnd == Cardinality(S) <= Limit
             m == [l EXCEPT !.pc = IF isEnd THEN "done" ELSE "paging",
                            !.cursor = IF isEnd THEN <<>> ELSE AS!LastOf(page),
                            !.got = Append(@, page)]
  <1>1. AS!PageOf(l) = Leading(S)
    <2> HIDE DEF l, S
    <2> QED BY PageIsLeading DEF S
  <1>2. ListingOK(l) /\ DOMAIN eventListing = Readers
    BY DEF ListingsInv
  <1>3. /\ l.pc = "paging" /\ UNCHANGED rows
        /\ eventListing' = [eventListing EXCEPT ![r] = m]
    <2>1. /\ l.pc = "paging" /\ UNCHANGED rows
          /\ eventListing' = [eventListing EXCEPT ![r] = PagedTo(l)]
      BY <1>2, PagedStep
    <2>2. PagedTo(l) = m
      <3> HIDE DEF l
      <3> QED BY <1>1 DEF PagedTo
    <2> QED BY <2>1, <2>2
  <1>4. /\ l.got \in Seq(SUBSET Places) /\ InOrderShown(l)
        /\ CursorIsLast(l) /\ DueIsAhead(l)
    BY <1>2, <1>3 DEF ListingOK
  <1>5. /\ S \subseteq DOMAIN rows
        /\ l.cursor # <<>> => \A k \in S : AS!Before(l.cursor, AS!Place(rows[k]))
    BY DEF AS!Remaining
  <1>6. /\ IsFiniteSet(S)
        /\ Cardinality(S) <= Limit => Leading(S) = S
        /\ Cardinality(S) > Limit => Leading(S) # {}
        /\ \A j \in Leading(S), k \in S \ Leading(S) :
             AS!Before(AS!Place(rows[j]), AS!Place(rows[k]))
        /\ Leading(S) \subseteq S
    <2> HIDE DEF S
    <2>1. Leading(S) \subseteq S
      BY DEF Leading
    <2> QED BY <1>5, <2>1, PageLeads
  <1>7. /\ DOMAIN m = {"pc", "keys", "water", "cursor", "got", "due"}
        /\ m.pc = (IF isEnd THEN "done" ELSE "paging")
        /\ m.cursor = (IF isEnd THEN <<>> ELSE AS!LastOf(page))
        /\ m.got = Append(l.got, page)
        /\ m.keys = l.keys /\ m.water = l.water /\ m.due = l.due
    BY <1>2 DEF ListingOK
  <1>8. page \in SUBSET Places
    BY <1>5, <1>6, PlacesAreDistinct
  <1>9. \A k \in Leading(S) : AS!Place(rows[k]) \in page
    OBVIOUS
  <1>10. \A p \in page : \E k \in Leading(S) : p = AS!Place(rows[k])
    OBVIOUS
  <1>11. isEnd \/ Cardinality(S) > Limit
    <2>1. Cardinality(S) \in Nat /\ Limit \in Nat
      BY <1>6, FS_CardinalityType, SpanAssumption DEF SpanAssumption
    <2> QED BY <2>1
  <1>12. IsFiniteSet(page)
    <2> DEFINE T == Leading(S)
               f == [k \in T |-> AS!Place(rows[k])]
    <2>1. IsFiniteSet(T)
      <3> HIDE DEF S
      <3> QED BY <1>6, FS_Subset
    <2>2. f = [k \in T |-> f[k]] /\ page = {f[k] : k \in T}
      OBVIOUS
    <2> HIDE DEF f, T, page
    <2> QED BY <2>1, <2>2, FiniteImage
  <1> HIDE DEF page, m, S, isEnd
  <1>13. /\ m.got \in Seq(SUBSET Places) /\ Len(l.got) \in Nat
         /\ DOMAIN l.got = 1..Len(l.got) /\ DOMAIN m.got = 1..Len(l.got) + 1
         /\ \A i \in 1..Len(l.got) : m.got[i] = l.got[i]
         /\ m.got[Len(l.got) + 1] = page
    BY <1>4, <1>7, <1>8, ShownMore
  <1>14. \A i \in DOMAIN l.got : \A p \in l.got[i], q \in page : AS!Before(p, q)
    <2> SUFFICES ASSUME NEW i \in DOMAIN l.got, NEW p \in l.got[i], NEW q \in page
                 PROVE  AS!Before(p, q)
      OBVIOUS
    <2>1. l.cursor \in Places /\ (p = l.cursor \/ AS!Before(p, l.cursor))
      <3>1. l.got # <<>>
        OBVIOUS
      <3> QED BY <1>4, <3>1 DEF CursorIsLast
    <2>2. AS!Before(l.cursor, q)
      <3>1. l.cursor # <<>>
        BY <2>1 DEF Places
      <3> QED BY <1>5, <1>6, <1>10, <3>1
    <2>3. p \in Places /\ q \in Places
      BY <1>4, <1>8
    <2> QED BY <2>1, <2>2, <2>3, PlacesAreOrdered
  <1>15. InOrderShown(m)
    <2> SUFFICES ASSUME NEW i \in DOMAIN m.got, NEW j \in DOMAIN m.got, i < j,
                        NEW p \in m.got[i], NEW q \in m.got[j]
                 PROVE  AS!Before(p, q)
      BY DEF InOrderShown
    <2>1. i \in 1..Len(l.got) /\ p \in l.got[i]
      BY <1>13
    <2>2. CASE j \in 1..Len(l.got)
      <3>1. q \in l.got[j]
        BY <1>13, <2>2
      <3> QED BY <1>4, <1>13, <2>1, <2>2, <3>1 DEF InOrderShown
    <2>3. CASE j = Len(l.got) + 1
      BY <1>13, <1>14, <2>1, <2>3
    <2> QED BY <1>13, <2>2, <2>3
  <1>16. Shown(l) \subseteq Shown(m) /\ page \subseteq Shown(m)
    <2>1. \A i \in DOMAIN l.got : i \in DOMAIN m.got /\ m.got[i] = l.got[i]
      BY <1>13
    <2>2. Len(l.got) + 1 \in DOMAIN m.got
      BY <1>13
    <2> QED BY <1>13, <2>1, <2>2 DEF Shown
  <1>17. CASE isEnd
    <2>1. Leading(S) = S
      BY <1>6, <1>17 DEF isEnd
    <2>2. m.due \subseteq Shown(m)
      BY <1>4, <1>7, <1>9, <1>16, <2>1 DEF DueIsAhead, S
    <2>3. m.pc = "done"
      BY <1>7, <1>17
    <2>4. ListingOK(m)
      BY <1>7, <1>13, <1>15, <2>2, <2>3 DEF ListingOK
    <2> QED BY <1>3, <2>4, OneListing
  <1>18. CASE ~isEnd
    <2> DEFINE c == AS!LastOf(page)
    <2>1. page # {}
      BY <1>6, <1>9, <1>11, <1>18
    <2>2. c \in page /\ \A q \in page : c = q \/ AS!Before(q, c)
      <3>1. \E n \in page : \A s \in page : s = n \/ AS!Before(s, n)
        BY <1>8, <1>12, <2>1, ExtremesAreThere
      <3>2. \E n \in page : \A s \in page : n = s \/ AS!Before(s, n)
        BY <3>1
      <3> QED BY <3>2 DEF AS!LastOf
    <2> HIDE DEF c
    <2>3. m.pc = "paging" /\ m.cursor = c /\ c \in Places
      BY <1>7, <1>8, <1>18, <2>2 DEF c
    <2>4. CursorIsLast(m)
      <3> SUFFICES ASSUME NEW i \in DOMAIN m.got, NEW p \in m.got[i]
                   PROVE  p = c \/ AS!Before(p, c)
        BY <2>3 DEF CursorIsLast
      <3>1. CASE i \in 1..Len(l.got)
        BY <1>13, <1>14, <2>2, <3>1
      <3>2. CASE i = Len(l.got) + 1
        BY <1>13, <2>2, <3>2
      <3> QED BY <1>13, <3>1, <3>2
    <2>5. DueIsAhead(m)
      <3> SUFFICES ASSUME NEW k \in S, AS!Place(rows[k]) \notin page
                   PROVE  k \in AS!Remaining(m)
        BY <1>4, <1>7, <1>16 DEF DueIsAhead, S
      <3>1. k \notin Leading(S)
        BY <1>9
      <3>2. PICK j \in Leading(S) : c = AS!Place(rows[j])
        BY <1>10, <2>2
      <3>3. AS!Before(c, AS!Place(rows[k]))
        BY <1>6, <3>1, <3>2
      <3>4. k \in l.keys \cap DOMAIN rows /\ rows[k].seq <= l.water
        BY DEF S, AS!Remaining
      <3> QED BY <1>7, <2>3, <3>3, <3>4 DEF AS!Remaining
    <2>6. ListingOK(m)
      BY <1>7, <1>13, <1>15, <2>3, <2>4, <2>5 DEF ListingOK
    <2> QED BY <1>3, <2>6, OneListing
  <1> QED BY <1>17, <1>18

\* What is deleted is due no longer.
LEMMA PruneListings ==
    ASSUME RowsTyped, ListingsInv, NEW t, AS!Prune(t)
    PROVE  ListingsInv'
  <1> DEFINE P == AS!Pruned(rows, t)
             gone == {AS!Place(rows[k]) : k \in P}
  <1>1. /\ rows' = AS!Without(rows, P)
        /\ eventListing' = [r \in Readers |->
                              [eventListing[r] EXCEPT !.due = @ \ gone]]
    BY DEF AS!Prune, AS!PruneAudit
  <1> HIDE DEF P
  <1>2. ASSUME NEW r \in Readers PROVE ListingOK(eventListing[r])'
    <2> DEFINE l == eventListing[r]
               m == eventListing'[r]
    <2>1. ListingOK(l)
      BY DEF ListingsInv
    <2>2. /\ DOMAIN m = DOMAIN l /\ m.pc = l.pc /\ m.keys = l.keys
          /\ m.water = l.water /\ m.cursor = l.cursor /\ m.got = l.got
          /\ m.due = l.due \ gone
      BY <1>1, <2>1 DEF ListingOK
    <2>3. /\ DOMAIN rows' = DOMAIN rows \ P
          /\ \A k \in DOMAIN rows' : rows'[k] = rows[k]
      BY <1>1 DEF AS!Without
    <2>4. \A k \in DOMAIN rows \ P : AS!Place(rows[k])' = AS!Place(rows[k])
      BY <2>3 DEF AS!Place
    <2>5. DueIsAhead(l) => DueIsAhead(eventListing[r])'
      <3> SUFFICES ASSUME DueIsAhead(l), NEW p \in l.due \ gone, p \notin Shown(l)
                   PROVE  \E k \in AS!Remaining(eventListing[r])' :
                            AS!Place(rows[k])' = p
        BY <2>2 DEF DueIsAhead, Shown
      <3>1. PICK k \in AS!Remaining(l) : AS!Place(rows[k]) = p
        BY DEF DueIsAhead
      <3>2. k \in DOMAIN rows \ P
        BY <3>1 DEF AS!Remaining
      <3>3. k \in AS!Remaining(eventListing[r])'
        BY <2>2, <2>3, <2>4, <3>1, <3>2 DEF AS!Remaining
      <3> QED BY <2>4, <3>1, <3>2, <3>3
    <2> QED BY <2>1, <2>2, <2>5 DEF ListingOK, InOrderShown, CursorIsLast, Shown
  <1>3. DOMAIN eventListing' = Readers
    BY <1>1
  <1> QED BY <1>2, <1>3 DEF ListingsInv

LEMMA NextListings ==
    EventsInv /\ ListingsInv /\ [AS!NextStore]_(AS!vars) => ListingsInv'
  <1> SUFFICES ASSUME EventsInv, ListingsInv, [AS!NextStore]_(AS!vars)
               PROVE  ListingsInv'
    OBVIOUS
  <1>1. ASSUME UNCHANGED <<rows, eventListing>> PROVE ListingsInv'
    BY <1>1, SameListings
  <1>2. CASE AS!Tick /\ UNCHANGED <<AS!txVars, eventListing>>
    BY <1>1, <1>2 DEF AS!Tick, AS!storeVars
  <1>3. ASSUME NEW w \in Writers, AS!CommitPersist(w) PROVE ListingsInv'
    <2>1. UNCHANGED eventListing
      BY <1>3 DEF AS!CommitPersist
    <2> QED BY <1>3, <2>1, CommitStep, SameListings
  <1>4. ASSUME NEW w \in Writers, AS!Persist(w), ~AS!CommitPersist(w)
        PROVE  ListingsInv'
    <2>1. UNCHANGED <<rows, eventListing>>
      BY <1>4 DEF AS!Persist, AS!BeginPersist, AS!LockAndStamp, AS!UpdateEvent,
         AS!InsertEvent, AS!SkipEvent, AS!RollbackPersist, AS!storeVars
    <2> QED BY <1>1, <2>1
  <1>5. ASSUME NEW t, AS!Prune(t) PROVE ListingsInv'
    BY <1>5, PruneListings DEF EventsInv
  <1>6. ASSUME NEW r \in Readers, AS!FinishListing(r) PROVE ListingsInv'
    <2>1. /\ eventListing' = [eventListing EXCEPT ![r] = AS!NoListing]
          /\ UNCHANGED rows
      BY <1>6 DEF AS!FinishListing, AS!storeVars
    <2> QED BY <2>1, NoListingIsOK, OneListing
  <1>7. ASSUME NEW r \in Readers, AS!List(r) PROVE ListingsInv'
    BY <1>6, <1>7, StartListingStep, ReadPageStep DEF AS!List, EventsInv
  <1>8. CASE UNCHANGED AS!vars
    BY <1>1, <1>8 DEF AS!vars, AS!storeVars
  <1> QED BY <1>2, <1>3, <1>4, <1>5, <1>7, <1>8 DEF AS!NextStore

LEMMA InitListings == AS!InitStore => ListingsInv
  BY NoListingIsOK DEF AS!InitStore, ListingsInv

LEMMA ListingsMeaning == ListingsInv => AS!ListingsAreExact
  <1> SUFFICES ASSUME ListingsInv, NEW r \in Readers
               PROVE  /\ InOrderShown(eventListing[r])
                      /\ eventListing[r].pc = "done" =>
                           eventListing[r].due \subseteq Shown(eventListing[r])
    BY DEF AS!ListingsAreExact, InOrderShown, Shown
  <1> QED BY DEF ListingsInv, ListingOK
-----------------------------------------------------------------------------
(* Pages of a listing of traces *)

ShownLists(l) == UNION {l.got[i] : i \in DOMAIN l.got}

\* Later pages show lower numbers, and none below the position; what is due
\* is shown or still ahead.
ListsInOrder(l) == \A i, j \in DOMAIN l.got : i < j =>
                     \A m \in l.got[i], n \in l.got[j] : m > n
AbovePosition(l) == \A i \in DOMAIN l.got : \A n \in l.got[i] :
                      l.position # 0 /\ l.position <= n
DueIsBelow(l) == \A n \in l.due : \/ n \in ShownLists(l)
                                  \/ n \in Lists /\ Below(l.water, l.position, n)

TraceListingOK(l) ==
    /\ DOMAIN l = {"pc", "water", "position", "got", "due"}
    /\ l.pc \in {"idle", "paging", "done"}
    /\ l.got \in Seq(SUBSET Nat) /\ ListsInOrder(l)
    /\ l.pc = "paging" => /\ l.position \in Nat
                          /\ AbovePosition(l) /\ DueIsBelow(l)
    /\ l.pc = "done" => l.due \subseteq ShownLists(l)
TraceListingsInv == /\ DOMAIN listing = Readers
                    /\ \A r \in Readers : TraceListingOK(listing[r])

\* Lists are numbers that were drawn, and finitely many.
LEMMA ListsAreNumbers ==
    ASSUME Numbers
    PROVE  /\ Lists \subseteq Nat \ {0} /\ Lists \subseteq 1..nextList - 1
           /\ IsFiniteSet(Lists)
  <1>1. Lists \subseteq 1..nextList - 1 /\ nextList - 1 \in Nat
    BY DEF Numbers, Lists
  <1> HIDE DEF Lists
  <1>2. IsFiniteSet(1..nextList - 1)
    BY <1>1, FS_Interval
  <1>3. Lists \in SUBSET (1..nextList - 1)
    BY <1>1
  <1>4. IsFiniteSet(Lists)
    BY <1>2, <1>3, FS_Subset
  <1>5. \A n \in 1..nextList - 1 : n \in Nat \ {0}
    BY <1>1
  <1> QED BY <1>1, <1>4, <1>5

\* A page: the greatest of what is left, and something unless nothing is.
LEMMA PageOfLists ==
    ASSUME NEW rest, IsFiniteSet(rest), rest \subseteq Nat, NEW page,
           page = {n \in rest : Cardinality({m \in rest : m > n}) < Limit}
    PROVE  /\ page \subseteq rest /\ IsFiniteSet(page)
           /\ page # rest => page # {}
           /\ \A m \in page, n \in rest \ page : n < m
  <1> DEFINE Over(n) == {m \in rest : m > n}
  <1>1. page \subseteq rest /\ IsFiniteSet(page)
    <2>1. page \in SUBSET rest
      OBVIOUS
    <2> QED BY <2>1, FS_Subset
  <1>2. \A n \in rest : Over(n) \in SUBSET rest /\ IsFiniteSet(Over(n))
                        /\ Cardinality(Over(n)) \in Nat
    <2> TAKE n \in rest
    <2>1. Over(n) \in SUBSET rest
      OBVIOUS
    <2> HIDE DEF Over
    <2> QED BY <2>1, FS_Subset, FS_CardinalityType
  <1>3. \A n \in rest : n \in page <=> Cardinality(Over(n)) < Limit
    OBVIOUS
  <1>4. Limit \in Nat /\ 0 < Limit
    BY SpanAssumption DEF SpanAssumption
  <1>5. ASSUME page # rest PROVE page # {}
    <2>1. rest # {} /\ rest \subseteq Int
      BY <1>1, <1>5
    <2>2. PICK g \in rest : \A n \in rest : n <= g
      BY <2>1, NumbersHaveEnds
    <2>3. Over(g) = {}
      <3> SUFFICES ASSUME NEW m \in rest, m > g PROVE FALSE
        OBVIOUS
      <3>1. m \in Int /\ g \in Int /\ m <= g
        BY <2>1, <2>2
      <3> QED BY <3>1
    <2> HIDE DEF Over
    <2>4. Cardinality(Over(g)) = 0
      BY <2>3, FS_EmptySet
    <2> QED BY <1>3, <1>4, <2>4
  <1>6. ASSUME NEW m \in page, NEW n \in rest \ page PROVE n < m
    <2>1. m \in Nat /\ n \in Nat /\ m \in rest /\ n \in rest /\ m # n
      BY <1>1
    <2>2. ASSUME m < n PROVE FALSE
      <3>1. Over(n) \in SUBSET Over(m)
        <4> SUFFICES ASSUME NEW k \in rest, k > n PROVE k > m
          OBVIOUS
        <4>1. k \in Nat
          OBVIOUS
        <4> QED BY <2>1, <2>2, <4>1
      <3> HIDE DEF Over
      <3>2. Cardinality(Over(n)) <= Cardinality(Over(m))
        BY <1>2, <2>1, <3>1, FS_Subset
      <3>3. Cardinality(Over(m)) < Limit /\ ~(Cardinality(Over(n)) < Limit)
        BY <1>3, <2>1, <1>6
      <3> QED BY <1>2, <1>4, <2>1, <3>2, <3>3
    <2> QED BY <2>1, <2>2
  <1> QED BY <1>1, <1>5, <1>6

\* A step of one reader's listing.
LEMMA OneTraceListing ==
    ASSUME TraceListingsInv, NEW r \in Readers, NEW x, UNCHANGED tables,
           listing' = [listing EXCEPT ![r] = x], TraceListingOK(x)
    PROVE  TraceListingsInv'
  <1>1. Lists' = Lists
    BY DEF tables, Lists
  <1>2. /\ DOMAIN listing' = Readers /\ listing'[r] = x
        /\ \A q \in Readers \ {r} : listing'[q] = listing[q]
    BY DEF TraceListingsInv
  <1>3. ASSUME NEW q \in Readers PROVE TraceListingOK(listing[q])'
    <2>1. TraceListingOK(listing'[q])
      BY <1>2 DEF TraceListingsInv
    <2> QED BY <1>1, <2>1 DEF TraceListingOK, ListsInOrder, AbovePosition,
                              DueIsBelow, ShownLists, Below
  <1> QED BY <1>2, <1>3 DEF TraceListingsInv

\* A listing that has not begun promises nothing.
LEMMA NothingListed == TraceListingOK(NoListing)
  BY DEF TraceListingOK, NoListing, ListsInOrder, ShownLists

\* A listing begins: all that is there is due, and ahead.
LEMMA StartTraceListing ==
    ASSUME TraceListingsInv, Numbers, NEW r \in Readers, StartListing(r)
    PROVE  TraceListingsInv'
  <1> DEFINE x == [NoListing EXCEPT !.pc = "paging", !.water = Greatest(Lists),
                                    !.due = Lists]
  <1>1. /\ Lists # {} /\ listing' = [listing EXCEPT ![r] = x]
        /\ UNCHANGED tables
    BY DEF StartListing
  <1>2. \A n \in Lists : n <= Greatest(Lists)
    <2>1. IsFiniteSet(Lists) /\ Lists \subseteq Int
      BY ListsAreNumbers
    <2> HIDE DEF Lists
    <2> QED BY <1>1, <2>1, GreatestIsThere
  <1>3. /\ DOMAIN x = {"pc", "water", "position", "got", "due"}
        /\ x.pc = "paging" /\ x.water = Greatest(Lists) /\ x.position = 0
        /\ x.got = <<>> /\ x.due = Lists
    BY DEF NoListing
  <1> HIDE DEF x
  <1>4. DueIsBelow(x)
    BY <1>2, <1>3 DEF DueIsBelow, Below
  <1>5. TraceListingOK(x)
    BY <1>3, <1>4 DEF TraceListingOK, ListsInOrder, AbovePosition
  <1> QED BY <1>1, <1>5, OneTraceListing

\* One more page.
LEMMA OneMorePage ==
    ASSUME NEW got \in Seq(SUBSET Nat), NEW page \in SUBSET Nat,
           NEW more, more = Append(got, page)
    PROVE  /\ more \in Seq(SUBSET Nat) /\ Len(got) \in Nat
           /\ DOMAIN got = 1..Len(got) /\ DOMAIN more = 1..Len(got) + 1
           /\ \A i \in 1..Len(got) : more[i] = got[i]
           /\ more[Len(got) + 1] = page
  OBVIOUS

\* Of two pages the earlier is not the last.
LEMMA EarlierPage ==
    ASSUME NEW k \in Nat, NEW i \in 1..k + 1, NEW j \in 1..k + 1
    PROVE  /\ i < j => i \in 1..k
           /\ j \in 1..k \/ j = k + 1
  OBVIOUS

\* ListTraces, page by page: what a page leaves out is below its position.
LEMMA ReadTracePage ==
    ASSUME TraceListingsInv, Numbers, NEW r \in Readers, ReadPage(r)
    PROVE  TraceListingsInv'
  <1> DEFINE l == listing[r]
             rest == {n \in Lists : Below(l.water, l.position, n)}
             page == {n \in rest : Cardinality({m \in rest : m > n}) < Limit}
             x == [l EXCEPT !.pc = IF page # rest THEN "paging" ELSE "done",
                            !.position = IF page # rest THEN Least(page) ELSE 0,
                            !.got = Append(@, page)]
  <1>1. /\ l.pc = "paging" /\ UNCHANGED tables /\ TraceListingOK(l)
        /\ listing' = [listing EXCEPT ![r] = x]
    BY DEF ReadPage, ListTraceSummaries, TraceListingsInv
  <1>2. /\ l.got \in Seq(SUBSET Nat) /\ ListsInOrder(l) /\ l.position \in Nat
        /\ AbovePosition(l) /\ DueIsBelow(l)
        /\ DOMAIN l = {"pc", "water", "position", "got", "due"}
    BY <1>1 DEF TraceListingOK
  <1>3. /\ rest \subseteq Nat \ {0} /\ IsFiniteSet(rest)
        /\ \A n \in rest : l.position # 0 => n < l.position
    <2>1. rest \in SUBSET Lists
      OBVIOUS
    <2>2. \A n \in rest : l.position # 0 => n < l.position
      BY DEF Below
    <2> HIDE DEF rest
    <2> QED BY <2>1, <2>2, ListsAreNumbers, FS_Subset
  <1>4. \A n \in Lists : Below(l.water, l.position, n) => n \in rest
    OBVIOUS
  <1>5. \A n \in rest : n \in Lists /\ n <= l.water
    BY DEF Below
  <1> HIDE DEF rest
  <1>6. /\ page \subseteq rest /\ IsFiniteSet(page)
        /\ page # rest => page # {}
        /\ \A m \in page, n \in rest \ page : n < m
    <2>1. rest \subseteq Nat
      BY <1>3
    <2> HIDE DEF l
    <2> QED BY <1>3, <2>1, PageOfLists
  <1>7. /\ DOMAIN x = {"pc", "water", "position", "got", "due"}
        /\ x.pc = (IF page # rest THEN "paging" ELSE "done")
        /\ x.position = (IF page # rest THEN Least(page) ELSE 0)
        /\ x.got = Append(l.got, page)
        /\ x.water = l.water /\ x.due = l.due
    BY <1>2
  <1> HIDE DEF x, page
  <1>8. page \in SUBSET Nat
    BY <1>3, <1>6
  <1>9. /\ x.got \in Seq(SUBSET Nat) /\ Len(l.got) \in Nat
        /\ DOMAIN l.got = 1..Len(l.got) /\ DOMAIN x.got = 1..Len(l.got) + 1
        /\ \A i \in 1..Len(l.got) : x.got[i] = l.got[i]
        /\ x.got[Len(l.got) + 1] = page
    BY <1>2, <1>7, <1>8, OneMorePage
  <1>10. \A i \in 1..Len(l.got) : \A m \in l.got[i], n \in page : m > n
    <2> SUFFICES ASSUME NEW i \in 1..Len(l.got), NEW m \in l.got[i], NEW n \in page
                 PROVE  m > n
      OBVIOUS
    <2>1. l.position # 0 /\ l.position <= m
      BY <1>2, <1>9 DEF AbovePosition
    <2>2. n < l.position
      BY <1>3, <1>6, <2>1
    <2>3. m \in Nat /\ n \in Nat
      BY <1>2, <1>8, <1>9
    <2> QED BY <1>2, <2>1, <2>2, <2>3
  <1>11. ListsInOrder(x)
    <2> SUFFICES ASSUME NEW i \in DOMAIN x.got, NEW j \in DOMAIN x.got, i < j,
                        NEW m \in x.got[i], NEW n \in x.got[j]
                 PROVE  m > n
      BY DEF ListsInOrder
    <2> HIDE DEF l
    <2>1. i \in 1..Len(l.got) + 1 /\ j \in 1..Len(l.got) + 1
      BY <1>9
    <2>2. i \in 1..Len(l.got) /\ (j \in 1..Len(l.got) \/ j = Len(l.got) + 1)
      BY <1>9, <2>1, EarlierPage
    <2>3. i \in 1..Len(l.got) /\ m \in l.got[i]
      BY <1>9, <2>2
    <2>4. CASE j \in 1..Len(l.got)
      <3>1. n \in l.got[j]
        BY <1>9, <2>4
      <3> QED BY <1>2, <1>9, <2>3, <2>4, <3>1 DEF ListsInOrder
    <2>5. CASE j = Len(l.got) + 1
      <3>1. n \in page
        BY <1>9, <2>5
      <3> QED BY <1>10, <2>3, <3>1
    <2> QED BY <2>2, <2>4, <2>5
  <1>12. ShownLists(l) \subseteq ShownLists(x) /\ page \subseteq ShownLists(x)
    <2>1. \A i \in DOMAIN l.got : i \in DOMAIN x.got /\ x.got[i] = l.got[i]
      BY <1>9
    <2>2. Len(l.got) + 1 \in DOMAIN x.got
      BY <1>9
    <2> QED BY <1>9, <2>1, <2>2 DEF ShownLists
  <1>13. CASE page = rest
    <2>1. x.pc = "done" /\ x.due \subseteq ShownLists(x)
      BY <1>2, <1>4, <1>7, <1>12, <1>13 DEF DueIsBelow
    <2>2. TraceListingOK(x)
      BY <1>7, <1>9, <1>11, <2>1 DEF TraceListingOK
    <2> QED BY <1>1, <2>2, OneTraceListing
  <1>14. CASE page # rest
    <2>1. Least(page) \in page /\ \A n \in page : Least(page) <= n
      <3>1. page \subseteq Int
        BY <1>8
      <3> QED BY <1>6, <1>14, <3>1, LeastIsThere
    <2>2. x.pc = "paging" /\ x.position = Least(page)
      BY <1>7, <1>14
    <2>3. x.position \in Nat \ {0}
      BY <1>3, <1>6, <2>1, <2>2
    <2>4. AbovePosition(x)
      <3> SUFFICES ASSUME NEW i \in DOMAIN x.got, NEW n \in x.got[i]
                   PROVE  x.position <= n
        BY <2>3 DEF AbovePosition
      <3>1. CASE i \in 1..Len(l.got)
        <4>1. n \in l.got[i] /\ n > x.position
          BY <1>9, <1>10, <2>1, <2>2, <3>1
        <4>2. n \in Nat
          BY <1>2, <1>9, <3>1, <4>1
        <4> QED BY <2>3, <4>1, <4>2
      <3>2. CASE i = Len(l.got) + 1
        BY <1>9, <2>1, <2>2, <3>2
      <3> QED BY <1>9, <3>1, <3>2
    <2>5. DueIsBelow(x)
      <3> SUFFICES ASSUME NEW n \in x.due, n \notin ShownLists(x)
                   PROVE  n \in Lists /\ Below(x.water, x.position, n)
        BY DEF DueIsBelow
      <3>1. n \in rest \ page
        BY <1>2, <1>4, <1>7, <1>12 DEF DueIsBelow
      <3>2. n < x.position
        BY <1>6, <2>1, <2>2, <3>1
      <3> QED BY <1>5, <1>7, <3>1, <3>2 DEF Below
    <2>6. TraceListingOK(x)
      BY <1>7, <1>9, <1>11, <2>2, <2>3, <2>4, <2>5 DEF TraceListingOK
    <2> QED BY <1>1, <2>6, OneTraceListing
  <1> QED BY <1>13, <1>14

\* Stored summaries keep their numbers when a batch is committed.
LEMMA CommitListings ==
    ASSUME TraceListingsInv, NEW c \in Collectors, CommitBatch(c)
    PROVE  TraceListingsInv'
  <1>1. UNCHANGED listing
    BY DEF CommitBatch, readVars
  <1>2. Lists \subseteq Lists'
    <2> SUFFICES ASSUME NEW t \in DOMAIN summaries
                 PROVE  t \in DOMAIN summaries'
                        /\ summaries'[t].list = summaries[t].list
      BY DEF Lists
    <2> QED BY DEF CommitBatch, Numbered, Overlay
  <1>3. ASSUME NEW q \in Readers PROVE TraceListingOK(listing[q])'
    <2>1. TraceListingOK(listing[q])
      BY DEF TraceListingsInv
    <2>2. DueIsBelow(listing[q]) => DueIsBelow(listing[q])'
      BY <1>1, <1>2 DEF DueIsBelow, ShownLists, Below
    <2> QED BY <1>1, <2>1, <2>2
            DEF TraceListingOK, ListsInOrder, AbovePosition, ShownLists
  <1> QED BY <1>1, <1>3 DEF TraceListingsInv

\* What is deleted is due no longer.
LEMMA PruneTraceListings ==
    ASSUME TraceListingsInv, PruneCommit
    PROVE  TraceListingsInv'
  <1> DEFINE D == Deletable(prune.of, prune.at)
             gone == {summaries[t].list : t \in D}
  <1>1. /\ summaries' = Without(summaries, D)
        /\ listing' = [r \in Readers |-> [listing[r] EXCEPT !.due = @ \ gone]]
    BY DEF PruneCommit, PruneTraces
  <1> HIDE DEF D
  <1>2. Lists \ gone \subseteq Lists'
    <2> SUFFICES ASSUME NEW t \in DOMAIN summaries, t \notin D
                 PROVE  t \in DOMAIN summaries'
                        /\ summaries'[t].list = summaries[t].list
      BY DEF Lists
    <2> QED BY <1>1 DEF Without
  <1> HIDE DEF gone
  <1>3. ASSUME NEW q \in Readers PROVE TraceListingOK(listing[q])'
    <2> DEFINE l == listing[q]
               m == listing'[q]
    <2>1. TraceListingOK(l)
      BY DEF TraceListingsInv
    <2>2. /\ DOMAIN m = DOMAIN l /\ m.pc = l.pc /\ m.water = l.water
          /\ m.position = l.position /\ m.got = l.got /\ m.due = l.due \ gone
      BY <1>1, <2>1 DEF TraceListingOK
    <2>3. DueIsBelow(l) => DueIsBelow(listing[q])'
      BY <1>2, <2>2 DEF DueIsBelow, ShownLists, Below
    <2> QED BY <2>1, <2>2, <2>3
            DEF TraceListingOK, ListsInOrder, AbovePosition, ShownLists
  <1>4. DOMAIN listing' = Readers
    BY <1>1
  <1> QED BY <1>3, <1>4 DEF TraceListingsInv

\* Every step of the store keeps the listings in order and complete.
LEMMA NextTraceListings ==
    Numbers /\ TraceListingsInv /\ [Next]_vars => TraceListingsInv'
  <1> SUFFICES ASSUME Numbers, TraceListingsInv, [Next]_vars
               PROVE  TraceListingsInv'
    OBVIOUS
  <1>1. ASSUME UNCHANGED <<tables, listing>> PROVE TraceListingsInv'
    <2>1. Lists' = Lists
      BY <1>1 DEF tables, Lists
    <2>2. UNCHANGED listing
      BY <1>1
    <2> QED BY <2>1, <2>2 DEF TraceListingsInv, TraceListingOK, ListsInOrder,
                      AbovePosition, DueIsBelow, ShownLists, Below
  <1>2. CASE Tick /\ UNCHANGED <<txVars, readVars>>
    BY <1>1, <1>2 DEF Tick, readVars
  <1>3. ASSUME NEW c \in Collectors,
               \/ \E b \in Batches : Receive(c, b)
               \/ LockTrace(c) \/ WriteRows(c) \/ LockOutbox(c)
               \/ AssembleSummaries(c) \/ AbortBatch(c)
        PROVE  TraceListingsInv'
    BY <1>1, <1>3 DEF Receive, LockTrace, WriteRows, LockOutbox,
       AssembleSummaries, AbortBatch, readVars
  <1>4. ASSUME NEW c \in Collectors, CommitBatch(c) PROVE TraceListingsInv'
    BY <1>4, CommitListings
  <1>5. CASE PruneSelect \/ PruneLock \/ PruneAbort
    BY <1>1, <1>5 DEF PruneSelect, PruneLock, PruneAbort, readVars
  <1>6. CASE PruneCommit
    BY <1>6, PruneTraceListings
  <1>7. ASSUME NEW r \in Readers, FinishListing(r) PROVE TraceListingsInv'
    BY <1>7, NothingListed, OneTraceListing DEF FinishListing
  <1>8. ASSUME NEW r \in Readers,
               \/ \E t \in Traces : OpenDetail(r, t)
               \/ ReadGraph(r) \/ CloseDetail(r)
        PROVE  TraceListingsInv'
    BY <1>1, <1>8 DEF OpenDetail, ReadGraph, CloseDetail
  <1>9. ASSUME NEW r \in Readers, Read(r) PROVE TraceListingsInv'
    BY <1>7, <1>8, <1>9, StartTraceListing, ReadTracePage DEF Read
  <1>10. CASE UNCHANGED vars
    BY <1>1, <1>10 DEF vars, readVars
  <1> QED BY <1>2, <1>3, <1>4, <1>5, <1>6, <1>9, <1>10 DEF Next, Work, PruneWork

\* No listing has begun.
LEMMA InitTraceListings == Init => TraceListingsInv
  BY NothingListed DEF Init, TraceListingsInv

\* Listings that are in order and complete are exact.
LEMMA TraceListingsMeaning == TraceListingsInv => TraceListingsAreExact
  <1> SUFFICES ASSUME TraceListingsInv, NEW r \in Readers
               PROVE  /\ ListsInOrder(listing[r])
                      /\ listing[r].pc = "done" =>
                           listing[r].due \subseteq ShownLists(listing[r])
    BY DEF TraceListingsAreExact, ListsInOrder, ShownLists
  <1> QED BY DEF TraceListingsInv, TraceListingOK

-----------------------------------------------------------------------------
(* Both stores *)

\* The types of the event store follow from its invariant.
LEMMA EventTypes == EventsInv /\ ListingsInv => AS!TypeOK
  <1> SUFFICES ASSUME EventsInv, ListingsInv PROVE AS!TypeOK
    OBVIOUS
  <1>1. ASSUME NEW k \in DOMAIN rows PROVE rows[k].seq \in 1..lastSeq
    <2>1. rows[k].seq \in 1..MaxSeq /\ rows[k].seq <= lastSeq /\ lastSeq \in Nat
      BY DEF EventsInv, RowsTyped, EventRow, EventNumbers
    <2>2. MaxSeq \in Nat
      BY EventAssumption DEF EventAssumption
    <2> QED BY <2>1, <2>2
  <1>2. DOMAIN payloads \subseteq AS!SeqsOf(rows)
    BY DEF EventsInv, PayloadsTyped
  <1>3. \A w \in Writers : /\ outboxRow = w => tx[w].pc = "open"
                           /\ tx[w].pc \in {"idle", "begun", "open"}
    BY DEF EventsInv, TxInv, TxOf, TxType
  <1>4. nextSeq \in 1..MaxSeq + 1
    <2>1. /\ lastSeq \in Nat /\ nextSeq \in Nat /\ MaxSeq \in Nat
          /\ lastSeq < nextSeq /\ nextSeq <= MaxSeq + 1
      BY EventAssumption DEF EventAssumption, EventsInv, EventNumbers
    <2> QED BY <2>1
  <1>5. \A r \in Readers : eventListing[r].pc \in {"idle", "paging", "done"}
    BY DEF ListingsInv, ListingOK
  <1> QED BY <1>1, <1>2, <1>3, <1>4, <1>5 DEF AS!TypeOK

\* A store without work is as it began.
TracesAsleep ==
    /\ spans = None /\ docs = None /\ summaries = None
    /\ locks = [t \in Traces |-> NoHolder]
    /\ call = [c \in Collectors |-> Idle] /\ prune = NoPrune
    /\ listing = [r \in Readers |-> NoListing]
    /\ detail = [r \in Readers |-> NoDetail] /\ nextList = 1
EventsAsleep ==
    /\ rows = AS!NoRows /\ payloads = AS!NoRows /\ lastSeq = 0
    /\ notified = [k \in Keys |-> Nothing] /\ checkpoint = Nothing
    /\ nextSeq = 1 /\ tx = [w \in Writers |-> AS!NoTx]
    /\ eventListing = [r \in Readers |-> AS!NoListing]

TracesWork == /\ SummaryInv /\ StoreInv /\ LockInv /\ DetailInv
              /\ TraceListingsInv
              /\ outboxRow \in Collectors \cup {NoHolder}
EventsWork == /\ EventsInv /\ ListingsInv
              /\ outboxRow \in Writers \cup {NoHolder}
StoresInv == \/ working = "traces" /\ TracesWork /\ EventsAsleep
             \/ working = "events" /\ EventsWork /\ TracesAsleep

\* Both stores begin asleep and fit to work.
LEMMA InitStores == StoresInit => StoresInv
  <1> SUFFICES ASSUME StoresInit PROVE StoresInv
    OBVIOUS
  <1>1. Init /\ AS!InitStore
    BY DEF StoresInit
  <1>2. TracesWork
    <2>1. DetailInv
      BY <1>1 DEF Init, DetailInv, NoDetail
    <2>2. outboxRow = NoHolder
      BY <1>1 DEF Init
    <2> QED BY <1>1, <2>1, <2>2, InitSummaries, InitStore, InitLocks,
               InitTraceListings DEF TracesWork
  <1>3. EventsWork
    <2>1. outboxRow = NoHolder
      BY <1>1 DEF Init
    <2> QED BY <1>1, <2>1, InitEvents, InitListings DEF EventsWork
  <1>4. TracesAsleep
    BY <1>1 DEF Init, SpanInit, TracesAsleep
  <1>5. EventsAsleep
    BY <1>1 DEF AS!InitStore, AS!Init, EventsAsleep, AS!NoRows
  <1> QED BY <1>2, <1>3, <1>4, <1>5 DEF StoresInit, StoresInv

\* Only Collectors hold the outbox row while traces are written.
LEMMA TracesHold ==
    ASSUME outboxRow \in Collectors \cup {NoHolder}, [Next]_vars
    PROVE  outboxRow' \in Collectors \cup {NoHolder}
  <1>1. ASSUME NEW c \in Collectors,
               \/ \E b \in Batches : Receive(c, b)
               \/ Work(c) \/ AbortBatch(c)
        PROVE  outboxRow' \in {outboxRow, c, NoHolder}
    BY <1>1 DEF Receive, Work, LockTrace, WriteRows, LockOutbox,
       AssembleSummaries, CommitBatch, AbortBatch, Release
  <1>2. CASE PruneSelect \/ PruneWork \/ PruneAbort
    BY <1>2 DEF PruneSelect, PruneWork, PruneLock, PruneCommit, PruneAbort,
       Release
  <1>3. ASSUME NEW r \in Readers, Read(r) PROVE UNCHANGED outboxRow
    BY <1>3 DEF Read, StartListing, ReadPage, FinishListing, OpenDetail,
       ReadGraph, CloseDetail, txVars
  <1>4. CASE (Tick /\ UNCHANGED <<txVars, readVars>>) \/ UNCHANGED vars
    BY <1>4 DEF vars, txVars
  <1> QED BY <1>1, <1>2, <1>3, <1>4 DEF Next

\* Only writers hold the outbox row while events are written.
LEMMA EventsHold ==
    ASSUME outboxRow \in Writers \cup {NoHolder}, [AS!NextStore]_(AS!vars)
    PROVE  outboxRow' \in Writers \cup {NoHolder}
  <1>1. ASSUME NEW w \in Writers, AS!Persist(w)
        PROVE  outboxRow' \in {outboxRow, w, NoHolder}
    BY <1>1 DEF AS!Persist, AS!BeginPersist, AS!LockAndStamp, AS!UpdateEvent,
       AS!InsertEvent, AS!SkipEvent, AS!CommitPersist, AS!RollbackPersist,
       AS!Released
  <1>2. ASSUME NEW t, AS!Prune(t) PROVE UNCHANGED outboxRow
    BY <1>2 DEF AS!Prune, AS!txVars
  <1>3. ASSUME NEW r \in Readers, AS!List(r) PROVE UNCHANGED outboxRow
    BY <1>3 DEF AS!List, AS!StartListing, AS!ReadPage, AS!FinishListing,
       AS!txVars
  <1>4. CASE \/ AS!Tick /\ UNCHANGED <<AS!txVars, eventListing>>
             \/ UNCHANGED AS!vars
    BY <1>4 DEF AS!vars, AS!txVars
  <1> QED BY <1>1, <1>2, <1>3, <1>4 DEF AS!NextStore

\* Each step belongs to the store that works; the other sleeps on.
LEMMA NextStores ==
    StoresInv /\ [StoresNext]_<<now, outboxRow, eventVars, traceVars, working>>
      => StoresInv'
  <1> SUFFICES ASSUME StoresInv,
                      [StoresNext]_<<now, outboxRow, eventVars, traceVars, working>>
               PROVE  StoresInv'
    OBVIOUS
  <1>1. UNCHANGED working
    BY DEF StoresNext
  <1>2. CASE working = "traces"
    <2>1. [Next]_vars /\ UNCHANGED eventVars
      BY <1>2 DEF StoresNext, vars, tables, txVars, readVars, traceVars
    <2>2. TracesWork /\ EventsAsleep
      BY <1>2 DEF StoresInv
    <2>3. TracesWork'
      <3>1. SummaryInv' /\ StoreInv'
        BY <2>1, <2>2, NextSummaries, NextStore DEF TracesWork
      <3>2. LockInv' /\ DetailInv'
        BY <2>1, <2>2, NextLocks, NextDetails DEF TracesWork
      <3>3. TraceListingsInv'
        BY <2>1, <2>2, NextTraceListings DEF TracesWork, StoreInv
      <3>4. (outboxRow \in Collectors \cup {NoHolder})'
        BY <2>1, <2>2, TracesHold DEF TracesWork
      <3> QED BY <3>1, <3>2, <3>3, <3>4 DEF TracesWork
    <2>4. EventsAsleep'
      BY <2>1, <2>2 DEF EventsAsleep, eventVars
    <2> QED BY <1>1, <1>2, <2>3, <2>4 DEF StoresInv
  <1>3. CASE working = "events"
    <2>1. [AS!NextStore]_(AS!vars) /\ UNCHANGED traceVars
      BY <1>3 DEF StoresNext, AS!vars, AS!storeVars, AS!txVars, eventVars
    <2>2. EventsWork /\ TracesAsleep
      BY <1>3 DEF StoresInv
    <2>3. EventsWork'
      <3>1. EventsInv' /\ ListingsInv'
        BY <2>1, <2>2, NextEvents, NextListings DEF EventsWork
      <3>2. (outboxRow \in Writers \cup {NoHolder})'
        BY <2>1, <2>2, EventsHold DEF EventsWork
      <3> QED BY <3>1, <3>2 DEF EventsWork
    <2>4. TracesAsleep'
      BY <2>1, <2>2 DEF TracesAsleep, traceVars, readVars
    <2> QED BY <1>1, <1>3, <2>3, <2>4 DEF StoresInv
  <1> QED BY <1>2, <1>3 DEF StoresInv

\* Whichever store works keeps its invariants, and the other stays as it began
\* (both use the clock and the outbox row, PersistEvents and WriteBatch).
THEOREM StoresInvariant == StoresSpec => []StoresInv
  BY InitStores, NextStores, PTL DEF StoresSpec

\* A store that sleeps is typed, whoever of the other holds the outbox row.
LEMMA AsleepIsTyped ==
    /\ EventsAsleep /\ outboxRow \in Collectors \cup {NoHolder} => AS!TypeOK
    /\ TracesAsleep /\ outboxRow \in Writers \cup {NoHolder} => TypeOK
  <1>1. ASSUME EventsAsleep, outboxRow \in Collectors \cup {NoHolder}
        PROVE  AS!TypeOK
    <2>1. rows = AS!NoRows /\ payloads = AS!NoRows /\ DOMAIN AS!NoRows = {}
      BY <1>1 DEF EventsAsleep, AS!NoRows
    <2>2. \A w \in Writers : outboxRow # w
      BY <1>1, EventAssumption DEF EventAssumption
    <2>3. nextSeq \in 1..MaxSeq + 1
      BY <1>1, EventAssumption DEF EventAssumption, EventsAsleep
    <2>4. AS!NoTx.pc = "idle" /\ AS!NoListing.pc = "idle"
      BY DEF AS!NoTx, AS!NoListing
    <2> QED BY <1>1, <2>1, <2>2, <2>3, <2>4 DEF EventsAsleep, AS!TypeOK
  <1>2. ASSUME TracesAsleep, outboxRow \in Writers \cup {NoHolder}
        PROVE  TypeOK
    <2>1. \A c \in Collectors : outboxRow # c
      BY <1>2, EventAssumption, TraceAssumption DEF EventAssumption, TraceAssumption
    <2>2. DOMAIN docs = {} /\ DOMAIN summaries = {}
      BY <1>2 DEF TracesAsleep, None
    <2>3. \A t \in Traces : locks[t] = NoHolder
      BY <1>2 DEF TracesAsleep
    <2> QED BY <2>1, <2>2, <2>3 DEF TypeOK
  <1> QED BY <1>1, <1>2

\* Events and summaries have numbers that were drawn, documents belong to them,
\* and locks belong to open transactions (PersistEvents, WriteBatch).
THEOREM StoresAreTyped == StoresSpec => []StoresTypeOK
  <1>1. StoresInv => StoresTypeOK
    <2>1. ASSUME TracesWork, EventsAsleep PROVE StoresTypeOK
      BY <2>1, TraceTypesHold, AsleepIsTyped DEF TracesWork, StoresTypeOK
    <2>2. ASSUME EventsWork, TracesAsleep PROVE StoresTypeOK
      BY <2>2, EventTypes, AsleepIsTyped DEF EventsWork, StoresTypeOK
    <2> QED BY <2>1, <2>2 DEF StoresInv
  <1> QED BY <1>1, StoresInvariant, PTL

\* Pages of events and of traces, read one by one while others write and delete,
\* show what was there throughout, in order and once; the count and the graph of
\* a detail agree (ListEvents, ListTraceSummaries, GetTraceDetail).
THEOREM ReadsAreOfOnePiece == StoresSpec => []ReadsAreExact
  <1>1. ASSUME TracesWork, EventsAsleep PROVE ReadsAreExact
    <2>1. TraceListingsAreExact /\ DetailsAgree
      BY <1>1, TraceListingsMeaning DEF TracesWork, DetailInv, DetailsAgree
    <2>2. AS!ListingsAreExact
      <3>1. \A r \in Readers : eventListing[r].got = <<>>
                               /\ eventListing[r].pc = "idle"
        BY <1>1 DEF EventsAsleep, AS!NoListing
      <3> QED BY <3>1 DEF AS!ListingsAreExact
    <2> QED BY <2>1, <2>2 DEF ReadsAreExact
  <1>2. ASSUME EventsWork, TracesAsleep PROVE ReadsAreExact
    <2>1. AS!ListingsAreExact
      BY <1>2, ListingsMeaning DEF EventsWork
    <2>2. TraceListingsAreExact /\ DetailsAgree
      <3>1. \A r \in Readers : /\ listing[r].got = <<>> /\ listing[r].pc = "idle"
                               /\ detail[r].pc = "idle"
        BY <1>2 DEF TracesAsleep, NoListing, NoDetail
      <3> QED BY <3>1 DEF TraceListingsAreExact, DetailsAgree
    <2> QED BY <2>1, <2>2 DEF ReadsAreExact
  <1>3. StoresInv => ReadsAreExact
    BY <1>1, <1>2 DEF StoresInv
  <1> QED BY <1>3, StoresInvariant, PTL

-----------------------------------------------------------------------------
(* A transaction of the Audit store, event by event *)

\* What a transaction that has written h makes of one more event: what
\* upsertEvent does, with what is stored now.
Outcome(r, p, h, e, t) ==
    LET seen    == AS!Overlay(r, h.wrote)
        read    == AS!Overlay(p, h.docs)
        exists  == e.key \in DOMAIN seen
        row     == IF exists THEN [seen[e.key] EXCEPT !.body = e.body]
                   ELSE [seq |-> h.next, at |-> e.at, body |-> e.body]
        first   == ~exists /\ e.doc # Nothing
        revised == /\ exists /\ e.doc # Nothing
                   /\ AS!Readable(read, row.seq, t)
                   /\ read[row.seq].doc # e.doc
        until   == IF first THEN t + PayloadRetention ELSE read[row.seq].until
        changed == ~exists \/ seen[e.key] # row \/ revised
    IN IF ~exists /\ e.at < t - EventRetention THEN h
       ELSE [wrote |-> AS!With(h.wrote, e.key, row),
             docs  |-> IF first \/ revised
                       THEN AS!With(h.docs, row.seq,
                                    [doc |-> e.doc, until |-> until])
                       ELSE h.docs,
             note  |-> IF changed THEN AS!With(h.note, e.key, e.body) ELSE h.note,
             last  |-> IF exists THEN h.last ELSE h.next,
             next  |-> IF exists THEN h.next ELSE h.next + 1]

\* The store as such a transaction would leave it.
StoreOf(h) == [rows |-> AS!Overlay(rows, h.wrote),
               payloads |-> AS!Overlay(payloads, h.docs),
               last |-> h.last, next |-> h.next,
               notified |-> AS!Overlay(notified, h.note)]

\* One more entry on top of a table.
LEMMA OverlayWith ==
    \A f, g, k, v : AS!Overlay(f, AS!With(g, k, v)) = AS!With(AS!Overlay(f, g), k, v)
  <1> TAKE f, g, k, v
  <1> DEFINE a == AS!Overlay(f, AS!With(g, k, v))
             b == AS!With(AS!Overlay(f, g), k, v)
  <1>1. DOMAIN a = DOMAIN b
    BY DEF AS!Overlay, AS!With
  <1>2. \A x \in DOMAIN a : a[x] = b[x]
    BY DEF AS!Overlay, AS!With
  <1>3. a = [x \in DOMAIN a |-> a[x]] /\ b = [x \in DOMAIN b |-> b[x]]
    BY DEF AS!Overlay, AS!With
  <1> HIDE DEF a, b
  <1>4. a = b
    BY <1>1, <1>2, <1>3
  <1> QED BY <1>4 DEF a, b

\* An entry that is there, replaced.
LEMMA ExceptIsWith ==
    \A f, k, v : k \in DOMAIN f => [f EXCEPT ![k] = v] = AS!With(f, k, v)
  BY DEF AS!With

\* It is what one EventStore call makes of that event.
LEMMA OutcomeIsStored ==
    ASSUME Keys \subseteq DOMAIN notified, NEW h, NEW e \in Events, NEW t
    PROVE  StoreOf(Outcome(rows, payloads, h, e, t)) = AS!Stored(StoreOf(h), e, t)
  <1> DEFINE seen == AS!Overlay(rows, h.wrote)
             read == AS!Overlay(payloads, h.docs)
             told == AS!Overlay(notified, h.note)
             exists == e.key \in DOMAIN seen
             row == IF exists THEN [seen[e.key] EXCEPT !.body = e.body]
                    ELSE [seq |-> h.next, at |-> e.at, body |-> e.body]
             first == ~exists /\ e.doc # Nothing
             revised == /\ exists /\ e.doc # Nothing
                        /\ AS!Readable(read, row.seq, t)
                        /\ read[row.seq].doc # e.doc
             until == IF first THEN t + PayloadRetention ELSE read[row.seq].until
             changed == ~exists \/ seen[e.key] # row \/ revised
             skip == ~exists /\ e.at < t - EventRetention
             s == StoreOf(h)
             kept == IF first \/ revised
                     THEN AS!With(h.docs, row.seq, [doc |-> e.doc, until |-> until])
                     ELSE h.docs
             note == IF changed THEN AS!With(h.note, e.key, e.body) ELSE h.note
             g == [wrote |-> AS!With(h.wrote, e.key, row), docs |-> kept,
                   note |-> note, last |-> IF exists THEN h.last ELSE h.next,
                   next |-> IF exists THEN h.next ELSE h.next + 1]
             after == [rows |-> AS!With(seen, e.key, row),
                       payloads |-> IF first \/ revised
                          THEN AS!With(read, row.seq, [doc |-> e.doc, until |-> until])
                          ELSE read,
                       last |-> IF exists THEN h.last ELSE h.next,
                       next |-> IF exists THEN h.next ELSE h.next + 1,
                       notified |-> IF changed THEN [told EXCEPT ![e.key] = e.body]
                                    ELSE told]
  <1>1. Outcome(rows, payloads, h, e, t) = IF skip THEN h ELSE g
    BY DEF Outcome
  <1>2. AS!Stored(s, e, t) = IF skip THEN s ELSE after
    <2>1. /\ s.rows = seen /\ s.payloads = read /\ s.last = h.last
          /\ s.next = h.next /\ s.notified = told
      BY DEF StoreOf
    <2> HIDE DEF s, seen, read, told
    <2> QED BY <2>1 DEF AS!Stored
  <1>3. StoreOf(g) = after
    <2>1. AS!Overlay(rows, g.wrote) = AS!With(seen, e.key, row)
      <3> HIDE DEF row
      <3> QED BY OverlayWith
    <2>2. AS!Overlay(payloads, g.docs) = after.payloads
      <3>1. g.docs = kept
        OBVIOUS
      <3>2. CASE first \/ revised
        <4>1. kept = AS!With(h.docs, row.seq, [doc |-> e.doc, until |-> until])
              /\ after.payloads = AS!With(read, row.seq,
                                          [doc |-> e.doc, until |-> until])
          BY <3>2
        <4> HIDE DEF kept, after, row, until, g
        <4> QED BY <3>1, <4>1, OverlayWith
      <3>3. CASE ~(first \/ revised)
        <4>1. kept = h.docs /\ after.payloads = read
          BY <3>3
        <4> QED BY <3>1, <4>1
      <3> QED BY <3>2, <3>3
    <2>3. AS!Overlay(notified, g.note) = after.notified
      <3>1. g.note = note
        OBVIOUS
      <3>2. CASE changed
        <4>1. note = AS!With(h.note, e.key, e.body)
              /\ after.notified = [told EXCEPT ![e.key] = e.body]
          BY <3>2
        <4>2. e.key \in DOMAIN told
          BY EventAssumption DEF EventAssumption, AS!Overlay
        <4> HIDE DEF note, after, g
        <4>3. AS!Overlay(notified, note) = AS!With(told, e.key, e.body)
          BY <4>1, OverlayWith
        <4> HIDE DEF told
        <4>4. [told EXCEPT ![e.key] = e.body] = AS!With(told, e.key, e.body)
          BY <4>2, ExceptIsWith
        <4> QED BY <3>1, <4>1, <4>3, <4>4
      <3>3. CASE ~changed
        <4>1. note = h.note /\ after.notified = told
          BY <3>3
        <4> QED BY <3>1, <4>1
      <3> QED BY <3>2, <3>3
    <2>4. /\ g.last = after.last /\ g.next = after.next
          /\ AS!With(seen, e.key, row) = after.rows
          /\ after = [rows |-> after.rows, payloads |-> after.payloads,
                      last |-> after.last, next |-> after.next,
                      notified |-> after.notified]
      OBVIOUS
    <2> HIDE DEF g, after
    <2> QED BY <2>1, <2>2, <2>3, <2>4 DEF StoreOf
  <1> HIDE DEF g, after, skip
  <1> QED BY <1>1, <1>2, <1>3

-----------------------------------------------------------------------------
(* What a transaction has written is what its events make of the store *)

\* What the transaction of a writer has written.
WrittenBy(w, last) == [wrote |-> tx[w].wrote, docs |-> tx[w].docs,
                       note |-> tx[w].note, last |-> last, next |-> nextSeq]
Began(base) == [wrote |-> AS!NoRows, docs |-> AS!NoRows, note |-> AS!NoRows,
                last |-> lastSeq, next |-> base]
LastIs(last, wrote) ==
    /\ last \in AS!SeqsOf(wrote) \cup {lastSeq} /\ lastSeq <= last
    /\ \A k \in DOMAIN wrote : wrote[k].seq <= last

\* After n events, h has what had been written after each of them.
Chain(h, n, w) ==
    /\ Len(tx[w].batch) = n + Len(tx[w].left)
    /\ \A j \in 1..Len(tx[w].left) : tx[w].left[j] = tx[w].batch[n + j]
    /\ \E base \in lastSeq + 1..MaxSeq + 1 : h[0] = Began(base)
    /\ \A i \in 1..n : h[i] = Outcome(rows, payloads, h[i - 1], tx[w].batch[i], tx[w].stamp)
    /\ \A i \in 0..n : /\ DOMAIN h[i].wrote \subseteq DOMAIN tx[w].wrote
                       /\ DOMAIN h[i].docs \subseteq DOMAIN tx[w].docs
    /\ \E last \in Int : h[n] = WrittenBy(w, last) /\ LastIs(last, tx[w].wrote)
HasChain(w) == \E n \in Nat : \E h : Chain(h, n, w)

\* An event that is there is revised.
Revised(h, e, t, row, revised) ==
    LET seen == AS!Overlay(rows, h.wrote)
        read == AS!Overlay(payloads, h.docs)
    IN [wrote |-> AS!With(h.wrote, e.key, row),
        docs  |-> IF revised
                  THEN AS!With(h.docs, row.seq,
                               [doc |-> e.doc, until |-> read[row.seq].until])
                  ELSE h.docs,
        note  |-> IF row # seen[e.key] \/ revised
                  THEN AS!With(h.note, e.key, e.body) ELSE h.note,
        last  |-> h.last, next  |-> h.next]

\* What becomes of an event that is there.
LEMMA OutcomeRevises ==
    ASSUME NEW h, NEW e, NEW t, NEW row, NEW revised \in BOOLEAN,
           e.key \in DOMAIN AS!Overlay(rows, h.wrote),
           row = [AS!Overlay(rows, h.wrote)[e.key] EXCEPT !.body = e.body],
           revised <=> /\ e.doc # Nothing
                       /\ AS!Readable(AS!Overlay(payloads, h.docs), row.seq, t)
                       /\ AS!Overlay(payloads, h.docs)[row.seq].doc # e.doc
    PROVE  Outcome(rows, payloads, h, e, t) = Revised(h, e, t, row, revised)
  <1> DEFINE seen == AS!Overlay(rows, h.wrote)
             read == AS!Overlay(payloads, h.docs)
             exists == e.key \in DOMAIN seen
             line == IF exists THEN [seen[e.key] EXCEPT !.body = e.body]
                     ELSE [seq |-> h.next, at |-> e.at, body |-> e.body]
             first == ~exists /\ e.doc # Nothing
             again == /\ exists /\ e.doc # Nothing
                      /\ AS!Readable(read, line.seq, t)
                      /\ read[line.seq].doc # e.doc
             until == IF first THEN t + PayloadRetention ELSE read[line.seq].until
             changed == ~exists \/ seen[e.key] # line \/ again
             skip == ~exists /\ e.at < t - EventRetention
             kept == IF first \/ again
                     THEN AS!With(h.docs, line.seq, [doc |-> e.doc, until |-> until])
                     ELSE h.docs
             note == IF changed THEN AS!With(h.note, e.key, e.body) ELSE h.note
             last == IF exists THEN h.last ELSE h.next
             next == IF exists THEN h.next ELSE h.next + 1
  <1>1. Outcome(rows, payloads, h, e, t)
          = IF skip THEN h
            ELSE [wrote |-> AS!With(h.wrote, e.key, line), docs |-> kept,
                  note |-> note, last |-> last, next |-> next]
    BY DEF Outcome
  <1>2. exists /\ ~skip /\ ~first
    OBVIOUS
  <1>3. line = row
    BY <1>2
  <1>4. again <=> revised
    <2> HIDE DEF line
    <2> QED BY <1>2, <1>3
  <1>5. last = h.last /\ next = h.next
    BY <1>2
  <1>6. until = read[row.seq].until
    <2> HIDE DEF line
    <2> QED BY <1>2, <1>3
  <1>7. changed <=> (row # seen[e.key] \/ revised)
    <2> HIDE DEF line, again
    <2> QED BY <1>2, <1>3, <1>4
  <1> HIDE DEF line, again, first, until, changed, skip, last, next, exists
  <1>8. kept = IF revised THEN AS!With(h.docs, row.seq,
                            [doc |-> e.doc, until |-> read[row.seq].until])
               ELSE h.docs
    BY <1>2, <1>3, <1>4, <1>6
  <1>9. note = IF row # seen[e.key] \/ revised
               THEN AS!With(h.note, e.key, e.body) ELSE h.note
    BY <1>7
  <1> HIDE DEF kept, note
  <1> QED BY <1>1, <1>2, <1>3, <1>5, <1>8, <1>9 DEF Revised

\* UpdateEvent does that.
LEMMA UpdateIsOutcome ==
    ASSUME TxInv, NEW w \in Writers, NEW last, AS!UpdateEvent(w)
    PROVE  Outcome(rows, payloads, WrittenBy(w, last), Head(tx[w].left), tx[w].stamp)
             = [wrote |-> tx'[w].wrote, docs |-> tx'[w].docs,
                note |-> tx'[w].note, last |-> last, next |-> nextSeq]
  <1> DEFINE x == tx[w]
             e == Head(x.left)
             h == WrittenBy(w, last)
             seen == AS!Overlay(rows, x.wrote)
             read == AS!Overlay(payloads, x.docs)
             row == AS!Revision(seen[e.key], e)
             revised == AS!RevisesDocument(w, row.seq, e)
             written == [doc |-> e.doc, until |-> AS!Until(w, row.seq)]
             doc == [doc |-> e.doc, until |-> read[row.seq].until]
  <1>1. /\ e.key \in DOMAIN seen
        /\ tx' = [tx EXCEPT
             ![w].left  = Tail(@),
             ![w].wrote = AS!With(@, e.key, row),
             ![w].docs  = IF revised THEN AS!With(@, row.seq, written) ELSE @,
             ![w].note  = IF row # seen[e.key] \/ revised
                          THEN AS!With(@, e.key, e.body) ELSE @]
    BY DEF AS!UpdateEvent
  <1>2. DOMAIN tx = Writers
        /\ DOMAIN x = {"pc", "batch", "left", "stamp", "wrote", "docs", "note"}
    BY DEF TxInv, TxOf, TxType
  <1>3. /\ h.wrote = x.wrote /\ h.docs = x.docs /\ h.note = x.note
        /\ h.last = last /\ h.next = nextSeq
    BY DEF WrittenBy
  <1>4. revised <=> /\ e.doc # Nothing
                    /\ AS!Readable(read, row.seq, x.stamp)
                    /\ read[row.seq].doc # e.doc
    BY DEF AS!RevisesDocument
  <1>5. revised => written = doc
    BY DEF AS!RevisesDocument, AS!Readable, AS!Until
  <1>6. row = [seen[e.key] EXCEPT !.body = e.body]
    BY DEF AS!Revision
  <1>7. revised \in BOOLEAN
    BY DEF AS!RevisesDocument
  <1> HIDE DEF row, revised, written
  <1>8. /\ tx'[w].wrote = AS!With(x.wrote, e.key, row)
        /\ tx'[w].docs = IF revised THEN AS!With(x.docs, row.seq, doc) ELSE x.docs
        /\ tx'[w].note = IF row # seen[e.key] \/ revised
                         THEN AS!With(x.note, e.key, e.body) ELSE x.note
    <2> HIDE DEF seen, doc
    <2> QED BY <1>1, <1>2, <1>5
  <1>9. Outcome(rows, payloads, h, e, x.stamp) = Revised(h, e, x.stamp, row, revised)
    <2> HIDE DEF e, h, x
    <2> QED BY <1>1, <1>3, <1>4, <1>6, <1>7, OutcomeRevises
  <1>10. Revised(h, e, x.stamp, row, revised)
           = [wrote |-> AS!With(x.wrote, e.key, row),
              docs |-> IF revised THEN AS!With(x.docs, row.seq, doc) ELSE x.docs,
              note |-> IF row # seen[e.key] \/ revised
                       THEN AS!With(x.note, e.key, e.body) ELSE x.note,
              last |-> last, next |-> nextSeq]
    <2> HIDE DEF e, h, x
    <2> QED BY <1>3 DEF Revised
  <1> HIDE DEF doc, seen
  <1> QED BY <1>8, <1>9, <1>10

\* An event that is not there gets the next number.
Inserted(h, e, t) ==
    [wrote |-> AS!With(h.wrote, e.key, [seq |-> h.next, at |-> e.at,
                                        body |-> e.body]),
     docs  |-> IF e.doc = Nothing THEN h.docs
               ELSE AS!With(h.docs, h.next,
                            [doc |-> e.doc, until |-> t + PayloadRetention]),
     note  |-> AS!With(h.note, e.key, e.body),
     last  |-> h.next, next |-> h.next + 1]

\* What becomes of an event that is new and within retention.
LEMMA OutcomeInserts ==
    ASSUME NEW h, NEW e, NEW t, e.key \notin DOMAIN AS!Overlay(rows, h.wrote),
           ~(e.at < t - EventRetention)
    PROVE  Outcome(rows, payloads, h, e, t) = Inserted(h, e, t)
  <1> DEFINE seen == AS!Overlay(rows, h.wrote)
             read == AS!Overlay(payloads, h.docs)
             exists == e.key \in DOMAIN seen
             line == IF exists THEN [seen[e.key] EXCEPT !.body = e.body]
                     ELSE [seq |-> h.next, at |-> e.at, body |-> e.body]
             first == ~exists /\ e.doc # Nothing
             again == /\ exists /\ e.doc # Nothing
                      /\ AS!Readable(read, line.seq, t)
                      /\ read[line.seq].doc # e.doc
             until == IF first THEN t + PayloadRetention ELSE read[line.seq].until
             changed == ~exists \/ seen[e.key] # line \/ again
             skip == ~exists /\ e.at < t - EventRetention
             kept == IF first \/ again
                     THEN AS!With(h.docs, line.seq, [doc |-> e.doc, until |-> until])
                     ELSE h.docs
             note == IF changed THEN AS!With(h.note, e.key, e.body) ELSE h.note
             last == IF exists THEN h.last ELSE h.next
             next == IF exists THEN h.next ELSE h.next + 1
             row == [seq |-> h.next, at |-> e.at, body |-> e.body]
  <1>1. Outcome(rows, payloads, h, e, t)
          = IF skip THEN h
            ELSE [wrote |-> AS!With(h.wrote, e.key, line), docs |-> kept,
                  note |-> note, last |-> last, next |-> next]
    BY DEF Outcome
  <1>2. ~exists /\ ~skip /\ ~again /\ (first <=> e.doc # Nothing)
    <2> HIDE DEF line
    <2> QED OBVIOUS
  <1>3. line = row
    BY <1>2
  <1>5. last = h.next /\ next = h.next + 1
    BY <1>2
  <1>6. first => until = t + PayloadRetention
    OBVIOUS
  <1>7. changed
    <2> HIDE DEF line, again
    <2> QED BY <1>2
  <1>8. row.seq = h.next
    OBVIOUS
  <1> HIDE DEF line, again, first, until, changed, skip, last, next, exists, row
  <1>9. kept = IF e.doc = Nothing THEN h.docs
               ELSE AS!With(h.docs, h.next,
                            [doc |-> e.doc, until |-> t + PayloadRetention])
    <2>1. CASE first
      BY <1>2, <1>3, <1>6, <1>8, <2>1
    <2>2. CASE ~first
      BY <1>2, <2>2
    <2> QED BY <2>1, <2>2
  <1>10. note = AS!With(h.note, e.key, e.body)
    BY <1>7
  <1> HIDE DEF kept, note
  <1> QED BY <1>1, <1>2, <1>3, <1>5, <1>9, <1>10 DEF Inserted, row

\* InsertEvent does that.
LEMMA InsertIsOutcome ==
    ASSUME TxInv, NEW w \in Writers, NEW last, AS!InsertEvent(w),
           Head(tx[w].left).at \in Int, tx[w].stamp \in Int
    PROVE  Outcome(rows, payloads, WrittenBy(w, last), Head(tx[w].left), tx[w].stamp)
             = [wrote |-> tx'[w].wrote, docs |-> tx'[w].docs,
                note |-> tx'[w].note, last |-> nextSeq, next |-> nextSeq + 1]
  <1> DEFINE x == tx[w]
             e == Head(x.left)
             seen == AS!Overlay(rows, x.wrote)
             row == [seq |-> nextSeq, at |-> e.at, body |-> e.body]
             doc == [doc |-> e.doc, until |-> x.stamp + PayloadRetention]
             kept == IF e.doc = Nothing THEN x.docs
                     ELSE AS!With(x.docs, nextSeq, doc)
  <1>1. /\ x.left # <<>> /\ e.key \notin DOMAIN seen
        /\ e.at >= x.stamp - EventRetention
        /\ tx' = [tx EXCEPT
             ![w].left  = Tail(@),
             ![w].wrote = AS!With(@, e.key, row),
             ![w].docs  = IF e.doc = Nothing THEN @ ELSE AS!With(@, nextSeq, doc),
             ![w].note  = AS!With(@, e.key, e.body)]
    BY DEF AS!InsertEvent
  <1>2. DOMAIN tx = Writers
        /\ DOMAIN x = {"pc", "batch", "left", "stamp", "wrote", "docs", "note"}
    BY DEF TxInv, TxOf, TxType
  <1>4. /\ tx'[w].wrote = AS!With(x.wrote, e.key, row)
        /\ tx'[w].docs = kept
        /\ tx'[w].note = AS!With(x.note, e.key, e.body)
    BY <1>1, <1>2
  <1>6. ~(e.at < x.stamp - EventRetention)
    <2>1. e.at \in Int /\ x.stamp \in Int /\ EventRetention \in Int
      BY EventAssumption DEF EventAssumption
    <2> HIDE DEF e, x
    <2>2. x.stamp - EventRetention \in Int
      BY <2>1
    <2> QED BY <1>1, <2>1, <2>2
  <1>5. Outcome(rows, payloads, WrittenBy(w, last), e, x.stamp)
          = [wrote |-> AS!With(x.wrote, e.key, row), docs |-> kept,
             note |-> AS!With(x.note, e.key, e.body),
             last |-> nextSeq, next |-> nextSeq + 1]
    <2> DEFINE h == WrittenBy(w, last)
    <2>1. /\ h.wrote = x.wrote /\ h.docs = x.docs /\ h.note = x.note
          /\ h.last = last /\ h.next = nextSeq
      BY DEF WrittenBy
    <2>2. AS!Overlay(rows, h.wrote) = seen
      BY <2>1
    <2>3. Outcome(rows, payloads, h, e, x.stamp) = Inserted(h, e, x.stamp)
      <3> HIDE DEF h, x, e
      <3> QED BY <1>1, <1>6, <2>2, OutcomeInserts
    <2>6. h = WrittenBy(w, last)
      OBVIOUS
    <2> HIDE DEF h, x, e
    <2>4. [seq |-> h.next, at |-> e.at, body |-> e.body] = row
      BY <2>1
    <2>5. (IF e.doc = Nothing THEN h.docs
           ELSE AS!With(h.docs, h.next,
                        [doc |-> e.doc, until |-> x.stamp + PayloadRetention]))
            = kept
      BY <2>1
    <2> HIDE DEF row, kept
    <2> QED BY <2>1, <2>3, <2>4, <2>5, <2>6 DEF Inserted
  <1> HIDE DEF row, kept, doc
  <1> QED BY <1>4, <1>5

\* SkipEvent does what becomes of a new event past retention: nothing.
LEMMA SkipIsOutcome ==
    ASSUME TxInv, NEW w \in Writers, NEW last, AS!SkipEvent(w)
    PROVE  /\ Outcome(rows, payloads, WrittenBy(w, last), Head(tx[w].left), tx[w].stamp)
                = WrittenBy(w, last)
           /\ tx'[w].wrote = tx[w].wrote /\ tx'[w].docs = tx[w].docs
           /\ tx'[w].note = tx[w].note
  <1> DEFINE x == tx[w]
             e == Head(x.left)
             h == WrittenBy(w, last)
  <1>1. /\ e.key \notin DOMAIN AS!Overlay(rows, x.wrote)
        /\ e.at < x.stamp - EventRetention
        /\ tx' = [tx EXCEPT ![w].left = Tail(@)]
    BY DEF AS!SkipEvent
  <1>2. h.wrote = x.wrote
    BY DEF WrittenBy
  <1>3. Outcome(rows, payloads, h, e, x.stamp) = h
    <2> HIDE DEF h, x, e
    <2> QED BY <1>1, <1>2 DEF Outcome
  <1>4. DOMAIN tx = Writers
        /\ DOMAIN x = {"pc", "batch", "left", "stamp", "wrote", "docs", "note"}
    BY DEF TxInv, TxOf, TxType
  <1> QED BY <1>1, <1>3, <1>4

\* One more event.
LEMMA ChainGrows ==
    ASSUME NEW w \in Writers, NEW h, NEW n \in Nat, Chain(h, n, w),
           tx[w].batch \in Seq(Events), tx[w].left \in Seq(Events),
           tx[w].left # <<>>, tx'[w].left = Tail(tx[w].left),
           tx'[w].batch = tx[w].batch, tx'[w].stamp = tx[w].stamp,
           UNCHANGED <<rows, payloads, lastSeq>>, NEW last \in Int, NEW g,
           g = Outcome(rows, payloads, h[n], Head(tx[w].left), tx[w].stamp),
           g = [wrote |-> tx'[w].wrote, docs |-> tx'[w].docs,
                note |-> tx'[w].note, last |-> last, next |-> nextSeq'],
           LastIs(last, tx'[w].wrote),
           DOMAIN tx[w].wrote \subseteq DOMAIN tx'[w].wrote,
           DOMAIN tx[w].docs \subseteq DOMAIN tx'[w].docs
    PROVE  HasChain(w)'
  <1> DEFINE x == tx[w]
             y == tx'[w]
  <1>1. PICK f : f = [i \in 0..n + 1 |-> IF i = n + 1 THEN g ELSE h[i]]
    OBVIOUS
  <1>2. f[n + 1] = g /\ \A i \in 0..n : f[i] = h[i]
    BY <1>1
  <1>3. /\ Len(x.batch) = n + Len(x.left)
        /\ \A j \in 1..Len(x.left) : x.left[j] = x.batch[n + j]
        /\ \A i \in 1..n : h[i] = Outcome(rows, payloads, h[i - 1], x.batch[i], x.stamp)
        /\ \A i \in 0..n : /\ DOMAIN h[i].wrote \subseteq DOMAIN x.wrote
                           /\ DOMAIN h[i].docs \subseteq DOMAIN x.docs
    BY DEF Chain
  <1>4. /\ Len(x.left) \in Nat \ {0} /\ Len(Tail(x.left)) = Len(x.left) - 1
        /\ Head(x.left) = x.left[1]
        /\ \A j \in 1..Len(x.left) - 1 : Tail(x.left)[j] = x.left[j + 1]
    OBVIOUS
  <1>5. Len(y.batch) = n + 1 + Len(y.left)
    <2>1. Len(y.batch) = n + Len(x.left) /\ Len(y.left) = Len(x.left) - 1
      BY <1>3, <1>4
    <2>2. \A a \in Nat : n + a = n + 1 + (a - 1)
      OBVIOUS
    <2> QED BY <1>4, <2>1, <2>2
  <1>6. ASSUME NEW j \in 1..Len(y.left)
        PROVE  y.left[j] = y.batch[n + 1 + j]
    <2>1. j \in 1..Len(x.left) - 1 /\ j + 1 \in 1..Len(x.left)
      BY <1>4
    <2>2. y.left[j] = x.left[j + 1] /\ x.left[j + 1] = x.batch[n + (j + 1)]
      BY <1>3, <1>4, <2>1
    <2>3. n + (j + 1) = n + 1 + j
      BY <2>1
    <2> QED BY <2>2, <2>3
  <1>7. (\E base \in lastSeq + 1..MaxSeq + 1 : f[0] = Began(base))'
    <2>1. PICK base \in lastSeq + 1..MaxSeq + 1 : h[0] = Began(base)
      BY DEF Chain
    <2>2. f[0] = Began(base)' /\ base \in lastSeq' + 1..MaxSeq + 1
      BY <1>2, <2>1 DEF Began
    <2> QED BY <2>2
  <1>8. ASSUME NEW i \in 1..n + 1
        PROVE  f[i] = Outcome(rows, payloads, f[i - 1], x.batch[i], x.stamp)
    <2>1. CASE i = n + 1
      <3>1. x.batch[n + 1] = Head(x.left)
        BY <1>3, <1>4
      <3>2. f[i] = g /\ f[i - 1] = h[n]
        BY <1>2, <2>1
      <3> QED BY <2>1, <3>1, <3>2
    <2>2. CASE i \in 1..n
      <3>1. f[i] = h[i] /\ f[i - 1] = h[i - 1]
        BY <1>2, <2>2
      <3> QED BY <1>3, <2>2, <3>1
    <2> QED BY <2>1, <2>2
  <1>9. \A i \in 1..n + 1 : f[i] = Outcome(rows, payloads, f[i - 1], tx[w].batch[i], tx[w].stamp)'
    BY <1>8
  <1>10. ASSUME NEW i \in 0..n + 1
         PROVE  /\ DOMAIN f[i].wrote \subseteq DOMAIN y.wrote
                /\ DOMAIN f[i].docs \subseteq DOMAIN y.docs
    <2>1. CASE i = n + 1
      BY <1>2, <2>1
    <2>2. CASE i \in 0..n
      BY <1>2, <1>3, <2>2
    <2> QED BY <2>1, <2>2
  <1>11. f[n + 1] = WrittenBy(w, last)' /\ LastIs(last, tx[w].wrote)'
    BY <1>2 DEF WrittenBy, LastIs, AS!SeqsOf
  <1>12. Chain(f, n + 1, w)'
    BY <1>5, <1>6, <1>7, <1>9, <1>10, <1>11 DEF Chain
  <1> QED BY <1>12 DEF HasChain

\* Steps of others.
LEMMA ChainStays ==
    ASSUME NEW w \in Writers, HasChain(w), tx'[w] = tx[w],
           UNCHANGED <<rows, payloads, lastSeq, nextSeq>>
    PROVE  HasChain(w)'
  <1>0. PICK n \in Nat : \E h : Chain(h, n, w)
    BY DEF HasChain
  <1>1. PICK h : Chain(h, n, w)
    BY <1>0
  <1>3. Chain(h, n, w)'
    BY <1>1 DEF Chain, Began, WrittenBy, LastIs, AS!SeqsOf
  <1> QED BY <1>3 DEF HasChain

\* The transaction opens.
LEMMA ChainBegins ==
    ASSUME NEW w \in Writers, tx'[w].left = tx'[w].batch,
           tx'[w].batch \in Seq(Events), Fresh(tx'[w]),
           lastSeq' \in Nat, nextSeq' \in Nat, lastSeq' < nextSeq',
           nextSeq' <= MaxSeq + 1
    PROVE  HasChain(w)'
  <1>1. PICK h : h = [i \in 0..0 |-> Began(nextSeq)']
    OBVIOUS
  <1>2. h[0] = Began(nextSeq)' /\ MaxSeq \in Nat
    BY <1>1, EventAssumption DEF EventAssumption
  <1>3. h[0] = WrittenBy(w, lastSeq)'
    BY <1>2 DEF Began, WrittenBy, Fresh
  <1>4. LastIs(lastSeq, tx[w].wrote)'
    BY DEF LastIs, Fresh, AS!NoRows
  <1>5. nextSeq' \in lastSeq' + 1..MaxSeq + 1
    BY <1>2
  <1>6. \A i \in 0..0 : /\ DOMAIN h[i].wrote \subseteq DOMAIN tx'[w].wrote
                        /\ DOMAIN h[i].docs \subseteq DOMAIN tx'[w].docs
    BY <1>3 DEF WrittenBy
  <1>7. Chain(h, 0, w)'
    <2>1. /\ Len(tx'[w].batch) = 0 + Len(tx'[w].left)
          /\ \A j \in 1..Len(tx'[w].left) : tx'[w].left[j] = tx'[w].batch[0 + j]
          /\ 1..0 = {}
      OBVIOUS
    <2>2. (\E base \in lastSeq + 1..MaxSeq + 1 : h[0] = Began(base))'
      BY <1>2, <1>5
    <2>3. (\E last \in Int : h[0] = WrittenBy(w, last) /\ LastIs(last, tx[w].wrote))'
      BY <1>3, <1>4
    <2> QED BY <1>6, <2>1, <2>2, <2>3 DEF Chain
  <1> QED BY <1>7 DEF HasChain

\* The retention job leaves what a transaction works with.
LEMMA OutcomeIsKept ==
    ASSUME NEW r, NEW p, NEW P \in SUBSET DOMAIN r, NEW G, NEW h, NEW e, NEW t,
           NEW g, g = Outcome(r, p, h, e, t),
           DOMAIN g.wrote \cap P = {}, DOMAIN g.docs \cap G = {}
    PROVE  Outcome(AS!Without(r, P), AS!Without(p, G), h, e, t) = g
  <1> DEFINE q == AS!Without(r, P)
             o == AS!Without(p, G)
             seen == AS!Overlay(r, h.wrote)
             read == AS!Overlay(p, h.docs)
             seen2 == AS!Overlay(q, h.wrote)
             read2 == AS!Overlay(o, h.docs)
             exists == e.key \in DOMAIN seen
             exists2 == e.key \in DOMAIN seen2
             line == IF exists THEN [seen[e.key] EXCEPT !.body = e.body]
                     ELSE [seq |-> h.next, at |-> e.at, body |-> e.body]
             line2 == IF exists2 THEN [seen2[e.key] EXCEPT !.body = e.body]
                     ELSE [seq |-> h.next, at |-> e.at, body |-> e.body]
             first == ~exists /\ e.doc # Nothing
             first2 == ~exists2 /\ e.doc # Nothing
             again == /\ exists /\ e.doc # Nothing
                      /\ AS!Readable(read, line.seq, t)
                      /\ read[line.seq].doc # e.doc
             again2 == /\ exists2 /\ e.doc # Nothing
                       /\ AS!Readable(read2, line2.seq, t)
                       /\ read2[line2.seq].doc # e.doc
             until == IF first THEN t + PayloadRetention ELSE read[line.seq].until
             until2 == IF first2 THEN t + PayloadRetention
                       ELSE read2[line2.seq].until
             changed == ~exists \/ seen[e.key] # line \/ again
             changed2 == ~exists2 \/ seen2[e.key] # line2 \/ again2
             skip == ~exists /\ e.at < t - EventRetention
             skip2 == ~exists2 /\ e.at < t - EventRetention
             kept == IF first \/ again
                     THEN AS!With(h.docs, line.seq, [doc |-> e.doc, until |-> until])
                     ELSE h.docs
             kept2 == IF first2 \/ again2
                      THEN AS!With(h.docs, line2.seq, [doc |-> e.doc, until |-> until2])
                      ELSE h.docs
             note == IF changed THEN AS!With(h.note, e.key, e.body) ELSE h.note
             note2 == IF changed2 THEN AS!With(h.note, e.key, e.body) ELSE h.note
             last == IF exists THEN h.last ELSE h.next
             last2 == IF exists2 THEN h.last ELSE h.next
             next == IF exists THEN h.next ELSE h.next + 1
             next2 == IF exists2 THEN h.next ELSE h.next + 1
             f == [wrote |-> AS!With(h.wrote, e.key, line), docs |-> kept,
                   note |-> note, last |-> last, next |-> next]
             f2 == [wrote |-> AS!With(h.wrote, e.key, line2), docs |-> kept2,
                    note |-> note2, last |-> last2, next |-> next2]
  <1>1. g = (IF skip THEN h ELSE f)
        /\ Outcome(q, o, h, e, t) = IF skip2 THEN h ELSE f2
    BY DEF Outcome
  <1>2. exists => e.key \in DOMAIN g.wrote
    <2> SUFFICES ASSUME exists PROVE e.key \in DOMAIN f.wrote
      BY <1>1
    <2>1. f.wrote = AS!With(h.wrote, e.key, line)
      OBVIOUS
    <2> HIDE DEF f, line
    <2> QED BY <2>1 DEF AS!With
  <1>3. exists <=> exists2
    <2>1. DOMAIN q = DOMAIN r \ P
      BY DEF AS!Without
    <2>2. exists => e.key \notin P
      BY <1>2
    <2> HIDE DEF q
    <2> QED BY <2>1, <2>2 DEF AS!Overlay
  <1>4. exists => seen2[e.key] = seen[e.key]
    <2> SUFFICES ASSUME exists PROVE seen2[e.key] = seen[e.key]
      OBVIOUS
    <2>1. e.key \notin P
      BY <1>2
    <2>2. e.key \in DOMAIN q => q[e.key] = r[e.key]
      BY <2>1 DEF AS!Without
    <2> HIDE DEF q
    <2> QED BY <1>3, <2>2 DEF AS!Overlay
  <1>5. line = line2 /\ (first <=> first2) /\ (skip <=> skip2)
        /\ last = last2 /\ next = next2
    <2> HIDE DEF seen, seen2
    <2> QED BY <1>3, <1>4
  <1>6. \A s \in DOMAIN read2 : s \in DOMAIN read /\ read2[s] = read[s]
    BY DEF AS!Overlay, AS!Without
  <1>7. \A s \in DOMAIN read : s \notin G => s \in DOMAIN read2
    BY DEF AS!Overlay, AS!Without
  <1>8. again => line.seq \in DOMAIN g.docs
    <2> SUFFICES ASSUME again PROVE line.seq \in DOMAIN f.docs
      BY <1>1
    <2>1. f.docs = kept
      OBVIOUS
    <2>2. kept = AS!With(h.docs, line.seq, [doc |-> e.doc, until |-> until])
      OBVIOUS
    <2> HIDE DEF f, line, kept, until
    <2> QED BY <2>1, <2>2 DEF AS!With
  <1> HIDE DEF read, read2, seen, seen2, q, o, f, f2
  <1>9. again => line.seq \notin G
    BY <1>8
  <1>10. again <=> again2
    <2> HIDE DEF line, line2, exists, exists2
    <2> QED BY <1>3, <1>5, <1>6, <1>7, <1>9 DEF AS!Readable
  <1>11. again => until = until2
    <2>1. again => line.seq \in DOMAIN read /\ line.seq \notin G
      BY <1>9 DEF AS!Readable
    <2> HIDE DEF line, line2, exists, exists2
    <2> QED BY <1>5, <1>6, <1>7, <2>1
  <1>12. first => until = until2
    BY <1>5
  <1>13. (changed <=> changed2) /\ note = note2
    <2>1. changed <=> changed2
      <3> HIDE DEF again, again2, line, line2, exists, exists2
      <3> QED BY <1>3, <1>4, <1>5, <1>10
    <2> HIDE DEF changed, changed2
    <2> QED BY <2>1
  <1>14. kept = kept2
    <2> HIDE DEF first, first2, again, again2, until, until2, line, line2
    <2> QED BY <1>5, <1>10, <1>11, <1>12
  <1>15. f = f2
    <2> HIDE DEF note, note2, kept, kept2, line, line2, last, last2, next, next2
    <2> QED BY <1>5, <1>13, <1>14 DEF f, f2
  <1>16. Outcome(q, o, h, e, t) = g
    <2> HIDE DEF skip, skip2
    <2> QED BY <1>1, <1>5, <1>15
  <1> QED BY <1>16 DEF q, o

\* The retention job: it waits for the rows the transaction has written, so what
\* the transaction did is what it would do now.
LEMMA ChainPruned ==
    ASSUME EventsInv, NEW w \in Writers, outboxRow = w, HasChain(w), NEW t,
           AS!Prune(t)
    PROVE  HasChain(w)'
  <1> DEFINE P == AS!Pruned(rows, t)
             X == AS!Expired(t)
             G == {rows[k].seq : k \in P} \cup X
             x == tx[w]
  <1>1. /\ DOMAIN x.wrote \cap P = {} /\ DOMAIN x.docs \cap X = {}
        /\ rows' = AS!Without(rows, P)
        /\ payloads' = AS!Without(payloads, G)
        /\ UNCHANGED <<now, lastSeq, notified, outboxRow, nextSeq, tx>>
    BY DEF AS!Prune, AS!PruneAudit, AS!Expired, AS!txVars
  <1>2. P \in SUBSET DOMAIN rows
    BY DEF AS!Pruned
  <1>3. RowsWritten(x)
    BY DEF EventsInv, TxInv, TxOf
  <1> HIDE DEF P, X
  <1>4. DOMAIN x.docs \cap G = {}
    <2> SUFFICES ASSUME NEW k \in P, rows[k].seq \in DOMAIN x.docs PROVE FALSE
      BY <1>1
    <2>1. PICK j \in DOMAIN x.wrote : x.wrote[j].seq = rows[k].seq
      BY <1>3 DEF RowsWritten
    <2>2. k \in DOMAIN rows /\ j \notin P
      BY <1>1, <1>2
    <2>3. CASE j \in DOMAIN rows
      <3>1. rows[j].seq = rows[k].seq
        BY <1>3, <2>1, <2>3 DEF RowsWritten
      <3> QED BY <2>2, <2>3, <3>1 DEF EventsInv, RowsTyped
    <2>4. CASE j \notin DOMAIN rows
      <3>1. lastSeq < rows[k].seq
        BY <1>3, <2>1, <2>4 DEF RowsWritten
      <3>2. rows[k].seq <= lastSeq /\ lastSeq \in Nat /\ rows[k].seq \in Int
        BY <2>2 DEF EventsInv, RowsTyped, EventRow, EventNumbers
      <3> QED BY <3>1, <3>2
    <2> QED BY <2>3, <2>4
  <1> HIDE DEF G
  <1>0. PICK n \in Nat : \E h : Chain(h, n, w)
    BY DEF HasChain
  <1>5. PICK h : Chain(h, n, w)
    BY <1>0
  <1>6. ASSUME NEW i \in 1..n
        PROVE  h[i] = Outcome(rows', payloads', h[i - 1], x.batch[i], x.stamp)
    <2>1. h[i] = Outcome(rows, payloads, h[i - 1], x.batch[i], x.stamp)
      BY <1>5 DEF Chain
    <2>2. DOMAIN h[i].wrote \cap P = {} /\ DOMAIN h[i].docs \cap G = {}
      BY <1>1, <1>4, <1>5 DEF Chain
    <2>3. Outcome(AS!Without(rows, P), AS!Without(payloads, G),
               h[i - 1], x.batch[i], x.stamp) = h[i]
      <3> HIDE DEF x
      <3> QED BY <1>2, <2>1, <2>2, OutcomeIsKept
    <2> QED BY <1>1, <2>3
  <1>7. tx' = tx /\ lastSeq' = lastSeq /\ nextSeq' = nextSeq
    BY <1>1
  <1>8. Chain(h, n, w)'
    BY <1>5, <1>6, <1>7 DEF Chain, Began, WrittenBy, LastIs, AS!SeqsOf
  <1> QED BY <1>8 DEF HasChain

\* A writer with events left holds the outbox row.
LEMMA WriterIsTyped ==
    ASSUME EventsInv, NEW w \in Writers, tx[w].pc = "open", tx[w].left # <<>>
    PROVE  /\ outboxRow = w /\ RowsWritten(tx[w])
           /\ tx[w].batch \in Seq(Events) /\ tx[w].left \in Seq(Events)
           /\ Head(tx[w].left) \in Events /\ tx[w].stamp \in Int
           /\ DOMAIN tx = Writers
           /\ DOMAIN tx[w] = {"pc", "batch", "left", "stamp", "wrote", "docs",
                              "note"}
  <1>1. TxOf(w) /\ DOMAIN tx = Writers /\ now \in Nat
    BY DEF EventsInv, TxInv, EventNumbers
  <1>2. outboxRow = w /\ RowsWritten(tx[w]) /\ TxType(tx[w])
    BY <1>1 DEF TxOf
  <1>3. Head(tx[w].left) \in Events
    BY <1>2 DEF TxType
  <1> QED BY <1>1, <1>2, <1>3 DEF TxType

\* An update adds to the chain.
LEMMA UpdateChain ==
    ASSUME EventsInv, NEW w \in Writers, HasChain(w), AS!UpdateEvent(w)
    PROVE  HasChain(w)'
  <1> DEFINE x == tx[w]
             e == Head(x.left)
             seen == AS!Overlay(rows, x.wrote)
             row == AS!Revision(seen[e.key], e)
  <1>0. PICK n \in Nat : \E h : Chain(h, n, w)
    BY DEF HasChain
  <1>1. PICK h : Chain(h, n, w)
    BY <1>0
  <1>2. PICK last \in Int : h[n] = WrittenBy(w, last) /\ LastIs(last, x.wrote)
    BY <1>1 DEF Chain
  <1>3. /\ tx[w].pc = "open" /\ tx[w].left # <<>> /\ e.key \in DOMAIN seen
        /\ UNCHANGED <<now, rows, payloads, lastSeq, notified, nextSeq>>
    BY DEF AS!UpdateEvent, AS!storeVars
  <1>4. /\ outboxRow = w /\ RowsWritten(x) /\ e \in Events /\ DOMAIN tx = Writers
        /\ x.batch \in Seq(Events) /\ x.left \in Seq(Events)
        /\ DOMAIN x = {"pc", "batch", "left", "stamp", "wrote", "docs", "note"}
    BY <1>3, WriterIsTyped
  <1>5. /\ tx'[w].left = Tail(x.left) /\ tx'[w].batch = x.batch
        /\ tx'[w].stamp = x.stamp
        /\ tx'[w].wrote = AS!With(x.wrote, e.key, row)
        /\ DOMAIN x.docs \subseteq DOMAIN tx'[w].docs
    BY <1>4 DEF AS!UpdateEvent, AS!With
  <1>6. PICK g : g = Outcome(rows, payloads, h[n], e, x.stamp)
    OBVIOUS
  <1>7. g = [wrote |-> tx'[w].wrote, docs |-> tx'[w].docs,
             note |-> tx'[w].note, last |-> last, next |-> nextSeq']
    BY <1>2, <1>3, <1>6, UpdateIsOutcome DEF EventsInv
  <1>8. /\ seen[e.key] \in EventRow
        /\ e.key \in DOMAIN rows => seen[e.key].seq = rows[e.key].seq
        /\ e.key \in DOMAIN x.wrote => seen[e.key].seq = x.wrote[e.key].seq
    <2>1. RowsTyped /\ EventNumbers
      BY DEF EventsInv
    <2>2. e.key \in DOMAIN AS!Overlay(rows, x.wrote)
          /\ seen[e.key] = AS!Overlay(rows, x.wrote)[e.key]
      BY <1>3
    <2> HIDE DEF e, seen
    <2> QED BY <1>4, <2>1, <2>2, SeenRow
  <1>9. row.seq = seen[e.key].seq /\ row.seq \in Int
    BY <1>8 DEF AS!Revision, EventRow
  <1>10. row.seq <= last
    <2>1. CASE e.key \in DOMAIN x.wrote
      BY <1>2, <1>8, <1>9, <2>1 DEF LastIs
    <2>2. CASE e.key \notin DOMAIN x.wrote
      <3>1. e.key \in DOMAIN rows
        BY <1>3, <2>2 DEF AS!Overlay
      <3>2. rows[e.key].seq <= lastSeq /\ lastSeq \in Int /\ lastSeq <= last
        BY <1>2, <3>1 DEF EventsInv, EventNumbers, LastIs
      <3> QED BY <1>8, <1>9, <3>1, <3>2
    <2> QED BY <2>1, <2>2
  <1> HIDE DEF seen, row
  <1>11. LastIs(last, tx'[w].wrote)
    <2>1. /\ DOMAIN tx'[w].wrote = DOMAIN x.wrote \cup {e.key}
          /\ tx'[w].wrote[e.key] = row
          /\ \A y \in DOMAIN x.wrote : y # e.key => tx'[w].wrote[y] = x.wrote[y]
      BY <1>5 DEF AS!With
    <2>2. \A k \in DOMAIN x.wrote : tx'[w].wrote[k].seq = x.wrote[k].seq
      BY <1>8, <1>9, <2>1
    <2>3. \A k \in DOMAIN tx'[w].wrote : tx'[w].wrote[k].seq <= last
      <3>1. \A k \in DOMAIN x.wrote : x.wrote[k].seq <= last
        BY <1>2 DEF LastIs
      <3> QED BY <1>2, <1>5, <1>10, <3>1 DEF AS!With
    <2>4. last \in AS!SeqsOf(tx'[w].wrote) \cup {lastSeq}
      BY <1>2, <2>1, <2>2 DEF LastIs, AS!SeqsOf
    <2> QED BY <1>2, <2>3, <2>4 DEF LastIs
  <1>12. DOMAIN x.wrote \subseteq DOMAIN tx'[w].wrote
    BY <1>5 DEF AS!With
  <1>13. UNCHANGED <<rows, payloads, lastSeq>>
    BY <1>3
  <1>14. g = Outcome(rows, payloads, h[n], Head(tx[w].left), tx[w].stamp)
    BY <1>6
  <1> HIDE DEF e
  <1>15. /\ tx[w].left # <<>> /\ tx'[w].left = Tail(tx[w].left)
         /\ tx[w].batch \in Seq(Events) /\ tx[w].left \in Seq(Events)
         /\ tx'[w].batch = tx[w].batch /\ tx'[w].stamp = tx[w].stamp
         /\ DOMAIN tx[w].wrote \subseteq DOMAIN tx'[w].wrote
         /\ DOMAIN tx[w].docs \subseteq DOMAIN tx'[w].docs
    BY <1>3, <1>4, <1>5, <1>12
  <1> HIDE DEF x
  <1> QED BY <1>1, <1>2, <1>7, <1>11, <1>13, <1>14, <1>15, ChainGrows

\* So does an insert.
LEMMA InsertChain ==
    ASSUME EventsInv, NEW w \in Writers, HasChain(w), AS!InsertEvent(w)
    PROVE  HasChain(w)'
  <1> DEFINE x == tx[w]
             e == Head(x.left)
             row == [seq |-> nextSeq, at |-> e.at, body |-> e.body]
  <1>0. PICK n \in Nat : \E h : Chain(h, n, w)
    BY DEF HasChain
  <1>1. PICK h : Chain(h, n, w)
    BY <1>0
  <1>2. PICK last \in Int : h[n] = WrittenBy(w, last) /\ LastIs(last, x.wrote)
    BY <1>1 DEF Chain
  <1>3. /\ tx[w].pc = "open" /\ tx[w].left # <<>> /\ nextSeq' = nextSeq + 1
        /\ UNCHANGED <<now, rows, payloads, lastSeq, notified>>
    BY DEF AS!InsertEvent, AS!storeVars
  <1>4. /\ outboxRow = w /\ RowsWritten(x) /\ e \in Events /\ DOMAIN tx = Writers
        /\ x.batch \in Seq(Events) /\ x.left \in Seq(Events) /\ x.stamp \in Int
        /\ DOMAIN x = {"pc", "batch", "left", "stamp", "wrote", "docs", "note"}
    BY <1>3, WriterIsTyped
  <1>5. /\ tx'[w].left = Tail(x.left) /\ tx'[w].batch = x.batch
        /\ tx'[w].stamp = x.stamp
        /\ tx'[w].wrote = AS!With(x.wrote, e.key, row)
        /\ DOMAIN x.docs \subseteq DOMAIN tx'[w].docs
    BY <1>4 DEF AS!InsertEvent, AS!With
  <1>6. PICK g : g = Outcome(rows, payloads, h[n], e, x.stamp)
    OBVIOUS
  <1>7. g = [wrote |-> tx'[w].wrote, docs |-> tx'[w].docs,
             note |-> tx'[w].note, last |-> nextSeq, next |-> nextSeq']
    <2>1. e.at \in Int
      BY <1>4, EventAssumption DEF EventAssumption
    <2> QED BY <1>2, <1>3, <1>4, <1>6, <2>1, InsertIsOutcome DEF EventsInv
  <1>8. /\ nextSeq \in Int /\ lastSeq \in Int /\ lastSeq < nextSeq
        /\ \A k \in DOMAIN x.wrote : x.wrote[k].seq <= nextSeq
    <2>1. nextSeq \in Nat /\ lastSeq \in Nat /\ lastSeq < nextSeq
      BY DEF EventsInv, EventNumbers
    <2>2. ASSUME NEW k \in DOMAIN x.wrote PROVE x.wrote[k].seq <= nextSeq
      <3>1. x.wrote[k].seq \in Int
        BY <1>4 DEF RowsWritten, EventRow
      <3>2. CASE k \in DOMAIN rows
        <4>1. x.wrote[k].seq <= lastSeq
          BY <1>4, <3>2 DEF RowsWritten, EventsInv, EventNumbers
        <4> QED BY <2>1, <3>1, <4>1
      <3>3. CASE k \notin DOMAIN rows
        <4>1. x.wrote[k].seq < nextSeq
          BY <1>4, <3>3 DEF RowsWritten
        <4> QED BY <2>1, <3>1, <4>1
      <3> QED BY <3>2, <3>3
    <2> QED BY <2>1, <2>2
  <1>9. row.seq = nextSeq
    OBVIOUS
  <1> HIDE DEF row
  <1>11. LastIs(nextSeq, tx'[w].wrote)
    <2>1. /\ DOMAIN tx'[w].wrote = DOMAIN x.wrote \cup {e.key}
          /\ tx'[w].wrote[e.key] = row
          /\ \A y \in DOMAIN x.wrote : y # e.key => tx'[w].wrote[y] = x.wrote[y]
      BY <1>5 DEF AS!With
    <2>3. \A k \in DOMAIN tx'[w].wrote : tx'[w].wrote[k].seq <= nextSeq
      <3>1. nextSeq <= nextSeq
        BY <1>8
      <3> QED BY <1>5, <1>8, <1>9, <3>1 DEF AS!With
    <2>4. nextSeq \in AS!SeqsOf(tx'[w].wrote) \cup {lastSeq}
      BY <1>9, <2>1 DEF AS!SeqsOf
    <2> QED BY <1>8, <2>3, <2>4 DEF LastIs
  <1>12. DOMAIN x.wrote \subseteq DOMAIN tx'[w].wrote
    BY <1>5 DEF AS!With
  <1>13. UNCHANGED <<rows, payloads, lastSeq>>
    BY <1>3
  <1>14. g = Outcome(rows, payloads, h[n], Head(tx[w].left), tx[w].stamp)
    BY <1>6
  <1>15. /\ tx[w].left # <<>> /\ tx'[w].left = Tail(tx[w].left)
         /\ tx[w].batch \in Seq(Events) /\ tx[w].left \in Seq(Events)
         /\ tx'[w].batch = tx[w].batch /\ tx'[w].stamp = tx[w].stamp
         /\ DOMAIN tx[w].wrote \subseteq DOMAIN tx'[w].wrote
         /\ DOMAIN tx[w].docs \subseteq DOMAIN tx'[w].docs
    BY <1>3, <1>4, <1>5, <1>12
  <1> HIDE DEF x
  <1> QED BY <1>1, <1>7, <1>8, <1>11, <1>13, <1>14, <1>15, ChainGrows

\* So does an event that is skipped.
LEMMA SkipChain ==
    ASSUME EventsInv, NEW w \in Writers, HasChain(w), AS!SkipEvent(w)
    PROVE  HasChain(w)'
  <1> DEFINE x == tx[w]
             e == Head(x.left)
  <1>0. PICK n \in Nat : \E h : Chain(h, n, w)
    BY DEF HasChain
  <1>1. PICK h : Chain(h, n, w)
    BY <1>0
  <1>2. PICK last \in Int : h[n] = WrittenBy(w, last) /\ LastIs(last, x.wrote)
    BY <1>1 DEF Chain
  <1>3. /\ tx[w].pc = "open" /\ tx[w].left # <<>>
        /\ UNCHANGED <<now, rows, payloads, lastSeq, notified, nextSeq>>
    BY DEF AS!SkipEvent, AS!storeVars
  <1>4. /\ outboxRow = w /\ DOMAIN tx = Writers
        /\ x.batch \in Seq(Events) /\ x.left \in Seq(Events)
        /\ DOMAIN x = {"pc", "batch", "left", "stamp", "wrote", "docs", "note"}
    BY <1>3, WriterIsTyped
  <1>5. /\ tx'[w].left = Tail(x.left) /\ tx'[w].batch = x.batch
        /\ tx'[w].stamp = x.stamp
        /\ tx'[w].wrote = x.wrote /\ tx'[w].docs = x.docs /\ tx'[w].note = x.note
    BY <1>4 DEF AS!SkipEvent
  <1>6. PICK g : g = Outcome(rows, payloads, h[n], e, x.stamp)
    OBVIOUS
  <1>7. g = WrittenBy(w, last)
    BY <1>2, <1>6, SkipIsOutcome DEF EventsInv
  <1>8. g = [wrote |-> tx'[w].wrote, docs |-> tx'[w].docs,
             note |-> tx'[w].note, last |-> last, next |-> nextSeq']
    BY <1>3, <1>5, <1>7 DEF WrittenBy
  <1>9. LastIs(last, tx'[w].wrote)
    BY <1>2, <1>5
  <1> QED BY <1>1, <1>3, <1>4, <1>5, <1>6, <1>8, <1>9, ChainGrows

-----------------------------------------------------------------------------
(* The writer at the outbox row *)

\* Transactions carry batches that were sent; the holder of the outbox row has
\* a chain.
CallsInv ==
    /\ now <= MaxTime /\ Keys \subseteq DOMAIN notified
    /\ \A w \in Writers : tx[w].pc # "idle" => tx[w].batch \in EventBatches
    /\ \A w \in Writers : outboxRow = w => HasChain(w)

\* A transaction without events stores no row.
LEMMA EmptyCommit ==
    ASSUME EventsInv, NEW w \in Writers, AS!CommitPersist(w), outboxRow # w
    PROVE  /\ UNCHANGED <<rows, payloads, lastSeq, notified>>
           /\ tx[w].batch = <<>>
  <1>1. /\ tx[w].pc = "open" /\ tx[w].left = <<>>
        /\ rows' = AS!Overlay(rows, tx[w].wrote)
        /\ payloads' = AS!Overlay(payloads, tx[w].docs)
        /\ lastSeq' = AS!Highest(AS!SeqsOf(tx[w].wrote) \cup {lastSeq})
        /\ notified' = AS!Overlay(notified, tx[w].note)
    BY DEF AS!CommitPersist
  <1>2. Fresh(tx[w]) /\ tx[w].batch = <<>>
    BY <1>1 DEF EventsInv, TxInv, TxOf
  <1>3. UNCHANGED <<rows, payloads, notified>>
    BY <1>1, <1>2, OverlayOfNothing DEF Fresh, EventsInv, TablesAreFunctions
  <1>4. lastSeq' = lastSeq
    <2>1. AS!SeqsOf(tx[w].wrote) = {}
      BY <1>2 DEF Fresh, AS!SeqsOf, AS!NoRows
    <2>2. lastSeq' = AS!Highest({lastSeq}) /\ lastSeq \in Int
      BY <1>1, <2>1 DEF EventsInv, EventNumbers
    <2>3. AS!Highest({lastSeq}) \in {lastSeq}
      BY <2>2, HighestIsThere, FS_Singleton
    <2> QED BY <2>2, <2>3
  <1> QED BY <1>2, <1>3, <1>4

\* No transaction has begun.
LEMMA InitCalls == AS!InitStore => CallsInv
  <1> SUFFICES ASSUME AS!InitStore PROVE CallsInv
    OBVIOUS
  <1>1. /\ now = 0 /\ outboxRow = NoHolder
        /\ notified = [k \in Keys |-> Nothing]
        /\ tx = [w \in Writers |-> AS!NoTx] /\ AS!NoTx.pc = "idle"
    BY DEF AS!InitStore, AS!Init, AS!NoTx
  <1> QED BY <1>1, EventAssumption DEF EventAssumption, CallsInv

\* Steps of other writers.
LEMMA OthersKeepChain ==
    ASSUME EventsInv, CallsInv, NEW d \in Writers, AS!Persist(d),
           NEW w \in Writers, w # d, outboxRow' = w
    PROVE  HasChain(w)'
  <1>1. TxOf(d) /\ DOMAIN tx = Writers
    BY DEF EventsInv, TxInv
  <1>2. outboxRow' \in {outboxRow, d, NoHolder} /\ tx'[w] = tx[w]
    BY <1>1 DEF AS!Persist, AS!BeginPersist, AS!LockAndStamp, AS!UpdateEvent,
       AS!InsertEvent, AS!SkipEvent, AS!CommitPersist, AS!RollbackPersist,
       AS!Released
  <1>3. outboxRow = w /\ outboxRow # d
    BY <1>2, EventAssumption DEF EventAssumption
  <1>4. HasChain(w)
    BY <1>3 DEF CallsInv
  <1>5. ~AS!UpdateEvent(d) /\ ~AS!InsertEvent(d) /\ ~AS!SkipEvent(d)
    BY <1>1, <1>3 DEF TxOf, AS!UpdateEvent, AS!InsertEvent, AS!SkipEvent
  <1>6. UNCHANGED <<rows, payloads, lastSeq, nextSeq>>
    <2>1. ASSUME \/ \E batch \in EventBatches : AS!BeginPersist(d, batch)
                 \/ AS!LockAndStamp(d) \/ AS!RollbackPersist(d)
          PROVE  UNCHANGED <<rows, payloads, lastSeq, nextSeq>>
      BY <2>1 DEF AS!BeginPersist, AS!LockAndStamp, AS!RollbackPersist,
         AS!storeVars
    <2>2. ASSUME AS!CommitPersist(d)
          PROVE  UNCHANGED <<rows, payloads, lastSeq, nextSeq>>
      <3>1. nextSeq' = nextSeq
        BY <2>2 DEF AS!CommitPersist
      <3> QED BY <1>3, <2>2, <3>1, EmptyCommit
    <2> QED BY <1>5, <2>1, <2>2 DEF AS!Persist
  <1> QED BY <1>2, <1>4, <1>6, ChainStays

\* Steps of the writer itself.
LEMMA OwnChain ==
    ASSUME EventsInv, CallsInv, NEW w \in Writers, AS!Persist(w), outboxRow' = w
    PROVE  HasChain(w)'
  <1>1. TxOf(w) /\ DOMAIN tx = Writers /\ w # NoHolder
    BY EventAssumption DEF EventsInv, TxInv, EventAssumption
  <1>2. \A batch \in EventBatches : ~AS!BeginPersist(w, batch)
    BY <1>1 DEF AS!BeginPersist, TxOf
  <1>3. ~AS!CommitPersist(w) /\ ~AS!RollbackPersist(w)
    BY <1>1 DEF AS!CommitPersist, AS!RollbackPersist, AS!Released
  <1>4. CASE AS!LockAndStamp(w)
    <2>1. /\ tx[w].pc = "begun" /\ UNCHANGED <<lastSeq, nextSeq>>
          /\ tx' = [tx EXCEPT ![w].pc = "open", ![w].stamp = now]
      BY <1>4 DEF AS!LockAndStamp, AS!storeVars
    <2>2. /\ tx[w].left = tx[w].batch /\ Fresh(tx[w])
          /\ tx[w].batch \in Seq(Events)
          /\ DOMAIN tx[w] = {"pc", "batch", "left", "stamp", "wrote", "docs",
                             "note"}
      BY <1>1, <2>1 DEF TxOf, TxType
    <2>3. tx'[w] = [tx[w] EXCEPT !.pc = "open", !.stamp = now]
      BY <1>1, <2>1
    <2>4. /\ tx'[w].left = tx[w].left /\ tx'[w].batch = tx[w].batch
          /\ tx'[w].wrote = tx[w].wrote /\ tx'[w].docs = tx[w].docs
          /\ tx'[w].note = tx[w].note
      BY <2>2, <2>3
    <2>5. Fresh(tx'[w])
      BY <2>2, <2>4 DEF Fresh
    <2>6. /\ lastSeq' \in Nat /\ nextSeq' \in Nat /\ lastSeq' < nextSeq'
          /\ nextSeq' <= MaxSeq + 1
      BY <2>1 DEF EventsInv, EventNumbers
    <2>7. tx'[w].left = tx'[w].batch /\ tx'[w].batch \in Seq(Events)
      BY <2>2, <2>4
    <2> QED BY <2>5, <2>6, <2>7, ChainBegins
  <1>5. CASE AS!UpdateEvent(w) \/ AS!InsertEvent(w) \/ AS!SkipEvent(w)
    <2>1. outboxRow = w
      BY <1>5 DEF AS!UpdateEvent, AS!InsertEvent, AS!SkipEvent
    <2>2. HasChain(w)
      BY <2>1 DEF CallsInv
    <2> QED BY <1>5, <2>2, UpdateChain, InsertChain, SkipChain
  <1> QED BY <1>2, <1>3, <1>4, <1>5 DEF AS!Persist

\* Every step keeps the chain of the transaction that holds the outbox row.
LEMMA NextCalls == EventsInv /\ CallsInv /\ [AS!NextStore]_(AS!vars) => CallsInv'
  <1> SUFFICES ASSUME EventsInv, CallsInv, [AS!NextStore]_(AS!vars)
               PROVE  CallsInv'
    OBVIOUS
  <1> DEFINE Early == now' <= MaxTime /\ Keys \subseteq DOMAIN notified'
             Ours == \A w \in Writers : tx'[w].pc # "idle" =>
                                        tx'[w].batch \in EventBatches
             Chained == \A w \in Writers : outboxRow' = w => HasChain(w)'
  <1>1. now <= MaxTime /\ Keys \subseteq DOMAIN notified /\ now \in Nat
        /\ MaxTime \in Nat
    BY EventAssumption DEF CallsInv, EventsInv, EventNumbers, EventAssumption
  <1>2. \A w \in Writers : tx[w].pc # "idle" => tx[w].batch \in EventBatches
    BY DEF CallsInv
  <1>3. \A w \in Writers : outboxRow = w => HasChain(w)
    BY DEF CallsInv
  <1>4. ASSUME UNCHANGED <<rows, payloads, lastSeq, nextSeq, tx, outboxRow>>
        PROVE  Chained
    BY <1>3, <1>4, ChainStays
  <1>5. CASE AS!Tick /\ UNCHANGED <<AS!txVars, eventListing>>
    <2>1. /\ now' = now + 1 /\ now < MaxTime
          /\ UNCHANGED <<rows, payloads, lastSeq, notified>>
          /\ UNCHANGED <<nextSeq, tx, outboxRow>>
      BY <1>5 DEF AS!Tick, AS!storeVars, AS!txVars
    <2>2. Early /\ Ours
      BY <1>1, <1>2, <2>1
    <2>3. Chained
      BY <1>4, <2>1
    <2> QED BY <2>2, <2>3 DEF CallsInv
  <1>6. ASSUME NEW d \in Writers, AS!Persist(d) PROVE CallsInv'
    <2>1. now' = now /\ DOMAIN notified \subseteq DOMAIN notified'
      BY <1>6 DEF AS!Persist, AS!BeginPersist, AS!LockAndStamp, AS!UpdateEvent,
         AS!InsertEvent, AS!SkipEvent, AS!CommitPersist, AS!RollbackPersist,
         AS!storeVars, AS!Overlay
    <2>2. Ours
      <3>1. TxType(tx[d]) /\ DOMAIN tx = Writers
        BY DEF EventsInv, TxInv, TxOf
      <3>2. \A w \in Writers : w # d => tx'[w] = tx[w]
        BY <1>6, <3>1 DEF AS!Persist, AS!BeginPersist, AS!LockAndStamp,
           AS!UpdateEvent, AS!InsertEvent, AS!SkipEvent, AS!CommitPersist,
           AS!RollbackPersist
      <3>3. \/ tx'[d] = AS!NoTx
            \/ tx'[d].batch \in EventBatches
            \/ tx[d].pc # "idle" /\ tx'[d].batch = tx[d].batch
        <4>1. CASE \E batch \in EventBatches : AS!BeginPersist(d, batch)
          <5>1. PICK batch \in EventBatches : AS!BeginPersist(d, batch)
            BY <4>1
          <5>2. tx'[d] = [AS!NoTx EXCEPT !.pc = "begun", !.batch = batch,
                                         !.left = batch]
            BY <3>1, <5>1 DEF AS!BeginPersist
          <5> QED BY <5>2 DEF AS!NoTx
        <4>2. CASE AS!LockAndStamp(d) \/ AS!SkipEvent(d)
          BY <3>1, <4>2 DEF AS!LockAndStamp, AS!SkipEvent, TxType
        <4>3. CASE AS!UpdateEvent(d)
          BY <3>1, <4>3 DEF AS!UpdateEvent, TxType
        <4>4. CASE AS!InsertEvent(d)
          BY <3>1, <4>4 DEF AS!InsertEvent, TxType
        <4>5. CASE AS!CommitPersist(d) \/ AS!RollbackPersist(d)
          BY <3>1, <4>5 DEF AS!CommitPersist, AS!RollbackPersist
        <4> QED BY <1>6, <4>1, <4>2, <4>3, <4>4, <4>5 DEF AS!Persist
      <3>4. AS!NoTx.pc = "idle"
        BY DEF AS!NoTx
      <3> QED BY <1>2, <3>2, <3>3, <3>4
    <2>3. Chained
      BY <1>6, OthersKeepChain, OwnChain
    <2> QED BY <1>1, <2>1, <2>2, <2>3 DEF CallsInv
  <1>7. ASSUME NEW t, AS!Prune(t) PROVE CallsInv'
    <2>1. UNCHANGED <<now, notified, tx, outboxRow>>
      BY <1>7 DEF AS!Prune, AS!PruneAudit, AS!txVars
    <2>2. Chained
      BY <1>3, <1>7, <2>1, ChainPruned
    <2> QED BY <1>1, <1>2, <2>1, <2>2 DEF CallsInv
  <1>8. CASE (\E r \in Readers : AS!List(r)) \/ UNCHANGED AS!vars
    <2>1. /\ UNCHANGED <<now, rows, payloads, lastSeq, notified>>
          /\ UNCHANGED <<nextSeq, tx, outboxRow>>
      BY <1>8 DEF AS!List, AS!StartListing, AS!ReadPage, AS!FinishListing,
         AS!vars, AS!storeVars, AS!txVars
    <2>2. Chained
      BY <1>4, <2>1
    <2> QED BY <1>1, <1>2, <2>1, <2>2 DEF CallsInv
  <1> QED BY <1>5, <1>6, <1>7, <1>8 DEF AS!NextStore

-----------------------------------------------------------------------------
(* PostgreSQL keeps what the in-memory store promises *)

\* What the events of a batch make of the store, one after the other, is what
\* the call that stores them makes of it.
LEMMA CallIsThere ==
    ASSUME NEW batch, Len(batch) \in Nat, NEW t, NEW gap, NEW c,
           c = [i \in 0..Len(batch) |->
                  IF i = 0 THEN [AS!Store EXCEPT !.next = @ + gap]
                  ELSE AS!Stored(c[i - 1], batch[i], t)],
           AS!Install(c[Len(batch)]), checkpoint' = batch, UNCHANGED now
    PROVE  AS!PersistEvents(batch, t, gap)
  <1> DEFINE n == Len(batch)
             first == [AS!Store EXCEPT !.next = @ + gap]
             g == CHOOSE f : f = [i \in 0..n |-> IF i = 0 THEN first
                                  ELSE AS!Stored(f[i - 1], batch[i], t)]
             S == {i \in 0..n : g[i] # c[i]}
  <1>1. g = [i \in 0..n |-> IF i = 0 THEN first
                            ELSE AS!Stored(g[i - 1], batch[i], t)]
    OBVIOUS
  <1>2. \A i \in 0..n : g[i] = IF i = 0 THEN first
                               ELSE AS!Stored(g[i - 1], batch[i], t)
    <2> HIDE DEF g, first
    <2> QED BY <1>1
  <1>3. \A i \in 0..n : c[i] = IF i = 0 THEN first
                               ELSE AS!Stored(c[i - 1], batch[i], t)
    OBVIOUS
  <1>4. S = {}
    <2> SUFFICES ASSUME S # {} PROVE FALSE
      OBVIOUS
    <2>1. n \in Nat
      OBVIOUS
    <2> HIDE DEF g, first, n
    <2>0. S \subseteq 0..n /\ S \subseteq Int /\ IsFiniteSet(S)
      <3>1. IsFiniteSet(0..n)
        <4>1. 0 \in Int /\ n \in Int
          BY <2>1
        <4> QED BY <4>1, FS_Interval
      <3>2. S \subseteq 0..n /\ S \subseteq Int
        BY <2>1
      <3> QED BY <3>1, <3>2, FS_Subset
    <2>2. PICK m \in S : \A s \in S : m <= s
      <3> HIDE DEF S
      <3> QED BY <2>0, NumbersHaveEnds
    <2>3. m # 0
      BY <1>2, <1>3
    <2>4. m - 1 \in 0..n /\ m - 1 \notin S
      <3>1. m \in 0..n
        BY <2>0
      <3>2. m - 1 \in 0..n /\ ~(m <= m - 1)
        BY <2>1, <2>3, <3>1
      <3> HIDE DEF S
      <3> QED BY <2>2, <3>2
    <2>5. g[m - 1] = c[m - 1]
      BY <2>4
    <2>6. m \in 0..n /\ g[m] = c[m]
      BY <1>2, <1>3, <2>3, <2>5
    <2> QED BY <2>6
  <1>5. AS!Install(g[n])
    <2>1. n \in 0..n
      OBVIOUS
    <2>2. g[n] = c[n]
      <3> HIDE DEF g
      <3> QED BY <1>4, <2>1
    <2> HIDE DEF g
    <2> QED BY <2>2
  <1> QED BY <1>5 DEF AS!PersistEvents

\* A transaction that holds the outbox row commits: one call.
LEMMA HolderCommits ==
    ASSUME EventsInv, CallsInv, NEW w \in Writers, outboxRow = w,
           AS!CommitPersist(w)
    PROVE  \E t \in AS!Readings, gap \in 0..Gaps, batch \in EventBatches :
             AS!PersistEvents(batch, t, gap)
  <1> DEFINE x == tx[w]
             batch == x.batch
  <1>1. /\ x.pc = "open" /\ x.left = <<>>
        /\ rows' = AS!Overlay(rows, x.wrote)
        /\ payloads' = AS!Overlay(payloads, x.docs)
        /\ lastSeq' = AS!Highest(AS!SeqsOf(x.wrote) \cup {lastSeq})
        /\ notified' = AS!Overlay(notified, x.note)
        /\ checkpoint' = batch /\ now' = now
    BY DEF AS!CommitPersist
  <1>2. PICK n \in Nat : \E h : Chain(h, n, w)
    BY DEF CallsInv, HasChain
  <1>3. PICK h : Chain(h, n, w)
    BY <1>2
  <1>4. /\ Len(batch) = n
        /\ \A i \in 1..n : h[i] = Outcome(rows, payloads, h[i - 1], batch[i], x.stamp)
    BY <1>1, <1>3 DEF Chain
  <1>5. PICK base \in lastSeq + 1..MaxSeq + 1 : h[0] = Began(base)
    BY <1>3 DEF Chain
  <1>6. PICK last \in Int : h[n] = WrittenBy(w, last) /\ LastIs(last, x.wrote)
    BY <1>3 DEF Chain
  <1>7. /\ batch \in Seq(Events) /\ batch \in EventBatches
        /\ x.stamp \in 0..now /\ now \in Nat /\ now <= MaxTime /\ lastSeq \in Nat
    BY <1>1 DEF EventsInv, EventNumbers, TxInv, TxOf, TxType, CallsInv
  <1>8. x.stamp \in AS!Readings
    <2>1. MaxTime \in Nat /\ Lag \in Nat /\ MaxTime <= Lag
      BY EventAssumption DEF EventAssumption
    <2>2. \A a \in 0..now : now - a <= Lag
      BY <1>7, <2>1
    <2> HIDE DEF x
    <2> QED BY <1>7, <2>2 DEF AS!Readings
  <1> DEFINE gap == base - (lastSeq + 1)
  <1>9. gap \in 0..Gaps /\ lastSeq + 1 + gap = base
    <2>1. MaxSeq \in Nat /\ Gaps \in Nat /\ MaxSeq <= Gaps
      BY EventAssumption DEF EventAssumption
    <2> QED BY <1>7, <2>1
  <1> HIDE DEF gap
  <1>10. PICK c : c = [i \in 0..n |-> StoreOf(h[i])]
    OBVIOUS
  <1>11. c[0] = [AS!Store EXCEPT !.next = @ + gap]
    <2>1. c[0] = StoreOf(Began(base))
      BY <1>5, <1>10
    <2>2. StoreOf(Began(base)) = [rows |-> rows, payloads |-> payloads,
            last |-> lastSeq, next |-> base, notified |-> notified]
      BY OverlayOfNothing DEF StoreOf, Began, EventsInv, TablesAreFunctions
    <2>3. [AS!Store EXCEPT !.next = @ + gap] = [rows |-> rows,
            payloads |-> payloads, last |-> lastSeq, next |-> lastSeq + 1 + gap,
            notified |-> notified]
      BY DEF AS!Store
    <2> QED BY <1>9, <2>1, <2>2, <2>3
  <1>12. ASSUME NEW i \in 1..n
         PROVE  c[i] = AS!Stored(c[i - 1], batch[i], x.stamp)
    <2>1. batch[i] \in Events
      BY <1>4, <1>7
    <2>2. i \in 0..n /\ i - 1 \in 0..n
      OBVIOUS
    <2>3. c[i] = StoreOf(h[i]) /\ c[i - 1] = StoreOf(h[i - 1])
      BY <1>10, <2>2
    <2>4. h[i] = Outcome(rows, payloads, h[i - 1], batch[i], x.stamp)
      BY <1>4
    <2>5. Keys \subseteq DOMAIN notified
      BY DEF CallsInv
    <2> HIDE DEF batch, x
    <2> QED BY <2>1, <2>3, <2>4, <2>5, OutcomeIsStored
  <1>13. c = [i \in 0..n |-> IF i = 0 THEN [AS!Store EXCEPT !.next = @ + gap]
                             ELSE AS!Stored(c[i - 1], batch[i], x.stamp)]
    <2> HIDE DEF batch, x
    <2>1. \A i \in 0..n : i # 0 => i \in 1..n
      OBVIOUS
    <2>2. \A i \in 0..n : c[i] = IF i = 0 THEN [AS!Store EXCEPT !.next = @ + gap]
                                 ELSE AS!Stored(c[i - 1], batch[i], x.stamp)
      BY <1>11, <1>12, <2>1
    <2>3. c = [i \in 0..n |-> c[i]]
      BY <1>10
    <2> QED BY <2>2, <2>3
  <1>14. lastSeq' = last
    <2> DEFINE T == AS!SeqsOf(x.wrote) \cup {lastSeq}
    <2>1. last \in T /\ \A m \in T : m <= last
      BY <1>6 DEF LastIs, AS!SeqsOf
    <2>2. lastSeq' = AS!Highest(T)
      BY <1>1
    <2> HIDE DEF T
    <2>3. AS!Highest(T) \in T /\ \A m \in T : m <= AS!Highest(T)
      BY <2>1 DEF AS!Highest
    <2>4. lastSeq' <= last /\ last <= lastSeq' /\ lastSeq' \in T
      BY <2>1, <2>2, <2>3
    <2>5. T \subseteq Int
      <3>1. RowsWritten(x) /\ lastSeq \in Int
        BY <1>7 DEF EventsInv, TxInv, TxOf
      <3> QED BY <3>1 DEF RowsWritten, EventRow, AS!SeqsOf, T
    <2> QED BY <2>4, <2>5
  <1>15. AS!Install(c[n])
    <2>1. c[n] = StoreOf(WrittenBy(w, last))
      BY <1>6, <1>10
    <2>2. c[n] = [rows |-> AS!Overlay(rows, x.wrote),
                  payloads |-> AS!Overlay(payloads, x.docs),
                  last |-> last, next |-> nextSeq,
                  notified |-> AS!Overlay(notified, x.note)]
      BY <2>1 DEF StoreOf, WrittenBy
    <2> HIDE DEF x
    <2> QED BY <1>1, <1>14, <2>2 DEF AS!Install
  <1>16. AS!PersistEvents(batch, x.stamp, gap)
    <2> HIDE DEF batch, x
    <2> QED BY <1>1, <1>4, <1>13, <1>15, CallIsThere
  <1> HIDE DEF batch
  <1> QED BY <1>7, <1>8, <1>9, <1>16

\* So does one without events, which stores its checkpoint only.
LEMMA OthersCommit ==
    ASSUME EventsInv, CallsInv, NEW w \in Writers, outboxRow # w,
           AS!CommitPersist(w)
    PROVE  \E t \in AS!Readings, gap \in 0..Gaps, batch \in EventBatches :
             AS!PersistEvents(batch, t, gap)
  <1>1. /\ UNCHANGED <<now, rows, payloads, lastSeq, notified>>
        /\ tx[w].batch = <<>> /\ checkpoint' = <<>> /\ tx[w].pc = "open"
    <2>1. /\ tx[w].pc = "open" /\ checkpoint' = tx[w].batch /\ now' = now
      BY DEF AS!CommitPersist
    <2> QED BY <2>1, EmptyCommit
  <1>2. <<>> \in EventBatches
    BY <1>1 DEF CallsInv
  <1>3. now \in AS!Readings /\ 0 \in 0..Gaps
    <2>1. now \in Nat /\ Lag \in Nat /\ Gaps \in Nat /\ now - now = 0
      BY EventAssumption DEF EventAssumption, EventsInv, EventNumbers
    <2> QED BY <2>1 DEF AS!Readings
  <1>4. PICK c : c = [i \in 0..0 |-> [AS!Store EXCEPT !.next = @ + 0]]
    OBVIOUS
  <1>5. Len(<<>>) = 0
    OBVIOUS
  <1>6. c = [i \in 0..Len(<<>>) |->
               IF i = 0 THEN [AS!Store EXCEPT !.next = @ + 0]
               ELSE AS!Stored(c[i - 1], <<>>[i], now)]
    BY <1>4, <1>5
  <1>7. AS!Install(c[0])
    <2>1. c[0] = [rows |-> rows, payloads |-> payloads, last |-> lastSeq,
                  next |-> lastSeq + 1 + 0, notified |-> notified]
      BY <1>4 DEF AS!Store
    <2> QED BY <1>1, <2>1 DEF AS!Install
  <1>8. AS!PersistEvents(<<>>, now, 0)
    BY <1>1, <1>5, <1>6, <1>7, CallIsThere
  <1> QED BY <1>2, <1>3, <1>8

\* Every step of the PostgreSQL store is one call or none.
LEMMA EventStepIsOneCall ==
    ASSUME EventsInv, CallsInv, [AS!NextStore]_(AS!vars)
    PROVE  [AS!Next]_<<now, AS!storeVars>>
  <1>1. CASE AS!Tick /\ UNCHANGED <<AS!txVars, eventListing>>
    BY <1>1 DEF AS!Next
  <1>2. ASSUME NEW w \in Writers, AS!Persist(w)
        PROVE  [AS!Next]_<<now, AS!storeVars>>
    <2>1. CASE AS!CommitPersist(w)
      BY <2>1, HolderCommits, OthersCommit DEF AS!Next
    <2>2. CASE ~AS!CommitPersist(w)
      BY <1>2, <2>2 DEF AS!Persist, AS!BeginPersist, AS!LockAndStamp,
         AS!UpdateEvent, AS!InsertEvent, AS!SkipEvent, AS!RollbackPersist
    <2> QED BY <2>1, <2>2
  <1>3. ASSUME NEW t \in AS!Readings, AS!Prune(t)
        PROVE  [AS!Next]_<<now, AS!storeVars>>
    BY <1>3 DEF AS!Prune, AS!Next
  <1>4. CASE (\E r \in Readers : AS!List(r)) \/ UNCHANGED AS!vars
    BY <1>4 DEF AS!List, AS!StartListing, AS!ReadPage, AS!FinishListing, AS!vars
  <1> QED BY <1>1, <1>2, <1>3, <1>4 DEF AS!NextStore

\* No document of an event becomes readable.
Kept == \A s \in AS!SeqsOf(rows) \cap AS!SeqsOf(rows') :
          AS!Readable(payloads', s, now') => AS!Readable(payloads, s, now)

\* No step of it gives an event its document back.
LEMMA DocumentsStayGone ==
    EventsInv /\ [AS!NextStore]_(AS!vars) => Kept
  <1> SUFFICES ASSUME EventsInv, [AS!NextStore]_(AS!vars),
                      NEW s \in AS!SeqsOf(rows),
                      AS!Readable(payloads', s, now')
               PROVE  AS!Readable(payloads, s, now)
    BY DEF Kept
  <1>1. now \in Nat /\ \A p \in DOMAIN payloads : payloads[p].until \in Int
    BY DEF EventsInv, EventNumbers, PayloadsTyped
  <1>2. ASSUME payloads' = payloads, now' \in {now, now + 1}
        PROVE  AS!Readable(payloads, s, now)
    <2>1. s \in DOMAIN payloads /\ payloads[s].until > now'
      BY <1>2 DEF AS!Readable
    <2>2. payloads[s].until \in Int /\ now' \in Int /\ now <= now'
      BY <1>1, <1>2, <2>1
    <2> QED BY <1>1, <2>1, <2>2 DEF AS!Readable
  <1>3. CASE AS!Tick /\ UNCHANGED <<AS!txVars, eventListing>>
    BY <1>2, <1>3 DEF AS!Tick, AS!storeVars
  <1>4. ASSUME NEW w \in Writers, AS!Persist(w)
        PROVE  AS!Readable(payloads, s, now)
    <2>1. CASE AS!CommitPersist(w)
      <3> DEFINE x == tx[w]
      <3>1. payloads' = AS!Overlay(payloads, x.docs) /\ now' = now
            /\ x.pc = "open"
        BY <2>1 DEF AS!CommitPersist
      <3>2. RowsWritten(x)
        BY <3>1, NothingWritten DEF EventsInv, TxInv, TxOf
      <3>3. PICK k \in DOMAIN rows : rows[k].seq = s
        BY DEF AS!SeqsOf
      <3>4. CASE s \in DOMAIN x.docs
        <4>1. s \in DOMAIN payloads /\ payloads[s].until = x.docs[s].until
          BY <3>2, <3>3, <3>4 DEF RowsWritten
        <4>2. payloads'[s] = x.docs[s]
          BY <3>1, <3>4 DEF AS!Overlay
        <4> QED BY <3>1, <4>1, <4>2 DEF AS!Readable
      <3>5. CASE s \notin DOMAIN x.docs
        <4>1. s \in DOMAIN payloads' => s \in DOMAIN payloads
                                        /\ payloads'[s] = payloads[s]
          BY <3>1, <3>5 DEF AS!Overlay
        <4> QED BY <3>1, <4>1 DEF AS!Readable
      <3> QED BY <3>4, <3>5
    <2>2. CASE ~AS!CommitPersist(w)
      <3>1. payloads' = payloads /\ now' = now
        BY <1>4, <2>2 DEF AS!Persist, AS!BeginPersist, AS!LockAndStamp,
           AS!UpdateEvent, AS!InsertEvent, AS!SkipEvent, AS!RollbackPersist,
           AS!storeVars
      <3> QED BY <1>2, <3>1
    <2> QED BY <2>1, <2>2
  <1>5. ASSUME NEW t, AS!Prune(t) PROVE AS!Readable(payloads, s, now)
    <2>1. now' = now /\ \A p \in DOMAIN payloads' : /\ p \in DOMAIN payloads
                                                    /\ payloads'[p] = payloads[p]
      BY <1>5 DEF AS!Prune, AS!PruneAudit, AS!Without
    <2> QED BY <2>1 DEF AS!Readable
  <1>6. CASE (\E r \in Readers : AS!List(r)) \/ UNCHANGED AS!vars
    <2>1. payloads' = payloads /\ now' = now
      BY <1>6 DEF AS!List, AS!StartListing, AS!ReadPage, AS!FinishListing,
         AS!vars, AS!storeVars
    <2> QED BY <1>2, <2>1
  <1> QED BY <1>3, <1>4, <1>5, <1>6 DEF AS!NextStore

-----------------------------------------------------------------------------
(* Both stores: the promise *)

\* The invariants of both stores, with that of the calls.
StoresCalls == StoresInv /\ (working = "events" => CallsInv)

\* What the invariant says of the store that works.
LEMMA StoreAwake ==
    StoresInv => /\ working = "events" => EventsInv
                 /\ working \in {"events", "traces"}
                 /\ working = "traces" => EventsAsleep
  BY DEF StoresInv, EventsWork

\* While traces are written, the event store sees the clock only.
LEMMA OtherStoreSteps ==
    ASSUME [StoresNext]_<<now, outboxRow, eventVars, traceVars, working>>,
           working = "traces"
    PROVE  /\ UNCHANGED working /\ UNCHANGED eventVars
           /\ UNCHANGED now \/ AS!Tick
  <1>1. [Next]_vars /\ UNCHANGED eventVars /\ UNCHANGED working
    BY DEF StoresNext, vars, tables, txVars, readVars, traceVars
  <1>2. UNCHANGED now \/ (now < MaxTime /\ now' = now + 1)
    <2>1. ASSUME NEW c \in Collectors,
                 \/ \E b \in Batches : Receive(c, b)
                 \/ Work(c) \/ AbortBatch(c)
          PROVE  UNCHANGED now
      BY <2>1 DEF Receive, Work, LockTrace, WriteRows, LockOutbox,
         AssembleSummaries, CommitBatch, AbortBatch
    <2>2. CASE PruneSelect \/ PruneWork \/ PruneAbort
      BY <2>2 DEF PruneSelect, PruneWork, PruneLock, PruneCommit, PruneAbort,
         PruneTraces
    <2>3. ASSUME NEW r \in Readers, Read(r) PROVE UNCHANGED now
      BY <2>3 DEF Read, StartListing, ReadPage, FinishListing, OpenDetail,
         ReadGraph, CloseDetail
    <2>4. CASE (Tick /\ UNCHANGED <<txVars, readVars>>) \/ UNCHANGED vars
      BY <2>4 DEF Tick, vars
    <2> QED BY <1>1, <2>1, <2>2, <2>3, <2>4 DEF Next
  <1> QED BY <1>1, <1>2 DEF AS!Tick, AS!storeVars, eventVars

\* The holder of the outbox row has written what its events, one after the other,
\* make of the store as it is now (persistEvents under its FOR UPDATE lock).
THEOREM StoresCallsHold == StoresSpec => []StoresCalls
  <1>1. StoresInit => StoresCalls
    BY InitStores, InitCalls DEF StoresInit, StoresCalls
  <1>2. ASSUME StoresCalls,
               [StoresNext]_<<now, outboxRow, eventVars, traceVars, working>>
        PROVE  StoresCalls'
    <2>1. StoresInv'
      BY <1>2, NextStores DEF StoresCalls
    <2>2. ASSUME working' = "events" PROVE CallsInv'
      <3>1. working = "events"
        BY <1>2, <2>2 DEF StoresNext
      <3>2. [AS!NextStore]_(AS!vars)
        BY <1>2, <3>1 DEF StoresNext, AS!vars, AS!storeVars, AS!txVars, eventVars
      <3>3. EventsInv /\ CallsInv
        BY <1>2, <3>1, StoreAwake DEF StoresCalls
      <3> QED BY <3>2, <3>3, NextCalls
    <2> QED BY <2>1, <2>2 DEF StoresCalls
  <1> QED BY <1>1, <1>2, PTL DEF StoresSpec

\* Every PostgreSQL transaction takes effect as one call of the store that one
\* mutex serves, and no step gives an event its expired document back
\* (PersistEvents, PruneAudit; memory.go states the promise).
THEOREM EventStoreIsImplemented == StoresSpec => ImplementsEventStore
  <1>1. StoresInit => AS!Init
    BY DEF StoresInit, AS!InitStore
  <1>2. ASSUME StoresCalls,
               [StoresNext]_<<now, outboxRow, eventVars, traceVars, working>>
        PROVE  [AS!Next]_<<now, AS!storeVars>> /\ [Kept]_(AS!vars)
    <2>1. CASE working = "events"
      <3>1. [AS!NextStore]_(AS!vars)
        BY <1>2, <2>1 DEF StoresNext, AS!vars, AS!storeVars, AS!txVars, eventVars
      <3>2. EventsInv /\ CallsInv
        BY <1>2, <2>1, StoreAwake DEF StoresCalls
      <3> QED BY <3>1, <3>2, EventStepIsOneCall, DocumentsStayGone
    <2>2. CASE working = "traces"
      <3>1. UNCHANGED eventVars /\ (UNCHANGED now \/ AS!Tick)
        BY <1>2, <2>2, OtherStoreSteps
      <3>2. UNCHANGED AS!storeVars
        BY <3>1 DEF eventVars, AS!storeVars
      <3>3. [AS!Next]_<<now, AS!storeVars>>
        BY <3>1, <3>2 DEF AS!Next
      <3>4. Kept
        <4>1. EventsAsleep /\ payloads' = payloads
          BY <1>2, <2>2, <3>1, StoreAwake DEF StoresCalls, eventVars
        <4>2. DOMAIN payloads' = {}
          BY <4>1 DEF EventsAsleep, AS!NoRows
        <4> QED BY <4>2 DEF Kept, AS!Readable
      <3> QED BY <3>3, <3>4
    <2> QED BY <1>2, <2>1, <2>2, StoreAwake DEF StoresCalls
  <1>3. StoresSpec => AS!Spec
    BY <1>1, <1>2, StoresCallsHold, PTL DEF StoresSpec, AS!Spec
  <1>4. StoresSpec => AS!ExpiredDocumentsStayGone
    BY <1>2, StoresCallsHold, PTL DEF StoresSpec, AS!ExpiredDocumentsStayGone, Kept
  <1> QED BY <1>3, <1>4, PTL DEF ImplementsEventStore, AS!ImplementsEventStore

-----------------------------------------------------------------------------
(* Both stores: traces *)

\* What holds of traces when the store of traces sleeps.
LEMMA TracesAsleepAreTrue == TracesAsleep => SummariesMatchSpans /\ NoLockRing
  <1> SUFFICES ASSUME TracesAsleep PROVE SummariesMatchSpans /\ NoLockRing
    OBVIOUS
  <1>1. DOMAIN spans = {} /\ DOMAIN summaries = {}
    BY DEF TracesAsleep, None
  <1>2. \A c \in Collectors : \A h : ~Waiting(c, h)
    BY DEF TracesAsleep, Waiting, Idle
  <1>3. SummariesMatchSpans
    BY <1>1 DEF SummariesMatchSpans
  <1> QED BY <1>2, <1>3 DEF NoLockRing

\* Whichever store works, summaries are those of their spans and no two
\* transactions wait for each other's locks (WriteBatch, PruneTraces).
THEOREM TracesStayTrue == StoresSpec => [](SummariesMatchSpans /\ NoLockRing)
  <1>1. ASSUME TracesWork PROVE SummariesMatchSpans /\ NoLockRing
    BY <1>1, NoRing DEF TracesWork, SummaryInv
  <1>2. StoresInv => SummariesMatchSpans /\ NoLockRing
    BY <1>1, TracesAsleepAreTrue DEF StoresInv
  <1> QED BY <1>2, StoresInvariant, PTL

\* No finished span becomes unfinished, none goes before its time.
SpansKept == \A k \in DOMAIN spans :
               IF k \in DOMAIN spans'
               THEN spans[k].end # NoEnd => spans'[k].end >= spans[k].end
               ELSE LastAt(spans[k]) < now - TraceRetention

\* The event store moves the clock as the other does.
LEMMA EventClock ==
    ASSUME [AS!NextStore]_(AS!vars)
    PROVE  UNCHANGED now \/ (now < MaxTime /\ now' = now + 1)
  <1>1. ASSUME NEW w \in Writers, AS!Persist(w) PROVE UNCHANGED now
    BY <1>1 DEF AS!Persist, AS!BeginPersist, AS!LockAndStamp, AS!UpdateEvent,
       AS!InsertEvent, AS!SkipEvent, AS!CommitPersist, AS!RollbackPersist
  <1>2. ASSUME NEW t, AS!Prune(t) PROVE UNCHANGED now
    BY <1>2 DEF AS!Prune, AS!PruneAudit
  <1>3. ASSUME NEW r \in Readers, AS!List(r) PROVE UNCHANGED now
    BY <1>3 DEF AS!List, AS!StartListing, AS!ReadPage, AS!FinishListing
  <1>4. CASE \/ AS!Tick /\ UNCHANGED <<AS!txVars, eventListing>>
             \/ UNCHANGED AS!vars
    BY <1>4 DEF AS!Tick, AS!vars
  <1> QED BY <1>1, <1>2, <1>3, <1>4 DEF AS!NextStore

\* Whichever store works, the transactions of traces are single calls of the
\* store that one mutex serves, and finished spans stay (WriteBatch,
\* PruneTraces, MergeSpan).
THEOREM SpanStoreIsImplemented ==
    StoresSpec => ImplementsSpanStore /\ FinishedSpansStay
  <1>1. StoresInit => SpanInit
    BY DEF StoresInit, Init
  <1>2. ASSUME StoresInv,
               [StoresNext]_<<now, outboxRow, eventVars, traceVars, working>>
        PROVE  [SpanNext]_<<now, tables>> /\ [SpansKept]_vars
    <2>1. CASE working = "traces"
      <3>1. [Next]_vars
        BY <1>2, <2>1 DEF StoresNext, vars, tables, txVars, readVars, traceVars
      <3>2. SummaryInv /\ StoreInv
        BY <1>2, <2>1 DEF StoresInv, TracesWork
      <3>3. SpansKept
        BY <3>1, <3>2, StepKeepsFinished DEF SpansKept
      <3> QED BY <3>1, <3>2, <3>3, StepIsOneCall
    <2>2. CASE working = "events"
      <3>1. /\ UNCHANGED tables
            /\ UNCHANGED now \/ (now < MaxTime /\ now' = now + 1)
        <4>1. /\ [AS!NextStore]_(AS!vars)
              /\ UNCHANGED <<spans, docs, summaries, nextList>>
          BY <1>2, <2>2 DEF StoresNext, AS!vars, AS!storeVars, AS!txVars,
             eventVars, traceVars
        <4>2. UNCHANGED now \/ (now < MaxTime /\ now' = now + 1)
          BY <4>1, EventClock
        <4> QED BY <4>1, <4>2 DEF tables
      <3>2. [SpanNext]_<<now, tables>>
        BY <3>1 DEF SpanNext, Tick
      <3>3. SpansKept
        <4>1. DOMAIN spans = {}
          BY <1>2, <2>2 DEF StoresInv, TracesAsleep, None
        <4> QED BY <4>1 DEF SpansKept
      <3> QED BY <3>2, <3>3
    <2> QED BY <1>2, <2>1, <2>2 DEF StoresInv
  <1>3. StoresSpec => SpanSpec
    BY <1>1, <1>2, StoresInvariant, PTL DEF StoresSpec, SpanSpec
  <1>4. StoresSpec => FinishedSpansStay
    BY <1>2, StoresInvariant, PTL DEF StoresSpec, FinishedSpansStay, SpansKept
  <1> QED BY <1>3, <1>4, PTL DEF ImplementsSpanStore
=============================================================================
