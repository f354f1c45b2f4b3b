---------------------------- MODULE OutboxProofs ----------------------------
(***************************************************************************)
(* For any number of writers and readers, any retention, batch size and    *)
(* bounds: the outbox keeps its types, latest_sequence is a watermark,     *)
(* nothing becomes visible behind a reader, no wakeup is lost; and, when   *)
(* writers stamp under the lock, a reconnect is explicit and the stream    *)
(* implements EventFeed.                                                   *)
(***************************************************************************)
EXTENDS Outbox, FiniteSetTheorems, WellFoundedInduction, TLAPS

\* A replay batch holds only retained rows (ReplayAfter).
LEMMA BatchRetained == \A p : Batch(p) \subseteq outbox
  BY DEF Batch

\* It holds before anything has happened.
LEMMA InitInv == Init => OutboxInv
  <1> SUFFICES ASSUME Init PROVE OutboxInv
    OBVIOUS
  <1> USE OutboxAssumption DEF Init, Seqs
  <1>1. TypeOK
    BY DEF TypeOK
  <1>2. LockDiscipline /\ PendingDiscipline
    BY DEF LockDiscipline, PendingDiscipline
  <1>3. NumbersAreDrawn /\ ReadersBehindLatest /\ LatestIsWatermark
    BY DEF NumbersAreDrawn, ReadersBehindLatest, LatestIsWatermark, Streaming
  <1> QED BY <1>1, <1>2, <1>3 DEF OutboxInv

\* A stream handler touches neither the database nor a writer.
LEMMA HandlerFrame ==
  ASSUME OutboxInv, UNCHANGED <<now, dbVars, writerVars, announced>>,
         TypeOK', ReadersBehindLatest'
  PROVE  OutboxInv'
  BY DEF OutboxInv, LockDiscipline, PendingDiscipline, NumbersAreDrawn,
         LatestIsWatermark, dbVars, writerVars

\* Every step of Next preserves the inductive invariant.
LEMMA StepInv == OutboxInv /\ [Next]_vars => OutboxInv'
  <1> SUFFICES ASSUME OutboxInv, [Next]_vars PROVE OutboxInv'
    OBVIOUS
  <1> USE OutboxAssumption DEF OutboxInv, Seqs, NoId
  <1> USE DEF dbVars, writerVars, streamVars
  <1>1. ASSUME NEW w \in Writers, Begin(w) PROVE OutboxInv'
    BY <1>1 DEF Begin, TypeOK, LockDiscipline, PendingDiscipline, NumbersAreDrawn,
                ReadersBehindLatest, LatestIsWatermark, Streaming, Position
  <1>2. ASSUME NEW w \in Writers, AcquireLock(w) PROVE OutboxInv'
    BY <1>2 DEF AcquireLock, TypeOK, LockDiscipline, PendingDiscipline, NumbersAreDrawn,
                ReadersBehindLatest, LatestIsWatermark, Streaming, Position
  <1>3. ASSUME NEW w \in Writers, Allocate(w) PROVE OutboxInv'
    <2>1. TypeOK'
      BY <1>3 DEF Allocate, TypeOK
    <2>2. LockDiscipline'
      BY <1>3 DEF Allocate, TypeOK, LockDiscipline
    <2>3. PendingDiscipline'
      BY <1>3 DEF Allocate, TypeOK, LockDiscipline, PendingDiscipline, NumbersAreDrawn
    <2>4. NumbersAreDrawn'
      BY <1>3 DEF Allocate, TypeOK, NumbersAreDrawn
    <2>5. ReadersBehindLatest'
      BY <1>3 DEF Allocate, TypeOK, ReadersBehindLatest, LatestIsWatermark, Streaming, Position
    <2>6. LatestIsWatermark'
      BY <1>3 DEF Allocate, TypeOK, LockDiscipline, PendingDiscipline, NumbersAreDrawn,
                  LatestIsWatermark
    <2> QED BY <2>1, <2>2, <2>3, <2>4, <2>5, <2>6
  <1>4. ASSUME NEW w \in Writers, Commit(w) PROVE OutboxInv'
    <2>a. latest' \in 0..MaxSeq /\ latest <= latest'
      BY <1>4 DEF Commit, TypeOK
    <2>b. pending[w] \in SUBSET Seqs /\ pending' \in [Writers -> SUBSET Seqs]
      BY <1>4 DEF Commit, TypeOK
    <2>c. wpc' \in [Writers -> {"idle", "waiting", "holding", "committed"}]
      BY <1>4 DEF Commit, TypeOK
    <2>d. drawn' \in [Writers -> 0..MaxSeq]
      BY <1>4 DEF Commit, TypeOK
    <2>e. /\ UNCHANGED <<now, created, nextSeq, wstamp, streamVars, announced>>
          /\ lock' = NoWriter
          /\ outbox' = outbox \cup pending[w]
          /\ history' = history \cup pending[w]
      BY <1>4 DEF Commit
    <2>1. TypeOK'
      BY <2>a, <2>b, <2>c, <2>d, <2>e DEF TypeOK
    <2>2. LockDiscipline'
      BY <1>4 DEF Commit, TypeOK, LockDiscipline
    <2>3. PendingDiscipline'
      BY <1>4 DEF Commit, TypeOK, LockDiscipline, PendingDiscipline, NumbersAreDrawn
    <2>4. NumbersAreDrawn'
      BY <1>4 DEF Commit, TypeOK, NumbersAreDrawn
    <2>5. ReadersBehindLatest'
      <3>1. outbox' \subseteq history' /\ \A r \in Readers : queue'[r] \subseteq history'
        BY <2>e DEF ReadersBehindLatest
      <3>2. ASSUME NEW r \in Readers, Streaming(r)' PROVE (Position(r) <= latest)'
        <4>1. Position(r)' = Position(r) /\ Streaming(r)
          BY <2>e, <3>2 DEF Position, Streaming
        <4>2. Position(r) \in Int /\ latest \in Int /\ latest' \in Int
          BY <2>a DEF Position, TypeOK
        <4> QED BY <2>a, <4>1, <4>2 DEF ReadersBehindLatest
      <3> QED BY <3>1, <3>2 DEF ReadersBehindLatest
    <2>6. LatestIsWatermark'
      BY <1>4 DEF Commit, TypeOK, LockDiscipline, PendingDiscipline, NumbersAreDrawn,
                  LatestIsWatermark
    <2> QED BY <2>1, <2>2, <2>3, <2>4, <2>5, <2>6
  <1>5. ASSUME NEW w \in Writers, Rollback(w) PROVE OutboxInv'
    <2>1. TypeOK'
      BY <1>5 DEF Rollback, TypeOK
    <2>2. LockDiscipline'
      BY <1>5 DEF Rollback, TypeOK, LockDiscipline
    <2>3. PendingDiscipline'
      BY <1>5 DEF Rollback, TypeOK, LockDiscipline, PendingDiscipline, NumbersAreDrawn
    <2>4. NumbersAreDrawn'
      BY <1>5 DEF Rollback, TypeOK, NumbersAreDrawn
    <2>5. ReadersBehindLatest'
      BY <1>5 DEF Rollback, TypeOK, ReadersBehindLatest, LatestIsWatermark, Streaming, Position
    <2>6. LatestIsWatermark'
      BY <1>5 DEF Rollback, TypeOK, LockDiscipline, PendingDiscipline, NumbersAreDrawn,
                  LatestIsWatermark
    <2> QED BY <2>1, <2>2, <2>3, <2>4, <2>5, <2>6
  <1>6. ASSUME NEW w \in Writers, Notify(w) PROVE OutboxInv'
    BY <1>6 DEF Notify, TypeOK, LockDiscipline, PendingDiscipline, NumbersAreDrawn,
                ReadersBehindLatest, LatestIsWatermark, Streaming, Position, Connected
  <1>7. ASSUME PruneAudit PROVE OutboxInv'
    BY <1>7 DEF PruneAudit, Expired, TypeOK, LockDiscipline, PendingDiscipline,
                NumbersAreDrawn, ReadersBehindLatest, LatestIsWatermark, Streaming, Position
  <1>8. ASSUME Tick PROVE OutboxInv'
    BY <1>8 DEF Tick, TypeOK, LockDiscipline, PendingDiscipline, NumbersAreDrawn,
                ReadersBehindLatest, LatestIsWatermark, Streaming, Position
  <1>9. ASSUME CrashServer PROVE OutboxInv'
    <2>1. TypeOK'
      BY <1>9 DEF CrashServer, TypeOK
    <2>2. LockDiscipline' /\ PendingDiscipline'
      BY <1>9 DEF CrashServer, TypeOK, LockDiscipline, PendingDiscipline
    <2>3. NumbersAreDrawn' /\ LatestIsWatermark'
      BY <1>9 DEF CrashServer, TypeOK, NumbersAreDrawn, LatestIsWatermark
    <2>4. ReadersBehindLatest'
      BY <1>9 DEF CrashServer, ReadersBehindLatest, Streaming
    <2> QED BY <2>1, <2>2, <2>3, <2>4
  <1>10. ASSUME NEW r \in Readers, Subscribe(r) PROVE OutboxInv'
    <2>1. TypeOK' /\ ReadersBehindLatest'
      BY <1>10 DEF Subscribe, TypeOK, ReadersBehindLatest, Streaming, Position
    <2> QED BY <1>10, <2>1, HandlerFrame DEF Subscribe
  <1>11. ASSUME NEW r \in Readers, ReplayReset(r) PROVE OutboxInv'
    <2>1. TypeOK'
      BY <1>11 DEF ReplayReset, Load, Full, TypeOK
    <2>2. ReadersBehindLatest'
      BY <1>11 DEF ReplayReset, Load, TypeOK, ReadersBehindLatest, Streaming, Position
    <2> QED BY <1>11, <2>1, <2>2, HandlerFrame DEF ReplayReset
  <1>12. ASSUME NEW r \in Readers, Replay(r) PROVE OutboxInv'
    <2>1. TypeOK'
      BY <1>12, BatchRetained DEF Replay, Load, Full, TypeOK
    <2>2. Position(r) <= latest
      BY <1>12 DEF Replay, NeedsReset, CursorAhead, Position, TypeOK
    <2>3. /\ UNCHANGED <<dbVars, cursor>>
          /\ \A q \in Readers : q # r => mode'[q] = mode[q]
          /\ queue' = [queue EXCEPT ![r] = Batch(Position(r))]
      BY <1>12 DEF Replay, Load, TypeOK
    <2>4. ReadersBehindLatest'
      BY <2>2, <2>3, BatchRetained DEF TypeOK, ReadersBehindLatest, Streaming, Position
    <2> QED BY <1>12, <2>1, <2>4, HandlerFrame DEF Replay
  <1>13. ASSUME NEW r \in Readers, Send(r) PROVE OutboxInv'
    <2>1. TypeOK'
      BY <1>13 DEF Send, TypeOK
    <2>2. ReadersBehindLatest'
      BY <1>13 DEF Send, TypeOK, ReadersBehindLatest, LatestIsWatermark, Streaming, Position
    <2> QED BY <1>13, <2>1, <2>2, HandlerFrame DEF Send
  <1>14. ASSUME NEW r \in Readers, Wake(r) \/ ReplayTick(r) PROVE OutboxInv'
    <2>1. TypeOK'
      BY <1>14 DEF Wake, ReplayTick, TypeOK
    <2>2. ReadersBehindLatest'
      BY <1>14 DEF Wake, ReplayTick, TypeOK, ReadersBehindLatest, Streaming, Position
    <2> QED BY <1>14, <2>1, <2>2, HandlerFrame DEF Wake, ReplayTick
  <1>15. ASSUME NEW r \in Readers, Fetch(r) PROVE OutboxInv'
    <2>1. TypeOK'
      BY <1>15, BatchRetained DEF Fetch, Load, Full, TypeOK
    <2>2. ReadersBehindLatest'
      BY <1>15, BatchRetained
         DEF Fetch, Load, TypeOK, ReadersBehindLatest, Streaming, Position
    <2> QED BY <1>15, <2>1, <2>2, HandlerFrame DEF Fetch
  <1>16. ASSUME NEW r \in Readers, Disconnect(r) PROVE OutboxInv'
    <2>1. TypeOK' /\ ReadersBehindLatest'
      BY <1>16 DEF Disconnect, TypeOK, ReadersBehindLatest, Streaming, Position
    <2> QED BY <1>16, <2>1, HandlerFrame DEF Disconnect
  <1>17. CASE UNCHANGED vars
    BY <1>17 DEF vars, TypeOK, LockDiscipline, PendingDiscipline, NumbersAreDrawn,
                 ReadersBehindLatest, LatestIsWatermark, Streaming, Position
  <1> QED
    BY <1>1, <1>2, <1>3, <1>4, <1>5, <1>6, <1>7, <1>8, <1>9, <1>10, <1>11, <1>12,
       <1>13, <1>14, <1>15, <1>16, <1>17 DEF Next, WriterStep, HandlerStep

\* Every reachable state satisfies the inductive invariant.
THEOREM OutboxInvariant == Spec => []OutboxInv
  BY InitInv, StepInv, PTL DEF Spec

\* The outbox, its writers and its handlers keep their types (type invariant).
THEOREM OutboxTypes == Spec => []TypeOK
  <1>1. OutboxInv => TypeOK
    BY DEF OutboxInv
  <1> QED BY OutboxInvariant, <1>1, PTL

\* latest_sequence covers every commit and no transaction in flight: a reset to
\* it cannot skip a row that becomes visible later.
THEOREM OutboxWatermark == Spec => []LatestIsWatermark
  <1>1. OutboxInv => LatestIsWatermark
    BY DEF OutboxInv
  <1> QED BY OutboxInvariant, <1>1, PTL

\* Commits become visible in sequence order, ahead of every streaming reader.
THEOREM OutboxVisibility == Spec => NothingAppearsBehind
  <1> DEFINE VisibleAhead == \A r \in Readers : Streaming(r) =>
                               \A s \in history' \ history : Position(r) < s
  <1>1. OutboxInv /\ [Next]_vars => [VisibleAhead]_vars
    <2> SUFFICES ASSUME OutboxInv, Next, NEW r \in Readers, Streaming(r),
                        NEW s \in history' \ history
                 PROVE  Position(r) < s
      OBVIOUS
    <2>1. PICK w \in Writers : Commit(w)
      BY DEF Next, WriterStep, HandlerStep, Begin, AcquireLock, Allocate, Rollback,
             Notify, PruneAudit, Tick, CrashServer, Subscribe, ReplayReset, Replay,
             Send, Wake, ReplayTick, Fetch, Disconnect, dbVars
    <2>2. s \in pending[w] /\ wpc[w] = "holding"
      BY <2>1 DEF Commit
    <2>3. latest < s /\ Position(r) <= latest
      BY <2>2 DEF OutboxInv, LatestIsWatermark, ReadersBehindLatest
    <2>4. s \in Int /\ latest \in Int /\ Position(r) \in Int
      BY <2>2 DEF OutboxInv, TypeOK, Seqs, Position, NoId
    <2> QED BY <2>3, <2>4
  <1> QED BY OutboxInvariant, <1>1, PTL DEF Spec, NothingAppearsBehind
-----------------------------------------------------------------------------
(* What a replay query returns. *)

\* A set of naturals has a least member: the sets 0..x are well-founded by
\* strict inclusion.
LEMMA LeastNumber ==
  ASSUME NEW S, S \subseteq Nat, S # {}
  PROVE  \E m \in S : \A s \in S : m <= s
  <1> DEFINE T == {0..x : x \in S}
  <1> DEFINE R == StrictSubsetOrdering(Nat)
  <1>1. T \subseteq FiniteSubsetsOf(Nat) /\ T # {}
    <2>1. \A x \in Nat : 0..x \subseteq Nat /\ IsFiniteSet(0..x)
      <3> TAKE x \in Nat
      <3>1. 0 \in Int /\ x \in Int
        OBVIOUS
      <3> QED BY <3>1, FS_Interval
    <2> QED BY <2>1 DEF FiniteSubsetsOf
  <1>2. IsWellFoundedOn(R, FiniteSubsetsOf(Nat))
    BY FS_StrictSubsetOrderingWellFounded
  <1>3. PICK X \in T : \A Y \in T : ~ (<<Y, X>> \in R)
    <2> HIDE DEF R, T
    <2> QED BY <1>1, <1>2, WFMin
  <1>4. PICK m \in S : X = 0..m
    BY <1>3
  <1>5. ASSUME NEW s \in S, s < m PROVE FALSE
    <2>1. 0..s \in T /\ 0..s \subseteq 0..m /\ m \in 0..m /\ m \notin 0..s
      BY <1>5
    <2>2. 0..s \in SUBSET Nat /\ 0..m \in SUBSET Nat
      BY <1>5
    <2>3. <<0..s, 0..m>> \in R
      BY <2>1, <2>2 DEF StrictSubsetOrdering
    <2> QED BY <2>1, <2>3, <1>3, <1>4
  <1> QED BY <1>5
\* A bounded set of naturals has a greatest member.
LEMMA GreatestNumber ==
  ASSUME NEW n \in Nat, NEW S, S \subseteq 0..n, S # {}
  PROVE  \E m \in S : \A s \in S : s <= m
  <1> DEFINE D == {n - s : s \in S}
  <1>1. D \subseteq Nat /\ D # {}
    <2>1. \A s \in S : n - s \in Nat
      OBVIOUS
    <2> QED BY <2>1
  <1>2. PICK d \in D : \A e \in D : d <= e
    <2> HIDE DEF D
    <2> QED BY <1>1, LeastNumber
  <1>3. PICK m \in S : d = n - m
    BY <1>2
  <1>4. ASSUME NEW s \in S PROVE s <= m
    <2>1. n - m <= n - s
      BY <1>2, <1>3
    <2>2. s \in Int /\ m \in Int
      OBVIOUS
    <2> QED BY <2>1, <2>2
  <1> QED BY <1>4

\* ReplayAfter returns the front of what lies above the position: with a row it
\* returns every retained row between.
LEMMA BatchFront ==
  ASSUME TypeOK, NEW p \in Int, NEW s \in Batch(p), NEW t \in outbox, p < t, t < s
  PROVE  t \in Batch(p)
  <1> DEFINE Upto(x) == {u \in outbox : p < u /\ u <= x}
  <1>1. outbox \subseteq Int /\ s \in outbox /\ Cardinality(Upto(s)) <= BatchSize
    BY DEF TypeOK, Seqs, Batch
  <1>2. IsFiniteSet(Upto(s)) /\ Upto(t) \in SUBSET Upto(s)
    <2>1. IsFiniteSet(1..MaxSeq)
      BY FS_Interval, OutboxAssumption
    <2>2. Upto(s) \in SUBSET (1..MaxSeq)
      BY DEF TypeOK, Seqs
    <2>3. ASSUME NEW u \in Upto(t) PROVE u \in Upto(s)
      <3>1. u \in Int /\ t \in Int /\ s \in Int /\ u <= t
        BY <1>1
      <3> QED BY <3>1
    <2> QED BY <2>1, <2>2, <2>3, FS_Subset
  <1>3. /\ Cardinality(Upto(t)) <= Cardinality(Upto(s))
        /\ Cardinality(Upto(t)) \in Nat
        /\ Cardinality(Upto(s)) \in Nat
    <2> HIDE DEF Upto
    <2> QED BY <1>2, FS_Subset, FS_CardinalityType
  <1>4. Cardinality(Upto(t)) <= BatchSize
    <2> HIDE DEF Upto
    <2> QED BY <1>1, <1>3, OutboxAssumption
  <1> QED BY <1>4 DEF Batch

\* A batch that is not full is everything above the position.
LEMMA BatchComplete ==
  ASSUME TypeOK, NEW p \in Int, ~Full(Batch(p)), NEW s \in outbox, p < s
  PROVE  s \in Batch(p)
  <1> DEFINE Above == {u \in outbox : p < u}
             Left == Above \ Batch(p)
             Upto(x) == {u \in outbox : p < u /\ u <= x}
  <1> SUFFICES ASSUME Left # {} PROVE FALSE
    OBVIOUS
  <1>1. outbox \subseteq Nat /\ outbox \subseteq 0..MaxSeq /\ IsFiniteSet(outbox)
    <2>1. outbox \in SUBSET (1..MaxSeq) /\ IsFiniteSet(1..MaxSeq)
      BY FS_Interval, OutboxAssumption DEF TypeOK, Seqs
    <2>2. 1..MaxSeq \subseteq Nat /\ 1..MaxSeq \subseteq 0..MaxSeq
      BY OutboxAssumption
    <2> QED BY <2>1, <2>2, FS_Subset
  <1>2. PICK m \in Left : \A t \in Left : m <= t
    <2>1. Left \subseteq Nat
      BY <1>1
    <2> HIDE DEF Left
    <2> QED BY <2>1, LeastNumber
  <1>3. m \in outbox /\ p < m /\ m \notin Batch(p) /\ m \in Int
    BY <1>1, <1>2
  <1>4. Upto(m) = Batch(p) \cup {m}
    <2>1. ASSUME NEW u \in Upto(m), u # m PROVE u \in Batch(p)
      BY <1>1, <1>2, <1>3, <2>1
    <2>2. ASSUME NEW u \in Batch(p) PROVE u \in Upto(m)
      <3>1. u \in outbox /\ p < u /\ u \in Int
        BY <1>1 DEF Batch
      <3>2. ~ (m < u)
        BY <1>3, BatchFront
      <3> QED BY <1>3, <3>1, <3>2
    <2>3. m \in Upto(m)
      BY <1>3
    <2> HIDE DEF Upto
    <2> QED BY <2>1, <2>2, <2>3
  <1>5. IsFiniteSet(Batch(p)) /\ Cardinality(Batch(p)) \in Nat
    <2>1. Batch(p) \in SUBSET outbox
      BY DEF Batch
    <2> QED BY <1>1, <2>1, FS_Subset, FS_CardinalityType
  <1>6. Cardinality(Upto(m)) = Cardinality(Batch(p)) + 1
    <2> HIDE DEF Upto
    <2> QED BY <1>3, <1>4, <1>5, FS_AddElement
  <1>7. ~ (Cardinality(Upto(m)) <= BatchSize)
    BY <1>3 DEF Batch
  <1>8. Cardinality(Batch(p)) <= BatchSize
    <2>1. CASE Batch(p) = {}
      BY <2>1, FS_EmptySet, OutboxAssumption
    <2>2. CASE Batch(p) # {}
      <3>1. Batch(p) \subseteq 0..MaxSeq
        BY <1>1 DEF Batch
      <3>2. PICK g \in Batch(p) : \A b \in Batch(p) : b <= g
        BY <2>2, <3>1, GreatestNumber, OutboxAssumption
      <3>3. Batch(p) = Upto(g)
        <4>1. ASSUME NEW u \in Batch(p) PROVE u \in Upto(g)
          BY <3>2, <4>1 DEF Batch
        <4>2. ASSUME NEW u \in Upto(g) PROVE u \in Batch(p)
          <5>1. u \in Int /\ g \in Int /\ u \in outbox /\ p < u /\ u <= g
            BY <1>1, <3>1
          <5> QED BY <5>1, BatchFront
        <4> QED BY <4>1, <4>2
      <3> QED BY <3>3 DEF Batch
    <2> QED BY <2>1, <2>2
  <1> HIDE DEF Upto, Left, Above
  <1>9. BatchSize \in Nat /\ Cardinality(Batch(p)) # BatchSize
    BY OutboxAssumption DEF Full
  <1> QED BY <1>5, <1>6, <1>7, <1>8, <1>9
-----------------------------------------------------------------------------
(* Wakeups: Hub.Notify, the select loop and drain. *)

\* A handler that reads a batch and leaves nothing above it behind unless the
\* batch was full (drain) keeps the wakeup invariant.
LEMMA LoadCovers ==
  ASSUME TypeOK, NEW r \in Readers, BatchesAreAhead, LastBatchCovers,
         announced \subseteq history, Load(r, Batch(Position(r))),
         UNCHANGED <<now, dbVars, writerVars, signal, cursor, announced>>
  PROVE  WakeupInv'
  <1> DEFINE b == Batch(Position(r))
  <1>1. /\ queue' = [queue EXCEPT ![r] = b]
        /\ more' = [more EXCEPT ![r] = Full(b)]
        /\ mode' = [mode EXCEPT ![r] = IF b = {} THEN "idle" ELSE "sending"]
        /\ UNCHANGED <<outbox, history, signal, cursor, announced>>
    BY DEF Load, dbVars
  <1>2. /\ \A q \in Readers : Position(q)' = Position(q)
        /\ queue'[r] = b /\ more'[r] = Full(b)
        /\ mode'[r] = IF b = {} THEN "idle" ELSE "sending"
        /\ \A q \in Readers \ {r} : /\ queue'[q] = queue[q]
                                    /\ more'[q] = more[q]
                                    /\ mode'[q] = mode[q]
    BY <1>1 DEF Position, TypeOK
  <1>3. \A s \in b : Position(r) < s
    BY DEF Batch
  <1>4. Position(r) \in Int
    BY DEF TypeOK, Position, NoId
  <1>5. ~Full(b) => \A s \in outbox : Position(r) < s => s \in b
    BY <1>4, BatchComplete
  <1>6. b = {} => ~Full(b)
    BY FS_EmptySet, OutboxAssumption DEF Full
  <1> HIDE DEF b
  <1>7. BatchesAreAhead'
    BY <1>2, <1>3 DEF BatchesAreAhead
  <1>8. LastBatchCovers'
    BY <1>1, <1>2, <1>5, <1>6 DEF LastBatchCovers
  <1> QED BY <1>1, <1>7, <1>8 DEF WakeupInv

\* Every step of Next preserves it.
LEMMA StepWakeup ==
  ASSUME OutboxInv, WakeupInv, [Next]_vars
  PROVE  WakeupInv'
  <1> USE DEF WakeupInv
  <1>t. TypeOK /\ OutboxInv
    BY DEF OutboxInv
  <1>i. \A r \in Readers : Position(r) \in Int
    BY <1>t DEF TypeOK, Position, NoId
  <1>s. Seqs \subseteq Int /\ outbox \subseteq Int /\ history \subseteq Int /\ latest \in Int
    BY <1>t DEF TypeOK, Seqs
  <1>1. ASSUME NEW w \in Writers, Begin(w) \/ AcquireLock(w) \/ Allocate(w) \/ Rollback(w)
        PROVE  WakeupInv'
    BY <1>1 DEF Begin, AcquireLock, Allocate, Rollback, dbVars, streamVars,
                BatchesAreAhead, LastBatchCovers, Position
  <1>2. ASSUME NEW w \in Writers, Commit(w) PROVE WakeupInv'
    <2>1. /\ outbox' = outbox \cup pending[w] /\ history' = history \cup pending[w]
          /\ UNCHANGED <<streamVars, announced>>
          /\ wpc[w] = "holding"
      BY <1>2 DEF Commit
    <2>2. ASSUME NEW s \in pending[w] PROVE s \notin announced
      <3>1. s \in Int /\ latest < s
        BY <2>1, <1>t, <1>s DEF TypeOK, OutboxInv, LatestIsWatermark
      <3>2. s \in history => s <= latest
        BY <1>t DEF OutboxInv, LatestIsWatermark
      <3> QED BY <3>1, <3>2, <1>s
    <2>3. announced \cap outbox' = announced \cap outbox
      BY <2>1, <2>2
    <2> QED BY <2>1, <2>3 DEF streamVars, BatchesAreAhead, LastBatchCovers, Position
  <1>3. ASSUME NEW w \in Writers, Notify(w) PROVE WakeupInv'
    <2>1. announced' \subseteq history'
      BY <1>3, <1>t DEF Notify, OutboxInv, PendingDiscipline, dbVars
    <2>2. BatchesAreAhead'
      BY <1>3 DEF Notify, BatchesAreAhead, Position
    <2>3. LastBatchCovers'
      BY <1>3 DEF Notify, LastBatchCovers, Connected
    <2> QED BY <2>1, <2>2, <2>3
  <1>4. ASSUME PruneAudit \/ Tick PROVE WakeupInv'
    BY <1>4 DEF PruneAudit, Tick, dbVars, streamVars, BatchesAreAhead, LastBatchCovers, Position
  <1>5. ASSUME CrashServer PROVE WakeupInv'
    BY <1>5 DEF CrashServer, dbVars, BatchesAreAhead, LastBatchCovers, Position
  <1>6. ASSUME NEW r \in Readers, Subscribe(r) \/ Wake(r) \/ ReplayTick(r) \/ Disconnect(r)
        PROVE  WakeupInv'
    <2>1. announced' \subseteq history'
      BY <1>6 DEF Subscribe, Wake, ReplayTick, Disconnect, dbVars
    <2>2. BatchesAreAhead'
      BY <1>6, <1>t DEF Subscribe, Wake, ReplayTick, Disconnect, BatchesAreAhead, Position, TypeOK
    <2>3. LastBatchCovers'
      BY <1>6, <1>t DEF Subscribe, Wake, ReplayTick, Disconnect, LastBatchCovers, Position, TypeOK,
                        dbVars
    <2> QED BY <2>1, <2>2, <2>3
  <1>7. ASSUME NEW r \in Readers, ReplayReset(r) PROVE WakeupInv'
    <2>1. /\ cursor' = [cursor EXCEPT ![r] = latest] /\ cursor'[r] = latest
          /\ queue' = [queue EXCEPT ![r] = {}] /\ queue'[r] = {}
          /\ mode' = [mode EXCEPT ![r] = "idle"] /\ mode'[r] = "idle"
          /\ \A q \in Readers \ {r} : more'[q] = more[q]
          /\ UNCHANGED <<outbox, history, signal, announced>>
      BY <1>7, <1>t DEF ReplayReset, Load, TypeOK, dbVars
    <2>2. Position(r)' = latest /\ \A q \in Readers \ {r} : Position(q)' = Position(q)
      BY <2>1, <1>t DEF Position, TypeOK, NoId
    <2>3. \A s \in history : ~ (latest < s)
      BY <1>t, <1>s DEF OutboxInv, LatestIsWatermark
    <2>4. BatchesAreAhead'
      BY <2>1, <2>2 DEF BatchesAreAhead
    <2>5. LastBatchCovers'
      BY <2>1, <2>2, <2>3 DEF LastBatchCovers
    <2> QED BY <2>1, <2>4, <2>5
  <1>8. ASSUME NEW r \in Readers, Replay(r) \/ Fetch(r) PROVE WakeupInv'
    BY <1>8, <1>t, LoadCovers DEF Replay, Fetch
  <1>9. ASSUME NEW r \in Readers, Send(r) PROVE WakeupInv'
    <2>1. PICK m \in queue[r] :
             /\ \A s \in queue[r] : m <= s
             /\ cursor' = [cursor EXCEPT ![r] = m]
             /\ queue' = [queue EXCEPT ![r] = @ \ {m}]
             /\ mode' = [mode EXCEPT ![r] = IF queue[r] # {m} THEN @
                                            ELSE IF more[r] THEN "fetching"
                                            ELSE "idle"]
      BY <1>9 DEF Send
    <2>2. UNCHANGED <<outbox, history, signal, more, announced>> /\ mode[r] = "sending"
      BY <1>9 DEF Send, dbVars
    <2>3. m \in Int /\ m > 0 /\ queue[r] \subseteq Int
      BY <2>1, <1>t, OutboxAssumption DEF TypeOK, Seqs
    <2>4. /\ cursor'[r] = m /\ queue'[r] = queue[r] \ {m}
          /\ mode'[r] \in {"sending", "fetching", "idle"}
          /\ mode'[r] # "sending" => queue[r] = {m}
          /\ mode'[r] = "idle" => ~more[r]
          /\ \A q \in Readers \ {r} : /\ cursor'[q] = cursor[q]
                                      /\ queue'[q] = queue[q]
                                      /\ mode'[q] = mode[q]
      BY <2>1, <2>2, <1>t DEF TypeOK
    <2>5. Position(r)' = m /\ \A q \in Readers \ {r} : Position(q)' = Position(q)
      BY <2>3, <2>4 DEF Position, NoId
    <2>6. Position(r) < m
      BY <2>1 DEF BatchesAreAhead
    <2>7. BatchesAreAhead'
      <3>1. \A s \in queue[r] : s # m => m < s
        BY <2>1, <2>3
      <3> QED BY <2>4, <2>5, <3>1 DEF BatchesAreAhead
    <2>8. LastBatchCovers'
      <3>1. \A s \in outbox : m < s => Position(r) < s /\ s # m
        BY <2>3, <2>6, <1>i, <1>s
      <3> QED BY <2>2, <2>4, <2>5, <3>1 DEF LastBatchCovers
    <2> QED BY <2>2, <2>7, <2>8
  <1>10. CASE UNCHANGED vars
    BY <1>10 DEF vars, dbVars, streamVars, BatchesAreAhead, LastBatchCovers, Position
  <1> QED
    BY <1>1, <1>2, <1>3, <1>4, <1>5, <1>6, <1>7, <1>8, <1>9, <1>10
       DEF Next, WriterStep, HandlerStep

\* A handler at rest has sent every announced row or has a wakeup waiting: the
\* hub's one-slot channels and the coalescing of signals lose none.
THEOREM WakeupsAreKept == Spec => []NoLostWakeup
  <1> DEFINE I == OutboxInv /\ WakeupInv
  <1>1. Init => I
    <2>1. Init => WakeupInv
      BY DEF Init, WakeupInv, BatchesAreAhead, LastBatchCovers
    <2> QED BY <2>1, InitInv
  <1>2. I /\ [Next]_vars => I'
    BY StepInv, StepWakeup
  <1>3. I => NoLostWakeup
    BY DEF WakeupInv, BatchesAreAhead, LastBatchCovers, NoLostWakeup
  <1> QED BY <1>1, <1>2, <1>3, PTL DEF Spec
-----------------------------------------------------------------------------
(* Retention, when every writer stamps its rows while it holds the lock. *)

\* Clock readings are integers.
LEMMA StampsAreInts ==
  ASSUME TypeOK
  PROVE  /\ now \in Int
         /\ \A s \in Seqs : created[s] \in Int
         /\ \A w \in Writers : wstamp[w] \in Int
  <1>1. 0..MaxTime \subseteq Int
    OBVIOUS
  <1> QED BY <1>1 DEF TypeOK

\* Writers stamp after they lock, one after the other, on one clock.
LEMMA StepStamps ==
  ASSUME EarlyStampers = {}, OutboxInv, StampsFollowSequence, [Next]_vars
  PROVE  StampsFollowSequence'
  <1> USE DEF OutboxInv
  <1>t. TypeOK
    OBVIOUS
  <1>1. ASSUME NEW w \in Writers, AcquireLock(w) PROVE StampsFollowSequence'
    BY <1>1, <1>t DEF AcquireLock, StampsFollowSequence, TypeOK, LockDiscipline,
                      PendingDiscipline, dbVars
  <1>2. ASSUME NEW w \in Writers, Allocate(w) PROVE StampsFollowSequence'
    <2>1. \A s \in history : s # nextSeq
      BY <1>t DEF LatestIsWatermark, NumbersAreDrawn, TypeOK, Seqs
    <2>2. \A s \in history : created'[s] = created[s]
      BY <1>2, <1>t, <2>1 DEF Allocate, TypeOK
    <2>3. \A v \in Writers : wpc[v] = "holding" => v = w
      BY <1>2 DEF Allocate, LockDiscipline
    <2>4. \A s \in pending'[w] : created'[s] = wstamp[w]
      BY <1>2, <1>t DEF Allocate, TypeOK, StampsFollowSequence
    <2> QED BY <1>2, <2>2, <2>3, <2>4 DEF Allocate, StampsFollowSequence
  <1>3. ASSUME NEW w \in Writers, Commit(w) PROVE StampsFollowSequence'
    <2>1. \A v \in Writers : wpc'[v] # "holding"
      BY <1>3, <1>t DEF Commit, LockDiscipline, TypeOK
    <2>2. \A s \in history, t \in pending[w] : ~ (t < s)
      BY <1>3, <1>t DEF Commit, LatestIsWatermark, TypeOK, Seqs
    <2>3. /\ created' = created /\ now' = now
          /\ history' = history \cup pending[w]
          /\ wpc[w] = "holding"
      BY <1>3 DEF Commit
    <2>a. wstamp[w] \in Int /\ \A s \in Seqs : created[s] \in Int
      BY <1>t, StampsAreInts
    <2>b. history \subseteq Seqs /\ pending[w] \subseteq Seqs
      BY <1>t DEF TypeOK
    <2>c. /\ \A s \in history : created[s] <= wstamp[w]
          /\ \A s \in pending[w] : created[s] = wstamp[w]
      BY <2>3 DEF StampsFollowSequence
    <2>4. \A s \in history' : created[s] \in Int /\ created[s] <= wstamp[w]
      BY <2>3, <2>a, <2>b, <2>c
    <2>5. \A s \in history' : created[s] <= now
      BY <2>3, <1>t DEF StampsFollowSequence, TypeOK
    <2>6. \A s, t \in history' : s < t => created[s] <= created[t]
      BY <2>2, <2>3, <2>4, <1>t DEF StampsFollowSequence, TypeOK
    <2> QED BY <2>1, <2>3, <2>5, <2>6 DEF StampsFollowSequence
  <1>4. ASSUME NEW w \in Writers, Begin(w) \/ Rollback(w) \/ Notify(w)
        PROVE  StampsFollowSequence'
    BY <1>4, <1>t DEF Begin, Rollback, Notify, StampsFollowSequence, TypeOK, dbVars
  <1>5. ASSUME Tick PROVE StampsFollowSequence'
    <2>a. history \subseteq Seqs
      BY <1>t DEF TypeOK
    <2>1. /\ \A s \in history : created[s] \in Int
          /\ \A w \in Writers : wstamp[w] \in Int
          /\ now \in Int /\ now' = now + 1
      BY <1>5, <1>t, <2>a, StampsAreInts DEF Tick
    <2>2. /\ \A s \in history : created[s] <= now'
          /\ \A w \in Writers : wpc[w] = "holding" => wstamp[w] <= now'
      BY <2>1 DEF StampsFollowSequence
    <2> QED BY <1>5, <2>2 DEF Tick, StampsFollowSequence, dbVars, writerVars
  <1>6. ASSUME PruneAudit PROVE StampsFollowSequence'
    BY <1>6 DEF PruneAudit, StampsFollowSequence, writerVars
  <1>7. ASSUME CrashServer PROVE StampsFollowSequence'
    BY <1>7, <1>t DEF CrashServer, StampsFollowSequence, TypeOK, dbVars
  <1>8. ASSUME NEW r \in Readers, Subscribe(r) \/ HandlerStep(r) \/ Disconnect(r)
        PROVE  StampsFollowSequence'
    BY <1>8 DEF Subscribe, HandlerStep, ReplayReset, Replay, Send, Wake, ReplayTick,
                Fetch, Disconnect, StampsFollowSequence, dbVars, writerVars
  <1>9. CASE UNCHANGED vars
    BY <1>9 DEF vars, StampsFollowSequence, dbVars, writerVars
  <1> QED
    BY <1>1, <1>2, <1>3, <1>4, <1>5, <1>6, <1>7, <1>8, <1>9 DEF Next, WriterStep

\* Retention deletes from the front, and commits append at the back.
LEMMA StepPrefix ==
  ASSUME OutboxInv, StampsFollowSequence, RetentionIsAPrefix, [Next]_vars
  PROVE  RetentionIsAPrefix'
  <1> USE DEF OutboxInv, Seqs
  <1>t. TypeOK
    OBVIOUS
  <1>1. ASSUME NEW w \in Writers, Commit(w) PROVE RetentionIsAPrefix'
    <2>1. \A s \in history, t \in pending[w] : s < t
      BY <1>1, <1>t DEF Commit, LatestIsWatermark, TypeOK
    <2> QED BY <1>1, <2>1 DEF Commit, RetentionIsAPrefix
  <1>2. ASSUME PruneAudit PROVE RetentionIsAPrefix'
    <2>1. \A s \in Expired, t \in outbox \ Expired : created[s] < created[t]
      BY <1>t, OutboxAssumption DEF Expired, TypeOK
    <2>2. \A s \in Expired, t \in outbox \ Expired : s < t
      <3> SUFFICES ASSUME NEW s \in Expired, NEW t \in outbox \ Expired, ~ (s < t)
                   PROVE  FALSE
        OBVIOUS
      <3>1. s \in history /\ t \in history /\ s \in Int /\ t \in Int /\ s # t
        BY <1>t DEF Expired, ReadersBehindLatest, TypeOK
      <3>2. created[t] <= created[s]
        BY <3>1 DEF StampsFollowSequence
      <3>3. created[s] \in Int /\ created[t] \in Int
        BY <3>1, <1>t DEF TypeOK
      <3> QED BY <2>1, <3>2, <3>3
    <2> QED BY <1>2, <2>2 DEF PruneAudit, RetentionIsAPrefix, Expired
  <1>3. CASE UNCHANGED <<outbox, history>>
    BY <1>3 DEF RetentionIsAPrefix
  <1> QED
    BY <1>1, <1>2, <1>3
       DEF Next, WriterStep, HandlerStep, Begin, AcquireLock, Allocate, Rollback, Notify,
           Tick, CrashServer, Subscribe, ReplayReset, Replay, Send, Wake, ReplayTick,
           Fetch, Disconnect, dbVars, vars

\* A reconnecting browser finds everything it missed or is told to reset,
\* provided every writer stamps created_at while it holds the lock.
THEOREM ExplicitReconnect ==
  ASSUME EarlyStampers = {}
  PROVE  Spec => []ReconnectIsExplicit
  <1> DEFINE RInv == OutboxInv /\ StampsFollowSequence /\ RetentionIsAPrefix
  <1>1. Init => RInv
    BY InitInv DEF Init, StampsFollowSequence, RetentionIsAPrefix
  <1>2. RInv /\ [Next]_vars => RInv'
    BY StepInv, StepStamps, StepPrefix
  <1>3. RInv => ReconnectIsExplicit
    BY DEF OutboxInv, TypeOK, LatestIsWatermark, RetentionIsAPrefix, ReconnectIsExplicit,
           NeedsReset, CursorAhead, CursorExpired, Seqs, NoId
  <1> QED BY <1>1, <1>2, <1>3, PTL DEF Spec
-----------------------------------------------------------------------------
(* The refinement of EventFeed. *)

\* A retained row above the position is in the batch or behind all of it.
LEMMA BatchAndRest ==
  ASSUME TypeOK, NEW p \in Int, NEW s \in outbox, p < s
  PROVE  s \in Batch(p) \/ \A q \in Batch(p) : q < s
  <1> SUFFICES ASSUME NEW q \in Batch(p), ~ (q < s) PROVE s \in Batch(p)
    OBVIOUS
  <1>1. q \in Int /\ s \in Int
    BY DEF TypeOK, Seqs, Batch
  <1>2. q = s \/ s < q
    BY <1>1
  <1> QED BY <1>2, BatchFront

\* The watermark is the newest commit.
LEMMA StepLatest ==
  ASSUME OutboxInv, LatestIsCommitted, [Next]_vars
  PROVE  LatestIsCommitted'
  <1> USE DEF LatestIsCommitted
  <1>t. TypeOK /\ LockDiscipline /\ PendingDiscipline
    BY DEF OutboxInv
  <1>1. ASSUME NEW w \in Writers, Allocate(w) PROVE LatestIsCommitted'
    BY <1>1, <1>t DEF Allocate, TypeOK
  <1>2. ASSUME NEW w \in Writers, Commit(w) PROVE LatestIsCommitted'
    <2>1. latest' \in history' \cup {0}
      BY <1>2, <1>t DEF Commit, TypeOK
    <2>2. \A v \in Writers : v # w => drawn'[v] = 0
      BY <1>2, <1>t DEF Commit, TypeOK, LockDiscipline, PendingDiscipline
    <2>3. drawn'[w] = 0
      BY <1>2, <1>t DEF Commit, TypeOK
    <2> QED BY <2>1, <2>2, <2>3
  <1>3. ASSUME NEW w \in Writers, Begin(w) \/ AcquireLock(w) PROVE LatestIsCommitted'
    BY <1>3 DEF Begin, AcquireLock, dbVars
  <1>4. ASSUME NEW w \in Writers, Rollback(w) PROVE LatestIsCommitted'
    BY <1>4, <1>t DEF Rollback, TypeOK, dbVars
  <1>5. ASSUME NEW w \in Writers, Notify(w) PROVE LatestIsCommitted'
    BY <1>5, <1>t DEF Notify, TypeOK, PendingDiscipline, dbVars
  <1>6. ASSUME CrashServer PROVE LatestIsCommitted'
    BY <1>6, <1>t DEF CrashServer, TypeOK, dbVars
  <1>7. ASSUME PruneAudit \/ Tick \/ UNCHANGED vars PROVE LatestIsCommitted'
    BY <1>7 DEF PruneAudit, Tick, vars, dbVars, writerVars
  <1>8. ASSUME NEW r \in Readers, Subscribe(r) \/ HandlerStep(r) \/ Disconnect(r)
        PROVE  LatestIsCommitted'
    BY <1>8 DEF Subscribe, HandlerStep, ReplayReset, Replay, Send, Wake, ReplayTick,
                Fetch, Disconnect, dbVars, writerVars
  <1> QED
    BY <1>1, <1>2, <1>3, <1>4, <1>5, <1>6, <1>7, <1>8 DEF Next, WriterStep

\* NothingIsSkipped, of one reader.
Whole(r) ==
    Streaming(r) =>
        \A s \in history :
            /\ Position(r) < s
            /\ cursor[r] # NoId \/ \E a \in Ahead(r) : a <= s
            => s \in Ahead(r)

\* Reading a batch moves rows from the table to the queue.
LEMMA LoadSplits ==
  ASSUME TypeOK, NEW r \in Readers, Load(r, Batch(Position(r))),
         UNCHANGED <<outbox, history, cursor>>
  PROVE  /\ Position(r)' = Position(r)
         /\ Ahead(r)' = {s \in outbox : Position(r) < s}
  <1> DEFINE b == Batch(Position(r))
  <1>1. queue'[r] = b
    BY DEF Load, TypeOK
  <1>2. Position(r)' = Position(r) /\ Position(r) \in Int
    BY DEF Position, TypeOK, NoId
  <1>3. b \subseteq {s \in outbox : Position(r) < s}
    BY DEF Batch
  <1>4. \A s \in outbox : Position(r) < s => s \in b \/ \A q \in b : q < s
    BY <1>2, BatchAndRest
  <1> HIDE DEF b
  <1> QED BY <1>1, <1>2, <1>3, <1>4 DEF Ahead, Lacking

\* Commits append behind what a handler has ahead, retention takes nothing of it,
\* reading moves rows from the table to the queue, sending takes the first.
LEMMA StepSkips ==
  ASSUME LiveReadersKeepUp = TRUE, OutboxInv, BatchesAreAhead, RetentionIsAPrefix,
         NothingIsSkipped, [Next]_vars
  PROVE  NothingIsSkipped'
  <1>t. TypeOK /\ OutboxInv
    BY DEF OutboxInv
  <1>s. outbox \subseteq history /\ history \subseteq Seqs /\ Seqs \subseteq Int /\ 0 \notin Seqs
    BY <1>t DEF OutboxInv, TypeOK, ReadersBehindLatest, Seqs
  <1> SUFFICES ASSUME NEW r \in Readers PROVE Whole(r)'
    BY DEF NothingIsSkipped, Whole
  <1>w. Whole(r)
    BY DEF NothingIsSkipped, Whole
  <1>p. Position(r) \in Int
    BY <1>t DEF TypeOK, Position, NoId
  <1>q. queue[r] \subseteq history
    BY <1>t DEF OutboxInv, ReadersBehindLatest
  <1>0. ASSUME UNCHANGED <<history, outbox>>, cursor'[r] = cursor[r], queue'[r] = queue[r],
               Streaming(r)' => Streaming(r)
        PROVE  Whole(r)'
    BY <1>0, <1>w DEF Whole, Ahead, Lacking, Position
  <1>1. ASSUME NEW w \in Writers, WriterStep(w), ~Commit(w) PROVE Whole(r)'
    BY <1>0, <1>1 DEF WriterStep, Begin, AcquireLock, Allocate, Rollback, Notify, dbVars,
                      streamVars, Streaming
  <1>2. ASSUME NEW w \in Writers, Commit(w) PROVE Whole(r)'
    <2> SUFFICES ASSUME Streaming(r)' PROVE Whole(r)'
      BY DEF Whole
    <2>1. /\ outbox' = outbox \cup pending[w] /\ history' = history \cup pending[w]
          /\ wpc[w] = "holding"
          /\ cursor' = cursor /\ queue' = queue /\ mode' = mode
      BY <1>2 DEF Commit, streamVars
    <2>2. Streaming(r) /\ Position(r)' = Position(r)
      BY <2>1 DEF Streaming, Position
    <2>3. \A s \in pending[w] : s \in Int /\ latest < s
      BY <2>1, <1>t, <1>s DEF TypeOK, OutboxInv, LatestIsWatermark
    <2>4. /\ latest \in Int /\ Position(r) <= latest
          /\ \A h \in history : h <= latest
      BY <2>2, <1>t, <1>s DEF OutboxInv, TypeOK, LatestIsWatermark, ReadersBehindLatest, Seqs
    <2>5. \A s \in pending[w] : Position(r) < s /\ \A h \in history : h < s /\ ~ (s <= h)
      BY <2>3, <2>4, <1>p, <1>s
    <2>6. Ahead(r)' = Ahead(r) \cup pending[w]
      BY <2>1, <2>2, <2>5, <1>q DEF Ahead, Lacking
    <2>7. Ahead(r) \subseteq history
      BY <1>q, <1>s DEF Ahead, Lacking
    <2> HIDE DEF Ahead
    <2> QED BY <2>1, <2>2, <2>5, <2>6, <2>7, <1>w DEF Whole
  <1>3. ASSUME PruneAudit PROVE Whole(r)'
    <2> SUFFICES ASSUME Streaming(r)' PROVE Whole(r)'
      BY DEF Whole
    <2>1. /\ outbox' = outbox \ Expired /\ history' = history
          /\ cursor' = cursor /\ queue' = queue /\ mode' = mode
      BY <1>3 DEF PruneAudit, streamVars
    <2>2. Streaming(r) /\ Position(r)' = Position(r)
      BY <2>1 DEF Streaming, Position
    <2>3. Expired \cap Lacking(r) = {}
      BY <1>3, <2>2 DEF PruneAudit
    <2>4. Lacking(r)' = Lacking(r)
      BY <2>1, <2>2, <2>3 DEF Lacking
    <2>5. Ahead(r)' = Ahead(r)
      BY <2>1, <2>4 DEF Ahead
    <2> QED BY <2>1, <2>2, <2>5, <1>w DEF Whole
  <1>4. ASSUME CrashServer PROVE Whole(r)'
    BY <1>4 DEF CrashServer, Whole, Streaming
  <1>5. ASSUME Tick \/ UNCHANGED vars PROVE Whole(r)'
    BY <1>5, <1>0 DEF Tick, vars, dbVars, streamVars, Streaming
  <1>6. ASSUME NEW q \in Readers, q # r, Subscribe(q) \/ HandlerStep(q) \/ Disconnect(q)
        PROVE  Whole(r)'
    <2>1. UNCHANGED <<history, outbox>>
      BY <1>6 DEF Subscribe, HandlerStep, ReplayReset, Replay, Send, Wake, ReplayTick,
                  Fetch, Disconnect, dbVars
    <2>2. cursor'[r] = cursor[r] /\ queue'[r] = queue[r] /\ mode'[r] = mode[r]
      BY <1>6, <1>t DEF Subscribe, HandlerStep, ReplayReset, Replay, Send, Wake, ReplayTick,
                        Fetch, Disconnect, Load, TypeOK
    <2> QED BY <1>0, <2>1, <2>2 DEF Streaming
  <1>7. ASSUME Subscribe(r) \/ Disconnect(r) PROVE Whole(r)'
    BY <1>7, <1>t DEF Subscribe, Disconnect, Whole, Streaming, TypeOK
  <1>8. ASSUME Wake(r) \/ ReplayTick(r) PROVE Whole(r)'
    BY <1>8, <1>0 DEF Wake, ReplayTick, Streaming, dbVars
  <1>9. ASSUME ReplayReset(r) PROVE Whole(r)'
    <2>1. Position(r)' = latest /\ history' = history
      BY <1>9, <1>t DEF ReplayReset, Position, TypeOK, NoId, dbVars
    <2>2. latest \in Int /\ \A s \in history : s <= latest
      BY <1>t DEF OutboxInv, TypeOK, LatestIsWatermark
    <2> QED BY <2>1, <2>2, <1>s DEF Whole
  <1>10. ASSUME Replay(r) PROVE Whole(r)'
    <2>1. /\ Load(r, Batch(Position(r))) /\ UNCHANGED <<outbox, history, cursor>>
          /\ mode[r] = "subscribed" /\ ~NeedsReset(r)
      BY <1>10 DEF Replay, dbVars
    <2>2. Position(r)' = Position(r) /\ Ahead(r)' = {s \in outbox : Position(r) < s}
      BY <2>1, <1>t, LoadSplits
    <2>3. ASSUME NEW s \in history, NEW a \in outbox, a <= s PROVE s \in outbox
      BY <2>3, <1>s DEF RetentionIsAPrefix
    <2>4. ASSUME cursor[r] # NoId, NEW s \in history, Position(r) < s PROVE s \in outbox
      <3>1. cursor[r] = Position(r) /\ latest \in Int /\ s \in Int /\ s <= latest
        BY <2>4, <1>t, <1>s DEF Position, OutboxInv, LatestIsWatermark, TypeOK
      <3>i. cursor[r] < latest
        BY <2>4, <3>1, <1>p
      <3>2. outbox # {}
        BY <2>1, <2>4, <3>i DEF NeedsReset, CursorExpired
      <3>3. PICK a \in outbox : ~ (cursor[r] < a)
        BY <2>1, <2>4, <3>2 DEF NeedsReset, CursorExpired
      <3>j. a \in Int
        BY <1>s
      <3>4. a <= s
        BY <3>1, <3>3, <3>j, <2>4, <1>p
      <3> QED BY <2>3, <3>4
    <2> QED BY <2>1, <2>2, <2>3, <2>4 DEF Whole
  <1>11. ASSUME Fetch(r) PROVE Whole(r)'
    <2>1. /\ Load(r, Batch(Position(r))) /\ UNCHANGED <<outbox, history, cursor>>
          /\ mode[r] = "fetching"
      BY <1>11 DEF Fetch, dbVars
    <2>2. Position(r)' = Position(r) /\ Ahead(r)' = {s \in outbox : Position(r) < s}
      BY <2>1, <1>t, LoadSplits
    <2>3. queue[r] = {} /\ Streaming(r)
      BY <2>1 DEF BatchesAreAhead, Streaming
    <2>4. Ahead(r) = {s \in outbox : Position(r) < s}
      BY <2>3 DEF Ahead, Lacking
    <2> QED BY <2>1, <2>2, <2>3, <2>4, <1>w DEF Whole
  <1>12. ASSUME Send(r) PROVE Whole(r)'
    <2>1. PICK m \in queue[r] :
             /\ \A s \in queue[r] : m <= s
             /\ cursor' = [cursor EXCEPT ![r] = m]
             /\ queue' = [queue EXCEPT ![r] = @ \ {m}]
      BY <1>12 DEF Send
    <2>2. UNCHANGED <<outbox, history>> /\ mode[r] = "sending" /\ Streaming(r)
      BY <1>12 DEF Send, dbVars, Streaming
    <2>3. m \in Seqs /\ m \in Int /\ Position(r) < m
      BY <2>1, <1>q, <1>s DEF BatchesAreAhead
    <2>4. Position(r)' = m /\ queue'[r] = queue[r] \ {m}
      BY <2>1, <2>3, <1>t DEF Position, TypeOK, NoId, Seqs
    <2>5. ASSUME NEW s \in history, m < s PROVE s \in Ahead(r)'
      <3>1. Position(r) < s /\ m <= s /\ m \in Ahead(r)
        BY <2>1, <2>3, <2>5, <1>p, <1>s DEF Ahead
      <3>2. s \in Ahead(r) /\ s # m
        BY <3>1, <2>2, <2>3, <2>5, <1>w DEF Whole
      <3> QED BY <3>2, <2>2, <2>4, <2>5 DEF Ahead, Lacking
    <2> QED BY <2>2, <2>4, <2>5 DEF Whole
  <1> QED
    BY <1>1, <1>2, <1>3, <1>4, <1>5, <1>6, <1>7, <1>8, <1>9, <1>10, <1>11, <1>12
       DEF Next, HandlerStep

\* The invariant under which every step of the stream is a step of the feed.
FeedInv == /\ OutboxInv
           /\ WakeupInv
           /\ StampsFollowSequence
           /\ RetentionIsAPrefix
           /\ LatestIsCommitted
           /\ NothingIsSkipped

\* A commit with rows publishes, a message sent starts or continues a browser, a
\* reset resets; every other step is invisible.
LEMMA FeedStep ==
  ASSUME FeedInv, [Next]_vars
  PROVE  [Feed!FeedNext]_Feed!feedVars
  <1> USE DEF FeedInv
  <1>t. TypeOK /\ OutboxInv
    BY DEF OutboxInv
  <1>s. history \subseteq Seqs /\ Seqs \subseteq Int
    BY <1>t DEF TypeOK, Seqs
  <1>0. ASSUME UNCHANGED <<history, cursor>> PROVE [Feed!FeedNext]_Feed!feedVars
    BY <1>0 DEF Feed!feedVars
  <1>1. ASSUME NEW w \in Writers, WriterStep(w), ~Commit(w) PROVE UNCHANGED <<history, cursor>>
    BY <1>1 DEF WriterStep, Begin, AcquireLock, Allocate, Rollback, Notify, dbVars, streamVars
  <1>2. ASSUME NEW w \in Writers, Commit(w) PROVE [Feed!FeedNext]_Feed!feedVars
    <2>1. history' = history \cup pending[w] /\ cursor' = cursor /\ wpc[w] = "holding"
      BY <1>2 DEF Commit, streamVars
    <2>2. pending[w] \in SUBSET (1..MaxSeq)
      BY <1>t DEF TypeOK, Seqs
    <2>3. \A s \in pending[w], t \in history : t < s
      BY <2>1, <2>2, <1>t, <1>s DEF OutboxInv, LatestIsWatermark, TypeOK
    <2>4. CASE pending[w] = {}
      BY <2>1, <2>4, <1>0
    <2>5. CASE pending[w] # {}
      <3>1. Feed!Publish
        BY <2>1, <2>2, <2>3, <2>5 DEF Feed!Publish
      <3> QED BY <3>1 DEF Feed!FeedNext
    <2> QED BY <2>4, <2>5
  <1>3. ASSUME NEW r \in Readers, Send(r) PROVE [Feed!FeedNext]_Feed!feedVars
    <2>1. PICK m \in queue[r] :
             /\ \A s \in queue[r] : m <= s
             /\ cursor' = [cursor EXCEPT ![r] = m]
      BY <1>3 DEF Send
    <2>2. history' = history /\ Streaming(r)
      BY <1>3 DEF Send, Streaming, dbVars
    <2>3. m \in history /\ m \in Int
      BY <2>1, <1>t, <1>s DEF OutboxInv, ReadersBehindLatest
    <2>4. CASE cursor[r] = NoId
      <3>1. Feed!Start(r)
        BY <2>1, <2>2, <2>3, <2>4 DEF Feed!Start, Feed!NoId, NoId
      <3> QED BY <3>1 DEF Feed!FeedNext
    <2>5. CASE cursor[r] # NoId
      <3>1. cursor[r] = Position(r) /\ Position(r) \in Int
        BY <2>5, <1>t DEF Position, TypeOK, NoId
      <3>2. cursor[r] < m
        BY <3>1, <2>1 DEF WakeupInv, BatchesAreAhead
      <3>3. ASSUME NEW s \in history, ~ (s <= cursor[r]) PROVE m <= s
        <4>i. s \in Int /\ cursor[r] \in Int
          BY <3>1, <1>s
        <4>1. s \in Int /\ Position(r) < s
          BY <3>1, <3>3, <4>i
        <4>2. s \in Ahead(r)
          BY <4>1, <2>2, <2>5 DEF NothingIsSkipped
        <4>3. s \in queue[r] \/ m < s
          BY <4>2, <2>1 DEF Ahead, Lacking
        <4> QED BY <4>1, <4>3, <2>1, <2>3
      <3>4. Feed!Deliver(r)
        BY <2>1, <2>2, <2>3, <2>5, <3>2, <3>3 DEF Feed!Deliver, Feed!NoId, NoId
      <3> QED BY <3>4 DEF Feed!FeedNext
    <2> QED BY <2>4, <2>5
  <1>4. ASSUME NEW r \in Readers, ReplayReset(r) PROVE [Feed!FeedNext]_Feed!feedVars
    <2>1. /\ cursor' = [cursor EXCEPT ![r] = latest]
          /\ history' = history
          /\ cursor[r] # NoId
      BY <1>4 DEF ReplayReset, NeedsReset, dbVars
    <2>2. Feed!IsNewest(latest) /\ latest \in history \cup {0}
      BY <1>t DEF Feed!IsNewest, LatestIsCommitted, OutboxInv, LatestIsWatermark
    <2>3. Feed!Reset(r)
      BY <2>1, <2>2 DEF Feed!Reset, Feed!NoId, NoId
    <2> QED BY <2>3 DEF Feed!FeedNext
  <1>5. ASSUME NEW r \in Readers, Subscribe(r) \/ Replay(r) \/ Wake(r) \/ ReplayTick(r)
                                  \/ Fetch(r) \/ Disconnect(r)
        PROVE  UNCHANGED <<history, cursor>>
    BY <1>5 DEF Subscribe, Replay, Wake, ReplayTick, Fetch, Disconnect, dbVars
  <1>6. ASSUME PruneAudit \/ Tick \/ CrashServer \/ UNCHANGED vars
        PROVE  UNCHANGED <<history, cursor>>
    BY <1>6 DEF PruneAudit, Tick, CrashServer, vars, dbVars, streamVars
  <1> QED
    BY <1>0, <1>1, <1>2, <1>3, <1>4, <1>5, <1>6 DEF Next, HandlerStep

\* The stream a browser sees is one totally ordered feed with explicit resets, if
\* writers stamp under the lock and no connected handler falls behind retention.
THEOREM StreamImplementsFeed ==
  ASSUME EarlyStampers = {}, LiveReadersKeepUp = TRUE
  PROVE  Spec => ImplementsEventFeed
  <1>1. Init => FeedInv
    BY InitInv
       DEF Init, FeedInv, WakeupInv, BatchesAreAhead, LastBatchCovers, StampsFollowSequence,
           RetentionIsAPrefix, LatestIsCommitted, NothingIsSkipped, Streaming
  <1>2. FeedInv /\ [Next]_vars => FeedInv'
    BY StepInv, StepWakeup, StepStamps, StepPrefix, StepLatest, StepSkips
       DEF FeedInv, WakeupInv
  <1>3. Init => Feed!FeedInit
    BY DEF Init, Feed!FeedInit, Feed!NoId, NoId
  <1>4. FeedInv /\ [Next]_vars => [Feed!FeedNext]_Feed!feedVars
    BY FeedStep
  <1> QED BY <1>1, <1>2, <1>3, <1>4, PTL DEF Spec, ImplementsEventFeed, Feed!FeedSpec
=============================================================================
