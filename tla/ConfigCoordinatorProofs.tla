----------------------- MODULE ConfigCoordinatorProofs -----------------------
(***************************************************************************)
(* For any number of names, tokens and changes and any size of the token   *)
(* map: changes through the BFF are compare-and-swaps, a token authorises  *)
(* one of them, the flag has a holder, and only old tokens are evicted.    *)
(*                                                                         *)
(* For any drafts, policies, ports and documents of the native console:    *)
(* the document stays sound, a change takes nothing from it that its user  *)
(* did not name, and what is stored is confirmed, but for the known gaps.  *)
(* These proofs, in the second half, have lemmas on lists, on each part of *)
(* a document, and one lemma per operation.                                *)
(***************************************************************************)
EXTENDS MCConfigCoordinator, FiniteSetTheorems, SequenceTheorems,
        WellFoundedInduction, TLAPS

\* A number of names is a number.
LEMMA NamesAreCounted == Cardinality(Names) \in Nat
  BY FS_CardinalityType, CoordinatorAssumption

\* A set of tokens is finite and no larger than Tokens.
LEMMA TokensAreCounted ==
  ASSUME NEW S \in SUBSET Tokens
  PROVE  /\ IsFiniteSet(S)
         /\ Cardinality(S) \in 0..Cardinality(Tokens)
         /\ Cardinality(Tokens) \in Nat
  <1>1. IsFiniteSet(S) /\ Cardinality(S) <= Cardinality(Tokens)
    BY FS_Subset, CoordinatorAssumption
  <1>2. Cardinality(S) \in Nat /\ Cardinality(Tokens) \in Nat
    BY <1>1, FS_CardinalityType, CoordinatorAssumption
  <1> QED BY <1>1, <1>2

\* A set of tokens that gains one counts one more.
LEMMA OneTokenMore ==
  ASSUME NEW S \in SUBSET Tokens, NEW k \in Tokens, k \notin S
  PROVE  /\ Cardinality(S \cup {k}) = Cardinality(S) + 1
         /\ Cardinality(S) + 1 <= Cardinality(Tokens)
  <1>1. Cardinality(S \cup {k}) = Cardinality(S) + 1
    BY FS_AddElement, TokensAreCounted
  <1>2. S \cup {k} \in SUBSET Tokens
    OBVIOUS
  <1>3. Cardinality(S \cup {k}) <= Cardinality(Tokens)
    BY <1>2, TokensAreCounted, FS_Subset, CoordinatorAssumption
  <1> QED BY <1>1, <1>3

\* Documents are the sequences of different names: one cannot be longer than
\* the names there are.
LEMMA DistinctIsDoc ==
  ASSUME NEW entries \in Seq(Names)
  PROVE  entries \in Docs <=> Distinct(entries)
  <1>1. Len(entries) \in Nat /\ entries \in [1..Len(entries) -> Names]
    OBVIOUS
  <1>2. ASSUME Distinct(entries) PROVE Len(entries) <= Cardinality(Names)
    <2>1. IsFiniteSet(1..Len(entries)) /\ Cardinality(1..Len(entries)) = Len(entries)
      BY <1>1, FS_Interval
    <2>2. CASE Cardinality(Names) < Len(entries)
      BY <1>1, <1>2, <2>1, <2>2, FS_PigeonHole, CoordinatorAssumption DEF Distinct
    <2> QED BY <1>1, <2>2, NamesAreCounted
  <1> QED BY <1>1, <1>2, NamesAreCounted DEF Docs

\* A document is a sequence of names.
LEMMA DocIsSeq == \A entries \in Docs : entries \in Seq(Names)
  <1> SUFFICES ASSUME NEW n \in 0..Cardinality(Names), NEW entries \in [1..n -> Names]
               PROVE  entries \in Seq(Names)
    BY DEF Docs
  <1>1. n \in Nat
    BY NamesAreCounted
  <1> QED BY <1>1

\* The empty document is one.
LEMMA EmptyIsDoc == <<>> \in Docs
  <1>1. <<>> \in Seq(Names) /\ DOMAIN <<>> = {}
    OBVIOUS
  <1>2. Distinct(<<>>)
    BY <1>1, Zenon DEF Distinct
  <1> QED BY <1>1, <1>2, DistinctIsDoc

\* What is left of a sequence without its entry at k.
LEMMA RemoveAtProperties ==
  ASSUME NEW S, NEW s \in Seq(S), NEW k \in 1..Len(s)
  PROVE  /\ RemoveAt(s, k) \in Seq(S)
         /\ Len(RemoveAt(s, k)) = Len(s) - 1
         /\ \A i \in 1..Len(s) - 1 :
               RemoveAt(s, k)[i] = IF i < k THEN s[i] ELSE s[i + 1]
  <1> DEFINE n == Len(s)
             before == SubSeq(s, 1, k - 1)
             after == SubSeq(s, k + 1, n)
             rest == before \o after
  <1>1. n \in Nat /\ k \in 1..n /\ \A i \in 1..n : s[i] \in S
    OBVIOUS
  <1> HIDE DEF n
  <1>2. /\ before \in Seq(S) /\ Len(before) = k - 1
        /\ \A i \in 1..k - 1 : before[i] = s[i]
    <2>1. /\ before \in Seq(S)
          /\ Len(before) = IF 1 <= k - 1 THEN k - 1 - 1 + 1 ELSE 0
          /\ \A i \in 1..k - 1 - 1 + 1 : before[i] = s[1 + i - 1]
      BY <1>1, SubSeqProperties
    <2> HIDE DEF before
    <2> QED BY <1>1, <2>1
  <1>3. /\ after \in Seq(S) /\ Len(after) = n - k
        /\ \A i \in 1..n - k : after[i] = s[k + i]
    <2>1. /\ after \in Seq(S)
          /\ Len(after) = IF k + 1 <= n THEN n - (k + 1) + 1 ELSE 0
          /\ \A i \in 1..n - (k + 1) + 1 : after[i] = s[(k + 1) + i - 1]
      BY <1>1, SubSeqProperties
    <2> HIDE DEF after
    <2> QED BY <1>1, <2>1
  <1> HIDE DEF before, after
  <1>4. /\ rest \in Seq(S) /\ Len(rest) = Len(before) + Len(after)
        /\ \A i \in 1..Len(before) + Len(after) :
              rest[i] = IF i <= Len(before) THEN before[i] ELSE after[i - Len(before)]
    BY <1>2, <1>3, ConcatProperties
  <1> HIDE DEF rest
  <1>5. Len(rest) = n - 1
    BY <1>1, <1>2, <1>3, <1>4
  <1>6. ASSUME NEW i \in 1..n - 1 PROVE rest[i] = IF i < k THEN s[i] ELSE s[i + 1]
    <2>1. rest[i] = IF i <= k - 1 THEN before[i] ELSE after[i - (k - 1)]
      BY <1>1, <1>2, <1>3, <1>4
    <2>2. CASE i <= k - 1
      BY <1>1, <1>2, <2>1, <2>2
    <2>3. CASE k <= i
      <3>1. i - (k - 1) \in 1..n - k /\ k + (i - (k - 1)) = i + 1
        BY <1>1, <2>3
      <3> QED BY <1>1, <1>3, <2>1, <2>3, <3>1
    <2> QED BY <1>1, <2>2, <2>3
  <1> QED BY <1>4, <1>5, <1>6 DEF RemoveAt, n, before, after, rest

\* A change that is not refused turns a document into a document
\* (llmConfigDocument.apply).
LEMMA AppliedIsDoc ==
  ASSUME NEW entries \in Docs, NEW e \in Edits, Applicable(e, entries)
  PROVE  Applied(e, entries) \in Docs
  <1> DEFINE n == Len(entries)
  <1>1. entries \in Seq(Names) /\ Distinct(entries) /\ n \in Nat /\ DOMAIN entries = 1..n
    BY DocIsSeq, DistinctIsDoc
  <1>2. CASE e.op = "create"
    <2> DEFINE longer == Append(entries, e.name)
    <2>1. e.name \in Names /\ \A i \in 1..n : entries[i] # e.name
      BY <1>1, <1>2 DEF Applicable, Edits
    <2>2. /\ longer \in Seq(Names) /\ Len(longer) = n + 1
          /\ \A i \in 1..n : longer[i] = entries[i]
          /\ longer[n + 1] = e.name
      BY <1>1, <2>1, AppendProperties
    <2> HIDE DEF longer
    <2>3. Distinct(longer)
      BY <1>1, <2>1, <2>2 DEF Distinct
    <2> QED BY <1>2, <2>2, <2>3, DistinctIsDoc DEF Applied, longer
  <1>3. CASE e.op = "update"
    <2> DEFINE renamed == [entries EXCEPT ![e.index] = e.name]
    <2>1. e.name \in Names /\ e.index \in 1..n
          /\ \A i \in 1..n : entries[i] = e.name => i = e.index
      BY <1>1, <1>3 DEF Applicable, Edits
    <2>2. renamed \in Seq(Names)
      BY <1>1, <2>1, ExceptSeq
    <2>3. Distinct(renamed)
      BY <1>1, <2>1 DEF Distinct
    <2> QED BY <1>3, <2>2, <2>3, DistinctIsDoc DEF Applied
  <1>4. CASE e.op = "delete"
    <2> DEFINE rest == RemoveAt(entries, e.index)
    <2>1. e.index \in 1..n
      BY <1>1, <1>4 DEF Applicable, Edits
    <2>2. /\ rest \in Seq(Names) /\ Len(rest) = n - 1
          /\ \A i \in 1..n - 1 : rest[i] = IF i < e.index THEN entries[i] ELSE entries[i + 1]
      BY <1>1, <2>1, RemoveAtProperties
    <2> HIDE DEF rest
    <2>3. Distinct(rest)
      <3>1. DOMAIN rest = 1..n - 1
        BY <2>2
      <3>2. SUFFICES ASSUME NEW i \in 1..n - 1, NEW j \in 1..n - 1, rest[i] = rest[j]
                     PROVE  i = j
        BY <3>1, Zenon DEF Distinct
      <3>3. \A k, l \in 1..n : entries[k] = entries[l] => k = l
        BY <1>1 DEF Distinct
      <3>4. i \in 1..n /\ j \in 1..n /\ i + 1 \in 1..n /\ j + 1 \in 1..n
        BY <1>1
      <3>5. CASE i < e.index /\ j < e.index
        BY <2>2, <3>2, <3>3, <3>4, <3>5
      <3>6. CASE i < e.index /\ ~(j < e.index)
        BY <1>1, <2>1, <2>2, <3>2, <3>3, <3>4, <3>6
      <3>7. CASE ~(i < e.index) /\ j < e.index
        BY <1>1, <2>1, <2>2, <3>2, <3>3, <3>4, <3>7
      <3>8. CASE ~(i < e.index) /\ ~(j < e.index)
        BY <1>1, <2>1, <2>2, <3>2, <3>3, <3>4, <3>8
      <3> QED BY <3>5, <3>6, <3>7, <3>8
    <2> QED BY <1>4, <2>2, <2>3, DistinctIsDoc DEF Applied, rest
  <1> QED BY <1>2, <1>3, <1>4 DEF Edits
-----------------------------------------------------------------------------
\* It holds before anything has happened.
LEMMA InitInv == Init => CoordinatorInv
  <1> SUFFICES ASSUME Init PROVE CoordinatorInv
    OBVIOUS
  <1> USE CoordinatorAssumption DEF Init
  <1>1. <<>> \in Docs
    BY EmptyIsDoc
  <1>2. /\ Cardinality({}) = 0
        /\ 0 \in 0..Cardinality(Tokens)
    BY FS_EmptySet, TokensAreCounted
  <1>3. TypeOK
    BY <1>1, <1>2 DEF TypeOK
  <1>4. Stamped = {} /\ Entered = {}
    BY DEF Stamped, Entered
  <1>5. TokenDiscipline
    BY <1>2, <1>4 DEF TokenDiscipline
  <1>6. ChangeDiscipline /\ BaseIsCurrent
    BY DEF ChangeDiscipline, BaseIsCurrent
  <1>7. TokensAreUsedOnce /\ OnlyOldTokensAreEvicted
    BY DEF TokensAreUsedOnce, OnlyOldTokensAreEvicted
  <1> QED BY <1>3, <1>5, <1>6, <1>7 DEF CoordinatorInv

\* A change in progress leaves the tokens and what is known of them alone.
LEMMA TokenFrame ==
  ASSUME TokenDiscipline, OnlyOldTokensAreEvicted, UNCHANGED tokenVars
  PROVE  TokenDiscipline' /\ OnlyOldTokensAreEvicted'
  <1>1. Stamped' = Stamped /\ Entered' = Entered
    BY DEF Stamped, Entered, tokenVars
  <1> QED BY <1>1 DEF TokenDiscipline, OnlyOldTokensAreEvicted, tokenVars

\* Tokens that newer ones replaced stay replaced: the map only ever gains tokens,
\* and what is in it keeps its ranks.
LEMMA EvictionsStayJustified ==
  ASSUME TypeOK, OnlyOldTokensAreEvicted,
         NEW k \in Tokens, state[k] = "evicted",
         Entered \subseteq Entered', Entered' \subseteq Tokens,
         \A t \in Entered \cup {k} : created'[t] = created[t] /\ inserted'[t] = inserted[t]
  PROVE  MaxRevisions <= Cardinality({other \in Entered :
             created[k] < created[other] \/ inserted[k] < inserted[other]})'
  <1> DEFINE After == {other \in Entered :
                 created[k] < created[other] \/ inserted[k] < inserted[other]}
  <1>1. MaxRevisions <= Cardinality(After)
    BY DEF OnlyOldTokensAreEvicted
  <1>2. After \in SUBSET After' /\ After' \in SUBSET Tokens /\ After \in SUBSET Tokens
    BY DEF Entered
  <1> HIDE DEF After
  <1>3. Cardinality(After) <= Cardinality(After')
    BY <1>2, TokensAreCounted, FS_Subset
  <1>4. Cardinality(After) \in Nat /\ Cardinality(After') \in Nat
    BY <1>2, TokensAreCounted
  <1>5. MaxRevisions <= Cardinality(After')
    BY <1>1, <1>3, <1>4, CoordinatorAssumption
  <1> QED BY <1>5 DEF After

\* Reading a configuration to show it keeps the invariant.
LEMMA ShowInv ==
  ASSUME CoordinatorInv, NEW k \in Tokens, Show(k)
  PROVE  CoordinatorInv'
  <1> USE CoordinatorAssumption DEF CoordinatorInv, Show, requestVars
  <1>1. TypeOK'
    BY DEF TypeOK
  <1>2. Stamped' = Stamped /\ Entered' = Entered
    BY DEF Stamped, Entered
  <1>3. TokenDiscipline'
    BY <1>2 DEF TokenDiscipline, TypeOK
  <1>4. ChangeDiscipline'
    BY DEF ChangeDiscipline, TypeOK
  <1>5. BaseIsCurrent'
    BY DEF ChangeDiscipline, BaseIsCurrent, TypeOK
  <1>6. TokensAreUsedOnce'
    BY DEF TokensAreUsedOnce
  <1>7. OnlyOldTokensAreEvicted'
    BY <1>2 DEF OnlyOldTokensAreEvicted, TypeOK
  <1> QED BY <1>1, <1>3, <1>4, <1>5, <1>6, <1>7

\* The clock read for a new token keeps the invariant: no token has that rank.
LEMMA StampInv ==
  ASSUME CoordinatorInv, NEW k \in Tokens, Stamp(k)
  PROVE  CoordinatorInv'
  <1> USE CoordinatorAssumption DEF CoordinatorInv, Stamp, requestVars
  <1>1. k \notin Stamped /\ k \notin Entered
    BY DEF TokenDiscipline, Stamped, Entered
  <1>2. /\ Cardinality(Stamped) \in 0..Cardinality(Tokens)
        /\ Cardinality(Tokens) \in Nat
        /\ Cardinality(Stamped \cup {k}) = Cardinality(Stamped) + 1
        /\ Cardinality(Stamped) + 1 <= Cardinality(Tokens)
    BY <1>1, TokensAreCounted, OneTokenMore DEF Stamped
  <1>3. TypeOK'
    BY <1>2 DEF TypeOK
  <1>4. Stamped' = Stamped \cup {k} /\ Entered' = Entered
    <2>1. Cardinality(Stamped) + 1 # 0
      BY <1>2
    <2>2. \A t \in Tokens : created'[t] # 0 <=> created[t] # 0 \/ t = k
      BY <2>1 DEF TypeOK
    <2> QED BY <2>2 DEF Stamped, Entered
  <1>5. TokenDiscipline'
    <2>1. \A t \in Tokens : created[t] \in Nat /\ created[t] <= Cardinality(Stamped)
      BY <1>2 DEF TokenDiscipline, TypeOK
    <2>2. \A j, t \in Stamped' : created'[j] = created'[t] => j = t
      BY <1>2, <1>4, <2>1 DEF TokenDiscipline, TypeOK, Stamped
    <2>3. \A t \in Tokens : created'[t] <= Cardinality(Stamped')
      BY <1>2, <1>4, <2>1 DEF TypeOK
    <2> QED BY <1>2, <1>4, <2>2, <2>3 DEF TokenDiscipline, TypeOK
  <1>6. ChangeDiscipline'
    BY DEF ChangeDiscipline, TypeOK
  <1>7. BaseIsCurrent'
    BY DEF BaseIsCurrent
  <1>8. TokensAreUsedOnce'
    BY DEF TokensAreUsedOnce
  <1>9. OnlyOldTokensAreEvicted'
    <2> SUFFICES ASSUME NEW t \in Tokens, state'[t] = "evicted"
                 PROVE  MaxRevisions <= Cardinality({other \in Entered :
                            created[t] < created[other] \/ inserted[t] < inserted[other]})'
      BY DEF OnlyOldTokensAreEvicted
    <2>1. state[t] = "evicted" /\ t # k
      BY DEF TypeOK
    <2>2. \A u \in Entered \cup {t} : created'[u] = created[u] /\ inserted'[u] = inserted[u]
      BY <1>1, <2>1 DEF TypeOK, Entered
    <2> QED BY <1>4, <2>1, <2>2, EvictionsStayJustified DEF Entered
  <1> QED BY <1>3, <1>5, <1>6, <1>7, <1>8, <1>9

\* Issuing a token into a full map keeps the invariant: the one that leaves is
\* older than all that stay, and the new one entered after it.
LEMMA IssueInv ==
  ASSUME CoordinatorInv, NEW k \in Tokens, Issue(k)
  PROVE  CoordinatorInv'
  <1> USE CoordinatorAssumption DEF CoordinatorInv, Issue, requestVars
  <1>1. k \notin Entered /\ k \in Stamped /\ k \notin Live
    BY DEF TokenDiscipline, Stamped, Entered, Live
  <1>2. /\ Cardinality(Entered) \in 0..Cardinality(Tokens)
        /\ Cardinality(Tokens) \in Nat
        /\ Cardinality(Entered \cup {k}) = Cardinality(Entered) + 1
        /\ Cardinality(Entered) + 1 <= Cardinality(Tokens)
    BY <1>1, TokensAreCounted, OneTokenMore DEF Entered
  <1>3. Evicted \subseteq Oldest(Live) /\ Evicted \subseteq Live
    BY DEF Evicted, Oldest
  <1>4. \A t \in Tokens : state'[t] = IF t = k THEN "live"
                                     ELSE IF t \in Evicted THEN "evicted" ELSE state[t]
    BY <1>1, <1>3
  <1>5. TypeOK'
    <2>1. state' \in [Tokens -> {"none", "read", "stamped", "live", "used", "expired",
                                "evicted"}]
      BY DEF TypeOK
    <2>2. inserted' \in [Tokens -> 0..Cardinality(Tokens)]
      BY <1>2 DEF TypeOK
    <2> QED BY <2>1, <2>2 DEF TypeOK
  <1>6. Stamped' = Stamped /\ Entered' = Entered \cup {k}
    <2>1. Cardinality(Entered) + 1 # 0
      BY <1>2
    <2>2. \A t \in Tokens : inserted'[t] # 0 <=> inserted[t] # 0 \/ t = k
      BY <2>1 DEF TypeOK
    <2> QED BY <2>2 DEF Stamped, Entered
  <1>7. TokenDiscipline'
    <2>1. \A t \in Tokens : inserted[t] \in Nat /\ inserted[t] <= Cardinality(Entered)
      BY <1>2 DEF TokenDiscipline, TypeOK
    <2>2. \A t \in Tokens : inserted'[t] <= Cardinality(Entered')
      BY <1>2, <1>6, <2>1 DEF TypeOK
    <2>3. \A t \in Tokens :
             /\ state'[t] \in {"none", "read"} <=> created[t] = 0
             /\ state'[t] \in {"none", "read", "stamped"} <=> inserted'[t] = 0
      BY <1>2, <1>3, <1>4 DEF TokenDiscipline, TypeOK, Live
    <2> QED BY <1>6, <2>2, <2>3 DEF TokenDiscipline
  <1>8. ChangeDiscipline'
    <2>1. \A t \in Tokens : state[t] = "used" => state'[t] = "used"
      BY <1>3, <1>4 DEF Live
    <2> QED BY <2>1 DEF ChangeDiscipline, TypeOK
  <1>9. BaseIsCurrent' /\ TokensAreUsedOnce'
    BY DEF BaseIsCurrent, TokensAreUsedOnce
  <1>10. OnlyOldTokensAreEvicted'
    <2> SUFFICES ASSUME NEW t \in Tokens, state'[t] = "evicted"
                 PROVE  MaxRevisions <= Cardinality({other \in Entered :
                            created[t] < created[other] \/ inserted[t] < inserted[other]})'
      BY DEF OnlyOldTokensAreEvicted
    <2>1. CASE state[t] = "evicted"
      <3>1. \A u \in Entered \cup {t} : created'[u] = created[u] /\ inserted'[u] = inserted[u]
        BY <1>1, <2>1 DEF TypeOK, Entered
      <3> QED BY <1>6, <2>1, <3>1, EvictionsStayJustified DEF Entered
    <2>2. CASE t \in Evicted
      <3> DEFINE Others == Live \ {t}
                 After == {other \in Entered :
                     created[t] < created[other] \/ inserted[t] < inserted[other]}
      <3>1. t \in Live /\ t # k /\ Cardinality(Live) \in Nat
            /\ MaxRevisions <= Cardinality(Live)
        <4>1. ~(Cardinality(Live) < MaxRevisions)
          BY <2>2 DEF Evicted
        <4>2. Cardinality(Live) \in Nat
          BY TokensAreCounted DEF Live
        <4> QED BY <1>1, <1>3, <2>2, <4>1, <4>2
      <3>2. Cardinality(Others) = Cardinality(Live) - 1
        BY <3>1, TokensAreCounted, FS_RemoveElement DEF Live
      <3>3. Cardinality(Others \cup {k}) = Cardinality(Live)
        BY <1>1, <3>1, <3>2, OneTokenMore DEF Live
      <3>4. \A other \in Others : other \in Entered /\ created[t] < created[other]
        <4> SUFFICES ASSUME NEW other \in Others
                     PROVE  other \in Entered /\ created[t] < created[other]
          OBVIOUS
        <4>1. other \in Stamped /\ other \in Entered /\ t \in Stamped
          BY <3>1 DEF TokenDiscipline, Live, Stamped, Entered
        <4>2. created[t] \in Nat /\ created[other] \in Nat
          BY <1>2, <4>1 DEF TypeOK, Stamped
        <4>3. created[t] <= created[other]
          BY <1>3, <2>2 DEF Oldest
        <4>4. created[t] # created[other]
          BY <4>1 DEF TokenDiscipline
        <4> QED BY <4>1, <4>2, <4>3, <4>4
      <3>5. inserted'[t] < inserted'[k]
        <4>1. inserted[t] \in Nat /\ inserted[t] <= Cardinality(Entered)
          BY <1>2 DEF TokenDiscipline, TypeOK
        <4> QED BY <1>2, <3>1, <4>1 DEF TypeOK
      <3>6. Others \cup {k} \in SUBSET After'
        BY <1>6, <3>4, <3>5
      <3>7. After' \in SUBSET Tokens
        BY DEF Entered
      <3> HIDE DEF After, Others
      <3>8. Cardinality(Others \cup {k}) <= Cardinality(After') /\ Cardinality(After') \in Nat
        BY <3>6, <3>7, TokensAreCounted, FS_Subset
      <3>9. MaxRevisions <= Cardinality(After')
        BY <3>1, <3>3, <3>8
      <3> QED BY <3>9 DEF After
    <2>3. t # k
      BY <1>4
    <2> QED BY <1>4, <2>1, <2>2, <2>3
  <1> QED BY <1>5, <1>7, <1>8, <1>9, <1>10

\* Forgetting a token of age keeps the invariant.
LEMMA ExpireInv ==
  ASSUME CoordinatorInv, Expire
  PROVE  CoordinatorInv'
  <1> USE CoordinatorAssumption DEF CoordinatorInv, requestVars
  <1>1. PICK k \in Oldest(Live) : state' = [state EXCEPT ![k] = "expired"]
    BY DEF Expire
  <1>2. k \in Tokens /\ state[k] = "live"
    BY DEF Oldest, Live
  <1>3. UNCHANGED <<config, console, shown, created, inserted, mutating, rpc, token, edit,
                    base, raced>>
    BY DEF Expire
  <1>4. TypeOK'
    BY <1>1, <1>2, <1>3 DEF TypeOK
  <1>5. Stamped' = Stamped /\ Entered' = Entered
    BY <1>3 DEF Stamped, Entered
  <1>6. TokenDiscipline'
    BY <1>1, <1>2, <1>3, <1>5 DEF TokenDiscipline, TypeOK
  <1>7. ChangeDiscipline'
    BY <1>1, <1>2, <1>3 DEF ChangeDiscipline, TypeOK
  <1>8. BaseIsCurrent' /\ TokensAreUsedOnce'
    BY <1>3 DEF BaseIsCurrent, TokensAreUsedOnce
  <1>9. OnlyOldTokensAreEvicted'
    BY <1>1, <1>2, <1>3, <1>5 DEF OnlyOldTokensAreEvicted, TypeOK
  <1> QED BY <1>4, <1>6, <1>7, <1>8, <1>9

\* A change takes a live token out of the map, which no other change has.
LEMMA ConsumeInv ==
  ASSUME CoordinatorInv, NEW r \in Requests, Consume(r)
  PROVE  CoordinatorInv'
  <1> USE CoordinatorAssumption DEF CoordinatorInv, Goto
  <1>1. PICK k \in Entered, e \in Edits :
          IF k \in Live
          THEN /\ rpc' = [rpc EXCEPT ![r] = "consumed"]
               /\ token' = [token EXCEPT ![r] = k]
               /\ edit' = [edit EXCEPT ![r] = e]
               /\ state' = [state EXCEPT ![k] = "used"]
          ELSE rpc' = [rpc EXCEPT ![r] = "done"] /\ UNCHANGED <<state, token, edit>>
    BY DEF Consume
  <1>2. /\ rpc[r] = "new" /\ k \in Tokens
        /\ UNCHANGED <<config, console, shown, created, inserted, mutating, base, raced>>
    BY DEF Consume, Entered
  <1>3. Stamped' = Stamped /\ Entered' = Entered
    BY <1>2 DEF Stamped, Entered
  <1>4. CASE k \in Live
    <2>1. state[k] = "live"
      BY <1>4 DEF Live
    <2>2. TypeOK'
      BY <1>1, <1>2, <1>4 DEF TypeOK
    <2>3. TokenDiscipline'
      BY <1>1, <1>2, <1>3, <1>4, <2>1 DEF TokenDiscipline, TypeOK
    <2>4. ChangeDiscipline'
      BY <1>1, <1>2, <1>4, <2>1 DEF ChangeDiscipline, TypeOK
    <2>5. BaseIsCurrent'
      BY <1>1, <1>2, <1>4 DEF BaseIsCurrent, TypeOK
    <2>6. TokensAreUsedOnce'
      BY <1>1, <1>2, <1>4, <2>1 DEF TokensAreUsedOnce, ChangeDiscipline, TypeOK
    <2>7. OnlyOldTokensAreEvicted'
      BY <1>1, <1>2, <1>3, <1>4, <2>1 DEF OnlyOldTokensAreEvicted, TypeOK
    <2> QED BY <2>2, <2>3, <2>4, <2>5, <2>6, <2>7
  <1>5. CASE k \notin Live
    <2>1. UNCHANGED tokenVars
      BY <1>1, <1>2, <1>5 DEF tokenVars
    <2>2. TypeOK' /\ ChangeDiscipline'
      BY <1>1, <1>2, <1>5 DEF TypeOK, ChangeDiscipline
    <2>3. BaseIsCurrent'
      BY <1>1, <1>2, <1>5 DEF BaseIsCurrent, TypeOK
    <2>4. TokensAreUsedOnce'
      BY <1>1, <1>5 DEF TokensAreUsedOnce
    <2> QED BY <2>1, <2>2, <2>3, <2>4, TokenFrame
  <1> QED BY <1>4, <1>5

\* Every way for a change to go on, or to end, keeps the invariant (Begin,
\* Reread, Post, Verify): those past Begin are alone, so that only the one that
\* writes can have computed a document.
LEMMA ChangeStepInv ==
  ASSUME CoordinatorInv, NEW r \in Requests, ChangeStep(r)
  PROVE  CoordinatorInv'
  <1> USE CoordinatorAssumption DEF CoordinatorInv, KeepTokens, tokenVars
  <1>1. <<>> \in Docs
    BY EmptyIsDoc
  <1>2. UNCHANGED <<console, tokenVars, token>>
    BY DEF ChangeStep, Begin, Reread, Post, Verify
  <1>3. TokenDiscipline' /\ OnlyOldTokensAreEvicted' /\ TokensAreUsedOnce'
    BY <1>2, TokenFrame DEF TokensAreUsedOnce
  <1>4. CASE Begin(r)
    <2>1. TypeOK'
      <3>1. CASE mutating = NoRequest
        BY <1>4, <3>1 DEF Begin, Goto, TypeOK
      <3>2. CASE mutating # NoRequest
        <4>1. Finish(r) /\ UNCHANGED <<mutating, config, console, tokenVars, token>>
          BY <1>2, <1>4, <3>2 DEF Begin
        <4> QED BY <1>1, <4>1 DEF Goto, Finish, TypeOK
      <3> QED BY <3>1, <3>2
    <2>2. ChangeDiscipline'
      BY <1>4 DEF Begin, Goto, Finish, ChangeDiscipline, TypeOK
    <2>3. BaseIsCurrent'
      BY <1>4 DEF Begin, Goto, Finish, BaseIsCurrent, TypeOK
    <2> QED BY <1>3, <2>1, <2>2, <2>3
  <1>5. CASE Reread(r)
    <2>1. TypeOK'
      <3>1. CASE End(r)
        BY <1>1, <1>5, <3>1 DEF Reread, Goto, Finish, End, TypeOK
      <3>2. CASE ~End(r)
        BY <1>5, <3>2 DEF Reread, Goto, TypeOK
      <3> QED BY <3>1, <3>2
    <2>2. ChangeDiscipline'
      BY <1>5 DEF Reread, Goto, Finish, End, ChangeDiscipline, TypeOK
    <2>3. BaseIsCurrent'
      BY <1>5 DEF Reread, Goto, Finish, End, BaseIsCurrent, TypeOK
    <2> QED BY <1>3, <2>1, <2>2, <2>3
  <1>6. CASE Post(r)
    <2>1. Applied(edit[r], base[r]) \in Docs
      BY <1>6, AppliedIsDoc DEF Post, BaseIsCurrent, ChangeDiscipline, TypeOK
    <2>2. TypeOK'
      <3>1. config' \in Docs
        BY <1>6, <2>1 DEF Post, TypeOK
      <3>2. CASE End(r)
        BY <1>1, <1>6, <3>1, <3>2 DEF Post, Goto, Finish, End, TypeOK
      <3>3. CASE Continue(r, "verify")
        BY <1>6, <3>1, <3>3 DEF Post, Goto, Continue, TypeOK
      <3> QED BY <1>6, <3>2, <3>3 DEF Post
    <2>3. ChangeDiscipline'
      BY <1>6 DEF Post, Goto, Finish, End, Continue, ChangeDiscipline, TypeOK
    <2>4. \A q \in Requests : rpc'[q] # "post"
      BY <1>6 DEF Post, Goto, Finish, End, Continue, ChangeDiscipline, TypeOK
    <2>5. BaseIsCurrent'
      BY <2>4 DEF BaseIsCurrent
    <2> QED BY <1>3, <2>2, <2>3, <2>5
  <1>7. CASE Verify(r)
    <2>1. TypeOK'
      BY <1>1, <1>7 DEF Verify, Goto, Finish, End, TypeOK
    <2>2. ChangeDiscipline'
      BY <1>7 DEF Verify, Goto, Finish, End, ChangeDiscipline, TypeOK
    <2>3. BaseIsCurrent'
      BY <1>7 DEF Verify, Goto, Finish, End, BaseIsCurrent, TypeOK
    <2> QED BY <1>3, <2>1, <2>2, <2>3
  <1> QED BY <1>4, <1>5, <1>6, <1>7 DEF ChangeStep

\* The native console keeps the invariant: what it overtakes, it marks.
LEMMA ConsoleInv ==
  ASSUME CoordinatorInv, Console
  PROVE  CoordinatorInv'
  <1> USE CoordinatorAssumption DEF CoordinatorInv, Console, tokenVars
  <1>1. TypeOK'
    BY DEF TypeOK
  <1>2. ChangeDiscipline' /\ TokensAreUsedOnce'
    BY DEF ChangeDiscipline, TokensAreUsedOnce
  <1>3. BaseIsCurrent'
    BY DEF BaseIsCurrent
  <1> QED BY <1>1, <1>2, <1>3, TokenFrame

\* Every step of Next preserves the inductive invariant.
LEMMA StepInv == CoordinatorInv /\ [Next]_vars => CoordinatorInv'
  <1> SUFFICES ASSUME CoordinatorInv, [Next]_vars PROVE CoordinatorInv'
    OBVIOUS
  <1>1. CASE UNCHANGED vars
    <2>1. TokenDiscipline' /\ OnlyOldTokensAreEvicted'
      BY <1>1, TokenFrame DEF CoordinatorInv, vars
    <2> QED BY <1>1, <2>1 DEF CoordinatorInv, vars, tokenVars, requestVars, TypeOK,
                ChangeDiscipline, BaseIsCurrent, TokensAreUsedOnce
  <1>2. CASE Next
    BY <1>2, ShowInv, StampInv, IssueInv, ExpireInv, ConsumeInv, ChangeStepInv, ConsoleInv
       DEF Next
  <1> QED BY <1>1, <1>2
-----------------------------------------------------------------------------
\* The inductive invariant holds in every state the BFF can reach.
THEOREM CoordinatorInvariant == Spec => []CoordinatorInv
  BY InitInv, StepInv, PTL DEF Spec

\* Every document in the gateway and every one computed for it has different
\* names, whatever edits are submitted for whatever index.
THEOREM CoordinatorTypes == Spec => []TypeOK
  BY CoordinatorInvariant, PTL DEF CoordinatorInv

\* A token authorises one change (consumeRevision deletes it under the lock).
THEOREM TokenIsSpentOnce == Spec => []TokensAreUsedOnce
  BY CoordinatorInvariant, PTL DEF CoordinatorInv

\* A full map forgets a token only for as many newer ones (issueRevision).
THEOREM EvictionIsFair == Spec => []OnlyOldTokensAreEvicted
  BY CoordinatorInvariant, PTL DEF CoordinatorInv

\* The flag never outlives the change that set it (deferred endMutation).
THEOREM FlagIsReleased == Spec => []FlagHasAHolder
  <1>1. CoordinatorInv => FlagHasAHolder
    BY CoordinatorAssumption DEF CoordinatorInv, TypeOK, ChangeDiscipline, FlagHasAHolder
  <1> QED BY <1>1, CoordinatorInvariant, PTL

\* A change takes effect on the document its user was shown, unless the native
\* console wrote between its last read and its POST (ApplyLLMChange).
THEOREM ChangesCompareAndSwap == Spec => ChangesAreCompareAndSwap
  <1>1. CoordinatorInv /\ [Next]_vars =>
          [\A r \in Requests :
             rpc[r] = "post" /\ rpc'[r] # "post" /\ config' # config /\ r \notin raced =>
                 /\ config = shown[token[r]]
                 /\ config' = Applied(edit[r], shown[token[r]])]_vars
    <2> SUFFICES ASSUME CoordinatorInv, Next, NEW r \in Requests, rpc[r] = "post",
                        rpc'[r] # "post", config' # config, r \notin raced
                 PROVE  /\ config = shown[token[r]]
                        /\ config' = Applied(edit[r], shown[token[r]])
      BY DEF vars
    <2>1. config = shown[token[r]] /\ base[r] = shown[token[r]]
      BY DEF CoordinatorInv, BaseIsCurrent
    <2>2. PICK q \in Requests : Post(q)
      BY DEF Next, Show, Stamp, Issue, Consume, ChangeStep, Begin, Reread, Verify, Expire,
             Console, requestVars
    <2>3. q = r
      BY <2>2 DEF Post, CoordinatorInv, ChangeDiscipline
    <2> QED BY <2>1, <2>2, <2>3 DEF Post
  <1> QED BY <1>1, CoordinatorInvariant, PTL DEF Spec, ChangesAreCompareAndSwap
-----------------------------------------------------------------------------
(***************************************************************************)
(* The documents (GatewayDocuments).  First: lists.                        *)
(***************************************************************************)

\* A list is the function of its positions.
LEMMA ListIsSeq ==
  ASSUME NEW s, IsList(s)
  PROVE  /\ Len(s) \in Nat /\ DOMAIN s = 1..Len(s)
         /\ s = [i \in 1..Len(s) |-> s[i]]
  BY DEF IsList

\* A function of the positions up to n is a list of n entries.
LEMMA SeqIsList ==
  ASSUME NEW t, NEW n \in Nat, t = [i \in 1..n |-> t[i]]
  PROVE  IsList(t) /\ Len(t) = n /\ DOMAIN t = 1..n
  <1>1. DOMAIN t = 1..n
    OBVIOUS
  <1>2. t \in [1..n -> Entries(t)]
    BY <1>1 DEF Entries
  <1> QED BY <1>1, <1>2 DEF IsList

\* The empty list is one.
LEMMA EmptyList == IsList(<<>>) /\ Len(<<>>) = 0 /\ DOMAIN <<>> = {}
  <1> DEFINE s == <<>>
  <1>1. s \in Seq(Entries(s)) /\ Len(s) = 0
    OBVIOUS
  <1>2. DOMAIN s = {}
    OBVIOUS
  <1> HIDE DEF s
  <1>3. IsList(s)
    BY <1>1 DEF IsList
  <1> QED BY <1>1, <1>2, <1>3 DEF s

\* The entries of a list are what its positions hold.
LEMMA EntriesAre ==
  \A s, x : x \in Entries(s) <=> \E i \in DOMAIN s : x = s[i]
  BY DEF Entries

\* A list with an entry more at its end (Append).
LEMMA AppendList ==
  ASSUME NEW s, IsList(s), NEW e
  PROVE  /\ IsList(Append(s, e))
         /\ DOMAIN Append(s, e) = 1..Len(s) + 1
         /\ Append(s, e)[Len(s) + 1] = e
         /\ \A i \in DOMAIN s : Append(s, e)[i] = s[i]
         /\ Entries(Append(s, e)) = Entries(s) \cup {e}
  <1> DEFINE S == Entries(s) \cup {e}
             t == Append(s, e)
  <1>1. s \in Seq(S) /\ e \in S
    BY DEF IsList
  <1>2. /\ t \in Seq(S) /\ Len(t) = Len(s) + 1 /\ Len(s) \in Nat
        /\ DOMAIN s = 1..Len(s)
        /\ t[Len(s) + 1] = e /\ \A i \in 1..Len(s) : t[i] = s[i]
    BY <1>1
  <1> HIDE DEF S, t
  <1>3. /\ t = [i \in 1..Len(s) + 1 |-> t[i]] /\ Len(s) + 1 \in Nat
        /\ DOMAIN t = 1..Len(s) + 1
    BY <1>2
  <1>4. IsList(t)
    BY <1>3, SeqIsList
  <1>5. Entries(t) = Entries(s) \cup {e}
    <2>1. \A i \in DOMAIN t : t[i] \in Entries(s) \cup {e}
      BY <1>2, <1>3 DEF Entries
    <2>0. DOMAIN t = 1..Len(s) + 1
      BY <1>3
    <2>2. \A i \in DOMAIN s : i \in DOMAIN t /\ t[i] = s[i]
      BY <1>2, <2>0
    <2>3. Len(s) + 1 \in DOMAIN t
      BY <1>2, <1>3
    <2>4. Entries(s) \cup {e} \subseteq Entries(t)
      BY <1>2, <2>2, <2>3, EntriesAre
    <2>5. Entries(t) \subseteq Entries(s) \cup {e}
      BY <2>1, EntriesAre
    <2> QED BY <2>4, <2>5
  <1> QED BY <1>2, <1>3, <1>4, <1>5 DEF t

\* A list with one entry replaced.
LEMMA ReplaceList ==
  ASSUME NEW s, IsList(s), NEW k \in DOMAIN s, NEW e
  PROVE  /\ IsList([s EXCEPT ![k] = e])
         /\ DOMAIN [s EXCEPT ![k] = e] = DOMAIN s
         /\ [s EXCEPT ![k] = e][k] = e
         /\ \A i \in DOMAIN s \ {k} : [s EXCEPT ![k] = e][i] = s[i]
         /\ Entries([s EXCEPT ![k] = e]) = {s[i] : i \in DOMAIN s \ {k}} \cup {e}
  <1> DEFINE t == [s EXCEPT ![k] = e]
  <1>1. Len(s) \in Nat /\ DOMAIN s = 1..Len(s)
    BY ListIsSeq
  <1>2. /\ DOMAIN t = DOMAIN s /\ t[k] = e
        /\ \A i \in DOMAIN s \ {k} : t[i] = s[i]
    OBVIOUS
  <1>3. t = [i \in 1..Len(s) |-> t[i]]
    BY <1>1
  <1> HIDE DEF t
  <1>4. IsList(t)
    BY <1>1, <1>3, SeqIsList
  <1>5. Entries(t) = {s[i] : i \in DOMAIN s \ {k}} \cup {e}
    BY <1>2 DEF Entries
  <1> QED BY <1>2, <1>4, <1>5 DEF t

\* The list t is s without the entries that are not at the positions of I.
Picks(t, s, I) ==
    \E f \in [DOMAIN t -> I] :
      /\ \A m, n \in DOMAIN t : f[m] = f[n] => m = n
      /\ \A i \in I : \E n \in DOMAIN t : f[n] = i
      /\ \A n \in DOMAIN t : t[n] = s[f[n]]

\* A list that picks some positions of another has only entries of it, and
\* as many different ones.
LEMMA PicksEntries ==
  ASSUME NEW t, NEW s, NEW I, I \subseteq DOMAIN s, Picks(t, s, I)
  PROVE  /\ Entries(t) = {s[i] : i \in I}
         /\ Unique(s) => Unique(t)
         /\ (\A b, c \in DOMAIN s : s[b].port = s[c].port => b = c) =>
              (\A b, c \in DOMAIN t : t[b].port = t[c].port => b = c)
  <1>1. PICK f \in [DOMAIN t -> I] :
          /\ \A m, n \in DOMAIN t : f[m] = f[n] => m = n
          /\ \A i \in I : \E n \in DOMAIN t : f[n] = i
          /\ \A n \in DOMAIN t : t[n] = s[f[n]]
    BY DEF Picks
  <1>2. Entries(t) = {s[i] : i \in I}
    BY <1>1 DEF Entries
  <1>3. \A n \in DOMAIN t : f[n] \in DOMAIN s
    BY <1>1
  <1> QED BY <1>1, <1>2, <1>3 DEF Unique

\* A list without its entry at k (RemoveAt) picks the other positions.
LEMMA RemoveList ==
  ASSUME NEW s, IsList(s), NEW k \in DOMAIN s
  PROVE  /\ IsList(RemoveAt(s, k))
         /\ Len(RemoveAt(s, k)) = Len(s) - 1 /\ DOMAIN RemoveAt(s, k) = 1..Len(s) - 1
         /\ \A i \in 1..Len(s) - 1 :
               RemoveAt(s, k)[i] = IF i < k THEN s[i] ELSE s[i + 1]
         /\ Picks(RemoveAt(s, k), s, DOMAIN s \ {k})
  <1> DEFINE n == Len(s)
             t == RemoveAt(s, k)
             S == Entries(s)
  <1>1. /\ s \in Seq(S) /\ n \in Nat /\ DOMAIN s = 1..n /\ k \in 1..n
    BY ListIsSeq DEF IsList
  <1>4. t \in Seq(S) /\ Len(t) = n - 1
    BY <1>1, RemoveAtProperties
  <1>5. \A i \in 1..n - 1 : t[i] = IF i < k THEN s[i] ELSE s[i + 1]
    BY <1>1, RemoveAtProperties
  <1> HIDE DEF t, n
  <1>7. /\ n - 1 \in Nat /\ DOMAIN t = 1..n - 1 /\ t = [i \in 1..n - 1 |-> t[i]]
    BY <1>1, <1>4
  <1>8. IsList(t)
    BY <1>7, SeqIsList
  <1>9. Picks(t, s, DOMAIN s \ {k})
    <2> DEFINE f == [i \in DOMAIN t |-> IF i < k THEN i ELSE i + 1]
    <2>1. f \in [DOMAIN t -> DOMAIN s \ {k}]
      BY <1>1, <1>7
    <2>2. \A i, j \in DOMAIN t : f[i] = f[j] => i = j
      BY <1>1, <1>7
    <2>3. \A i \in DOMAIN s \ {k} : \E j \in DOMAIN t : f[j] = i
      <3> TAKE i \in DOMAIN s \ {k}
      <3>1. CASE i < k
        BY <3>1, <1>1, <1>7
      <3>2. CASE i > k
        <4>1. i - 1 \in DOMAIN t /\ f[i - 1] = i
          BY <3>2, <1>1, <1>7
        <4> QED BY <4>1
      <3> QED BY <3>1, <3>2, <1>1
    <2>4. \A j \in DOMAIN t : t[j] = s[f[j]]
      BY <1>5, <1>7
    <2> HIDE DEF f
    <2> QED BY <2>1, <2>2, <2>3, <2>4 DEF Picks
  <1> QED BY <1>4, <1>5, <1>7, <1>8, <1>9 DEF n, t

\* The entries that are left keep their order: the rank of a position among
\* the positions that are left is its new position.
LEMMA AllButList ==
  ASSUME NEW s, IsList(s), NEW gone
  PROVE  /\ IsList(AllBut(s, gone))
         /\ Picks(AllBut(s, gone), s, DOMAIN s \ gone)
  <1> DEFINE left == DOMAIN s \ gone
             c == Cardinality(left)
             upto(i) == left \cap 1..i
             rank == [i \in left |-> Cardinality(upto(i))]
             pos(n) == CHOOSE i \in left : Cardinality(upto(i)) = n
             t == AllBut(s, gone)
  <1>1. /\ Len(s) \in Nat /\ DOMAIN s = 1..Len(s) /\ left \subseteq 1..Len(s)
        /\ left \subseteq Int
    BY ListIsSeq
  <1>2. IsFiniteSet(left) /\ c \in Nat
    <2>1. 1 \in Int /\ Len(s) \in Int
      BY <1>1
    <2>2. IsFiniteSet(1..Len(s))
      BY <2>1, FS_Interval
    <2> HIDE DEF left
    <2> QED BY <1>1, <2>2, FS_Subset, FS_CardinalityType
  <1> HIDE DEF left
  <1>3. \A i \in left : /\ upto(i) \subseteq left /\ i \in upto(i)
                        /\ IsFiniteSet(upto(i))
                        /\ Cardinality(upto(i)) \in Nat
                        /\ Cardinality(upto(i)) <= c
                        /\ Cardinality(upto(i)) # 0
    <2> TAKE i \in left
    <2>1. upto(i) \subseteq left /\ i \in upto(i)
      BY <1>1
    <2> HIDE DEF upto
    <2>2. IsFiniteSet(upto(i)) /\ Cardinality(upto(i)) <= c
      BY <1>2, <2>1, FS_Subset
    <2> QED BY <2>1, <2>2, FS_CardinalityType, FS_EmptySet
  <1>4. \A i, j \in left : i < j => Cardinality(upto(i)) < Cardinality(upto(j))
    <2> TAKE i, j \in left
    <2> HAVE i < j
    <2>1. upto(i) \subseteq upto(j) /\ j \notin upto(i) /\ j \in upto(j)
      BY <1>1
    <2>2. IsFiniteSet(upto(i)) /\ IsFiniteSet(upto(j))
      BY <1>3
    <2>3. Cardinality(upto(i)) \in Nat /\ Cardinality(upto(j)) \in Nat
      BY <1>3
    <2> HIDE DEF upto
    <2>4. /\ Cardinality(upto(i)) <= Cardinality(upto(j))
          /\ Cardinality(upto(j)) = Cardinality(upto(i)) => upto(j) = upto(i)
      BY <2>1, <2>2, FS_Subset
    <2> QED BY <2>1, <2>3, <2>4
  <1> HIDE DEF upto
  <1>5. rank \in Injection(left, 1..c)
    <2>1. rank \in [left -> 1..c]
      BY <1>2, <1>3
    <2>2. \A i, j \in left : rank[i] = rank[j] => i = j
      BY <1>1, <1>3, <1>4
    <2> HIDE DEF rank
    <2> QED BY <2>1, <2>2 DEF Injection, IsInjective
  <1>6. rank \in Surjection(left, 1..c)
    <2>1. IsFiniteSet(1..c) /\ Cardinality(1..c) = c
      <3>1. 1 \in Int /\ c \in Int
        BY <1>2
      <3>2. IsFiniteSet(1..c) /\ Cardinality(1..c) = IF 1 > c THEN 0 ELSE c - 1 + 1
        BY <3>1, FS_Interval
      <3> HIDE DEF c
      <3> QED BY <1>2, <3>2
    <2>2. Cardinality(left) = Cardinality(1..c)
      BY <2>1
    <2> HIDE DEF rank, c
    <2> QED BY <1>5, <2>1, <2>2, FS_Injection
  <1>7. \A n \in 1..c : \E i \in left : Cardinality(upto(i)) = n
    <2>1. \A n \in 1..c : \E i \in left : rank[i] = n
      <3> HIDE DEF rank, c
      <3> QED BY <1>6 DEF Surjection
    <2> QED BY <2>1
  <1>8. \A n \in 1..c : pos(n) \in left /\ Cardinality(upto(pos(n))) = n
    BY <1>7
  <1>9. /\ t = [n \in 1..c |-> s[pos(n)]]
    BY DEF AllBut, left, upto
  <1> HIDE DEF pos, t, c
  <1>10. IsList(t) /\ DOMAIN t = 1..c
    <2>1. t = [n \in 1..c |-> t[n]]
      BY <1>9
    <2> QED BY <1>2, <2>1, SeqIsList
  <1>11. Picks(t, s, left)
    <2> DEFINE f == [n \in DOMAIN t |-> pos(n)]
    <2>1. f \in [DOMAIN t -> left]
      BY <1>8, <1>10
    <2>2. \A m, n \in DOMAIN t : f[m] = f[n] => m = n
      BY <1>8, <1>10
    <2>3. \A i \in left : \E n \in DOMAIN t : f[n] = i
      <3> TAKE i \in left
      <3>1. Cardinality(upto(i)) \in 1..c
        BY <1>2, <1>3
      <3>2. pos(Cardinality(upto(i))) = i
        <4>1. PICK j \in left : j = pos(Cardinality(upto(i)))
          BY <1>8, <3>1
        <4>2. Cardinality(upto(j)) = Cardinality(upto(i))
          BY <1>8, <3>1, <4>1
        <4>3. ~(i < j) /\ ~(j < i)
          BY <1>3, <1>4, <4>2
        <4> QED BY <1>1, <4>1, <4>3
      <3> QED BY <1>10, <3>1, <3>2
    <2>4. \A n \in DOMAIN t : t[n] = s[f[n]]
      BY <1>9, <1>10
    <2> HIDE DEF f
    <2> QED BY <2>1, <2>2, <2>3, <2>4 DEF Picks
  <1> QED BY <1>10, <1>11 DEF t, left

-----------------------------------------------------------------------------
(* The parts of a document *)

ProviderFields == {"name", "kind", "key", "auth", "extra"}
ModelFields == {"name", "kind", "key", "auth", "ref", "explicit", "expr",
                "policies"}
ServerFields == {"name", "extra", "transport", "body"}

LLMShaped(d) ==
    /\ IsList(d.providers) /\ IsList(d.models)
    /\ \A i \in DOMAIN d.providers : DOMAIN d.providers[i] = ProviderFields
    /\ \A i \in DOMAIN d.models : DOMAIN d.models[i] = ModelFields
MCPShaped(d) ==
    /\ IsList(d.targets)
    /\ \A i \in DOMAIN d.targets : DOMAIN d.targets[i] = ServerFields
PoliciesShaped(d) ==
    DOMAIN d.llmPolicies = PolicyKeys /\ DOMAIN d.mcpPolicies = PolicyKeys
BindShaped(b) ==
    /\ DOMAIN b = {"port", "listeners"} /\ IsList(b.listeners)
    /\ \A l \in Entries(b.listeners) :
         /\ DOMAIN l = {"kind", "ns", "extra", "http", "tcp"}
         /\ l.kind \in {"http", "tcp"} /\ IsList(l.http) /\ IsList(l.tcp)
TrafficShaped(d) ==
    IsList(d.binds) /\ \A i \in DOMAIN d.binds : BindShaped(d.binds[i])
Fields == {"providers", "models", "virtual", "llmPolicies", "mcpPolicies",
           "settings", "targets", "binds"}

HasName(entries, name) == \E i \in DOMAIN entries : entries[i].name = name
OneTLS(m) == ~({"tls", "backendTLS"} \subseteq m.policies)
ModelFits(providers, m) ==
    (m.ref # "" => HasName(providers, m.ref)) /\ OneTLS(m)
LLMSound(d) ==
    /\ Unique(d.providers) /\ Unique(d.models)
    /\ \A m \in Entries(d.models) : ModelFits(d.providers, m)
    /\ \A v \in d.virtual : HasName(d.models, v)
RoutesMatch(l) == /\ l.http # <<>> => l.kind = "http"
                  /\ l.tcp # <<>> => l.kind = "tcp"
PortsDiffer(binds) == \A b, c \in DOMAIN binds : binds[b].port = binds[c].port => b = c
TrafficSound(d) ==
    /\ PortsDiffer(d.binds)
    /\ \A b \in Entries(d.binds) : \A l \in Entries(b.listeners) : RoutesMatch(l)

\* The listeners of a document are those of its binds.
LEMMA ListenersAre ==
  \A d, l : l \in Listeners(d) <=>
              \E b \in Entries(d.binds) : l \in Entries(b.listeners)
  BY DEF Listeners

\* A document is Shaped exactly if each of its parts is.
LEMMA ShapedInParts ==
  ASSUME NEW d
  PROVE  Shaped(d) <=> /\ DOMAIN d = Fields
                       /\ LLMShaped(d) /\ MCPShaped(d) /\ PoliciesShaped(d)
                       /\ TrafficShaped(d)
  <1>1. Shaped(d) => /\ DOMAIN d = Fields
                     /\ LLMShaped(d) /\ MCPShaped(d) /\ PoliciesShaped(d)
                     /\ TrafficShaped(d)
    <2> SUFFICES ASSUME Shaped(d)
                 PROVE  /\ DOMAIN d = Fields /\ LLMShaped(d) /\ MCPShaped(d)
                        /\ PoliciesShaped(d) /\ TrafficShaped(d)
      OBVIOUS
    <2>1. DOMAIN d = Fields
      BY DEF Shaped, Fields
    <2>2. LLMShaped(d)
      BY EntriesAre DEF Shaped, LLMShaped, ProviderFields, ModelFields
    <2>3. MCPShaped(d)
      BY EntriesAre DEF Shaped, MCPShaped, ServerFields
    <2>4. TrafficShaped(d)
      <3>1. ASSUME NEW i \in DOMAIN d.binds PROVE BindShaped(d.binds[i])
        <4> DEFINE b == d.binds[i]
        <4>1. b \in Entries(d.binds)
          BY EntriesAre
        <4> HIDE DEF b
        <4>2. \A l \in Entries(b.listeners) : l \in Listeners(d)
          BY <4>1, ListenersAre
        <4>3. DOMAIN b = {"port", "listeners"} /\ IsList(b.listeners)
          BY <4>1 DEF Shaped
        <4>4. \A l \in Entries(b.listeners) :
                /\ DOMAIN l = {"kind", "ns", "extra", "http", "tcp"}
                /\ l.kind \in {"http", "tcp"} /\ IsList(l.http) /\ IsList(l.tcp)
          BY <4>2 DEF Shaped
        <4> QED BY <4>3, <4>4 DEF BindShaped, b
      <3>2. IsList(d.binds)
        BY DEF Shaped
      <3> QED BY <3>1, <3>2 DEF TrafficShaped
    <2>5. PoliciesShaped(d)
      BY DEF Shaped, PoliciesShaped
    <2> QED BY <2>1, <2>2, <2>3, <2>4, <2>5
  <1>2. ASSUME DOMAIN d = Fields, LLMShaped(d), MCPShaped(d),
               PoliciesShaped(d), TrafficShaped(d)
        PROVE  Shaped(d)
    <2>1. /\ IsList(d.providers) /\ IsList(d.models)
          /\ \A p \in Entries(d.providers) : DOMAIN p = {"name", "kind", "key", "auth", "extra"}
          /\ \A m \in Entries(d.models) :
               DOMAIN m = {"name", "kind", "key", "auth", "ref", "explicit", "expr", "policies"}
      <3>1. /\ IsList(d.providers) /\ IsList(d.models)
            /\ \A p \in Entries(d.providers) : DOMAIN p = ProviderFields
            /\ \A m \in Entries(d.models) : DOMAIN m = ModelFields
        BY <1>2, EntriesAre DEF LLMShaped
      <3> QED BY <3>1 DEF ProviderFields, ModelFields
    <2>2. /\ IsList(d.targets)
          /\ \A s \in Entries(d.targets) : DOMAIN s = {"name", "extra", "transport", "body"}
      BY <1>2, EntriesAre DEF MCPShaped, ServerFields
    <2>3. /\ IsList(d.binds)
          /\ \A b \in Entries(d.binds) : BindShaped(b)
      BY <1>2, EntriesAre DEF TrafficShaped
    <2>4. /\ \A b \in Entries(d.binds) :
               DOMAIN b = {"port", "listeners"} /\ IsList(b.listeners)
          /\ \A l \in Listeners(d) :
               /\ DOMAIN l = {"kind", "ns", "extra", "http", "tcp"}
               /\ l.kind \in {"http", "tcp"} /\ IsList(l.http) /\ IsList(l.tcp)
      <3>1. \A b \in Entries(d.binds) :
               DOMAIN b = {"port", "listeners"} /\ IsList(b.listeners)
        BY <2>3 DEF BindShaped
      <3>2. ASSUME NEW l \in Listeners(d)
            PROVE  /\ DOMAIN l = {"kind", "ns", "extra", "http", "tcp"}
                   /\ l.kind \in {"http", "tcp"} /\ IsList(l.http) /\ IsList(l.tcp)
        <4>1. PICK b \in Entries(d.binds) : l \in Entries(b.listeners)
          BY <3>2, ListenersAre
        <4> QED BY <2>3, <4>1 DEF BindShaped
      <3> QED BY <3>1, <3>2
    <2> QED BY <1>2, <2>1, <2>2, <2>3, <2>4 DEF Shaped, Fields, PoliciesShaped
  <1> QED BY <1>1, <1>2

\* A document is Sound exactly if the LLM part, the servers and the traffic
\* are.
LEMMA SoundInParts ==
  ASSUME NEW d
  PROVE  Sound(d) <=> LLMSound(d) /\ Unique(d.targets) /\ TrafficSound(d)
  <1>1. d.virtual \subseteq {m.name : m \in Entries(d.models)} <=>
          \A v \in d.virtual : HasName(d.models, v)
    BY EntriesAre DEF HasName
  <1>2. \A n : n \in {p.name : p \in Entries(d.providers)} <=>
                 HasName(d.providers, n)
    BY EntriesAre DEF HasName
  <1>3. (/\ \A l \in Listeners(d) : l.http # <<>> => l.kind = "http"
         /\ \A l \in Listeners(d) : l.tcp # <<>> => l.kind = "tcp") <=>
        \A b \in Entries(d.binds) : \A l \in Entries(b.listeners) : RoutesMatch(l)
    BY ListenersAre DEF RoutesMatch
  <1> QED BY <1>1, <1>2, <1>3 DEF Sound, LLMSound, ModelFits, OneTLS, TrafficSound,
                                PortsDiffer

-----------------------------------------------------------------------------
(* Routes *)

\* A function of a finite set has finitely many values.
LEMMA FiniteImage ==
  ASSUME NEW f, IsFiniteSet(DOMAIN f)
  PROVE  IsFiniteSet({f[x] : x \in DOMAIN f})
  <1> DEFINE T == {f[x] : x \in DOMAIN f}
             g == [x \in DOMAIN f |-> f[x]]
  <1>1. g \in [DOMAIN f -> T] /\ \A y \in T : \E x \in DOMAIN f : g[x] = y
    OBVIOUS
  <1> HIDE DEF g, T
  <1>2. g \in Surjection(DOMAIN f, T)
    BY <1>1 DEF Surjection
  <1>3. IsFiniteSet(T)
    BY <1>2, FS_Surjection
  <1> QED BY <1>3 DEF T

\* The positions of a list are finite in number.
LEMMA ListIsFinite ==
  ASSUME NEW s, IsList(s)
  PROVE  IsFiniteSet(DOMAIN s)
  <1>1. 1 \in Int /\ Len(s) \in Int /\ DOMAIN s = 1..Len(s)
    BY ListIsSeq
  <1> QED BY <1>1, FS_Interval

\* Which routes the listeners of one bind have (RoutesOf).
LEMMA RoutesOfAre ==
  ASSUME NEW b, NEW L, NEW x
  PROVE  x \in RoutesOf(b, L) <=>
           \E l \in DOMAIN L : \/ \E r \in DOMAIN L[l].http : x = <<b, l, "http", r>>
                               \/ \E r \in DOMAIN L[l].tcp : x = <<b, l, "tcp", r>>
  <1> DEFINE at(l, kind) == {<<b, l, kind, r>> : r \in DOMAIN L[l][kind]}
  <1>1. x \in RoutesOf(b, L) <=>
          \E l \in DOMAIN L : \E kind \in {"http", "tcp"} : x \in at(l, kind)
    <2>1. RoutesOf(b, L) = UNION {at(l, kind) : l \in DOMAIN L, kind \in {"http", "tcp"}}
      BY DEF RoutesOf
    <2> HIDE DEF at
    <2> QED BY <2>1
  <1>2. \A l : (\E kind \in {"http", "tcp"} : x \in at(l, kind)) <=>
                 x \in at(l, "http") \/ x \in at(l, "tcp")
    <2> HIDE DEF at
    <2> QED OBVIOUS
  <1>3. \A l, kind : x \in at(l, kind) <=>
                       \E r \in DOMAIN L[l][kind] : x = <<b, l, kind, r>>
    BY Zenon
  <1> HIDE DEF at
  <1> QED BY <1>1, <1>2, <1>3

\* Which routes a document has (Routes).
LEMMA RoutesAre ==
  ASSUME NEW d, NEW x
  PROVE  x \in Routes(d) <=>
           \E b \in DOMAIN d.binds : \E l \in DOMAIN d.binds[b].listeners :
             \/ \E r \in DOMAIN d.binds[b].listeners[l].http : x = <<b, l, "http", r>>
             \/ \E r \in DOMAIN d.binds[b].listeners[l].tcp : x = <<b, l, "tcp", r>>
  <1>1. x \in Routes(d) <=>
          \E b \in DOMAIN d.binds : x \in RoutesOf(b, d.binds[b].listeners)
    BY Zenon DEF Routes
  <1> QED BY <1>1, RoutesOfAre

\* They are finite in number, so that they can be counted.
LEMMA RoutesAreFinite ==
  ASSUME NEW d, TrafficShaped(d)
  PROVE  IsFiniteSet(Routes(d)) /\ RouteCount(d) \in Nat
  <1>1. ASSUME NEW b, BindShaped(b), NEW i PROVE IsFiniteSet(RoutesOf(i, b.listeners))
    <2> DEFINE L == b.listeners
               http(l) == {<<i, l, "http", r>> : r \in DOMAIN L[l].http}
               tcp(l) == {<<i, l, "tcp", r>> : r \in DOMAIN L[l].tcp}
               f == [l \in DOMAIN L |-> http(l) \cup tcp(l)]
    <2>1. IsFiniteSet(DOMAIN L)
      BY <1>1, ListIsFinite DEF BindShaped
    <2>2. \A l \in DOMAIN L : IsList(L[l].http) /\ IsList(L[l].tcp)
      BY <1>1, EntriesAre DEF BindShaped
    <2>3. ASSUME NEW l \in DOMAIN L PROVE IsFiniteSet(http(l) \cup tcp(l))
      <3> DEFINE g == [r \in DOMAIN L[l].http |-> <<i, l, "http", r>>]
                 h == [r \in DOMAIN L[l].tcp |-> <<i, l, "tcp", r>>]
      <3>1. /\ DOMAIN g = DOMAIN L[l].http /\ DOMAIN h = DOMAIN L[l].tcp
            /\ http(l) = {g[r] : r \in DOMAIN g} /\ tcp(l) = {h[r] : r \in DOMAIN h}
        OBVIOUS
      <3>2. IsFiniteSet(DOMAIN L[l].http) /\ IsFiniteSet(DOMAIN L[l].tcp)
        BY <2>2, ListIsFinite
      <3> HIDE DEF g, h, http, tcp, L
      <3>3. IsFiniteSet(DOMAIN g) /\ IsFiniteSet(DOMAIN h)
        BY <3>1, <3>2
      <3>4. IsFiniteSet(http(l)) /\ IsFiniteSet(tcp(l))
        BY <3>1, <3>3, FiniteImage
      <3> QED BY <3>4, FS_Union
    <2>4. RoutesOf(i, L) = UNION {f[l] : l \in DOMAIN f}
      <3>1. \A x : x \in RoutesOf(i, L) <=>
                     \E l \in DOMAIN L : x \in http(l) \/ x \in tcp(l)
        <4> TAKE x
        <4>1. \A l : /\ x \in http(l) <=> \E r \in DOMAIN L[l].http : x = <<i, l, "http", r>>
                     /\ x \in tcp(l) <=> \E r \in DOMAIN L[l].tcp : x = <<i, l, "tcp", r>>
          BY Zenon
        <4> HIDE DEF http, tcp, L
        <4> QED BY <4>1, RoutesOfAre
      <3>2. \A x : x \in UNION {f[l] : l \in DOMAIN f} <=>
                     \E l \in DOMAIN L : x \in http(l) \/ x \in tcp(l)
        <4> HIDE DEF http, tcp, L
        <4> QED OBVIOUS
      <3> HIDE DEF f, http, tcp, L
      <3> QED BY <3>1, <3>2
    <2>5. IsFiniteSet({f[l] : l \in DOMAIN f})
      <3>1. IsFiniteSet(DOMAIN f)
        BY <2>1
      <3> HIDE DEF f
      <3> QED BY <3>1, FiniteImage
    <2>6. \A l \in DOMAIN f : IsFiniteSet(f[l])
      BY <2>3
    <2> HIDE DEF f, L
    <2> QED BY <2>4, <2>5, <2>6, FS_UNION DEF L
  <1> DEFINE f == [b \in DOMAIN d.binds |-> RoutesOf(b, d.binds[b].listeners)]
  <1>2. IsFiniteSet(DOMAIN f)
    <2>1. DOMAIN f = DOMAIN d.binds
      OBVIOUS
    <2> HIDE DEF f
    <2> QED BY <2>1, ListIsFinite DEF TrafficShaped
  <1>3. Routes(d) = UNION {f[b] : b \in DOMAIN f}
    BY DEF Routes
  <1>4. \A b \in DOMAIN f : IsFiniteSet(f[b])
    BY <1>1 DEF TrafficShaped
  <1> HIDE DEF f
  <1>5. IsFiniteSet({f[b] : b \in DOMAIN f})
    BY <1>2, FiniteImage
  <1>6. IsFiniteSet(Routes(d))
    BY <1>3, <1>4, <1>5, FS_UNION
  <1> QED BY <1>6, FS_CardinalityType DEF RouteCount
-----------------------------------------------------------------------------
(* Names and positions *)

\* An entry with a new name keeps the names unique.
LEMMA UniqueAppend ==
  ASSUME NEW s, IsList(s), NEW e, Unique(s), ~NameExists(s, e.name, 0)
  PROVE  Unique(Append(s, e))
  <1> DEFINE t == Append(s, e)
  <1>1. /\ DOMAIN s = 1..Len(s) /\ Len(s) \in Nat
        /\ DOMAIN t = 1..Len(s) + 1 /\ t[Len(s) + 1] = e
        /\ \A i \in DOMAIN s : t[i] = s[i]
    BY ListIsSeq, AppendList
  <1>2. \A i \in DOMAIN s : s[i].name # e.name
    BY <1>1 DEF NameExists
  <1>3. \A i \in DOMAIN t : i \in DOMAIN s \/ i = Len(s) + 1
    BY <1>1
  <1> HIDE DEF t
  <1> QED BY <1>1, <1>2, <1>3 DEF Unique, t

\* Names stay different when an entry gets a name no other has (NameExists).
LEMMA UniqueReplace ==
  ASSUME NEW s, IsList(s), NEW k \in DOMAIN s, NEW e, Unique(s),
         ~NameExists(s, e.name, k)
  PROVE  Unique([s EXCEPT ![k] = e])
  BY DEF Unique, NameExists

\* Of entries with different names the one looked for is the one found.
LEMMA FoundOne ==
  ASSUME NEW s, IsList(s), Unique(s), NEW k \in DOMAIN s, NEW name,
         s[k].name = name
  PROVE  Found(s, name) = {k}
  <1>1. \A i \in Named(s, name) : i = k
    BY DEF Named, Unique
  <1>2. k \in Named(s, name) /\ k <= k
    BY ListIsSeq DEF Named
  <1> QED BY <1>1, <1>2 DEF Found

\* Names stay different when entries go, and the names of those left are
\* the names they had.
LEMMA NamesAfterRemoval ==
  ASSUME NEW t, NEW s, NEW I, I \subseteq DOMAIN s, Picks(t, s, I)
  PROVE  \A name : (\E n \in DOMAIN t : t[n].name = name) <=>
                     \E i \in I : s[i].name = name
  BY DEF Picks

-----------------------------------------------------------------------------
(* What a change writes *)

\* A credential that was merged into an entry is the one the entry shows,
\* unless the draft is a literal that is read as a variable.
LEMMA CredentialConfirmed ==
  ASSUME NEW e, NEW key, NEW auth, NEW cred \in Credentials, NEW kind,
         NEW updating \in BOOLEAN, CredentialAllowed(kind, cred, updating),
         e.key = MergedKey(key, cred), e.auth = MergedAuth(auth, cred)
  PROVE  CredentialMatches(e, cred) <=> cred # "$literal"
  <1>1. CASE cred = "preserve"
    BY <1>1 DEF CredentialMatches
  <1>2. CASE cred = "ambient"
    BY <1>2 DEF CredentialMatches, ShownCredential, CredentialMode, MergedKey,
                MergedAuth, AuthModes
  <1>3. CASE cred \in AuthModes
    BY <1>3 DEF CredentialMatches, ShownCredential, CredentialMode, MergedKey,
                MergedAuth, AuthModes
  <1>4. CASE cred = "$literal"
    BY <1>4 DEF CredentialMatches, ShownCredential, CredentialMode, MergedKey,
                MergedAuth, AuthModes
  <1>5. CASE cred \in {"environment", "literal", "file"}
    BY <1>5 DEF CredentialMatches, ShownCredential, CredentialMode, MergedKey,
                MergedAuth, AuthModes
  <1> QED BY <1>1, <1>2, <1>3, <1>4, <1>5 DEF Credentials

ProviderBuilt(p, draft, B) ==
    /\ DOMAIN B = ProviderFields /\ B.name = draft.name
    /\ B.kind = draft.kind /\ B.extra = p.extra
    /\ B.key = MergedKey(p.key, draft.cred)
    /\ B.auth = MergedAuth(p.auth, draft.cred)
\* What BuildProvider leaves of a provider and takes from the draft.
LEMMA BuiltProvider ==
  ASSUME NEW p, DOMAIN p = ProviderFields, NEW draft
  PROVE  ProviderBuilt(p, draft, BuildProvider(p, draft))
  BY DEF BuildProvider, ProviderFields, ProviderBuilt

ModelBuilt(m, draft, B) ==
    /\ DOMAIN B = ModelFields /\ B.name = draft.name /\ B.ref = draft.ref
    /\ B.kind = draft.kind /\ B.policies = m.policies
    /\ B.explicit = (draft.upstream = "explicit")
    /\ B.expr = CASE draft.upstream = "strip" ->
                           StripExpression(draft.name)
                    [] draft.upstream = "custom" -> draft.expr
                    [] OTHER -> <<>>
    /\ B.key = MergedKey(m.key, draft.cred)
    /\ B.auth = MergedAuth(m.auth, draft.cred)
\* What BuildModel leaves of a model and takes from the draft.
LEMMA BuiltModel ==
  ASSUME NEW m, DOMAIN m = ModelFields, NEW draft
  PROVE  ModelBuilt(m, draft, BuildModel(m, draft))
  BY DEF BuildModel, ModelFields, ModelBuilt

ServerEncoded(s, draft, B) ==
    /\ DOMAIN B = ServerFields /\ B.name = draft.name
    /\ B.transport = draft.transport /\ B.body = draft.body
    /\ B.extra = s.extra
\* What EncodeServer leaves of a server and takes from the draft.
LEMMA EncodedServer ==
  ASSUME NEW s, DOMAIN s = ServerFields, NEW draft
  PROVE  ServerEncoded(s, draft, EncodeServer(s, draft))
  BY DEF EncodeServer, ServerFields, ServerEncoded

\* The upstream model shown is the one asked for, unless it is an expression
\* of the user's that strips the prefix.
LEMMA UpstreamConfirmed ==
  ASSUME NEW m, NEW draft \in ModelDrafts, NEW updating,
         ModelDraftAllowed(draft, updating),
         m.name = draft.name,
         m.explicit = (draft.upstream = "explicit"),
         m.expr = CASE draft.upstream = "strip" -> StripExpression(draft.name)
                    [] draft.upstream = "custom" -> draft.expr
                    [] OTHER -> <<>>
  PROVE  ModelUpstream(m) = <<draft.upstream, draft.expr>> <=>
           ~(draft.upstream = "custom" /\ draft.expr = StripExpression(draft.name))
  <1> DEFINE u == draft.upstream
             x == draft.expr
             strip == StripExpression(draft.name)
             none == <<>>
  <1>1. u \in {"incoming", "explicit", "strip", "custom"} /\ (u = "custom" <=> x # none)
    BY DocumentsAssumption
  <1>2. u = "strip" => strip # none
    BY DEF ModelDraftAllowed
  <1>3. m.expr = CASE u = "strip" -> strip [] u = "custom" -> x [] OTHER -> none
    OBVIOUS
  <1>4. ModelUpstream(m) = CASE m.explicit -> <<"explicit", none>>
      [] ~m.explicit /\ m.expr = none -> <<"incoming", none>>
      [] ~m.explicit /\ m.expr # none /\ m.expr = strip -> <<"strip", none>>
      [] OTHER -> <<"custom", m.expr>>
    BY DEF ModelUpstream
  <1>5. m.explicit = (u = "explicit")
    OBVIOUS
  <1> HIDE DEF u, x, strip, none
  <1>6. CASE u = "explicit"
    <2>1. ModelUpstream(m) = <<u, x>>
      BY <1>1, <1>4, <1>5, <1>6
    <2> QED BY <2>1, <1>6 DEF u, x
  <1>7. CASE u = "incoming"
    <2>1. ModelUpstream(m) = <<u, x>>
      BY <1>1, <1>3, <1>4, <1>5, <1>7
    <2> QED BY <2>1, <1>7 DEF u, x
  <1>8. CASE u = "strip"
    <2>1. ModelUpstream(m) = <<u, x>>
      BY <1>1, <1>2, <1>3, <1>4, <1>5, <1>8
    <2> QED BY <2>1, <1>8 DEF u, x
  <1>9. CASE u = "custom"
    <2>1. m.explicit = FALSE /\ m.expr = x /\ x # none
      BY <1>1, <1>3, <1>5, <1>9
    <2>2. CASE x = strip
      <3>1. ModelUpstream(m) = <<"strip", none>>
        BY <1>4, <2>1, <2>2
      <3> QED BY <2>2, <3>1, <1>9 DEF u, x, strip
    <2>3. CASE x # strip
      <3>1. ModelUpstream(m) = <<u, x>>
        BY <1>4, <1>9, <2>1, <2>3
      <3> QED BY <2>3, <3>1, <1>9 DEF u, x, strip
    <2> QED BY <2>2, <2>3
  <1> QED BY <1>1, <1>6, <1>7, <1>8, <1>9
-----------------------------------------------------------------------------
(* What a change keeps, part by part: c is the change that leads from the   *)
(* document d to e.                                                        *)

Safe(d) == Shaped(d) /\ Sound(d)
KeepsProviders(c, d, e) ==
    \A p \in Entries(d.providers) \ Entries(e.providers) :
        /\ c.target = p.name
        /\ \/ c.op = "delete-provider"
           \/ /\ c.op = "update-provider"
              /\ \E q \in Entries(e.providers) :
                    q.name = c.draft.name /\ q.extra = p.extra
KeepsModels(c, d, e) ==
    \A m \in Entries(d.models) \ Entries(e.models) :
        \/ c.op = "delete-model" /\ c.target = m.name
        \/ c.op = "delete-provider" /\ c.target = m.ref /\ c.draft
        \/ /\ c.op = "update-model" /\ c.target = m.name
           /\ \E q \in Entries(e.models) :
                q.name = c.draft.name /\ q.policies = m.policies
        \/ /\ c.op = "model-policy" /\ c.target = m.name
           /\ \E q \in Entries(e.models) :
                \A field \in DOMAIN m \ {"policies", "expr", "auth"} :
                    q[field] = m[field]
KeepsServers(c, d, e) ==
    \A s \in Entries(d.targets) \ Entries(e.targets) :
        /\ c.target = s.name /\ s.transport # "openapi"
        /\ \/ c.op = "delete-server"
           \/ \E t \in Entries(e.targets) :
                t.name = c.draft.name /\ t.extra = s.extra
KeepsUnlisted(d, e) ==
    \A family \in Families : e[family]["unlisted"] = d[family]["unlisted"]
KeepsRoutes(c, d, e) ==
    RouteCount(e) < RouteCount(d) =>
        \/ c.op = "delete-route"
        \/ /\ c.op \in {"delete-bind", "delete-listener", "update-listener"}
           /\ c.draft
KeepsListeners(c, d, e) ==
    c.op = "update-listener" =>
        \A b \in DOMAIN d.binds : \A l \in DOMAIN d.binds[b].listeners :
            LET before == d.binds[b].listeners[l]
                after == e.binds[b].listeners[l]
            IN  /\ after.ns = "" => before.ns = ""
                /\ \A k \in DOMAIN d.binds :
                    \A j \in DOMAIN d.binds[k].listeners :
                        \/ b = k /\ l = j
                        \/ after = before
                        \/ e.binds[k].listeners[j] = d.binds[k].listeners[j]
Keeps(c, d, e) ==
    /\ KeepsProviders(c, d, e) /\ KeepsModels(c, d, e) /\ KeepsServers(c, d, e)
    /\ KeepsUnlisted(d, e) /\ KeepsRoutes(c, d, e) /\ KeepsListeners(c, d, e)

\* The action property, in its parts.
LEMMA KeepsIsTheProperty == ChangeTakesOnlyWhatIsNamed <=> Keeps(change', doc, doc')
  BY Zenon DEF ChangeTakesOnlyWhatIsNamed, Keeps, KeepsProviders, KeepsModels,
     KeepsServers, KeepsUnlisted, KeepsRoutes, KeepsListeners

\* Only the fields of changed differ between d and e.
Edited(d, e, changed) ==
    DOMAIN e = Fields /\ \A f \in Fields \ changed : e[f] = d[f]

\* A document with one field replaced.
LEMMA FieldEdited ==
  ASSUME NEW d, DOMAIN d = Fields, NEW f \in Fields, NEW x
  PROVE  Edited(d, [d EXCEPT ![f] = x], {f}) /\ [d EXCEPT ![f] = x][f] = x
  BY DEF Edited

\* A part that is left as it is keeps its share of the property.
LEMMA PartsKept ==
  ASSUME NEW c, NEW d, NEW e, Safe(d), DOMAIN e = Fields
  PROVE  /\ e.providers = d.providers /\ e.models = d.models
              /\ e.virtual = d.virtual => LLMShaped(e) /\ LLMSound(e)
         /\ e.providers = d.providers => KeepsProviders(c, d, e)
         /\ e.models = d.models => KeepsModels(c, d, e)
         /\ e.targets = d.targets => /\ MCPShaped(e) /\ Unique(e.targets)
                                     /\ KeepsServers(c, d, e)
         /\ e.llmPolicies = d.llmPolicies /\ e.mcpPolicies = d.mcpPolicies =>
              PoliciesShaped(e) /\ KeepsUnlisted(d, e)
         /\ e.binds = d.binds =>
              /\ TrafficShaped(e) /\ TrafficSound(e)
              /\ KeepsRoutes(c, d, e) /\ KeepsListeners(c, d, e)
  <1>1. /\ LLMShaped(d) /\ MCPShaped(d) /\ PoliciesShaped(d) /\ TrafficShaped(d)
        /\ LLMSound(d) /\ Unique(d.targets) /\ TrafficSound(d)
    BY ShapedInParts, SoundInParts DEF Safe
  <1>2. ASSUME e.providers = d.providers, e.models = d.models,
               e.virtual = d.virtual
        PROVE  LLMShaped(e) /\ LLMSound(e)
    BY <1>1, <1>2 DEF LLMShaped, LLMSound
  <1>3. ASSUME e.targets = d.targets
        PROVE  MCPShaped(e) /\ Unique(e.targets)
    BY <1>1, <1>3 DEF MCPShaped
  <1>4. ASSUME e.llmPolicies = d.llmPolicies, e.mcpPolicies = d.mcpPolicies
        PROVE  PoliciesShaped(e) /\ KeepsUnlisted(d, e)
    BY <1>1, <1>4 DEF PoliciesShaped, KeepsUnlisted, Families
  <1>5. ASSUME e.binds = d.binds
        PROVE  /\ TrafficShaped(e) /\ TrafficSound(e)
               /\ KeepsRoutes(c, d, e) /\ KeepsListeners(c, d, e)
    <2>1. RouteCount(e) = RouteCount(d) /\ RouteCount(d) \in Nat
      BY <1>1, <1>5, RoutesAreFinite DEF RouteCount, Routes
    <2>2. TrafficShaped(e) /\ TrafficSound(e)
      BY <1>1, <1>5 DEF TrafficShaped, TrafficSound
    <2>3. KeepsRoutes(c, d, e)
      <3> DEFINE n == RouteCount(d)
      <3>1. RouteCount(e) = n /\ n \in Nat
        BY <2>1
      <3> HIDE DEF n
      <3>2. ~(RouteCount(e) < n)
        BY <3>1
      <3> QED BY <3>2 DEF KeepsRoutes, n
    <2>4. KeepsListeners(c, d, e)
      BY <1>5 DEF KeepsListeners
    <2> QED BY <2>2, <2>3, <2>4
  <1>6. e.providers = d.providers => KeepsProviders(c, d, e)
    BY DEF KeepsProviders
  <1>7. e.models = d.models => KeepsModels(c, d, e)
    BY DEF KeepsModels
  <1>8. e.targets = d.targets => KeepsServers(c, d, e)
    BY DEF KeepsServers
  <1> QED BY <1>2, <1>3, <1>4, <1>5, <1>6, <1>7, <1>8

\* An edit of the providers and models, of the servers or settings, of the
\* policies, or of the traffic is judged by what it does there.
LEMMA EditsAreLocal ==
  ASSUME NEW c, NEW d, NEW e, Safe(d)
  PROVE  /\ Edited(d, e, {"providers", "models"}) /\ LLMShaped(e) /\ LLMSound(e)
              /\ KeepsProviders(c, d, e) /\ KeepsModels(c, d, e)
              => Safe(e) /\ Keeps(c, d, e)
         /\ Edited(d, e, {"targets", "settings"}) /\ MCPShaped(e)
              /\ Unique(e.targets) /\ KeepsServers(c, d, e)
              => Safe(e) /\ Keeps(c, d, e)
         /\ Edited(d, e, Families) /\ PoliciesShaped(e) /\ KeepsUnlisted(d, e)
              => Safe(e) /\ Keeps(c, d, e)
         /\ Edited(d, e, {"binds"}) /\ TrafficShaped(e) /\ TrafficSound(e)
              /\ KeepsRoutes(c, d, e) /\ KeepsListeners(c, d, e)
              => Safe(e) /\ Keeps(c, d, e)
  <1> DEFINE Parts == /\ LLMShaped(e) /\ MCPShaped(e) /\ PoliciesShaped(e)
                      /\ TrafficShaped(e) /\ LLMSound(e) /\ Unique(e.targets)
                      /\ TrafficSound(e)
  <1>1. DOMAIN e = Fields /\ Parts => Safe(e)
    BY ShapedInParts, SoundInParts DEF Safe
  <1> HIDE DEF Parts
  <1>2. ASSUME Edited(d, e, {"providers", "models"}), LLMShaped(e), LLMSound(e),
               KeepsProviders(c, d, e), KeepsModels(c, d, e)
        PROVE  Safe(e) /\ Keeps(c, d, e)
    <2>1. /\ DOMAIN e = Fields /\ e.targets = d.targets /\ e.binds = d.binds
          /\ e.llmPolicies = d.llmPolicies /\ e.mcpPolicies = d.mcpPolicies
      BY <1>2 DEF Edited, Fields
    <2> QED BY <1>1, <1>2, <2>1, PartsKept DEF Parts, Keeps
  <1>3. ASSUME Edited(d, e, {"targets", "settings"}), MCPShaped(e),
               Unique(e.targets), KeepsServers(c, d, e)
        PROVE  Safe(e) /\ Keeps(c, d, e)
    <2>1. /\ DOMAIN e = Fields /\ e.providers = d.providers /\ e.binds = d.binds
          /\ e.models = d.models /\ e.virtual = d.virtual
          /\ e.llmPolicies = d.llmPolicies /\ e.mcpPolicies = d.mcpPolicies
      BY <1>3 DEF Edited, Fields
    <2> QED BY <1>1, <1>3, <2>1, PartsKept DEF Parts, Keeps
  <1>4. ASSUME Edited(d, e, Families), PoliciesShaped(e), KeepsUnlisted(d, e)
        PROVE  Safe(e) /\ Keeps(c, d, e)
    <2>1. /\ DOMAIN e = Fields /\ e.providers = d.providers /\ e.binds = d.binds
          /\ e.models = d.models /\ e.virtual = d.virtual
          /\ e.targets = d.targets
      BY <1>4 DEF Edited, Fields, Families
    <2> QED BY <1>1, <1>4, <2>1, PartsKept DEF Parts, Keeps
  <1>5. ASSUME Edited(d, e, {"binds"}), TrafficShaped(e), TrafficSound(e),
               KeepsRoutes(c, d, e), KeepsListeners(c, d, e)
        PROVE  Safe(e) /\ Keeps(c, d, e)
    <2>1. /\ DOMAIN e = Fields /\ e.providers = d.providers
          /\ e.targets = d.targets
          /\ e.models = d.models /\ e.virtual = d.virtual
          /\ e.llmPolicies = d.llmPolicies /\ e.mcpPolicies = d.mcpPolicies
      BY <1>5 DEF Edited, Fields
    <2> QED BY <1>1, <1>5, <2>1, PartsKept DEF Parts, Keeps
  <1> QED BY <1>2, <1>3, <1>4, <1>5

-----------------------------------------------------------------------------
(* Posting a change, and what is confirmed of it *)

\* A change that has been posted is not NoChange.
LEMMA IsAChange ==
  \A c : c.op # "none" => c # NoChange
  BY DEF NoChange

\* What the second reading looks at, by the operation.
LEMMA VerifiedAs ==
  /\ change'.op \in {"create-provider", "update-provider"} =>
       (Verified' <=> \E i \in Found(doc'.providers, change'.draft.name) :
                         ProviderMatches(doc'.providers[i], change'.draft))
  /\ change'.op = "delete-provider" =>
       (Verified' <=> /\ Named(doc'.providers, change'.target) = {}
                      /\ change'.draft =>
                           {i \in DOMAIN doc'.models :
                              doc'.models[i].ref = change'.target} = {})
  /\ change'.op \in {"create-model", "update-model"} =>
       (Verified' <=> \E i \in Found(doc'.models, change'.draft.name) :
                         ModelMatches(doc'.models[i], change'.draft))
  /\ change'.op = "delete-model" =>
       (Verified' <=> Named(doc'.models, change'.target) = {})
  /\ change'.op \in {"create-server", "update-server"} =>
       (Verified' <=> \E i \in Found(doc'.targets, change'.draft.name) :
                         ServerMatches(doc'.targets[i], change'.draft))
  /\ change'.op = "delete-server" =>
       (Verified' <=> Named(doc'.targets, change'.target) = {})
  /\ change'.op = "update-settings" =>
       (Verified' <=> doc'.settings = change'.draft)
  /\ change'.op \in {"set-policy", "delete-policy", "model-policy",
                     "create-bind", "update-bind", "delete-bind",
                     "create-listener", "update-listener", "delete-listener",
                     "create-route", "update-route", "delete-route"} =>
       (Verified' <=> doc' = change'.expected)
  BY DEF Verified, ReferringTo

\* What one step of the gateway's document has to show.
Step == /\ Safe(doc') /\ Keeps(change', doc, doc') /\ change' # NoChange
        /\ ~pending /\ pending' = TRUE /\ overwritten' = FALSE
        /\ Verified' <=> ~KnownGap'

\* The operations that compare the whole document find what they wrote.
WholeDocument ==
    {"set-policy", "delete-policy", "model-policy", "create-bind",
     "update-bind", "delete-bind", "create-listener", "update-listener",
     "delete-listener", "create-route", "update-route", "delete-route"}
\* A change that is confirmed by comparing the whole document always is.
LEMMA PlainStep ==
  ASSUME change'.op \in WholeDocument, change'.expected = doc',
         ~pending, pending' = TRUE, overwritten' = FALSE,
         Safe(doc'), Keeps(change', doc, doc')
  PROVE  Step
  <1>1. change' # NoChange
    BY IsAChange DEF WholeDocument
  <1>2. Verified'
    BY VerifiedAs DEF WholeDocument
  <1>3. ~KnownGap'
    BY DEF KnownGap, WholeDocument
  <1> QED BY <1>1, <1>2, <1>3 DEF Step

-----------------------------------------------------------------------------
(* Lists of named entries *)

WrittenIn(s, B) == \E i \in DOMAIN s : s[i] = B /\ Found(s, B.name) = {i}

NamedList(s, F) ==
    IsList(s) /\ Unique(s) /\ \A i \in DOMAIN s : DOMAIN s[i] = F

Appended(F, s, B, t) ==
    /\ NamedList(t, F)
    /\ \A x : x \in Entries(t) <=> x \in Entries(s) \/ x = B
    /\ \A name : HasName(s, name) => HasName(t, name)
    /\ WrittenIn(t, B)
\* An entry of a new name joins a list of differently named ones.
LEMMA AppendNamed ==
  ASSUME NEW F, NEW s, NamedList(s, F), NEW B, DOMAIN B = F,
         ~NameExists(s, B.name, 0), NEW t, t = Append(s, B)
  PROVE  Appended(F, s, B, t)
  <1>0. /\ IsList(s) /\ Unique(s) /\ \A i \in DOMAIN s : DOMAIN s[i] = F
    BY DEF NamedList
  <1>1. /\ IsList(t) /\ DOMAIN t = 1..Len(s) + 1 /\ t[Len(s) + 1] = B
        /\ \A i \in DOMAIN s : t[i] = s[i]
        /\ Entries(t) = Entries(s) \cup {B}
    BY <1>0, AppendList
  <1>2. Unique(t)
    BY <1>0, UniqueAppend
  <1>3. /\ DOMAIN s = 1..Len(s) /\ Len(s) \in Nat
    BY <1>0, ListIsSeq
  <1>4. /\ Len(s) + 1 \in DOMAIN t
        /\ \A i \in DOMAIN t : i \in DOMAIN s \/ i = Len(s) + 1
        /\ \A i \in DOMAIN s : i \in DOMAIN t
    <2> HIDE DEF NameExists
    <2> QED BY <1>1, <1>3
  <1>5. \A i \in DOMAIN t : DOMAIN t[i] = F
    BY <1>0, <1>1, <1>4
  <1>6. Found(t, B.name) = {Len(s) + 1}
    BY <1>1, <1>2, <1>4, FoundOne
  <1>7. \A name : HasName(s, name) => HasName(t, name)
    BY <1>1, <1>4 DEF HasName
  <1>9. WrittenIn(t, B)
    BY <1>1, <1>4, <1>6 DEF WrittenIn
  <1>10. NamedList(t, F)
    BY <1>1, <1>2, <1>5 DEF NamedList
  <1> QED BY <1>1, <1>7, <1>9, <1>10 DEF Appended

Replaced(F, s, k, B, t) ==
    /\ NamedList(t, F) /\ B \in Entries(t)
    /\ \A x \in Entries(t) : x \in Entries(s) \/ x = B
    /\ \A x \in Entries(s) : x \in Entries(t) \/ x = s[k]
    /\ \A name : HasName(s, name) /\ name # s[k].name => HasName(t, name)
    /\ HasName(t, B.name)
    /\ WrittenIn(t, B)
\* An entry of such a list is replaced by one whose name is free.
LEMMA ReplaceNamed ==
  ASSUME NEW F, NEW s, NamedList(s, F), NEW B, DOMAIN B = F,
         NEW k \in DOMAIN s, ~NameExists(s, B.name, k),
         NEW t, t = [s EXCEPT ![k] = B]
  PROVE  Replaced(F, s, k, B, t)
  <1>0. /\ IsList(s) /\ Unique(s) /\ \A i \in DOMAIN s : DOMAIN s[i] = F
    BY DEF NamedList
  <1>1. /\ IsList(t) /\ DOMAIN t = DOMAIN s /\ t[k] = B
        /\ \A i \in DOMAIN s \ {k} : t[i] = s[i]
    BY <1>0, ReplaceList
  <1>2. Unique(t)
    BY <1>0, UniqueReplace
  <1>5. \A i \in DOMAIN t : DOMAIN t[i] = F
    BY <1>0, <1>1
  <1>6. Found(t, B.name) = {k}
    BY <1>1, <1>2, FoundOne
  <1>7. \A name : HasName(s, name) /\ name # s[k].name => HasName(t, name)
    BY <1>1 DEF HasName
  <1>8. HasName(t, B.name)
    BY <1>1 DEF HasName
  <1>9. WrittenIn(t, B)
    BY <1>1, <1>6 DEF WrittenIn
  <1>10. NamedList(t, F)
    BY <1>1, <1>2, <1>5 DEF NamedList
  <1>11. Entries(t) \subseteq Entries(s) \cup {B}
    BY <1>1, EntriesAre
  <1>12. B \in Entries(t) /\ \A x \in Entries(s) \ Entries(t) : x = s[k]
    <2>1. B \in Entries(t)
      BY <1>1, EntriesAre
    <2>2. ASSUME NEW x \in Entries(s) \ Entries(t) PROVE x = s[k]
      <3>1. PICK i \in DOMAIN s : x = s[i]
        BY <2>2, EntriesAre
      <3>2. i # k => t[i] = x /\ i \in DOMAIN t
        BY <1>1, <3>1
      <3>3. i # k => x \in Entries(t)
        BY <3>2, EntriesAre
      <3> QED BY <2>2, <3>1, <3>3
    <2> QED BY <2>1, <2>2
  <1> QED BY <1>7, <1>8, <1>9, <1>10, <1>11, <1>12 DEF Replaced

Picked(F, s, I, t) ==
    /\ NamedList(t, F)
    /\ \A x : x \in Entries(t) <=> \E i \in I : x = s[i]
    /\ \A name : HasName(t, name) <=> \E i \in I : s[i].name = name
    /\ \A x \in Entries(s) : x \in Entries(t) \/ \E i \in DOMAIN s \ I : x = s[i]
    /\ \A i \in DOMAIN s \ I : Named(t, s[i].name) = {}
\* Some entries of such a list are left.
LEMMA PicksNamed ==
  ASSUME NEW F, NEW s, NamedList(s, F), NEW I, I \subseteq DOMAIN s, NEW t,
         IsList(t), Picks(t, s, I)
  PROVE  Picked(F, s, I, t)
  <1>0. /\ IsList(s) /\ Unique(s) /\ \A i \in DOMAIN s : DOMAIN s[i] = F
    BY DEF NamedList
  <1>1. Unique(t) /\ Entries(t) = {s[i] : i \in I}
    BY <1>0, PicksEntries
  <1>2. \A i \in DOMAIN t : DOMAIN t[i] = F
    <2> TAKE i \in DOMAIN t
    <2>1. t[i] \in Entries(t)
      BY EntriesAre
    <2>2. PICK k \in I : t[i] = s[k]
      BY <1>1, <2>1
    <2> QED BY <1>0, <2>2
  <1>3. NamedList(t, F)
    BY <1>1, <1>2 DEF NamedList
  <1>4. \A name : HasName(t, name) <=> \E i \in I : s[i].name = name
    BY NamesAfterRemoval DEF HasName
  <1>5. \A x \in Entries(s) \ Entries(t) : \E i \in DOMAIN s \ I : x = s[i]
    BY <1>1, EntriesAre
  <1>6. ASSUME NEW i \in DOMAIN s \ I PROVE Named(t, s[i].name) = {}
    <2>1. ~HasName(t, s[i].name)
      BY <1>0, <1>4 DEF Unique
    <2> QED BY <2>1 DEF HasName, Named
  <1> QED BY <1>1, <1>3, <1>4, <1>5, <1>6 DEF Picked

-----------------------------------------------------------------------------
(* LLM providers and models *)

\* The LLM part of a document in terms of its two lists.
LEMMA LLMParts ==
  ASSUME NEW d
  PROVE  LLMShaped(d) /\ LLMSound(d) <=>
           /\ NamedList(d.providers, ProviderFields)
           /\ NamedList(d.models, ModelFields)
           /\ \A m \in Entries(d.models) : ModelFits(d.providers, m)
           /\ \A v \in d.virtual : HasName(d.models, v)
  BY DEF LLMShaped, LLMSound, NamedList

\* What a change of providers and models has to show.
LEMMA LLMEdited ==
  ASSUME NEW d, NEW e, NEW c, Safe(d), Edited(d, e, {"providers", "models"}),
         NamedList(e.providers, ProviderFields),
         NamedList(e.models, ModelFields),
         \A m \in Entries(e.models) : ModelFits(e.providers, m),
         \A v \in d.virtual : HasName(e.models, v),
         KeepsProviders(c, d, e), KeepsModels(c, d, e)
  PROVE  Safe(e) /\ Keeps(c, d, e)
  <1>1. e.virtual = d.virtual
    BY DEF Edited, Fields
  <1>2. LLMShaped(e) /\ LLMSound(e)
    BY <1>1, LLMParts
  <1> QED BY <1>2, EditsAreLocal

\* What a safe document says of its providers and models.
LEMMA LLMBefore ==
  ASSUME NEW d, Safe(d)
  PROVE  /\ NamedList(d.providers, ProviderFields)
         /\ NamedList(d.models, ModelFields)
         /\ \A m \in Entries(d.models) : ModelFits(d.providers, m)
         /\ \A v \in d.virtual : HasName(d.models, v)
  <1>1. LLMShaped(d) /\ LLMSound(d)
    BY ShapedInParts, SoundInParts DEF Safe
  <1> QED BY <1>1, LLMParts

\* A provider of a new name is added.
LEMMA ProviderAdded ==
  ASSUME NEW d, NEW e, NEW c, Safe(d), NEW B, DOMAIN B = ProviderFields,
         Edited(d, e, {"providers"}), e.providers = Append(d.providers, B),
         ~NameExists(d.providers, B.name, 0)
  PROVE  /\ Safe(e) /\ Keeps(c, d, e)
         /\ WrittenIn(e.providers, B)
  <1>1. /\ NamedList(d.providers, ProviderFields)
        /\ NamedList(d.models, ModelFields)
        /\ \A m \in Entries(d.models) : ModelFits(d.providers, m)
        /\ \A v \in d.virtual : HasName(d.models, v)
    BY LLMBefore
  <1>22. Appended(ProviderFields, d.providers, B, e.providers)
    BY <1>1, AppendNamed
  <1>2. /\ NamedList(e.providers, ProviderFields)
        /\ \A x : x \in Entries(e.providers) <=> x \in Entries(d.providers) \/ x = B
        /\ \A name : HasName(d.providers, name) => HasName(e.providers, name)
        /\ WrittenIn(e.providers, B)
    BY <1>22 DEF Appended
  <1>3. e.models = d.models /\ Edited(d, e, {"providers", "models"})
    BY DEF Edited, Fields
  <1>4. \A m \in Entries(e.models) : ModelFits(e.providers, m)
    BY <1>1, <1>2, <1>3 DEF ModelFits
  <1>5. KeepsProviders(c, d, e) /\ KeepsModels(c, d, e)
    BY <1>2, <1>3 DEF KeepsProviders, KeepsModels
  <1> QED BY <1>1, <1>2, <1>3, <1>4, <1>5, LLMEdited

\* A provider is replaced; it keeps its name if a model refers to it.
LEMMA ProviderReplaced ==
  ASSUME NEW d, NEW e, NEW c, Safe(d), NEW B, DOMAIN B = ProviderFields,
         NEW k \in DOMAIN d.providers,
         Edited(d, e, {"providers"}), e.providers = [d.providers EXCEPT ![k] = B],
         ~NameExists(d.providers, B.name, k),
         d.providers[k].name # B.name =>
            \A m \in Entries(d.models) : m.ref # d.providers[k].name,
         c.op = "update-provider", c.target = d.providers[k].name,
         c.draft.name = B.name, B.extra = d.providers[k].extra
  PROVE  /\ Safe(e) /\ Keeps(c, d, e)
         /\ WrittenIn(e.providers, B)
  <1>1. /\ NamedList(d.providers, ProviderFields)
        /\ NamedList(d.models, ModelFields)
        /\ \A m \in Entries(d.models) : ModelFits(d.providers, m)
        /\ \A v \in d.virtual : HasName(d.models, v)
    BY LLMBefore
  <1>22. Replaced(ProviderFields, d.providers, k, B, e.providers)
    BY <1>1, ReplaceNamed
  <1>2. /\ NamedList(e.providers, ProviderFields)
        /\ B \in Entries(e.providers)
        /\ \A x \in Entries(d.providers) \ Entries(e.providers) : x = d.providers[k]
        /\ \A name : HasName(d.providers, name) /\ name # d.providers[k].name =>
             HasName(e.providers, name)
        /\ HasName(e.providers, B.name)
        /\ WrittenIn(e.providers, B)
    BY <1>22 DEF Replaced
  <1>3. e.models = d.models /\ Edited(d, e, {"providers", "models"})
    BY DEF Edited, Fields
  <1>4. ASSUME NEW m \in Entries(e.models) PROVE ModelFits(e.providers, m)
    <2>1. ModelFits(d.providers, m)
      BY <1>1, <1>3
    <2>2. m.ref # "" => HasName(e.providers, m.ref)
      BY <1>2, <1>3, <2>1 DEF ModelFits
    <2> QED BY <2>1, <2>2 DEF ModelFits
  <1>5. KeepsProviders(c, d, e) /\ KeepsModels(c, d, e)
    BY <1>2, <1>3 DEF KeepsProviders, KeepsModels
  <1> QED BY <1>1, <1>2, <1>3, <1>4, <1>5, LLMEdited

\* A model of a new name is added; its provider exists.
LEMMA ModelAdded ==
  ASSUME NEW d, NEW e, NEW c, Safe(d), NEW B, DOMAIN B = ModelFields,
         Edited(d, e, {"models"}), e.models = Append(d.models, B),
         ~NameExists(d.models, B.name, 0), ModelFits(d.providers, B)
  PROVE  /\ Safe(e) /\ Keeps(c, d, e)
         /\ WrittenIn(e.models, B)
  <1>1. /\ NamedList(d.providers, ProviderFields)
        /\ NamedList(d.models, ModelFields)
        /\ \A m \in Entries(d.models) : ModelFits(d.providers, m)
        /\ \A v \in d.virtual : HasName(d.models, v)
    BY LLMBefore
  <1>22. Appended(ModelFields, d.models, B, e.models)
    BY <1>1, AppendNamed
  <1>2. /\ NamedList(e.models, ModelFields)
        /\ \A x : x \in Entries(e.models) <=> x \in Entries(d.models) \/ x = B
        /\ \A name : HasName(d.models, name) => HasName(e.models, name)
        /\ WrittenIn(e.models, B)
    BY <1>22 DEF Appended
  <1>3. e.providers = d.providers /\ Edited(d, e, {"providers", "models"})
    BY DEF Edited, Fields
  <1>4. \A m \in Entries(e.models) : ModelFits(e.providers, m)
    BY <1>1, <1>2, <1>3
  <1>5. KeepsProviders(c, d, e) /\ KeepsModels(c, d, e)
    BY <1>2, <1>3 DEF KeepsProviders, KeepsModels
  <1> QED BY <1>1, <1>2, <1>3, <1>4, <1>5, LLMEdited

SameModel(B, m) ==
    /\ DOMAIN B = ModelFields
    /\ \A field \in ModelFields \ {"policies", "expr", "auth"} :
         B[field] = m[field]
\* A model is replaced; it keeps its name if it is virtual elsewhere, and
\* its provider.
LEMMA ModelReplaced ==
  ASSUME NEW d, NEW e, NEW c, Safe(d), NEW B, DOMAIN B = ModelFields,
         NEW k \in DOMAIN d.models, NEW m, m = d.models[k],
         Edited(d, e, {"models"}), e.models = [d.models EXCEPT ![k] = B],
         ~NameExists(d.models, B.name, k), ModelFits(d.providers, B),
         m.name # B.name => m.name \notin d.virtual, c.target = m.name,
         \/ /\ c.op = "update-model" /\ c.draft.name = B.name
            /\ B.policies = m.policies
         \/ c.op = "model-policy" /\ SameModel(B, m)
  PROVE  /\ Safe(e) /\ Keeps(c, d, e)
         /\ WrittenIn(e.models, B)
  <1>1. /\ NamedList(d.providers, ProviderFields)
        /\ NamedList(d.models, ModelFields)
        /\ \A x \in Entries(d.models) : ModelFits(d.providers, x)
        /\ \A v \in d.virtual : HasName(d.models, v)
    BY LLMBefore
  <1>22. Replaced(ModelFields, d.models, k, B, e.models)
    BY <1>1, ReplaceNamed
  <1>2. /\ NamedList(e.models, ModelFields)
        /\ Entries(e.models) \subseteq Entries(d.models) \cup {B}
        /\ B \in Entries(e.models)
        /\ \A x \in Entries(d.models) \ Entries(e.models) : x = m
        /\ \A name : HasName(d.models, name) /\ name # m.name =>
             HasName(e.models, name)
        /\ HasName(e.models, B.name)
        /\ WrittenIn(e.models, B)
    BY <1>22 DEF Replaced
  <1>3. e.providers = d.providers /\ Edited(d, e, {"providers", "models"})
    BY DEF Edited, Fields
  <1>4. \A x \in Entries(e.models) : ModelFits(e.providers, x)
    BY <1>1, <1>2, <1>3
  <1>5. \A v \in d.virtual : HasName(e.models, v)
    BY <1>1, <1>2
  <1>6. DOMAIN m = ModelFields
    BY <1>1 DEF NamedList
  <1>7. KeepsProviders(c, d, e) /\ KeepsModels(c, d, e)
    BY <1>2, <1>3, <1>6 DEF KeepsProviders, KeepsModels, SameModel
  <1> QED BY <1>1, <1>2, <1>3, <1>4, <1>5, <1>7, LLMEdited

\* Providers and models disappear together: the models named, or every model
\* of the providers that go, none of which is a virtual model's target.
MayGo(c, d, I, J) ==
    /\ \A j \in DOMAIN d.models \ J : d.models[j].name \notin d.virtual
    /\ \A j \in J : \A i \in DOMAIN d.providers \ I :
         d.models[j].ref # d.providers[i].name
    /\ \A i \in DOMAIN d.providers \ I :
         c.op = "delete-provider" /\ c.target = d.providers[i].name
    /\ \A j \in DOMAIN d.models \ J :
         \/ c.op = "delete-model" /\ c.target = d.models[j].name
         \/ c.op = "delete-provider" /\ c.target = d.models[j].ref /\ c.draft
AreGone(d, e, I, J) ==
    /\ \A i \in DOMAIN d.providers \ I :
         Named(e.providers, d.providers[i].name) = {}
    /\ \A j \in DOMAIN d.models \ J : Named(e.models, d.models[j].name) = {}
    /\ \A x \in Entries(e.models) : \E j \in J : x = d.models[j]
\* Providers and models go together: no model left names a provider that
\* went, and no virtual model a model that went.
LEMMA LLMRemoved ==
  ASSUME NEW d, NEW e, NEW c, Safe(d),
         NEW I, I \subseteq DOMAIN d.providers,
         NEW J, J \subseteq DOMAIN d.models,
         Edited(d, e, {"providers", "models"}),
         IsList(e.providers), Picks(e.providers, d.providers, I),
         IsList(e.models), Picks(e.models, d.models, J),
         MayGo(c, d, I, J)
  PROVE  Safe(e) /\ Keeps(c, d, e) /\ AreGone(d, e, I, J)
  <1>1. /\ NamedList(d.providers, ProviderFields)
        /\ NamedList(d.models, ModelFields)
        /\ \A x \in Entries(d.models) : ModelFits(d.providers, x)
        /\ \A v \in d.virtual : HasName(d.models, v)
    BY LLMBefore
  <1>22. /\ Picked(ProviderFields, d.providers, I, e.providers)
         /\ Picked(ModelFields, d.models, J, e.models)
    BY <1>1, PicksNamed
  <1>2. /\ NamedList(e.providers, ProviderFields)
        /\ \A name : HasName(e.providers, name) <=>
             \E i \in I : d.providers[i].name = name
        /\ \A x \in Entries(d.providers) \ Entries(e.providers) :
             \E i \in DOMAIN d.providers \ I : x = d.providers[i]
        /\ \A i \in DOMAIN d.providers \ I :
              Named(e.providers, d.providers[i].name) = {}
    BY <1>22 DEF Picked
  <1>3. /\ NamedList(e.models, ModelFields)
        /\ \A x : x \in Entries(e.models) <=> \E j \in J : x = d.models[j]
        /\ \A name : HasName(e.models, name) <=>
             \E j \in J : d.models[j].name = name
        /\ \A x \in Entries(d.models) \ Entries(e.models) :
             \E j \in DOMAIN d.models \ J : x = d.models[j]
        /\ \A j \in DOMAIN d.models \ J : Named(e.models, d.models[j].name) = {}
    BY <1>22 DEF Picked
  <1>4. ASSUME NEW m \in Entries(e.models) PROVE ModelFits(e.providers, m)
    <2>1. PICK j \in J : m = d.models[j]
      BY <1>3
    <2>2. ModelFits(d.providers, m)
      BY <1>1, <2>1, EntriesAre
    <2>3. ASSUME m.ref # "" PROVE HasName(e.providers, m.ref)
      <3>0. \A k \in DOMAIN d.providers \ I : m.ref # d.providers[k].name
        BY <2>1 DEF MayGo
      <3>1. PICK i \in DOMAIN d.providers : d.providers[i].name = m.ref
        BY <2>2, <2>3 DEF ModelFits, HasName
      <3>2. i \in I
        BY <3>0, <3>1
      <3> QED BY <1>2, <3>1, <3>2
    <2> QED BY <2>2, <2>3 DEF ModelFits
  <1>5. ASSUME NEW v \in d.virtual PROVE HasName(e.models, v)
    <2>1. PICK j \in DOMAIN d.models : d.models[j].name = v
      BY <1>1 DEF HasName
    <2> QED BY <1>3, <2>1 DEF MayGo
  <1>6. KeepsProviders(c, d, e)
    BY <1>2 DEF KeepsProviders, MayGo
  <1>7. KeepsModels(c, d, e)
    <2> SUFFICES ASSUME NEW m \in Entries(d.models) \ Entries(e.models)
                 PROVE  \/ c.op = "delete-model" /\ c.target = m.name
                        \/ c.op = "delete-provider" /\ c.target = m.ref /\ c.draft
      BY DEF KeepsModels
    <2> QED BY <1>3 DEF MayGo
  <1>8. AreGone(d, e, I, J)
    BY <1>2, <1>3 DEF AreGone
  <1> QED BY <1>2, <1>3, <1>4, <1>5, <1>6, <1>7, <1>8, LLMEdited
-----------------------------------------------------------------------------
(* MCP servers *)

\* What a safe document says of its servers.
LEMMA ServersBefore ==
  ASSUME NEW d, Safe(d)
  PROVE  NamedList(d.targets, ServerFields)
  BY ShapedInParts, SoundInParts DEF Safe, MCPShaped, NamedList

\* What a change of servers has to show.
LEMMA ServersEdited ==
  ASSUME NEW d, NEW e, NEW c, Safe(d), Edited(d, e, {"targets"}),
         NamedList(e.targets, ServerFields), KeepsServers(c, d, e)
  PROVE  Safe(e) /\ Keeps(c, d, e)
  <1>1. Edited(d, e, {"targets", "settings"})
    BY DEF Edited
  <1>2. MCPShaped(e) /\ Unique(e.targets)
    BY DEF MCPShaped, NamedList
  <1> QED BY <1>1, <1>2, EditsAreLocal

\* A server of a new name is added.
LEMMA ServerAdded ==
  ASSUME NEW d, NEW e, NEW c, Safe(d), NEW B, DOMAIN B = ServerFields,
         Edited(d, e, {"targets"}), e.targets = Append(d.targets, B),
         ~NameExists(d.targets, B.name, 0)
  PROVE  /\ Safe(e) /\ Keeps(c, d, e)
         /\ WrittenIn(e.targets, B)
  <1>1. Appended(ServerFields, d.targets, B, e.targets)
    BY ServersBefore, AppendNamed
  <1>2. NamedList(e.targets, ServerFields) /\ KeepsServers(c, d, e)
    BY <1>1 DEF Appended, KeepsServers
  <1> QED BY <1>1, <1>2, ServersEdited DEF Appended

\* A server is replaced by one whose name is free.
LEMMA ServerReplaced ==
  ASSUME NEW d, NEW e, NEW c, Safe(d), NEW B, DOMAIN B = ServerFields,
         NEW k \in DOMAIN d.targets,
         Edited(d, e, {"targets"}), e.targets = [d.targets EXCEPT ![k] = B],
         ~NameExists(d.targets, B.name, k),
         c.target = d.targets[k].name, d.targets[k].transport # "openapi",
         c.draft.name = B.name, B.extra = d.targets[k].extra
  PROVE  /\ Safe(e) /\ Keeps(c, d, e)
         /\ WrittenIn(e.targets, B)
  <1>1. Replaced(ServerFields, d.targets, k, B, e.targets)
    BY ServersBefore, ReplaceNamed
  <1>2. /\ NamedList(e.targets, ServerFields) /\ B \in Entries(e.targets)
        /\ \A x \in Entries(d.targets) : x \in Entries(e.targets) \/ x = d.targets[k]
        /\ WrittenIn(e.targets, B)
    BY <1>1 DEF Replaced
  <1>3. KeepsServers(c, d, e)
    BY <1>2 DEF KeepsServers
  <1> QED BY <1>2, <1>3, ServersEdited

\* A server the user may edit goes.
LEMMA ServerRemoved ==
  ASSUME NEW d, NEW e, NEW c, Safe(d), NEW k \in DOMAIN d.targets,
         Edited(d, e, {"targets"}), e.targets = RemoveAt(d.targets, k),
         c.op = "delete-server", c.target = d.targets[k].name,
         d.targets[k].transport # "openapi"
  PROVE  /\ Safe(e) /\ Keeps(c, d, e)
         /\ Named(e.targets, d.targets[k].name) = {}
  <1> DEFINE I == DOMAIN d.targets \ {k}
  <1>0. NamedList(d.targets, ServerFields) /\ IsList(d.targets)
    BY ServersBefore DEF NamedList
  <1>1. IsList(e.targets) /\ Picks(e.targets, d.targets, I)
    BY <1>0, RemoveList
  <1>2. I \subseteq DOMAIN d.targets /\ DOMAIN d.targets \ I = {k}
    OBVIOUS
  <1> HIDE DEF I
  <1>3. Picked(ServerFields, d.targets, I, e.targets)
    BY <1>0, <1>1, <1>2, PicksNamed
  <1>4. /\ NamedList(e.targets, ServerFields)
        /\ \A x \in Entries(d.targets) : x \in Entries(e.targets) \/ x = d.targets[k]
        /\ Named(e.targets, d.targets[k].name) = {}
    BY <1>2, <1>3 DEF Picked
  <1>5. KeepsServers(c, d, e)
    BY <1>4 DEF KeepsServers
  <1> QED BY <1>4, <1>5, ServersEdited

-----------------------------------------------------------------------------
(* The operations on providers *)

\* Which gap a change that is looked up by its name may have.
LEMMA KnownGapAs ==
  /\ /\ change'.op \in {"create-provider", "update-provider"}
     /\ change'.draft \in ProviderDrafts
     => (KnownGap' <=> change'.draft.cred = "$literal")
  /\ /\ change'.op \in {"create-model", "update-model"}
     /\ change'.draft \in ModelDrafts
     => (KnownGap' <=> \/ change'.draft.cred = "$literal"
                       \/ /\ change'.draft.upstream = "custom"
                          /\ change'.draft.expr = StripExpression(change'.draft.name))
  /\ /\ change'.op \in {"create-server", "update-server"}
     /\ change'.draft \in ServerDrafts
     => (KnownGap' <=> change'.draft.body = "omitted")
  /\ change'.op \notin {"create-provider", "update-provider", "create-model",
                        "update-model", "create-server", "update-server"}
     => ~KnownGap'
  <1> DEFINE r == change'.draft
  <1>1. ASSUME change'.op \in {"create-provider", "update-provider"},
               r \in ProviderDrafts
        PROVE  KnownGap' <=> r.cred = "$literal"
    <2>1. DOMAIN r = {"name", "kind", "cred"}
      BY <1>1, DocumentsAssumption
    <2> QED BY <1>1, <2>1 DEF KnownGap
  <1>2. ASSUME change'.op \in {"create-model", "update-model"}, r \in ModelDrafts
        PROVE  KnownGap' <=> \/ r.cred = "$literal"
                             \/ r.upstream = "custom" /\ r.expr = StripExpression(r.name)
    <2>1. DOMAIN r = {"name", "ref", "kind", "upstream", "expr", "cred"}
      BY <1>2, DocumentsAssumption
    <2> QED BY <1>2, <2>1 DEF KnownGap
  <1>3. ASSUME change'.op \in {"create-server", "update-server"},
               r \in ServerDrafts
        PROVE  KnownGap' <=> r.body = "omitted"
    <2>1. DOMAIN r = {"name", "transport", "body"}
      BY <1>3, DocumentsAssumption
    <2> QED BY <1>3, <2>1 DEF KnownGap
  <1>4. change'.op \notin {"create-provider", "update-provider", "create-model",
                        "update-model", "create-server", "update-server"}
        => ~KnownGap'
    BY DEF KnownGap
  <1> QED BY <1>1, <1>2, <1>3, <1>4

\* An entry that was written is found and matches its draft, but for the gap.
LEMMA ProviderConfirmed ==
  ASSUME NEW draft \in ProviderDrafts, NEW p, NEW B, ProviderBuilt(p, draft, B),
         NEW updating \in BOOLEAN,
         CredentialAllowed(draft.kind, draft.cred, updating),
         change'.op \in {"create-provider", "update-provider"},
         change'.draft = draft, WrittenIn(doc'.providers, B)
  PROVE  Verified' <=> ~KnownGap'
  <1>1. /\ B.kind = draft.kind /\ B.name = draft.name
        /\ B.key = MergedKey(p.key, draft.cred)
        /\ B.auth = MergedAuth(p.auth, draft.cred)
    BY DEF ProviderBuilt
  <1>2. Verified' <=> ProviderMatches(B, draft)
    <2>1. Verified' <=> \E i \in Found(doc'.providers, draft.name) :
                          ProviderMatches(doc'.providers[i], draft)
      BY VerifiedAs
    <2> QED BY <1>1, <2>1 DEF WrittenIn
  <1>3. draft.cred \in Credentials
    BY DocumentsAssumption
  <1>4. CredentialMatches(B, draft.cred) <=> draft.cred # "$literal"
    BY <1>1, <1>3, CredentialConfirmed
  <1>5. ProviderMatches(B, draft) <=> draft.cred # "$literal"
    BY <1>1, <1>4 DEF ProviderMatches
  <1> QED BY <1>2, <1>5, KnownGapAs

\* CreateProvider (createLLMProvider).
LEMMA CreateProviderStep ==
  ASSUME Safe(doc), NEW draft \in ProviderDrafts, CreateProvider(draft)
  PROVE  Step
  <1> DEFINE B == BuildProvider(NewProvider, draft)
             new == [doc EXCEPT !.providers = Append(doc.providers, B)]
  <1>1. /\ CredentialAllowed(draft.kind, draft.cred, FALSE)
        /\ ~NameExists(doc.providers, draft.name, 0)
        /\ PostDocument("create-provider", draft.name, draft, new)
    BY DEF CreateProvider
  <1>2. DOMAIN doc = Fields
    BY ShapedInParts DEF Safe
  <1>3. Edited(doc, new, {"providers"}) /\ new.providers = Append(doc.providers, B)
    BY <1>2, FieldEdited DEF Fields
  <1> HIDE DEF new
  <1>4. /\ doc' = new /\ change'.op = "create-provider" /\ change'.draft = draft
        /\ change' # NoChange
        /\ ~pending /\ pending' = TRUE /\ overwritten' = FALSE
    BY <1>1, IsAChange DEF PostDocument
  <1>5. DOMAIN NewProvider = ProviderFields
    BY DEF NewProvider, ProviderFields
  <1>6. ProviderBuilt(NewProvider, draft, B)
    BY <1>5, BuiltProvider
  <1> HIDE DEF B
  <1>7. DOMAIN B = ProviderFields /\ B.name = draft.name
    BY <1>6 DEF ProviderBuilt
  <1>8. /\ Safe(doc') /\ Keeps(change', doc, doc')
        /\ WrittenIn(doc'.providers, B)
    <2>1. /\ Edited(doc, doc', {"providers"})
          /\ doc'.providers = Append(doc.providers, B)
          /\ ~NameExists(doc.providers, B.name, 0)
      BY <1>1, <1>3, <1>4, <1>7
    <2> QED BY <1>7, <2>1, ProviderAdded
  <1>9. Verified' <=> ~KnownGap'
    BY <1>1, <1>4, <1>6, <1>8, ProviderConfirmed
  <1> QED BY <1>4, <1>8, <1>9 DEF Step

\* UpdateProvider: a provider that is referred to keeps its name.
LEMMA UpdateProviderStep ==
  ASSUME Safe(doc), NEW draft \in ProviderDrafts,
         NEW k \in DOMAIN doc.providers, UpdateProvider(k, draft)
  PROVE  Step
  <1> DEFINE p == doc.providers[k]
             B == BuildProvider(p, draft)
             new == [doc EXCEPT !.providers = [doc.providers EXCEPT ![k] = B]]
  <1>1. /\ CredentialAllowed(draft.kind, draft.cred, TRUE)
        /\ ~NameExists(doc.providers, draft.name, k)
        /\ p.name # draft.name => ReferringTo(p.name) = {}
        /\ PostDocument("update-provider", p.name, draft, new)
    BY DEF UpdateProvider
  <1>2. DOMAIN doc = Fields /\ DOMAIN p = ProviderFields
    BY ShapedInParts DEF Safe, LLMShaped
  <1>3. /\ Edited(doc, new, {"providers"})
        /\ new.providers = [doc.providers EXCEPT ![k] = B]
    BY <1>2, FieldEdited DEF Fields
  <1> HIDE DEF new
  <1>4. /\ doc' = new /\ change'.op = "update-provider" /\ change'.draft = draft
        /\ change'.target = p.name /\ change' # NoChange
        /\ ~pending /\ pending' = TRUE /\ overwritten' = FALSE
    BY <1>1, IsAChange DEF PostDocument
  <1>6. ProviderBuilt(p, draft, B)
    BY <1>2, BuiltProvider
  <1> HIDE DEF B
  <1>7. DOMAIN B = ProviderFields /\ B.name = draft.name /\ B.extra = p.extra
    BY <1>6 DEF ProviderBuilt
  <1>8. p.name # B.name => \A m \in Entries(doc.models) : m.ref # p.name
    BY <1>1, <1>7, EntriesAre DEF ReferringTo
  <1>9. /\ Safe(doc') /\ Keeps(change', doc, doc')
        /\ WrittenIn(doc'.providers, B)
    <2>1. /\ Edited(doc, doc', {"providers"})
          /\ doc'.providers = [doc.providers EXCEPT ![k] = B]
          /\ ~NameExists(doc.providers, B.name, k)
          /\ change'.draft.name = B.name
      BY <1>1, <1>3, <1>4, <1>7
    <2> QED BY <1>4, <1>7, <1>8, <2>1, ProviderReplaced
  <1>10. Verified' <=> ~KnownGap'
    BY <1>1, <1>4, <1>6, <1>9, ProviderConfirmed
  <1> QED BY <1>4, <1>9, <1>10 DEF Step
\* DeleteProvider: its models go with it, none of them the target of a
\* virtual one.
LEMMA DeleteProviderStep ==
  ASSUME Safe(doc), NEW k \in DOMAIN doc.providers, NEW cascade \in BOOLEAN,
         DeleteProvider(k, cascade)
  PROVE  Step
  <1> DEFINE name == doc.providers[k].name
             referring == ReferringTo(name)
             models == AllBut(doc.models, referring)
             providers == RemoveAt(doc.providers, k)
             new == [doc EXCEPT !.models = models, !.providers = providers]
             I == DOMAIN doc.providers \ {k}
             J == DOMAIN doc.models \ referring
  <1>1. /\ referring # {} => cascade
        /\ \A m \in referring : ~ModelReferenced(doc.models[m].name)
        /\ PostDocument("delete-provider", name, cascade, new)
    BY DEF DeleteProvider
  <1>2. /\ DOMAIN doc = Fields /\ IsList(doc.providers) /\ IsList(doc.models)
        /\ Unique(doc.providers)
    BY ShapedInParts, SoundInParts DEF Safe, LLMShaped, LLMSound
  <1>3. /\ Edited(doc, new, {"providers", "models"})
        /\ new.providers = providers /\ new.models = models
    <2> HIDE DEF providers, models
    <2> QED BY <1>2 DEF Fields, Edited
  <1> HIDE DEF new
  <1>4. /\ doc' = new /\ change'.op = "delete-provider" /\ change'.draft = cascade
        /\ change'.target = name /\ change' # NoChange
        /\ ~pending /\ pending' = TRUE /\ overwritten' = FALSE
    BY <1>1, IsAChange DEF PostDocument
  <1>5. /\ IsList(providers) /\ Picks(providers, doc.providers, I)
        /\ IsList(models) /\ Picks(models, doc.models, J)
    BY <1>2, RemoveList, AllButList
  <1>6. /\ I \subseteq DOMAIN doc.providers /\ J \subseteq DOMAIN doc.models
        /\ \A j \in DOMAIN doc.models \ J :
             doc.models[j].ref = name /\ doc.models[j].name \notin doc.virtual
        /\ \A i \in DOMAIN doc.providers \ I : i = k
        /\ \A j \in J : doc.models[j].ref # name
        /\ \A j \in DOMAIN doc.models \ J : cascade = TRUE
    BY <1>1 DEF ReferringTo, ModelReferenced
  <1> HIDE DEF I, J, providers, models, referring
  <1>7. MayGo(change', doc, I, J)
    BY <1>4, <1>6 DEF MayGo
  <1>8. /\ Safe(doc') /\ Keeps(change', doc, doc')
        /\ AreGone(doc, doc', I, J)
    <2>1. /\ Edited(doc, doc', {"providers", "models"})
          /\ IsList(doc'.providers) /\ Picks(doc'.providers, doc.providers, I)
          /\ IsList(doc'.models) /\ Picks(doc'.models, doc.models, J)
      BY <1>3, <1>4, <1>5
    <2> QED BY <1>6, <1>7, <2>1, LLMRemoved
  <1>9. Verified'
    <2>1. Named(doc'.providers, name) = {}
      BY <1>8 DEF I, AreGone
    <2>2. {i \in DOMAIN doc'.models : doc'.models[i].ref = name} = {}
      BY <1>6, <1>8, EntriesAre DEF AreGone
    <2> QED BY <1>4, <2>1, <2>2, VerifiedAs
  <1>10. ~KnownGap'
    BY <1>4, KnownGapAs
  <1> QED BY <1>4, <1>8, <1>9, <1>10 DEF Step

-----------------------------------------------------------------------------
(* The operations on models *)

\* A model that was built from a draft is read as the draft, but for the
\* known gaps.
LEMMA ModelConfirmed ==
  ASSUME NEW draft \in ModelDrafts, NEW m, NEW B, ModelBuilt(m, draft, B),
         NEW updating \in BOOLEAN, ModelDraftAllowed(draft, updating),
         change'.op \in {"create-model", "update-model"},
         change'.draft = draft, WrittenIn(doc'.models, B)
  PROVE  Verified' <=> ~KnownGap'
  <1> DEFINE gap == draft.upstream = "custom" /\ draft.expr = StripExpression(draft.name)
  <1>1. /\ B.kind = draft.kind /\ B.name = draft.name /\ B.ref = draft.ref
        /\ B.key = MergedKey(m.key, draft.cred)
        /\ B.auth = MergedAuth(m.auth, draft.cred)
        /\ B.explicit = (draft.upstream = "explicit")
        /\ B.expr = CASE draft.upstream = "strip" -> StripExpression(draft.name)
                      [] draft.upstream = "custom" -> draft.expr
                      [] OTHER -> <<>>
    BY Zenon DEF ModelBuilt
  <1>2. Verified' <=> ModelMatches(B, draft)
    <2>1. Verified' <=> \E i \in Found(doc'.models, draft.name) :
                          ModelMatches(doc'.models[i], draft)
      BY VerifiedAs
    <2> QED BY <1>1, <2>1 DEF WrittenIn
  <1>3. /\ draft.cred \in Credentials
        /\ CredentialAllowed(draft.kind, draft.cred, updating)
    BY DocumentsAssumption DEF ModelDraftAllowed
  <1>4. CredentialMatches(B, draft.cred) <=> draft.cred # "$literal"
    BY <1>1, <1>3, CredentialConfirmed
  <1>5. ModelUpstream(B) = <<draft.upstream, draft.expr>> <=> ~gap
    BY <1>1, UpstreamConfirmed
  <1> HIDE DEF gap
  <1>6. ModelMatches(B, draft) <=> ~gap /\ draft.cred # "$literal"
    BY <1>1, <1>4, <1>5 DEF ModelMatches
  <1>7. KnownGap' <=> draft.cred = "$literal" \/ gap
    BY KnownGapAs DEF gap
  <1> QED BY <1>2, <1>6, <1>7

\* CreateModel: the provider it names exists.
LEMMA CreateModelStep ==
  ASSUME Safe(doc), NEW draft \in ModelDrafts, CreateModel(draft)
  PROVE  Step
  <1> DEFINE B == BuildModel(NewModel, draft)
             new == [doc EXCEPT !.models = Append(doc.models, B)]
  <1>1. /\ ModelDraftAllowed(draft, FALSE)
        /\ ~NameExists(doc.models, draft.name, 0)
        /\ PostDocument("create-model", draft.name, draft, new)
    BY DEF CreateModel
  <1>2. DOMAIN doc = Fields
    BY ShapedInParts DEF Safe
  <1>3. Edited(doc, new, {"models"}) /\ new.models = Append(doc.models, B)
    BY <1>2, FieldEdited DEF Fields
  <1> HIDE DEF new
  <1>4. /\ doc' = new /\ change'.op = "create-model" /\ change'.draft = draft
        /\ change' # NoChange
        /\ ~pending /\ pending' = TRUE /\ overwritten' = FALSE
    BY <1>1, IsAChange DEF PostDocument
  <1>5. DOMAIN NewModel = ModelFields /\ NewModel.policies = {}
    BY DEF NewModel, ModelFields
  <1>6. ModelBuilt(NewModel, draft, B)
    BY <1>5, BuiltModel
  <1> HIDE DEF B
  <1>7. /\ DOMAIN B = ModelFields /\ B.name = draft.name /\ B.ref = draft.ref
        /\ B.policies = {}
    BY <1>5, <1>6 DEF ModelBuilt
  <1>8. ModelFits(doc.providers, B)
    BY <1>1, <1>7 DEF ModelFits, ModelDraftAllowed, NameExists, HasName, OneTLS
  <1>9. /\ Safe(doc') /\ Keeps(change', doc, doc')
        /\ WrittenIn(doc'.models, B)
    <2>1. /\ Edited(doc, doc', {"models"})
          /\ doc'.models = Append(doc.models, B)
          /\ ~NameExists(doc.models, B.name, 0)
      BY <1>1, <1>3, <1>4, <1>7
    <2> QED BY <1>7, <1>8, <2>1, ModelAdded
  <1>10. Verified' <=> ~KnownGap'
    BY <1>1, <1>4, <1>6, <1>9, ModelConfirmed
  <1> QED BY <1>4, <1>9, <1>10 DEF Step

\* UpdateModel: its provider stays, and its name if a virtual model needs it.
LEMMA UpdateModelStep ==
  ASSUME Safe(doc), NEW draft \in ModelDrafts, NEW k \in DOMAIN doc.models,
         UpdateModel(k, draft)
  PROVE  Step
  <1> DEFINE m == doc.models[k]
             B == BuildModel(m, draft)
             new == [doc EXCEPT !.models = [doc.models EXCEPT ![k] = B]]
  <1>1. /\ ModelDraftAllowed(draft, TRUE)
        /\ ~NameExists(doc.models, draft.name, k)
        /\ m.name # draft.name => m.name \notin doc.virtual
        /\ PostDocument("update-model", m.name, draft, new)
    BY DEF UpdateModel, ModelReferenced
  <1>2. DOMAIN doc = Fields /\ DOMAIN m = ModelFields
    BY ShapedInParts DEF Safe, LLMShaped
  <1>3. /\ Edited(doc, new, {"models"})
        /\ new.models = [doc.models EXCEPT ![k] = B]
    BY <1>2, FieldEdited DEF Fields
  <1> HIDE DEF new
  <1>4. /\ doc' = new /\ change'.op = "update-model" /\ change'.draft = draft
        /\ change'.target = m.name /\ change' # NoChange
        /\ ~pending /\ pending' = TRUE /\ overwritten' = FALSE
    BY <1>1, IsAChange DEF PostDocument
  <1>6. ModelBuilt(m, draft, B)
    BY <1>2, BuiltModel
  <1>0. m \in Entries(doc.models)
    BY EntriesAre
  <1> HIDE DEF B
  <1>7. /\ DOMAIN B = ModelFields /\ B.name = draft.name /\ B.ref = draft.ref
        /\ B.policies = m.policies
    BY <1>6 DEF ModelBuilt
  <1>8. ModelFits(doc.providers, B)
    <2>1. ModelFits(doc.providers, m)
      BY <1>0, LLMBefore
    <2>2. B.ref # "" => HasName(doc.providers, B.ref)
      BY <1>1, <1>7 DEF ModelDraftAllowed, NameExists, HasName
    <2> QED BY <1>7, <2>1, <2>2 DEF ModelFits, OneTLS
  <1>9. /\ Safe(doc') /\ Keeps(change', doc, doc')
        /\ WrittenIn(doc'.models, B)
    <2>1. /\ Edited(doc, doc', {"models"})
          /\ doc'.models = [doc.models EXCEPT ![k] = B]
          /\ ~NameExists(doc.models, B.name, k)
          /\ change'.draft.name = B.name
          /\ m.name # B.name => m.name \notin doc.virtual
      BY <1>1, <1>3, <1>4, <1>7
    <2> QED BY <1>4, <1>7, <1>8, <2>1, ModelReplaced
  <1>10. Verified' <=> ~KnownGap'
    BY <1>1, <1>4, <1>6, <1>9, ModelConfirmed
  <1> QED BY <1>4, <1>9, <1>10 DEF Step

\* DeleteModel: no virtual model needs it.
LEMMA DeleteModelStep ==
  ASSUME Safe(doc), NEW k \in DOMAIN doc.models, DeleteModel(k)
  PROVE  Step
  <1> DEFINE name == doc.models[k].name
             models == RemoveAt(doc.models, k)
             new == [doc EXCEPT !.models = models]
             I == DOMAIN doc.providers
             J == DOMAIN doc.models \ {k}
  <1>1. /\ name \notin doc.virtual
        /\ PostDocument("delete-model", name, FALSE, new)
    BY DEF DeleteModel, ModelReferenced
  <1>2. /\ DOMAIN doc = Fields /\ IsList(doc.providers) /\ IsList(doc.models)
    BY ShapedInParts DEF Safe, LLMShaped
  <1>3. /\ Edited(doc, new, {"providers", "models"})
        /\ new.providers = doc.providers /\ new.models = models
    <2> HIDE DEF models
    <2> QED BY <1>2 DEF Fields, Edited
  <1> HIDE DEF new
  <1>4. /\ doc' = new /\ change'.op = "delete-model"
        /\ change'.target = name /\ change' # NoChange
        /\ ~pending /\ pending' = TRUE /\ overwritten' = FALSE
    BY <1>1, IsAChange DEF PostDocument
  <1>5. /\ IsList(models) /\ Picks(models, doc.models, J)
        /\ Picks(doc.providers, doc.providers, I)
    <2>1. IsList(models) /\ Picks(models, doc.models, J)
      BY <1>2, RemoveList
    <2>2. Picks(doc.providers, doc.providers, I)
      <3> DEFINE f == [i \in I |-> i]
      <3>1. /\ f \in [I -> I] /\ \A i \in I : f[i] = i
        OBVIOUS
      <3> HIDE DEF f
      <3> QED BY <3>1 DEF Picks
    <2> QED BY <2>1, <2>2
  <1>6. /\ I \subseteq DOMAIN doc.providers /\ J \subseteq DOMAIN doc.models
        /\ \A j \in DOMAIN doc.models \ J : j = k
        /\ \A i \in DOMAIN doc.providers \ I : FALSE
        /\ k \in DOMAIN doc.models \ J
    OBVIOUS
  <1> HIDE DEF I, J, models
  <1>7. MayGo(change', doc, I, J)
    BY <1>1, <1>4, <1>6 DEF MayGo
  <1>8. /\ Safe(doc') /\ Keeps(change', doc, doc')
        /\ AreGone(doc, doc', I, J)
    <2>1. /\ Edited(doc, doc', {"providers", "models"})
          /\ IsList(doc'.providers) /\ Picks(doc'.providers, doc.providers, I)
          /\ IsList(doc'.models) /\ Picks(doc'.models, doc.models, J)
      BY <1>2, <1>3, <1>4, <1>5
    <2> QED BY <1>6, <1>7, <2>1, LLMRemoved
  <1>9. Verified'
    BY <1>4, <1>6, <1>8, VerifiedAs DEF AreGone
  <1>10. ~KnownGap'
    BY <1>4, KnownGapAs
  <1> QED BY <1>4, <1>8, <1>9, <1>10 DEF Step
-----------------------------------------------------------------------------
(* The operations on MCP servers and settings *)

\* A server that was encoded is read as the draft, unless the draft left its
\* lists out.
LEMMA ServerConfirmed ==
  ASSUME NEW draft \in ServerDrafts, NEW s, NEW B, ServerEncoded(s, draft, B),
         change'.op \in {"create-server", "update-server"},
         change'.draft = draft, WrittenIn(doc'.targets, B)
  PROVE  Verified' <=> ~KnownGap'
  <1>1. B.name = draft.name /\ B.transport = draft.transport /\ B.body = draft.body
    BY DEF ServerEncoded
  <1>2. Verified' <=> ServerMatches(B, draft)
    <2>1. Verified' <=> \E i \in Found(doc'.targets, draft.name) :
                          ServerMatches(doc'.targets[i], draft)
      BY VerifiedAs
    <2> QED BY <1>1, <2>1 DEF WrittenIn
  <1>3. ServerMatches(B, draft) <=> draft.body # "omitted"
    BY <1>1 DEF ServerMatches, ReadBody
  <1> QED BY <1>2, <1>3, KnownGapAs

\* CreateServer.
LEMMA CreateServerStep ==
  ASSUME Safe(doc), NEW draft \in ServerDrafts, CreateServer(draft)
  PROVE  Step
  <1> DEFINE empty == [name |-> "", extra |-> "none", transport |-> "", body |-> ""]
             B == EncodeServer(empty, draft)
             new == [doc EXCEPT !.targets = Append(doc.targets, B)]
  <1>1. /\ ~NameExists(doc.targets, draft.name, 0)
        /\ PostDocument("create-server", draft.name, draft, new)
    BY DEF CreateServer
  <1>2. DOMAIN doc = Fields
    BY ShapedInParts DEF Safe
  <1>3. Edited(doc, new, {"targets"}) /\ new.targets = Append(doc.targets, B)
    BY <1>2, FieldEdited DEF Fields
  <1> HIDE DEF new
  <1>4. /\ doc' = new /\ change'.op = "create-server" /\ change'.draft = draft
        /\ change' # NoChange
        /\ ~pending /\ pending' = TRUE /\ overwritten' = FALSE
    BY <1>1, IsAChange DEF PostDocument
  <1>5. DOMAIN empty = ServerFields
    BY DEF ServerFields
  <1>6. ServerEncoded(empty, draft, B)
    <2> HIDE DEF empty
    <2> QED BY <1>5, EncodedServer
  <1> HIDE DEF B, empty
  <1>7. DOMAIN B = ServerFields /\ B.name = draft.name
    BY <1>6 DEF ServerEncoded
  <1>8. /\ Safe(doc') /\ Keeps(change', doc, doc') /\ WrittenIn(doc'.targets, B)
    <2>1. /\ Edited(doc, doc', {"targets"})
          /\ doc'.targets = Append(doc.targets, B)
          /\ ~NameExists(doc.targets, B.name, 0)
      BY <1>1, <1>3, <1>4, <1>7
    <2> QED BY <1>7, <2>1, ServerAdded
  <1>9. Verified' <=> ~KnownGap'
    BY <1>4, <1>6, <1>8, ServerConfirmed
  <1> QED BY <1>4, <1>8, <1>9 DEF Step

\* UpdateServer: only a server the BFF can edit.
LEMMA UpdateServerStep ==
  ASSUME Safe(doc), NEW draft \in ServerDrafts, NEW k \in DOMAIN doc.targets,
         UpdateServer(k, draft)
  PROVE  Step
  <1> DEFINE s == doc.targets[k]
             B == EncodeServer(s, draft)
             new == [doc EXCEPT !.targets = [doc.targets EXCEPT ![k] = B]]
  <1>1. /\ s.transport # "openapi"
        /\ ~NameExists(doc.targets, draft.name, k)
        /\ PostDocument("update-server", s.name, draft, new)
    BY DEF UpdateServer, Editable
  <1>2. DOMAIN doc = Fields /\ DOMAIN s = ServerFields
    BY ShapedInParts DEF Safe, MCPShaped
  <1>3. /\ Edited(doc, new, {"targets"})
        /\ new.targets = [doc.targets EXCEPT ![k] = B]
    BY <1>2, FieldEdited DEF Fields
  <1> HIDE DEF new
  <1>4. /\ doc' = new /\ change'.op = "update-server" /\ change'.draft = draft
        /\ change'.target = s.name /\ change' # NoChange
        /\ ~pending /\ pending' = TRUE /\ overwritten' = FALSE
    BY <1>1, IsAChange DEF PostDocument
  <1>6. ServerEncoded(s, draft, B)
    BY <1>2, EncodedServer
  <1> HIDE DEF B
  <1>7. DOMAIN B = ServerFields /\ B.name = draft.name /\ B.extra = s.extra
    BY <1>6 DEF ServerEncoded
  <1>8. /\ Safe(doc') /\ Keeps(change', doc, doc') /\ WrittenIn(doc'.targets, B)
    <2>1. /\ Edited(doc, doc', {"targets"})
          /\ doc'.targets = [doc.targets EXCEPT ![k] = B]
          /\ ~NameExists(doc.targets, B.name, k)
          /\ change'.draft.name = B.name
      BY <1>1, <1>3, <1>4, <1>7
    <2> QED BY <1>1, <1>4, <1>7, <2>1, ServerReplaced
  <1>9. Verified' <=> ~KnownGap'
    BY <1>4, <1>6, <1>8, ServerConfirmed
  <1> QED BY <1>4, <1>8, <1>9 DEF Step

\* DeleteServer: only a server the BFF can edit.
LEMMA DeleteServerStep ==
  ASSUME Safe(doc), NEW k \in DOMAIN doc.targets, DeleteServer(k)
  PROVE  Step
  <1> DEFINE s == doc.targets[k]
             new == [doc EXCEPT !.targets = RemoveAt(doc.targets, k)]
  <1>1. /\ s.transport # "openapi"
        /\ PostDocument("delete-server", s.name, FALSE, new)
    BY DEF DeleteServer, Editable
  <1>2. DOMAIN doc = Fields
    BY ShapedInParts DEF Safe
  <1>3. Edited(doc, new, {"targets"}) /\ new.targets = RemoveAt(doc.targets, k)
    BY <1>2, FieldEdited DEF Fields
  <1> HIDE DEF new
  <1>4. /\ doc' = new /\ change'.op = "delete-server"
        /\ change'.target = s.name /\ change' # NoChange
        /\ ~pending /\ pending' = TRUE /\ overwritten' = FALSE
    BY <1>1, IsAChange DEF PostDocument
  <1>5. /\ Safe(doc') /\ Keeps(change', doc, doc')
        /\ Named(doc'.targets, s.name) = {}
    BY <1>1, <1>3, <1>4, ServerRemoved
  <1>6. Verified' /\ ~KnownGap'
    BY <1>4, <1>5, VerifiedAs, KnownGapAs
  <1> QED BY <1>4, <1>5, <1>6 DEF Step

\* UpdateSettings: the settings are compared with the draft.
LEMMA UpdateSettingsStep ==
  ASSUME Safe(doc), NEW settings, UpdateSettings(settings)
  PROVE  Step
  <1> DEFINE new == [doc EXCEPT !.settings = settings]
  <1>1. PostDocument("update-settings", "settings", settings, new)
    BY DEF UpdateSettings
  <1>2. DOMAIN doc = Fields
    BY ShapedInParts DEF Safe
  <1>3. Edited(doc, new, {"settings"}) /\ new.settings = settings
    BY <1>2, FieldEdited DEF Fields
  <1> HIDE DEF new
  <1>4. /\ doc' = new /\ change'.op = "update-settings"
        /\ change'.draft = settings /\ change' # NoChange
        /\ ~pending /\ pending' = TRUE /\ overwritten' = FALSE
    BY <1>1, IsAChange DEF PostDocument
  <1>5. /\ Safe(doc') /\ Keeps(change', doc, doc')
    <2>1. /\ DOMAIN doc' = Fields /\ doc'.targets = doc.targets
          /\ Edited(doc, doc', {"targets", "settings"})
      BY <1>3, <1>4 DEF Edited, Fields
    <2> QED BY <2>1, PartsKept, EditsAreLocal
  <1>6. Verified' /\ ~KnownGap'
    BY <1>3, <1>4, VerifiedAs, KnownGapAs
  <1> QED BY <1>4, <1>5, <1>6 DEF Step

-----------------------------------------------------------------------------
(* The operations on policies *)

\* A policy of the gateway is set or switched off.
LEMMA GlobalPolicyEdited ==
  ASSUME NEW d, NEW c, Safe(d), NEW family \in Families, NEW key,
         key # "unlisted", NEW value
  PROVE  LET e == [d EXCEPT ![family] = [d[family] EXCEPT ![key] = value]]
         IN  Safe(e) /\ Keeps(c, d, e)
  <1> DEFINE e == [d EXCEPT ![family] = [d[family] EXCEPT ![key] = value]]
  <1>1. /\ DOMAIN d = Fields /\ DOMAIN d.llmPolicies = PolicyKeys
        /\ DOMAIN d.mcpPolicies = PolicyKeys
    BY ShapedInParts DEF Safe, PoliciesShaped
  <1>2. \A f \in Families : DOMAIN d[f] = PolicyKeys /\ f \in Fields
    BY <1>1 DEF Families, Fields
  <1>3. /\ DOMAIN e = Fields
        /\ \A f \in Fields \ {family} : e[f] = d[f]
        /\ e[family] = [d[family] EXCEPT ![key] = value]
    BY <1>1, <1>2
  <1> HIDE DEF e
  <1>4. Edited(d, e, Families)
    BY <1>3 DEF Edited
  <1>5. \A f \in Families : /\ DOMAIN e[f] = PolicyKeys
                            /\ e[f]["unlisted"] = d[f]["unlisted"]
    <2>1. "unlisted" \in PolicyKeys
      BY DocumentsAssumption
    <2> TAKE f \in Families
    <2>2. CASE f = family
      BY <1>2, <1>3, <2>1, <2>2
    <2>3. CASE f # family
      BY <1>2, <1>3, <2>3
    <2> QED BY <2>2, <2>3
  <1>6. PoliciesShaped(e) /\ KeepsUnlisted(d, e)
    BY <1>5 DEF PoliciesShaped, KeepsUnlisted, Families
  <1>7. Safe(e) /\ Keeps(c, d, e)
    BY <1>4, <1>6, EditsAreLocal
  <1> QED BY <1>7 DEF e

\* SetGlobalPolicy: the policies outside the catalogue stay.
LEMMA SetGlobalPolicyStep ==
  ASSUME Safe(doc), NEW family \in Families, NEW key, NEW value,
         SetGlobalPolicy(family, key, value)
  PROVE  Step
  <1> DEFINE new == [doc EXCEPT ![family] = [doc[family] EXCEPT ![key] = value]]
  <1>1. key # "unlisted" /\ PostDocument("set-policy", key, value, new)
    BY DEF SetGlobalPolicy
  <1>2. Safe(new) /\ \A c : Keeps(c, doc, new)
    BY <1>1, GlobalPolicyEdited
  <1> HIDE DEF new
  <1>3. /\ doc' = new /\ change'.op = "set-policy" /\ change'.expected = doc'
        /\ ~pending /\ pending' = TRUE /\ overwritten' = FALSE
    BY <1>1 DEF PostDocument
  <1>4. change'.op \in WholeDocument
    BY <1>3 DEF WholeDocument
  <1> QED BY <1>2, <1>3, <1>4, PlainStep

\* DeleteGlobalPolicy: the policies outside the catalogue stay.
LEMMA DeleteGlobalPolicyStep ==
  ASSUME Safe(doc), NEW family \in Families, NEW key,
         DeleteGlobalPolicy(family, key)
  PROVE  Step
  <1> DEFINE off == Disabled(family, key)
             new == [doc EXCEPT ![family] = [doc[family] EXCEPT ![key] = off]]
  <1>1. key # "unlisted" /\ PostDocument("delete-policy", key, FALSE, new)
    BY DEF DeleteGlobalPolicy
  <1> HIDE DEF off
  <1>2. Safe(new) /\ \A c : Keeps(c, doc, new)
    BY <1>1, GlobalPolicyEdited
  <1> HIDE DEF new
  <1>3. /\ doc' = new /\ change'.op = "delete-policy" /\ change'.expected = doc'
        /\ ~pending /\ pending' = TRUE /\ overwritten' = FALSE
    BY <1>1 DEF PostDocument
  <1>4. change'.op \in WholeDocument
    BY <1>3 DEF WholeDocument
  <1> QED BY <1>2, <1>3, <1>4, PlainStep

\* A policy of a model changes one field of it, and never makes it hold both
\* TLS policies.
LEMMA ModelPolicyStep ==
  ASSUME Safe(doc), NEW k \in DOMAIN doc.models, NEW B,
         SameModel(B, doc.models[k]), OneTLS(B),
         Edited(doc, doc', {"models"}),
         doc'.models = [doc.models EXCEPT ![k] = B],
         change'.op = "model-policy", change'.expected = doc',
         change'.target = doc.models[k].name,
         ~pending, pending' = TRUE, overwritten' = FALSE
  PROVE  Step
  <1> DEFINE m == doc.models[k]
  <1>2. Unique(doc.models)
    BY SoundInParts DEF Safe, LLMSound
  <1>5. m \in Entries(doc.models)
    BY EntriesAre
  <1>6. B.name = m.name /\ B.ref = m.ref
    BY DEF ModelFields, SameModel
  <1>7. ModelFits(doc.providers, B)
    <2>1. ModelFits(doc.providers, m)
      BY <1>5, LLMBefore
    <2> QED BY <1>6, <2>1 DEF ModelFits
  <1>8. ~NameExists(doc.models, B.name, k)
    BY <1>2, <1>6 DEF NameExists, Unique
  <1>9. Safe(doc') /\ Keeps(change', doc, doc')
    <2>1. DOMAIN B = ModelFields
      BY DEF SameModel
    <2>2. m.name # B.name => m.name \notin doc.virtual
      BY <1>6
    <2> QED BY <1>7, <1>8, <2>1, <2>2, ModelReplaced
  <1>10. change'.op \in WholeDocument
    BY DEF WholeDocument
  <1> QED BY <1>9, <1>10, PlainStep

\* SetModelPolicy: never both TLS policies.
LEMMA SetModelPolicyStep ==
  ASSUME Safe(doc), NEW k \in DOMAIN doc.models, NEW key \in ModelPolicyKeys,
         NEW expr, SetModelPolicy(k, key, expr)
  PROVE  Step
  <1> DEFINE m == doc.models[k]
             B == WithPolicy(m, key, expr)
  <1>1. /\ key = "tls" => "backendTLS" \notin m.policies
        /\ key = "backendTLS" => "tls" \notin m.policies
        /\ PostDocument("model-policy", m.name, key,
                        [doc EXCEPT !.models = [doc.models EXCEPT ![k] = B]])
    BY DEF SetModelPolicy
  <1>2. DOMAIN m = ModelFields /\ m \in Entries(doc.models)
    BY ShapedInParts, EntriesAre DEF Safe, LLMShaped
  <1>3. OneTLS(m)
    BY <1>2, LLMBefore DEF ModelFits
  <1>4. SameModel(B, m)
    BY <1>2 DEF ModelFields, WithPolicy, SameModel
  <1>5. B.policies = IF key \in {"auth", "transformation"} THEN m.policies
                     ELSE m.policies \cup {key}
    BY <1>2 DEF ModelFields, WithPolicy
  <1>6. OneTLS(B)
    <2> HIDE DEF B
    <2> QED BY <1>1, <1>3, <1>5 DEF OneTLS
  <1> HIDE DEF B
  <1>7. /\ doc' = [doc EXCEPT !.models = [doc.models EXCEPT ![k] = B]]
        /\ change'.op = "model-policy" /\ change'.expected = doc'
        /\ change'.target = m.name
        /\ ~pending /\ pending' = TRUE /\ overwritten' = FALSE
    BY <1>1 DEF PostDocument
  <1>8. /\ Edited(doc, doc', {"models"})
        /\ doc'.models = [doc.models EXCEPT ![k] = B]
    <2>1. DOMAIN doc = Fields
      BY ShapedInParts DEF Safe
    <2> QED BY <1>7, <2>1, FieldEdited DEF Fields
  <1> QED BY <1>4, <1>6, <1>7, <1>8, ModelPolicyStep

\* DeleteModelPolicy.
LEMMA DeleteModelPolicyStep ==
  ASSUME Safe(doc), NEW k \in DOMAIN doc.models, NEW key \in ModelPolicyKeys,
         DeleteModelPolicy(k, key)
  PROVE  Step
  <1> DEFINE m == doc.models[k]
             B == WithoutPolicy(m, key)
  <1>1. PostDocument("model-policy", m.name, key,
                     [doc EXCEPT !.models = [doc.models EXCEPT ![k] = B]])
    BY DEF DeleteModelPolicy
  <1>2. DOMAIN m = ModelFields /\ m \in Entries(doc.models)
    BY ShapedInParts, EntriesAre DEF Safe, LLMShaped
  <1>3. OneTLS(m)
    BY <1>2, LLMBefore DEF ModelFits
  <1>4. SameModel(B, m)
    BY <1>2 DEF ModelFields, WithoutPolicy, SameModel
  <1>5. B.policies = IF key \in {"auth", "transformation"} THEN m.policies
                     ELSE m.policies \ {key}
    BY <1>2 DEF ModelFields, WithoutPolicy
  <1>6. OneTLS(B)
    <2> HIDE DEF B
    <2> QED BY <1>3, <1>5 DEF OneTLS
  <1> HIDE DEF B
  <1>7. /\ doc' = [doc EXCEPT !.models = [doc.models EXCEPT ![k] = B]]
        /\ change'.op = "model-policy" /\ change'.expected = doc'
        /\ change'.target = m.name
        /\ ~pending /\ pending' = TRUE /\ overwritten' = FALSE
    BY <1>1 DEF PostDocument
  <1>8. /\ Edited(doc, doc', {"models"})
        /\ doc'.models = [doc.models EXCEPT ![k] = B]
    <2>1. DOMAIN doc = Fields
      BY ShapedInParts DEF Safe
    <2> QED BY <1>7, <2>1, FieldEdited DEF Fields
  <1> QED BY <1>4, <1>6, <1>7, <1>8, ModelPolicyStep
-----------------------------------------------------------------------------
(* Binds, listeners and routes *)

ListenerFine(l) ==
    /\ DOMAIN l = {"kind", "ns", "extra", "http", "tcp"}
    /\ l.kind \in {"http", "tcp"} /\ IsList(l.http) /\ IsList(l.tcp)
    /\ RoutesMatch(l)
BindFine(b) ==
    /\ DOMAIN b = {"port", "listeners"} /\ IsList(b.listeners)
    /\ \A i \in DOMAIN b.listeners : ListenerFine(b.listeners[i])
BindsFine(binds) ==
    /\ IsList(binds) /\ PortsDiffer(binds)
    /\ \A i \in DOMAIN binds : BindFine(binds[i])

\* The traffic of a document in terms of its binds.
LEMMA TrafficParts ==
  ASSUME NEW d
  PROVE  TrafficShaped(d) /\ TrafficSound(d) <=> BindsFine(d.binds)
  <1>1. ASSUME NEW b
        PROVE  BindFine(b) <=> /\ BindShaped(b)
                               /\ \A l \in Entries(b.listeners) : RoutesMatch(l)
    BY EntriesAre DEF BindFine, BindShaped, ListenerFine
  <1>2. (\A b \in Entries(d.binds) : \A l \in Entries(b.listeners) : RoutesMatch(l))
          <=> \A i \in DOMAIN d.binds :
                \A l \in Entries(d.binds[i].listeners) : RoutesMatch(l)
    BY EntriesAre
  <1> QED BY <1>1, <1>2 DEF TrafficShaped, TrafficSound, BindsFine

\* What a safe document says of its binds.
LEMMA TrafficBefore ==
  ASSUME NEW d, Safe(d)
  PROVE  BindsFine(d.binds) /\ DOMAIN d = Fields
  BY ShapedInParts, SoundInParts, TrafficParts DEF Safe

\* The routes are counted, and no route is lost when none leaves the set.
LEMMA RoutesKept ==
  ASSUME NEW c, NEW d, NEW e, TrafficShaped(d), TrafficShaped(e),
         Routes(d) \subseteq Routes(e)
  PROVE  KeepsRoutes(c, d, e)
  <1>1. IsFiniteSet(Routes(e)) /\ RouteCount(e) \in Nat /\ RouteCount(d) \in Nat
    BY RoutesAreFinite
  <1>2. RouteCount(d) <= RouteCount(e)
    BY <1>1, FS_Subset DEF RouteCount
  <1>3. ~(RouteCount(e) < RouteCount(d))
    BY <1>1, <1>2
  <1> QED BY <1>3 DEF KeepsRoutes

\* No route is lost when each of them has a place of its own afterwards.
LEMMA RoutesMoved ==
  ASSUME NEW c, NEW d, NEW e, TrafficShaped(d), TrafficShaped(e),
         NEW f \in Injection(Routes(d), Routes(e))
  PROVE  KeepsRoutes(c, d, e)
  <1>1. /\ IsFiniteSet(Routes(d)) /\ IsFiniteSet(Routes(e))
        /\ RouteCount(e) \in Nat /\ RouteCount(d) \in Nat
    BY RoutesAreFinite
  <1>2. RouteCount(d) <= RouteCount(e)
    BY <1>1, FS_Injection DEF RouteCount
  <1>3. ~(RouteCount(e) < RouteCount(d))
    BY <1>1, <1>2
  <1> QED BY <1>3 DEF KeepsRoutes

\* What a change of binds has to show.
LEMMA TrafficEdited ==
  ASSUME NEW c, NEW d, NEW e, Safe(d), Edited(d, e, {"binds"}),
         BindsFine(e.binds), KeepsRoutes(c, d, e), KeepsListeners(c, d, e)
  PROVE  Safe(e) /\ Keeps(c, d, e)
  BY TrafficParts, EditsAreLocal

\* What a replaced bind and a replaced listener have to show.
LEMMA BindReplaced ==
  ASSUME NEW binds, BindsFine(binds), NEW k \in DOMAIN binds, NEW B, BindFine(B),
         B.port = binds[k].port \/ ~PortExists(binds, B.port, k),
         NEW t, t = [binds EXCEPT ![k] = B]
  PROVE  BindsFine(t)
  <1>1. /\ IsList(t) /\ DOMAIN t = DOMAIN binds /\ t[k] = B
        /\ \A i \in DOMAIN binds \ {k} : t[i] = binds[i]
    BY ReplaceList DEF BindsFine
  <1>2. \A i \in DOMAIN t : BindFine(t[i])
    BY <1>1 DEF BindsFine
  <1>3. PortsDiffer(t)
    BY <1>1 DEF BindsFine, PortsDiffer, PortExists
  <1> QED BY <1>1, <1>2, <1>3 DEF BindsFine

\* A route <<b, l, kind, r>> of a document.
HasRoute(binds, b, l, kind, r) ==
    /\ b \in DOMAIN binds /\ l \in DOMAIN binds[b].listeners
    /\ \/ kind = "http" /\ r \in DOMAIN binds[b].listeners[l].http
       \/ kind = "tcp" /\ r \in DOMAIN binds[b].listeners[l].tcp
\* The routes of a document, one by one.
LEMMA RoutesHave ==
  ASSUME NEW d
  PROVE  /\ \A x \in Routes(d) : \E b, l, kind, r :
              x = <<b, l, kind, r>> /\ HasRoute(d.binds, b, l, kind, r)
         /\ \A b, l, kind, r :
              HasRoute(d.binds, b, l, kind, r) => <<b, l, kind, r>> \in Routes(d)
  BY RoutesAre DEF HasRoute

\* No route is lost when each of them stays where it is.
LEMMA RoutesGrow ==
  ASSUME NEW c, NEW d, NEW e, TrafficShaped(d), TrafficShaped(e),
         \A b, l, kind, r : HasRoute(d.binds, b, l, kind, r) =>
                              HasRoute(e.binds, b, l, kind, r)
  PROVE  KeepsRoutes(c, d, e)
  <1>1. ASSUME NEW x \in Routes(d) PROVE x \in Routes(e)
    <2>1. PICK b, l, kind, r :
            x = <<b, l, kind, r>> /\ HasRoute(d.binds, b, l, kind, r)
      BY RoutesHave
    <2> QED BY <2>1, RoutesHave
  <1> QED BY <1>1, RoutesKept

\* A change that compares the whole document and edits the binds alone.
LEMMA TrafficStep ==
  ASSUME Safe(doc), Edited(doc, doc', {"binds"}), BindsFine(doc'.binds),
         KeepsRoutes(change', doc, doc'), KeepsListeners(change', doc, doc'),
         change'.op \in WholeDocument, change'.expected = doc',
         ~pending, pending' = TRUE, overwritten' = FALSE
  PROVE  Step
  <1>1. Safe(doc') /\ Keeps(change', doc, doc')
    BY TrafficEdited
  <1> QED BY <1>1, PlainStep

\* CreateBind: its port is free.
LEMMA CreateBindStep ==
  ASSUME Safe(doc), NEW port, CreateBind(port)
  PROVE  Step
  <1> DEFINE none == <<>>
             B == [port |-> port, listeners |-> none]
             new == [doc EXCEPT !.binds = Append(doc.binds, B)]
  <1>1. /\ ~PortExists(doc.binds, port, 0)
        /\ PostDocument("create-bind", "traffic", FALSE, new)
    BY DEF CreateBind
  <1>2. BindsFine(doc.binds) /\ DOMAIN doc = Fields
    BY TrafficBefore
  <1>3. Edited(doc, new, {"binds"}) /\ new.binds = Append(doc.binds, B)
    BY <1>2, FieldEdited DEF Fields
  <1> HIDE DEF new
  <1>4. /\ doc' = new /\ change'.op = "create-bind" /\ change'.expected = doc'
        /\ ~pending /\ pending' = TRUE /\ overwritten' = FALSE
    BY <1>1 DEF PostDocument
  <1>5. IsList(none) /\ DOMAIN none = {}
    BY EmptyList
  <1> HIDE DEF none
  <1>6. BindFine(B) /\ B.port = port
    BY <1>5 DEF BindFine
  <1> HIDE DEF B
  <1> DEFINE s == doc.binds
             t == doc'.binds
  <1>7. /\ IsList(t) /\ DOMAIN t = 1..Len(s) + 1 /\ t[Len(s) + 1] = B
        /\ \A i \in DOMAIN s : t[i] = s[i]
        /\ DOMAIN s = 1..Len(s) /\ Len(s) \in Nat
    <2>1. t = Append(s, B) /\ IsList(s)
      BY <1>2, <1>3, <1>4 DEF BindsFine
    <2> HIDE DEF s, t
    <2> QED BY <2>1, AppendList, ListIsSeq
  <1> HIDE DEF s, t
  <1>8. /\ \A i \in DOMAIN t : i \in DOMAIN s \/ i = Len(s) + 1
        /\ \A i \in DOMAIN s : i \in DOMAIN t /\ i # 0
    BY <1>7
  <1>9. BindsFine(t)
    <2>0. BindsFine(s)
      BY <1>2 DEF s
    <2>1. \A i \in DOMAIN t : BindFine(t[i])
      BY <1>6, <1>7, <1>8, <2>0 DEF BindsFine
    <2>2. \A i \in DOMAIN s : s[i].port # port
      BY <1>1, <1>8 DEF PortExists, s
    <2>3. PortsDiffer(t)
      BY <1>6, <1>7, <1>8, <2>0, <2>2 DEF BindsFine, PortsDiffer
    <2> QED BY <1>7, <2>1, <2>3 DEF BindsFine
  <1>10. KeepsRoutes(change', doc, doc')
    <2>1. \A b, l, kind, r : HasRoute(s, b, l, kind, r) => HasRoute(t, b, l, kind, r)
      BY <1>7, <1>8 DEF HasRoute
    <2>2. TrafficShaped(doc) /\ TrafficShaped(doc')
      BY <1>2, <1>9, TrafficParts DEF t
    <2> QED BY <2>1, <2>2, RoutesGrow DEF s, t
  <1>11. KeepsListeners(change', doc, doc') /\ change'.op \in WholeDocument
    BY <1>4 DEF KeepsListeners, WholeDocument
  <1> QED BY <1>3, <1>4, <1>9, <1>10, <1>11, TrafficStep DEF t
\* UpdateBind: its port is free, its listeners stay.
LEMMA UpdateBindStep ==
  ASSUME Safe(doc), NEW k \in DOMAIN doc.binds, NEW port, UpdateBind(k, port)
  PROVE  Step
  <1> DEFINE b == doc.binds[k]
             B == [b EXCEPT !.port = port]
             new == [doc EXCEPT !.binds = [doc.binds EXCEPT ![k] = B]]
  <1>1. /\ ~PortExists(doc.binds, port, k)
        /\ PostDocument("update-bind", "traffic", FALSE, new)
    BY DEF UpdateBind
  <1>2. BindsFine(doc.binds) /\ DOMAIN doc = Fields
    BY TrafficBefore
  <1>3. Edited(doc, new, {"binds"}) /\ new.binds = [doc.binds EXCEPT ![k] = B]
    BY <1>2, FieldEdited DEF Fields
  <1> HIDE DEF new
  <1>4. /\ doc' = new /\ change'.op = "update-bind" /\ change'.expected = doc'
        /\ ~pending /\ pending' = TRUE /\ overwritten' = FALSE
    BY <1>1 DEF PostDocument
  <1>5. BindFine(B) /\ B.port = port /\ B.listeners = b.listeners
    BY <1>2 DEF BindsFine, BindFine
  <1> HIDE DEF B
  <1> DEFINE s == doc.binds
             t == doc'.binds
  <1>6. t = [s EXCEPT ![k] = B] /\ BindsFine(s) /\ k \in DOMAIN s
    BY <1>2, <1>3, <1>4
  <1>7. ~PortExists(s, B.port, k) /\ s[k].listeners = B.listeners
    BY <1>1, <1>5
  <1> HIDE DEF s, t, b
  <1>8. BindsFine(t)
    BY <1>5, <1>6, <1>7, BindReplaced
  <1>9. \A i, l, kind, r : HasRoute(s, i, l, kind, r) => HasRoute(t, i, l, kind, r)
    BY <1>6, <1>7 DEF HasRoute
  <1>10. TrafficShaped(doc) /\ TrafficShaped(doc')
    BY <1>2, <1>8, TrafficParts DEF t
  <1>11. KeepsRoutes(change', doc, doc')
    BY <1>9, <1>10, RoutesGrow DEF s, t
  <1>12. KeepsListeners(change', doc, doc') /\ change'.op \in WholeDocument
    BY <1>4 DEF KeepsListeners, WholeDocument
  <1> QED BY <1>3, <1>4, <1>8, <1>11, <1>12, TrafficStep DEF t

\* A bind without listeners goes without its user's word; the routes of the
\* binds after it move up.
LEMMA DeleteBindStep ==
  ASSUME Safe(doc), NEW k \in DOMAIN doc.binds, NEW agreed \in BOOLEAN,
         DeleteBind(k, agreed)
  PROVE  Step
  <1> DEFINE new == [doc EXCEPT !.binds = RemoveAt(doc.binds, k)]
  <1>1. /\ doc.binds[k].listeners # <<>> => agreed
        /\ PostDocument("delete-bind", "traffic", agreed, new)
    BY DEF DeleteBind
  <1>2. BindsFine(doc.binds) /\ DOMAIN doc = Fields
    BY TrafficBefore
  <1>3. Edited(doc, new, {"binds"}) /\ new.binds = RemoveAt(doc.binds, k)
    BY <1>2, FieldEdited DEF Fields
  <1> HIDE DEF new
  <1>4. /\ doc' = new /\ change'.op = "delete-bind" /\ change'.expected = doc'
        /\ change'.draft = agreed
        /\ ~pending /\ pending' = TRUE /\ overwritten' = FALSE
    BY <1>1 DEF PostDocument
  <1> DEFINE s == doc.binds
             t == doc'.binds
             n == Len(s)
  <1>5. /\ IsList(t) /\ DOMAIN t = 1..n - 1
        /\ \A i \in 1..n - 1 : t[i] = IF i < k THEN s[i] ELSE s[i + 1]
        /\ DOMAIN s = 1..n /\ n \in Nat /\ Picks(t, s, DOMAIN s \ {k})
        /\ k \in 1..n
    <2>1. t = RemoveAt(s, k) /\ IsList(s) /\ k \in DOMAIN s
      BY <1>2, <1>3, <1>4 DEF BindsFine
    <2> HIDE DEF s, t
    <2> QED BY <2>1, RemoveList, ListIsSeq
  <1>6. /\ BindsFine(s)
        /\ s[k].listeners # <<>> => agreed
    BY <1>1, <1>2
  <1> HIDE DEF s, t, n
  <1>7. BindsFine(t)
    <2>1. \A i \in DOMAIN t : BindFine(t[i])
      <3> TAKE i \in DOMAIN t
      <3>1. i \in DOMAIN s /\ (~(i < k) => i + 1 \in DOMAIN s)
        BY <1>5
      <3> QED BY <1>5, <1>6, <3>1 DEF BindsFine
    <2>2. PortsDiffer(t)
      <3>1. DOMAIN s \ {k} \subseteq DOMAIN s
        OBVIOUS
      <3> QED BY <1>5, <1>6, <3>1, PicksEntries DEF BindsFine, PortsDiffer
    <2> QED BY <1>5, <2>1, <2>2 DEF BindsFine
  <1>8. TrafficShaped(doc) /\ TrafficShaped(doc')
    BY <1>6, <1>7, TrafficParts DEF s, t
  <1>9. KeepsRoutes(change', doc, doc')
    <2>1. CASE agreed
      BY <1>4, <2>1 DEF KeepsRoutes
    <2>2. CASE ~agreed
      <3> DEFINE to(i) == IF i < k THEN i ELSE i - 1
                 f == [x \in Routes(doc) |-> <<to(x[1]), x[2], x[3], x[4]>>]
      <3>1. s[k].listeners = <<>>
        BY <1>6, <2>2
      <3>2. \A l, kind, r : ~HasRoute(s, k, l, kind, r)
        BY <3>1, EmptyList DEF HasRoute
      <3>3. ASSUME NEW i, NEW l, NEW kind, NEW r, HasRoute(s, i, l, kind, r)
            PROVE  i \in 1..n /\ i # k /\ HasRoute(t, to(i), l, kind, r)
        <4>1. i \in 1..n /\ i # k
          BY <1>5, <3>2, <3>3 DEF HasRoute
        <4>2. to(i) \in DOMAIN t /\ t[to(i)] = s[i]
          BY <1>5, <4>1
        <4> HIDE DEF to
        <4> QED BY <3>3, <4>1, <4>2 DEF HasRoute
      <3>4. ASSUME NEW x \in Routes(doc)
            PROVE  /\ <<to(x[1]), x[2], x[3], x[4]>> \in Routes(doc')
                   /\ x = <<x[1], x[2], x[3], x[4]>> /\ x[1] \in 1..n /\ x[1] # k
        <4>1. PICK i, l, kind, r :
                x = <<i, l, kind, r>> /\ HasRoute(s, i, l, kind, r)
          BY <3>4, RoutesHave DEF s
        <4>2. i \in 1..n /\ i # k /\ HasRoute(t, to(i), l, kind, r)
          BY <3>3, <4>1
        <4>3. x[1] = i /\ x[2] = l /\ x[3] = kind /\ x[4] = r
          BY <4>1
        <4> HIDE DEF to
        <4>4. <<to(i), l, kind, r>> \in Routes(doc')
          BY <4>2, RoutesHave DEF t
        <4> QED BY <4>1, <4>2, <4>3, <4>4
      <3>5. ASSUME NEW x \in Routes(doc), NEW y \in Routes(doc), f[x] = f[y]
            PROVE  x = y
        <4>1. to(x[1]) = to(y[1]) /\ x[2] = y[2] /\ x[3] = y[3] /\ x[4] = y[4]
          BY <3>5
        <4>2. x[1] \in 1..n /\ x[1] # k /\ y[1] \in 1..n /\ y[1] # k
          BY <3>4
        <4>3. x[1] = y[1]
          BY <1>5, <4>1, <4>2
        <4> QED BY <3>4, <4>1, <4>3
      <3>6. f \in [Routes(doc) -> Routes(doc')]
        BY <3>4
      <3> HIDE DEF f
      <3>7. f \in Injection(Routes(doc), Routes(doc'))
        BY <3>5, <3>6 DEF Injection, IsInjective
      <3> QED BY <1>8, <3>7, RoutesMoved
    <2> QED BY <2>1, <2>2
  <1>10. KeepsListeners(change', doc, doc') /\ change'.op \in WholeDocument
    BY <1>4 DEF KeepsListeners, WholeDocument
  <1> QED BY <1>3, <1>4, <1>7, <1>9, <1>10, TrafficStep DEF t
-----------------------------------------------------------------------------
(* The operations on listeners and routes change the listeners of one bind. *)

ListenersFine(L) == IsList(L) /\ \A i \in DOMAIN L : ListenerFine(L[i])
ListenersOnly(s, k, L, t) ==
    /\ DOMAIN t = DOMAIN s /\ t[k].listeners = L
    /\ \A i \in DOMAIN s \ {k} : t[i] = s[i]
ListenerHas(L, l, kind, r) ==
    /\ l \in DOMAIN L
    /\ \/ kind = "http" /\ r \in DOMAIN L[l].http
       \/ kind = "tcp" /\ r \in DOMAIN L[l].tcp

\* One bind gets other listeners.
LEMMA ListenersEdited ==
  ASSUME NEW s, BindsFine(s), NEW k \in DOMAIN s, NEW L, ListenersFine(L),
         NEW t, t = [s EXCEPT ![k] = [s[k] EXCEPT !.listeners = L]]
  PROVE  BindsFine(t) /\ ListenersOnly(s, k, L, t)
  <1> DEFINE B == [s[k] EXCEPT !.listeners = L]
  <1>0. BindFine(s[k])
    BY DEF BindsFine
  <1>1. BindFine(B) /\ B.port = s[k].port /\ B.listeners = L
    <2> DEFINE b == s[k]
    <2>1. DOMAIN b = {"port", "listeners"} /\ B = [b EXCEPT !.listeners = L]
      BY <1>0 DEF BindFine
    <2>2. IsList(L) /\ \A i \in DOMAIN L : ListenerFine(L[i])
      BY DEF ListenersFine
    <2> HIDE DEF b, B
    <2>3. DOMAIN B = {"port", "listeners"} /\ B.port = b.port /\ B.listeners = L
      BY <2>1
    <2> QED BY <2>2, <2>3 DEF BindFine, b
  <1>2. t = [s EXCEPT ![k] = B]
    OBVIOUS
  <1> HIDE DEF B
  <1>3. BindsFine(t)
    BY <1>1, <1>2, BindReplaced
  <1>4. ListenersOnly(s, k, L, t)
    BY <1>1, <1>2 DEF ListenersOnly
  <1> QED BY <1>3, <1>4

\* The document after the listeners of the bind at k have become L.
Becomes(k, L) ==
    /\ k \in DOMAIN doc.binds
    /\ Edited(doc, doc', {"binds"}) /\ BindsFine(doc.binds)
    /\ BindsFine(doc'.binds) /\ ListenersOnly(doc.binds, k, L, doc'.binds)
    /\ TrafficShaped(doc) /\ TrafficShaped(doc')
\* The same, in the document.
LEMMA ListenersBecome ==
  ASSUME Safe(doc), NEW k \in DOMAIN doc.binds, NEW L, ListenersFine(L),
         NEW new, doc' = new,
         new = [doc EXCEPT !.binds =
                  [doc.binds EXCEPT ![k] = [doc.binds[k] EXCEPT !.listeners = L]]]
  PROVE  Becomes(k, L)
  <1> DEFINE s == doc.binds
             t == [s EXCEPT ![k] = [s[k] EXCEPT !.listeners = L]]
  <1>1. BindsFine(s) /\ DOMAIN doc = Fields
    BY TrafficBefore
  <1>2. Edited(doc, doc', {"binds"}) /\ doc'.binds = t
    <2>1. new = [doc EXCEPT !.binds = t] /\ doc' = new
      OBVIOUS
    <2> HIDE DEF t
    <2> QED BY <1>1, <2>1, FieldEdited DEF Fields
  <1>3. k \in DOMAIN s
    OBVIOUS
  <1>4. BindsFine(t) /\ ListenersOnly(s, k, L, t)
    <2> HIDE DEF s
    <2> QED BY <1>1, <1>3, ListenersEdited
  <1> HIDE DEF t
  <1>5. TrafficShaped(doc) /\ TrafficShaped(doc')
    BY <1>1, <1>2, <1>4, TrafficParts
  <1> QED BY <1>1, <1>2, <1>4, <1>5 DEF Becomes

\* No route is lost when the listeners keep theirs where they are.
LEMMA RoutesStay ==
  ASSUME NEW k, NEW L, Becomes(k, L),
         \A l, kind, r : ListenerHas(doc.binds[k].listeners, l, kind, r) =>
                           ListenerHas(L, l, kind, r)
  PROVE  KeepsRoutes(change', doc, doc')
  <1>1. \A i, l, kind, r : HasRoute(doc.binds, i, l, kind, r) =>
                             HasRoute(doc'.binds, i, l, kind, r)
    <2> TAKE i, l, kind, r
    <2> HAVE HasRoute(doc.binds, i, l, kind, r)
    <2>1. CASE i = k
      <3>1. ListenerHas(doc.binds[k].listeners, l, kind, r)
        BY <2>1 DEF HasRoute, ListenerHas
      <3>2. ListenerHas(L, l, kind, r)
        BY <3>1
      <3> QED BY <2>1, <3>2 DEF Becomes, ListenersOnly, HasRoute, ListenerHas
    <2>2. CASE i # k
      BY <2>2 DEF Becomes, ListenersOnly, HasRoute
    <2> QED BY <2>1, <2>2
  <1> QED BY <1>1, RoutesGrow DEF Becomes

\* What a change of one bind's listeners has to show.
LEMMA ListenerStep ==
  ASSUME Safe(doc), NEW k, NEW L, Becomes(k, L),
         KeepsRoutes(change', doc, doc'), KeepsListeners(change', doc, doc'),
         change'.op \in WholeDocument, change'.expected = doc',
         ~pending, pending' = TRUE, overwritten' = FALSE
  PROVE  Step
  BY TrafficStep DEF Becomes

\* A listener as a draft describes it (EncodeListener).
LEMMA NewListenerFine ==
  ASSUME NEW draft \in ListenerDrafts, NEW ns
  PROVE  LET l == EncodeListener(draft, ns)
         IN  /\ ListenerFine(l) /\ l.kind = draft.kind
             /\ l.ns = IF draft.ns = "" THEN ns ELSE draft.ns
             /\ l.http = <<>> /\ l.tcp = <<>>
  <1> DEFINE none == <<>>
             n == IF draft.ns = "" THEN ns ELSE draft.ns
             l == [kind |-> draft.kind, ns |-> n, extra |-> "none", http |-> none,
                   tcp |-> none]
  <1>1. IsList(none)
    BY EmptyList
  <1>2. draft.kind \in {"http", "tcp"}
    BY DEF ListenerDrafts
  <1> HIDE DEF none
  <1>3. /\ ListenerFine(l) /\ l.kind = draft.kind /\ l.ns = n
        /\ l.http = none /\ l.tcp = none
    <2> HIDE DEF n
    <2>1. /\ DOMAIN l = {"kind", "ns", "extra", "http", "tcp"}
          /\ l.kind = draft.kind /\ l.ns = n
          /\ l.http = none /\ l.tcp = none
      OBVIOUS
    <2> HIDE DEF l
    <2>2. RoutesMatch(l)
      BY <2>1 DEF RoutesMatch, none
    <2> QED BY <1>1, <1>2, <2>1, <2>2 DEF ListenerFine
  <1>4. EncodeListener(draft, ns) = l
    BY DEF EncodeListener, none
  <1> QED BY <1>3, <1>4 DEF none
\* CreateListener.
LEMMA CreateListenerStep ==
  ASSUME Safe(doc), NEW k \in DOMAIN doc.binds, NEW draft \in ListenerDrafts,
         CreateListener(k, draft)
  PROVE  Step
  <1> DEFINE s == doc.binds[k].listeners
             E == EncodeListener(draft, "")
             L == Append(s, E)
             new == [doc EXCEPT !.binds =
                       [doc.binds EXCEPT ![k] = [doc.binds[k] EXCEPT !.listeners = L]]]
  <1>1. PostDocument("create-listener", "traffic", FALSE, new)
    BY DEF CreateListener
  <1> HIDE DEF new
  <1>2. /\ doc' = new /\ change'.op = "create-listener"
        /\ change'.expected = doc'
        /\ ~pending /\ pending' = TRUE /\ overwritten' = FALSE
    BY <1>1 DEF PostDocument
  <1>3. ListenerFine(E)
    BY NewListenerFine
  <1>4. ListenersFine(s)
    <2>1. BindFine(doc.binds[k])
      BY TrafficBefore DEF BindsFine
    <2> QED BY <2>1 DEF BindFine, ListenersFine
  <1> HIDE DEF E
  <1>5. /\ IsList(L) /\ DOMAIN L = 1..Len(s) + 1 /\ L[Len(s) + 1] = E
        /\ \A i \in DOMAIN s : L[i] = s[i]
        /\ DOMAIN s = 1..Len(s) /\ Len(s) \in Nat
    <2> HIDE DEF s
    <2> QED BY <1>4, AppendList, ListIsSeq DEF ListenersFine
  <1>6. Becomes(k, L)
    <2>0. /\ \A i \in DOMAIN L : i \in DOMAIN s \/ i = Len(s) + 1
      <3> HIDE DEF s, L
      <3> QED BY <1>5
    <2>1. ListenersFine(L)
      <3> HIDE DEF s, L
      <3> QED BY <1>3, <1>4, <1>5, <2>0 DEF ListenersFine
    <2>2. new = [doc EXCEPT !.binds =
                  [doc.binds EXCEPT ![k] = [doc.binds[k] EXCEPT !.listeners = L]]]
      BY DEF new
    <2> HIDE DEF L
    <2> QED BY <1>2, <2>1, <2>2, ListenersBecome
  <1> HIDE DEF L
  <1>7. \A l, kind, r : ListenerHas(s, l, kind, r) => ListenerHas(L, l, kind, r)
    <2> HIDE DEF s
    <2>1. \A i \in DOMAIN s : i \in DOMAIN L
      BY <1>5
    <2> QED BY <1>5, <2>1 DEF ListenerHas
  <1>8. KeepsRoutes(change', doc, doc')
    BY <1>6, <1>7, RoutesStay
  <1>9. KeepsListeners(change', doc, doc') /\ change'.op \in WholeDocument
    BY <1>2 DEF KeepsListeners, WholeDocument
  <1> QED BY <1>2, <1>6, <1>8, <1>9, ListenerStep

\* A listener that counts no route has none.
LEMMA NoRoutes ==
  ASSUME NEW l, IsList(l.http), IsList(l.tcp), ~(RouteTotal(l) > 0)
  PROVE  l.http = <<>> /\ l.tcp = <<>>
  <1> DEFINE h == Len(l.http)
             t == Len(l.tcp)
  <1>1. h \in Nat /\ t \in Nat
    BY ListIsSeq
  <1>2. ~(h + t > 0)
    BY DEF RouteTotal
  <1>3. h = 0 /\ t = 0
    <2> HIDE DEF h, t
    <2> QED BY <1>1, <1>2
  <1>4. \A s : IsList(s) /\ Len(s) = 0 => s = <<>>
    BY DEF IsList
  <1> QED BY <1>3, <1>4

\* One listener is replaced by X.
LEMMA ListenerBecomes ==
  ASSUME Safe(doc), NEW k \in DOMAIN doc.binds,
         NEW l \in DOMAIN doc.binds[k].listeners, NEW X, ListenerFine(X),
         NEW L, L = [doc.binds[k].listeners EXCEPT ![l] = X],
         NEW new, doc' = new,
         new = [doc EXCEPT !.binds =
                  [doc.binds EXCEPT ![k] = [doc.binds[k] EXCEPT !.listeners = L]]]
  PROVE  /\ Becomes(k, L) /\ ListenerFine(doc.binds[k].listeners[l])
         /\ DOMAIN L = DOMAIN doc.binds[k].listeners /\ L[l] = X
         /\ \A i \in DOMAIN L \ {l} : L[i] = doc.binds[k].listeners[i]
  <1> DEFINE s == doc.binds[k].listeners
  <1>1. IsList(s) /\ \A i \in DOMAIN s : ListenerFine(s[i])
    <2>1. BindFine(doc.binds[k])
      BY TrafficBefore DEF BindsFine
    <2> QED BY <2>1 DEF BindFine
  <1>2. /\ L = [s EXCEPT ![l] = X] /\ l \in DOMAIN s
        /\ new = [doc EXCEPT !.binds =
                  [doc.binds EXCEPT ![k] = [doc.binds[k] EXCEPT !.listeners = L]]]
    OBVIOUS
  <1>3. /\ IsList(L) /\ DOMAIN L = DOMAIN s /\ L[l] = X
        /\ \A i \in DOMAIN s \ {l} : L[i] = s[i]
    <2> HIDE DEF s
    <2> QED BY <1>1, <1>2, ReplaceList
  <1>4. ListenersFine(L)
    <2> HIDE DEF s
    <2> QED BY <1>1, <1>3 DEF ListenersFine
  <1>5. Becomes(k, L)
    BY <1>2, <1>4, ListenersBecome
  <1> QED BY <1>1, <1>3, <1>5

\* UpdateListener: routes of the other kind go only with the user's word, and
\* the namespace stays.
LEMMA UpdateListenerStep ==
  ASSUME Safe(doc), NEW k \in DOMAIN doc.binds,
         NEW l \in DOMAIN doc.binds[k].listeners, NEW draft \in ListenerDrafts,
         UpdateListener(k, l, draft)
  PROVE  Step
  <1> DEFINE s == doc.binds[k].listeners
             cur == s[l]
             X == UpdatedListener(cur, draft)
             L == [s EXCEPT ![l] = X]
             new == [doc EXCEPT !.binds =
                       [doc.binds EXCEPT ![k] = [doc.binds[k] EXCEPT !.listeners = L]]]
  <1>1. /\ cur.kind # draft.kind /\ RouteTotal(cur) > 0 => draft.agreed
        /\ PostDocument("update-listener", "traffic", draft.agreed, new)
    BY DEF UpdateListener
  <1> HIDE DEF new
  <1>2. /\ doc' = new /\ change'.op = "update-listener"
        /\ change'.expected = doc' /\ change'.draft = draft.agreed
        /\ ~pending /\ pending' = TRUE /\ overwritten' = FALSE
    BY <1>1 DEF PostDocument
  <1>3. ListenerFine(cur)
    <2>1. BindFine(doc.binds[k])
      BY TrafficBefore DEF BindsFine
    <2> QED BY <2>1 DEF BindFine
  <1> DEFINE none == <<>>
             E == EncodeListener(draft, cur.ns)
  <1>4. /\ ListenerFine(E) /\ E.kind = draft.kind
        /\ E.ns = IF draft.ns = "" THEN cur.ns ELSE draft.ns
        /\ E.http = none /\ E.tcp = none
    BY NewListenerFine
  <1>5. X = IF cur.kind # draft.kind THEN E
            ELSE [E EXCEPT ![draft.kind] = cur[draft.kind]]
    BY DEF UpdatedListener
  <1>6. /\ IsList(none) /\ Len(none) = 0 /\ DOMAIN none = {}
        /\ cur.http # none => cur.kind = "http"
        /\ cur.tcp # none => cur.kind = "tcp"
    BY <1>3, EmptyList DEF ListenerFine, RoutesMatch
  <1>7. /\ ListenerFine(X) /\ X.ns = E.ns
        /\ X.http = (IF cur.kind = draft.kind THEN cur.http ELSE none)
        /\ X.tcp = (IF cur.kind = draft.kind THEN cur.tcp ELSE none)
    <2> DEFINE kind == draft.kind
    <2>0. /\ kind \in {"http", "tcp"}
          /\ DOMAIN E = {"kind", "ns", "extra", "http", "tcp"} /\ IsList(cur.http)
          /\ IsList(cur.tcp)
      BY <1>3, <1>4 DEF ListenerFine, ListenerDrafts
    <2>1. CASE cur.kind # kind
      BY <1>4, <1>5, <2>1
    <2>2. CASE cur.kind = kind
      <3>0. X = [E EXCEPT ![kind] = cur[kind]]
        BY <1>5, <2>2
      <3>1. CASE kind = "http"
        <4>1. /\ DOMAIN X = {"kind", "ns", "extra", "http", "tcp"} /\ X.kind = "http"
              /\ X.ns = E.ns /\ X.http = cur.http /\ X.tcp = none
          <5> HIDE DEF X, E, none, cur
          <5> QED BY <1>4, <2>0, <3>0, <3>1
        <4>2. cur.tcp = none
          BY <1>6, <2>2, <3>1
        <4>3. RoutesMatch(X)
          BY <4>1 DEF RoutesMatch, none
        <4> HIDE DEF X, none
        <4> QED BY <1>6, <2>0, <2>2, <4>1, <4>2, <4>3 DEF ListenerFine
      <3>2. CASE kind = "tcp"
        <4>1. /\ DOMAIN X = {"kind", "ns", "extra", "http", "tcp"} /\ X.kind = "tcp"
              /\ X.ns = E.ns /\ X.tcp = cur.tcp /\ X.http = none
          <5> HIDE DEF X, E, none, cur
          <5> QED BY <1>4, <2>0, <3>0, <3>2
        <4>2. cur.http = none
          BY <1>6, <2>2, <3>2
        <4>3. RoutesMatch(X)
          BY <4>1 DEF RoutesMatch, none
        <4> HIDE DEF X, none
        <4> QED BY <1>6, <2>0, <2>2, <4>1, <4>2, <4>3 DEF ListenerFine
      <3> QED BY <2>0, <3>1, <3>2
    <2> QED BY <2>1, <2>2
  <1> HIDE DEF X
  <1>8. /\ Becomes(k, L) /\ DOMAIN L = DOMAIN s /\ L[l] = X
        /\ \A i \in DOMAIN L \ {l} : L[i] = s[i]
    <2>1. /\ new = [doc EXCEPT !.binds =
                  [doc.binds EXCEPT ![k] = [doc.binds[k] EXCEPT !.listeners = L]]]
          /\ L = [doc.binds[k].listeners EXCEPT ![l] = X]
      BY DEF new
    <2> HIDE DEF L
    <2> QED BY <1>2, <1>7, <2>1, ListenerBecomes
  <1> HIDE DEF L
  <1>9. KeepsRoutes(change', doc, doc')
    <2>1. CASE draft.agreed
      BY <1>2, <2>1 DEF KeepsRoutes
    <2>2. CASE ~draft.agreed
      <3>1. DOMAIN cur.http \subseteq DOMAIN X.http /\ DOMAIN cur.tcp \subseteq DOMAIN X.tcp
        <4>1. CASE cur.kind = draft.kind
          BY <1>7, <4>1
        <4>2. CASE cur.kind # draft.kind
          <5>1. ~(RouteTotal(cur) > 0)
            BY <1>1, <2>2, <4>2
          <5>2. IsList(cur.http) /\ IsList(cur.tcp)
            BY <1>3 DEF ListenerFine
          <5>3. cur.http = <<>> /\ cur.tcp = <<>>
            <6> HIDE DEF cur
            <6> QED BY <5>1, <5>2, NoRoutes
          <5> QED BY <5>3, EmptyList
        <4> QED BY <4>1, <4>2
      <3>2. \A i, kind, r : ListenerHas(s, i, kind, r) => ListenerHas(L, i, kind, r)
        BY <1>8, <3>1 DEF ListenerHas
      <3> QED BY <1>8, <3>2, RoutesStay
    <2> QED BY <2>1, <2>2
  <1>10. KeepsListeners(change', doc, doc')
    <2>1. doc'.binds[k].listeners = L
      BY <1>8 DEF Becomes, ListenersOnly
    <2>2. doc'.binds[k].listeners[l].ns = "" => doc.binds[k].listeners[l].ns = ""
      BY <1>4, <1>7, <1>8, <2>1
    <2>3. ASSUME NEW b \in DOMAIN doc.binds,
                 NEW i \in DOMAIN doc.binds[b].listeners, ~(b = k /\ i = l)
          PROVE  doc'.binds[b].listeners[i] = doc.binds[b].listeners[i]
      <3>1. CASE b # k
        BY <1>8, <3>1 DEF Becomes, ListenersOnly
      <3>2. CASE b = k
        BY <1>8, <2>1, <2>3, <3>2
      <3> QED BY <3>1, <3>2
    <2> SUFFICES ASSUME NEW b \in DOMAIN doc.binds,
                        NEW i \in DOMAIN doc.binds[b].listeners,
                        NEW c \in DOMAIN doc.binds,
                        NEW j \in DOMAIN doc.binds[c].listeners
                 PROVE  LET before == doc.binds[b].listeners[i]
                            after == doc'.binds[b].listeners[i]
                        IN  /\ after.ns = "" => before.ns = ""
                            /\ \/ b = c /\ i = j
                               \/ after = before
                               \/ doc'.binds[c].listeners[j] =
                                    doc.binds[c].listeners[j]
      BY DEF KeepsListeners
    <2>4. CASE b = k /\ i = l
      BY <2>2, <2>3, <2>4
    <2>5. CASE ~(b = k /\ i = l)
      BY <2>3, <2>5
    <2> QED BY <2>4, <2>5
  <1>11. change'.op \in WholeDocument
    BY <1>2 DEF WholeDocument
  <1> QED BY <1>2, <1>8, <1>9, <1>10, <1>11, ListenerStep

Shifted(p, i) == IF i < p THEN i ELSE i - 1
\* The listeners behind one that has no route move up by one, with theirs.
LEMMA ListenersShift ==
  ASSUME NEW k, NEW L, Becomes(k, L), NEW p \in Int,
         \A i, kind, r : ListenerHas(doc.binds[k].listeners, i, kind, r) =>
             i \in Int /\ i # p /\ ListenerHas(L, Shifted(p, i), kind, r)
  PROVE  KeepsRoutes(change', doc, doc')
  <1> DEFINE at(x) == IF x[1] = k THEN Shifted(p, x[2]) ELSE x[2]
             f == [x \in Routes(doc) |-> <<x[1], at(x), x[3], x[4]>>]
  <1>1. ASSUME NEW b, NEW l, NEW kind, NEW r, HasRoute(doc.binds, b, l, kind, r)
        PROVE  /\ b = k => l \in Int /\ l # p
               /\ HasRoute(doc'.binds, b, IF b = k THEN Shifted(p, l) ELSE l, kind, r)
    <2>1. CASE b = k
      <3>1. ListenerHas(doc.binds[k].listeners, l, kind, r)
        BY <1>1, <2>1 DEF HasRoute, ListenerHas
      <3>2. l \in Int /\ l # p /\ ListenerHas(L, Shifted(p, l), kind, r)
        BY <3>1
      <3>3. k \in DOMAIN doc'.binds /\ doc'.binds[k].listeners = L
        BY DEF Becomes, ListenersOnly
      <3> QED BY <2>1, <3>2, <3>3 DEF HasRoute, ListenerHas
    <2>2. CASE b # k
      <3>1. b \in DOMAIN doc'.binds /\ doc'.binds[b] = doc.binds[b]
        BY <1>1, <2>2 DEF Becomes, ListenersOnly, HasRoute
      <3> QED BY <1>1, <2>2, <3>1 DEF HasRoute
    <2> QED BY <2>1, <2>2
  <1>2. ASSUME NEW x \in Routes(doc)
        PROVE  /\ <<x[1], at(x), x[3], x[4]>> \in Routes(doc')
               /\ x = <<x[1], x[2], x[3], x[4]>>
               /\ x[1] = k => x[2] \in Int /\ x[2] # p
    <2>1. PICK b, l, kind, r :
            x = <<b, l, kind, r>> /\ HasRoute(doc.binds, b, l, kind, r)
      BY RoutesHave
    <2>2. x[1] = b /\ x[2] = l /\ x[3] = kind /\ x[4] = r
      BY <2>1
    <2>3. HasRoute(doc'.binds, b, at(x), kind, r)
      BY <1>1, <2>1, <2>2
    <2> HIDE DEF at
    <2>4. <<b, at(x), kind, r>> \in Routes(doc')
      BY <2>3, RoutesHave
    <2> QED BY <1>1, <2>1, <2>2, <2>4
  <1>3. ASSUME NEW x \in Routes(doc), NEW y \in Routes(doc), f[x] = f[y]
        PROVE  x = y
    <2>1. x[1] = y[1] /\ at(x) = at(y) /\ x[3] = y[3] /\ x[4] = y[4]
      <3> HIDE DEF at
      <3> QED BY <1>3
    <2>2. x[2] = y[2]
      <3>1. CASE x[1] = k
        <4>1. x[2] \in Int /\ y[2] \in Int /\ x[2] # p /\ y[2] # p
          BY <1>2, <2>1, <3>1
        <4>2. Shifted(p, x[2]) = Shifted(p, y[2])
          BY <2>1, <3>1
        <4> QED BY <4>1, <4>2 DEF Shifted
      <3>2. CASE x[1] # k
        BY <2>1, <3>2
      <3> QED BY <3>1, <3>2
    <2> HIDE DEF at
    <2> QED BY <1>2, <2>1, <2>2
  <1>4. f \in [Routes(doc) -> Routes(doc')]
    <2> HIDE DEF at
    <2> QED BY <1>2
  <1> HIDE DEF f
  <1>5. f \in Injection(Routes(doc), Routes(doc'))
    BY <1>3, <1>4 DEF Injection, IsInjective
  <1> QED BY <1>5, RoutesMoved DEF Becomes

\* One listener, which has no routes unless the user agreed, is gone.
LEMMA DeleteListenerStep ==
  ASSUME Safe(doc), NEW k \in DOMAIN doc.binds,
         NEW p \in DOMAIN doc.binds[k].listeners, NEW agreed \in BOOLEAN,
         DeleteListener(k, p, agreed)
  PROVE  Step
  <1> DEFINE s == doc.binds[k].listeners
             L == RemoveAt(s, p)
             new == [doc EXCEPT !.binds =
                       [doc.binds EXCEPT ![k] = [doc.binds[k] EXCEPT !.listeners = L]]]
             n == Len(s)
  <1>1. /\ RouteTotal(s[p]) > 0 => agreed
        /\ PostDocument("delete-listener", "traffic", agreed, new)
    BY DEF DeleteListener
  <1> HIDE DEF new
  <1>2. /\ doc' = new /\ change'.op = "delete-listener"
        /\ change'.expected = doc' /\ change'.draft = agreed
        /\ ~pending /\ pending' = TRUE /\ overwritten' = FALSE
    BY <1>1 DEF PostDocument
  <1>3. ListenersFine(s)
    <2>1. BindFine(doc.binds[k])
      BY TrafficBefore DEF BindsFine
    <2> QED BY <2>1 DEF BindFine, ListenersFine
  <1>4. /\ IsList(L) /\ DOMAIN L = 1..n - 1
        /\ \A i \in 1..n - 1 : L[i] = IF i < p THEN s[i] ELSE s[i + 1]
        /\ DOMAIN s = 1..n /\ n \in Nat /\ p \in 1..n
    <2>1. p \in DOMAIN s
      OBVIOUS
    <2> HIDE DEF s
    <2> QED BY <1>3, <2>1, RemoveList, ListIsSeq DEF ListenersFine
  <1>5. Becomes(k, L)
    <2>1. ListenersFine(L)
      <3> HIDE DEF s, L, n
      <3>1. \A i \in DOMAIN L : ListenerFine(L[i])
        <4> TAKE i \in DOMAIN L
        <4>1. i \in DOMAIN s /\ (~(i < p) => i + 1 \in DOMAIN s)
          BY <1>4
        <4> QED BY <1>3, <1>4, <4>1 DEF ListenersFine
      <3> QED BY <1>4, <3>1 DEF ListenersFine
    <2>2. new = [doc EXCEPT !.binds =
                  [doc.binds EXCEPT ![k] = [doc.binds[k] EXCEPT !.listeners = L]]]
      BY DEF new
    <2> HIDE DEF L
    <2> QED BY <1>2, <2>1, <2>2, ListenersBecome
  <1>6. KeepsRoutes(change', doc, doc')
    <2>1. CASE agreed
      BY <1>2, <2>1 DEF KeepsRoutes
    <2>2. CASE ~agreed
      <3>1. s[p].http = <<>> /\ s[p].tcp = <<>>
        <4>1. RouteTotal(s[p]) > 0 => agreed
          BY <1>1
        <4>2. IsList(s[p].http) /\ IsList(s[p].tcp)
          BY <1>3, <1>4 DEF ListenersFine, ListenerFine
        <4> HIDE DEF s
        <4> QED BY <2>2, <4>1, <4>2, NoRoutes
      <3>2. \A kind, r : ~ListenerHas(s, p, kind, r)
        BY <3>1, EmptyList DEF ListenerHas
      <3>3. ASSUME NEW i, NEW kind, NEW r, ListenerHas(s, i, kind, r)
            PROVE  i \in 1..n /\ i # p /\ ListenerHas(L, Shifted(p, i), kind, r)
        <4> HIDE DEF s, L, n
        <4>1. i \in 1..n /\ i # p
          BY <1>4, <3>2, <3>3 DEF ListenerHas
        <4>2. Shifted(p, i) \in DOMAIN L /\ L[Shifted(p, i)] = s[i]
          BY <1>4, <4>1 DEF Shifted
        <4> QED BY <3>3, <4>1, <4>2 DEF ListenerHas
      <3>4. p \in Int /\ \A i \in 1..n : i \in Int
        BY <1>4
      <3>5. s = doc.binds[k].listeners
        OBVIOUS
      <3> HIDE DEF s, L, n
      <3> QED BY <1>5, <3>3, <3>4, <3>5, ListenersShift
    <2> QED BY <2>1, <2>2
  <1>7. KeepsListeners(change', doc, doc') /\ change'.op \in WholeDocument
    BY <1>2 DEF KeepsListeners, WholeDocument
  <1> HIDE DEF L
  <1> QED BY <1>2, <1>5, <1>6, <1>7, ListenerStep

\* X is cur with R for its routes of that kind.
RoutesSet(cur, kind, R, X) ==
    /\ ListenerFine(X) /\ X.ns = cur.ns
    /\ kind = "http" => X.http = R /\ X.tcp = cur.tcp
    /\ kind = "tcp" => X.tcp = R /\ X.http = cur.http
MayReplace(c, list, R) == c.op = "delete-route" \/ DOMAIN list \subseteq DOMAIN R

\* One list of routes of a listener is replaced.
LEMMA RoutesReplaced ==
  ASSUME NEW cur, ListenerFine(cur), NEW kind \in {"http", "tcp"},
         cur.kind = kind, NEW R, IsList(R),
         NEW X, X = [cur EXCEPT ![kind] = R]
  PROVE  RoutesSet(cur, kind, R, X)
  <1>1. /\ DOMAIN cur = {"kind", "ns", "extra", "http", "tcp"}
        /\ IsList(cur.http) /\ IsList(cur.tcp) /\ RoutesMatch(cur)
    BY DEF ListenerFine
  <1>2. CASE kind = "http"
    <2>1. /\ DOMAIN X = {"kind", "ns", "extra", "http", "tcp"} /\ X.kind = "http"
          /\ X.ns = cur.ns /\ X.http = R /\ X.tcp = cur.tcp
      BY <1>1, <1>2
    <2>2. RoutesMatch(X)
      BY <1>1, <1>2, <2>1 DEF RoutesMatch
    <2> QED BY <1>1, <1>2, <2>1, <2>2 DEF ListenerFine, RoutesSet
  <1>3. CASE kind = "tcp"
    <2>1. /\ DOMAIN X = {"kind", "ns", "extra", "http", "tcp"} /\ X.kind = "tcp"
          /\ X.ns = cur.ns /\ X.tcp = R /\ X.http = cur.http
      BY <1>1, <1>3
    <2>2. RoutesMatch(X)
      BY <1>1, <1>3, <2>1 DEF RoutesMatch
    <2> QED BY <1>1, <1>3, <2>1, <2>2 DEF ListenerFine, RoutesSet
  <1> QED BY <1>2, <1>3

\* A change of one list of routes: the list has to be a list, and to keep its
\* positions unless the change is a deletion.
LEMMA RoutesStep ==
  ASSUME Safe(doc), NEW k \in DOMAIN doc.binds,
         NEW p \in DOMAIN doc.binds[k].listeners, NEW kind \in {"http", "tcp"},
         doc.binds[k].listeners[p].kind = kind, NEW R, IsList(R),
         NEW new, doc' = new,
         new = [doc EXCEPT !.binds =
                  [doc.binds EXCEPT ![k] = [doc.binds[k] EXCEPT !.listeners =
                     [doc.binds[k].listeners EXCEPT ![p] =
                        [doc.binds[k].listeners[p] EXCEPT ![kind] = R]]]]],
         MayReplace(change', doc.binds[k].listeners[p][kind], R),
         change'.op \in {"create-route", "update-route", "delete-route"},
         change'.expected = doc', ~pending, pending' = TRUE,
         overwritten' = FALSE
  PROVE  Step
  <1> DEFINE s == doc.binds[k].listeners
             cur == s[p]
             X == [cur EXCEPT ![kind] = R]
             L == [s EXCEPT ![p] = X]
  <1>1. ListenerFine(cur)
    <2>1. BindFine(doc.binds[k])
      BY TrafficBefore DEF BindsFine
    <2> QED BY <2>1 DEF BindFine
  <1>2. /\ ListenerFine(X)
        /\ kind = "http" => X.http = R /\ X.tcp = cur.tcp
        /\ kind = "tcp" => X.tcp = R /\ X.http = cur.http
    <2>1. cur.kind = kind /\ X = [cur EXCEPT ![kind] = R]
      OBVIOUS
    <2> HIDE DEF cur, X
    <2>2. RoutesSet(cur, kind, R, X)
      BY <1>1, <2>1, RoutesReplaced
    <2> QED BY <2>2 DEF RoutesSet
  <1>3. /\ new = [doc EXCEPT !.binds =
                  [doc.binds EXCEPT ![k] = [doc.binds[k] EXCEPT !.listeners = L]]]
        /\ L = [doc.binds[k].listeners EXCEPT ![p] = X]
    OBVIOUS
  <1> HIDE DEF X
  <1>4. /\ Becomes(k, L) /\ DOMAIN L = DOMAIN s /\ L[p] = X
        /\ \A i \in DOMAIN L \ {p} : L[i] = s[i]
    <2> HIDE DEF L
    <2> QED BY <1>2, <1>3, ListenerBecomes
  <1> HIDE DEF L
  <1>5. KeepsRoutes(change', doc, doc')
    <2>0. change'.op = "delete-route" \/ DOMAIN cur[kind] \subseteq DOMAIN R
      BY DEF MayReplace
    <2>1. CASE change'.op = "delete-route"
      BY <2>1 DEF KeepsRoutes
    <2>2. CASE DOMAIN cur[kind] \subseteq DOMAIN R
      <3>1. DOMAIN cur.http \subseteq DOMAIN X.http /\ DOMAIN cur.tcp \subseteq DOMAIN X.tcp
        <4>1. kind = "http" \/ kind = "tcp"
          OBVIOUS
        <4> HIDE DEF cur
        <4> QED BY <1>2, <2>2, <4>1
      <3>2. \A i, m, r : ListenerHas(s, i, m, r) => ListenerHas(L, i, m, r)
        <4> HIDE DEF s
        <4> QED BY <1>4, <3>1 DEF ListenerHas, cur
      <3> QED BY <1>4, <3>2, RoutesStay
    <2> QED BY <2>0, <2>1, <2>2
  <1>6. KeepsListeners(change', doc, doc') /\ change'.op \in WholeDocument
    BY DEF KeepsListeners, WholeDocument
  <1> QED BY <1>4, <1>5, <1>6, ListenerStep

\* The routes of a listener's protocol are a list.
LEMMA RoutesAreAList ==
  ASSUME Safe(doc), NEW k \in DOMAIN doc.binds,
         NEW p \in DOMAIN doc.binds[k].listeners, NEW kind \in {"http", "tcp"}
  PROVE  /\ IsList(doc.binds[k].listeners[p][kind])
         /\ doc.binds[k].listeners[p][kind] # <<>> =>
               doc.binds[k].listeners[p].kind = kind
  <1> DEFINE cur == doc.binds[k].listeners[p]
  <1>1. ListenerFine(cur)
    <2>1. BindFine(doc.binds[k])
      BY TrafficBefore DEF BindsFine
    <2> QED BY <2>1 DEF BindFine
  <1> HIDE DEF cur
  <1>2. IsList(cur[kind]) /\ (cur[kind] # <<>> => cur.kind = kind)
    BY <1>1 DEF ListenerFine, RoutesMatch
  <1> QED BY <1>2 DEF cur

\* CreateRoute: a listener of the same kind gets a route more.
LEMMA CreateRouteStep ==
  ASSUME Safe(doc), NEW k \in DOMAIN doc.binds,
         NEW p \in DOMAIN doc.binds[k].listeners, NEW draft \in RouteDrafts,
         CreateRoute(k, p, draft)
  PROVE  Step
  <1> DEFINE kind == draft.kind
             R == Append(doc.binds[k].listeners[p][kind], draft.route)
             new == [doc EXCEPT !.binds =
                  [doc.binds EXCEPT ![k] = [doc.binds[k] EXCEPT !.listeners =
                     [doc.binds[k].listeners EXCEPT ![p] =
                        [doc.binds[k].listeners[p] EXCEPT ![kind] = R]]]]]
  <1>1. /\ doc.binds[k].listeners[p].kind = kind
        /\ PostDocument("create-route", "traffic", FALSE, new)
    BY DEF CreateRoute
  <1> HIDE DEF new
  <1>2. /\ doc' = new /\ change'.op = "create-route" /\ change'.expected = doc'
        /\ ~pending /\ pending' = TRUE /\ overwritten' = FALSE
    BY <1>1 DEF PostDocument
  <1>3. kind \in {"http", "tcp"}
    BY DEF RouteDrafts
  <1>4. IsList(R) /\ MayReplace(change', doc.binds[k].listeners[p][kind], R)
    <2> DEFINE list == doc.binds[k].listeners[p][kind]
    <2>1. IsList(list)
      BY <1>3, RoutesAreAList
    <2> HIDE DEF list
    <2>2. IsList(Append(list, draft.route)) /\ DOMAIN list \subseteq DOMAIN Append(list, draft.route)
      BY <2>1, AppendList, ListIsSeq
    <2> QED BY <2>2 DEF list, MayReplace
  <1>5. new = [doc EXCEPT !.binds =
                  [doc.binds EXCEPT ![k] = [doc.binds[k] EXCEPT !.listeners =
                     [doc.binds[k].listeners EXCEPT ![p] =
                        [doc.binds[k].listeners[p] EXCEPT ![kind] = R]]]]]
    BY DEF new
  <1> HIDE DEF kind, R
  <1> QED BY <1>1, <1>2, <1>3, <1>4, <1>5, RoutesStep

\* UpdateRoute: a route takes the place of another.
LEMMA UpdateRouteStep ==
  ASSUME Safe(doc), NEW k \in DOMAIN doc.binds,
         NEW p \in DOMAIN doc.binds[k].listeners, NEW kind \in {"http", "tcp"},
         NEW r \in DOMAIN doc.binds[k].listeners[p][kind],
         NEW draft \in RouteDrafts, UpdateRoute(k, p, kind, r, draft)
  PROVE  Step
  <1> DEFINE list == doc.binds[k].listeners[p][kind]
             R == [list EXCEPT ![r] = draft.route]
             new == [doc EXCEPT !.binds =
                  [doc.binds EXCEPT ![k] = [doc.binds[k] EXCEPT !.listeners =
                     [doc.binds[k].listeners EXCEPT ![p] =
                        [doc.binds[k].listeners[p] EXCEPT ![kind] = R]]]]]
  <1>1. PostDocument("update-route", "traffic", FALSE, new)
    BY DEF UpdateRoute
  <1> HIDE DEF new
  <1>2. /\ doc' = new /\ change'.op = "update-route" /\ change'.expected = doc'
        /\ ~pending /\ pending' = TRUE /\ overwritten' = FALSE
    BY <1>1 DEF PostDocument
  <1>3. IsList(list) /\ (list # <<>> => doc.binds[k].listeners[p].kind = kind)
    BY RoutesAreAList
  <1>4. r \in DOMAIN list
    OBVIOUS
  <1>5. new = [doc EXCEPT !.binds =
                  [doc.binds EXCEPT ![k] = [doc.binds[k] EXCEPT !.listeners =
                     [doc.binds[k].listeners EXCEPT ![p] =
                        [doc.binds[k].listeners[p] EXCEPT ![kind] = R]]]]]
    BY DEF new
  <1>6. IsList(R) /\ MayReplace(change', list, R) /\ list # <<>>
    <2> HIDE DEF list
    <2> QED BY <1>3, <1>4, ReplaceList, EmptyList DEF MayReplace
  <1>7. /\ MayReplace(change', doc.binds[k].listeners[p][kind], R)
        /\ doc.binds[k].listeners[p].kind = kind
        /\ change'.op \in {"create-route", "update-route", "delete-route"}
    BY <1>2, <1>3, <1>6
  <1> HIDE DEF list, R
  <1> QED BY <1>2, <1>5, <1>6, <1>7, RoutesStep

\* DeleteRoute: routes go, which is what the user asked for.
LEMMA DeleteRouteStep ==
  ASSUME Safe(doc), NEW k \in DOMAIN doc.binds,
         NEW p \in DOMAIN doc.binds[k].listeners, NEW kind \in {"http", "tcp"},
         NEW r \in DOMAIN doc.binds[k].listeners[p][kind],
         DeleteRoute(k, p, kind, r)
  PROVE  Step
  <1> DEFINE list == doc.binds[k].listeners[p][kind]
             R == RemoveAt(list, r)
             new == [doc EXCEPT !.binds =
                  [doc.binds EXCEPT ![k] = [doc.binds[k] EXCEPT !.listeners =
                     [doc.binds[k].listeners EXCEPT ![p] =
                        [doc.binds[k].listeners[p] EXCEPT ![kind] = R]]]]]
  <1>1. PostDocument("delete-route", "traffic", FALSE, new)
    BY DEF DeleteRoute
  <1> HIDE DEF new
  <1>2. /\ doc' = new /\ change'.op = "delete-route" /\ change'.expected = doc'
        /\ ~pending /\ pending' = TRUE /\ overwritten' = FALSE
    BY <1>1 DEF PostDocument
  <1>3. IsList(list) /\ (list # <<>> => doc.binds[k].listeners[p].kind = kind)
    BY RoutesAreAList
  <1>4. r \in DOMAIN list
    OBVIOUS
  <1>5. new = [doc EXCEPT !.binds =
                  [doc.binds EXCEPT ![k] = [doc.binds[k] EXCEPT !.listeners =
                     [doc.binds[k].listeners EXCEPT ![p] =
                        [doc.binds[k].listeners[p] EXCEPT ![kind] = R]]]]]
    BY DEF new
  <1>6. IsList(R) /\ list # <<>>
    <2> HIDE DEF list
    <2> QED BY <1>3, <1>4, RemoveList, EmptyList
  <1>7. /\ MayReplace(change', doc.binds[k].listeners[p][kind], R)
        /\ doc.binds[k].listeners[p].kind = kind
        /\ change'.op \in {"create-route", "update-route", "delete-route"}
    BY <1>2, <1>3, <1>6 DEF MayReplace
  <1> HIDE DEF list, R
  <1> QED BY <1>2, <1>5, <1>6, <1>7, RoutesStep

(***************************************************************************)
(* The inductive invariant: the document is what the gateway accepts, a    *)
(* change is known while it waits for its confirmation, and it will be     *)
(* confirmed unless the console stores another document or it is a known   *)
(* gap.  A change is written only if none waits, so that what it finds is  *)
(* a safe document, whoever stored it.                                     *)
(***************************************************************************)
DocumentInv ==
    /\ Safe(doc) /\ (pending <=> change # NoChange)
    /\ WritesAreConfirmed

\* Every change of the LLM gateway keeps the document safe, takes only what
\* is named and is confirmed unless it is a known gap.
LEMMA LLMSteps == Safe(doc) /\ NextLLM => Step
  <1> SUFFICES ASSUME Safe(doc), NextLLM PROVE Step
    OBVIOUS
  <1>1. CASE \E draft \in ProviderDrafts :
               \/ CreateProvider(draft)
               \/ \E i \in DOMAIN doc.providers : UpdateProvider(i, draft)
    BY <1>1, CreateProviderStep, UpdateProviderStep
  <1>2. CASE \E i \in DOMAIN doc.providers, cascade \in BOOLEAN :
               DeleteProvider(i, cascade)
    BY <1>2, DeleteProviderStep
  <1>3. CASE \E draft \in ModelDrafts :
               \/ CreateModel(draft)
               \/ \E i \in DOMAIN doc.models : UpdateModel(i, draft)
    BY <1>3, CreateModelStep, UpdateModelStep
  <1>4. CASE \E i \in DOMAIN doc.models : DeleteModel(i)
    BY <1>4, DeleteModelStep
  <1> QED BY <1>1, <1>2, <1>3, <1>4 DEF NextLLM

\* Every change of the MCP gateway.
LEMMA MCPSteps == Safe(doc) /\ NextMCP => Step
  <1> SUFFICES ASSUME Safe(doc), NextMCP PROVE Step
    OBVIOUS
  <1>1. CASE \E settings \in {"default", "stateful"} : UpdateSettings(settings)
    BY <1>1, UpdateSettingsStep
  <1>2. CASE \E draft \in ServerDrafts :
               \/ CreateServer(draft)
               \/ \E i \in DOMAIN doc.targets : UpdateServer(i, draft)
    BY <1>2, CreateServerStep, UpdateServerStep
  <1>3. CASE \E i \in DOMAIN doc.targets : DeleteServer(i)
    BY <1>3, DeleteServerStep
  <1> QED BY <1>1, <1>2, <1>3 DEF NextMCP

\* Every change of a policy.
LEMMA PolicySteps == Safe(doc) /\ NextPolicies => Step
  <1> SUFFICES ASSUME Safe(doc), NextPolicies PROVE Step
    OBVIOUS
  <1>1. CASE \E family \in Families, key \in PolicyKeys :
               \/ \E value \in {"empty", "set"} : SetGlobalPolicy(family, key, value)
               \/ DeleteGlobalPolicy(family, key)
    BY <1>1, SetGlobalPolicyStep, DeleteGlobalPolicyStep
  <1>2. CASE \E i \in DOMAIN doc.models, key \in ModelPolicyKeys :
               \/ \E expr \in Expressions : SetModelPolicy(i, key, expr)
               \/ DeleteModelPolicy(i, key)
    BY <1>2, SetModelPolicyStep, DeleteModelPolicyStep
  <1> QED BY <1>1, <1>2 DEF NextPolicies

\* Every change of the traffic.
LEMMA TrafficSteps == Safe(doc) /\ NextTraffic => Step
  <1> SUFFICES ASSUME Safe(doc), NextTraffic PROVE Step
    OBVIOUS
  <1>1. CASE \E port \in Ports :
               \/ CreateBind(port)
               \/ \E b \in DOMAIN doc.binds : UpdateBind(b, port)
    BY <1>1, CreateBindStep, UpdateBindStep
  <1>2. ASSUME NEW b \in DOMAIN doc.binds,
               \/ \E agreed \in BOOLEAN : DeleteBind(b, agreed)
               \/ \E draft \in ListenerDrafts : CreateListener(b, draft)
        PROVE  Step
    BY <1>2, DeleteBindStep, CreateListenerStep
  <1>3. ASSUME NEW b \in DOMAIN doc.binds,
               NEW l \in DOMAIN doc.binds[b].listeners,
               \/ \E draft \in ListenerDrafts : UpdateListener(b, l, draft)
               \/ \E agreed \in BOOLEAN : DeleteListener(b, l, agreed)
        PROVE  Step
    BY <1>3, UpdateListenerStep, DeleteListenerStep
  <1>4. ASSUME NEW b \in DOMAIN doc.binds,
               NEW l \in DOMAIN doc.binds[b].listeners, NextRoutes(b, l)
        PROVE  Step
    <2>1. CASE \E draft \in RouteDrafts : CreateRoute(b, l, draft)
      BY <2>1, CreateRouteStep
    <2>2. ASSUME NEW kind \in {"http", "tcp"},
                 NEW r \in DOMAIN doc.binds[b].listeners[l][kind],
                 \/ \E draft \in RouteDrafts : UpdateRoute(b, l, kind, r, draft)
                 \/ DeleteRoute(b, l, kind, r)
          PROVE  Step
      BY <2>2, UpdateRouteStep, DeleteRouteStep
    <2> QED BY <1>4, <2>1, <2>2, Zenon DEF NextRoutes
  <1> QED BY <1>1, <1>2, <1>3, <1>4, Zenon DEF NextTraffic

\* What a step of any kind does to the invariant.
LEMMA DocumentStep ==
  ASSUME DocumentInv, [NextDocuments]_docVars
  PROVE  /\ DocumentInv'
         /\ ~pending /\ pending' => Keeps(change', doc, doc')
  <1>1. CASE Step
    BY <1>1 DEF Step, DocumentInv, WritesAreConfirmed
  <1>2. CASE RereadDocument
    BY <1>2 DEF RereadDocument, DocumentInv, WritesAreConfirmed, Safe
  <1>3. CASE \E new \in Documents : ConsoleStores(new)
    <2>1. PICK new \in Documents : ConsoleStores(new)
      BY <1>3
    <2>2. Safe(doc')
      BY <2>1, DocumentsAssumption DEF ConsoleStores, Safe
    <2> QED BY <2>1, <2>2 DEF ConsoleStores, DocumentInv, WritesAreConfirmed
  <1>4. CASE UNCHANGED docVars
    <2>1. /\ doc' = doc /\ change' = change /\ pending' = pending
          /\ overwritten' = overwritten
      BY <1>4 DEF docVars
    <2>2. (Verified' <=> Verified) /\ (KnownGap' <=> KnownGap)
      BY <2>1 DEF Verified, KnownGap, ReferringTo
    <2> QED BY <2>1, <2>2 DEF DocumentInv, WritesAreConfirmed
  <1>5. Safe(doc)
    BY DEF DocumentInv
  <1> QED BY <1>1, <1>2, <1>3, <1>4, <1>5, LLMSteps, MCPSteps, PolicySteps,
             TrafficSteps DEF NextDocuments

\* Where it begins, and while the coordinator works.
LEMMA DocumentInit == InitDocuments => DocumentInv
  BY DocumentsAssumption DEF InitDocuments, DocumentInv, Safe, WritesAreConfirmed

\* A step of the composition is a step of the documents, or leaves them.
LEMMA ChangesStep ==
  ASSUME [ChangesNext]_<<vars, docVars, working>>
  PROVE  [NextDocuments]_docVars
  BY DEF ChangesNext

\* Either half of the composition implements its own specification, so what
\* is proved of Spec holds in the run that explores both.
THEOREM CompositionIsBoth == ChangesSpec => Spec /\ DocumentsSpec
  <1>1. ChangesInit => Init /\ InitDocuments
    BY DEF ChangesInit
  <1>2. [ChangesNext]_<<vars, docVars, working>> =>
          [Next]_vars /\ [NextDocuments]_docVars
    BY DEF ChangesNext
  <1> QED BY <1>1, <1>2, PTL DEF ChangesSpec, Spec, DocumentsSpec

\* Every reachable document is one the gateway accepts, and what waits for
\* its confirmation is as the code expects to find it.
THEOREM DocumentInvariant == ChangesSpec => []DocumentInv
  <1>1. ChangesInit => DocumentInv
    <2>1. ChangesInit => InitDocuments
      BY DEF ChangesInit
    <2> QED BY <2>1, DocumentInit
  <1>2. DocumentInv /\ [ChangesNext]_<<vars, docVars, working>> => DocumentInv'
    BY ChangesStep, DocumentStep
  <1> QED BY <1>1, <1>2, PTL DEF ChangesSpec

\* For any drafts, policies and ports and any documents the console stores:
\* whatever edits follow each other, names and ports stay unique, references
\* lead somewhere, no model has two TLS policies, no listener routes of the
\* other kind (llm_config.go, mcp_config.go, policy_config.go,
\* traffic_config.go).
THEOREM DocumentStaysSound == ChangesSpec => []DocumentIsSound
  <1>1. DocumentInv => DocumentIsSound
    BY DEF DocumentInv, DocumentIsSound, Safe
  <1> QED BY <1>1, DocumentInvariant, PTL

\* A change that was stored and not overwritten is confirmed by the read
\* that follows (changeVerified, mcpChangeVerified), exactly but for the known gaps.
THEOREM StoredChangesAreConfirmed == ChangesSpec => []WritesAreConfirmed
  <1>1. DocumentInv => WritesAreConfirmed
    BY DEF DocumentInv
  <1> QED BY <1>1, DocumentInvariant, PTL

\* Although the BFF posts whole documents, no change takes anything from the
\* document but what its user named or agreed to.
THEOREM NothingElseIsTaken == ChangesSpec => ChangesAreLocal
  <1>1. DocumentInv /\ [ChangesNext]_<<vars, docVars, working>> =>
          [~pending /\ pending' => ChangeTakesOnlyWhatIsNamed]_docVars
    BY ChangesStep, DocumentStep, KeepsIsTheProperty
  <1> QED BY <1>1, DocumentInvariant, PTL DEF ChangesSpec, ChangesAreLocal
=============================================================================
