----------------------- MODULE GuardOperationsProofs -----------------------
(***************************************************************************)
(* No rule reaches AgentGuard without a check of its own source, and each  *)
(* check leads to one publication at most: for any numbers of checks,      *)
(* publications, agents and sources, and any size of the map.  A scan that *)
(* goes on stays registered and listed, and the registry stays bounded,    *)
(* for any scans and any maximum.                                          *)
(***************************************************************************)
EXTENDS GuardOperations, FiniteSetTheorems, SequenceTheorems, WellFoundedInduction,
        TLAPS

\* A publication that has spent its token and not answered yet, and one that
\* may still reach AgentGuard.
Spending(p) == publish[p].pc \in {"consumed", "begun", "sent"}
MaySend(p)  == publish[p].pc \in {"consumed", "begun"}
Locked(p)   == publish[p].pc \in {"begun", "sent"}
Spent(t)    == t \in Checks /\ check[t].pc = "issued" /\ t \notin checks

CheckRecords == [source : Sources \cup {""}, rank : Int,
                 pc : {"idle", "checked", "issued"}]
CheckTypes ==
    /\ check \in [Checks -> CheckRecords]
    /\ \A t \in checks : t \in Checks /\ check[t].pc = "issued"
    /\ ranks \in Int

PublishTypes ==
    publish \in [Publishes ->
        [source : Sources \cup {""}, token : Checks \cup {""},
         agent : Agents \cup {""},
         pc : {"idle", "resolved", "consumed", "begun", "sent", "ended"}]]

\* A spent token is spent for good, for its own source and by one request.
TokensAreSpentOnce ==
    /\ \A p \in Publishes : Spending(p) =>
         /\ Spent(publish[p].token)
         /\ check[publish[p].token].source = publish[p].source
    /\ \A p, q \in Publishes :
         /\ Spending(p) /\ Spending(q)
         /\ publish[p].token = publish[q].token
         => p = q

\* What was published spent its token, and nobody may send it again.
PublishedIsSpent ==
    /\ \A r \in published : /\ Spent(r.token)
                            /\ check[r.token].source = r.key[2]
    /\ \A r, q \in published : r.token = q.token => r = q
    /\ \A r \in published, p \in Publishes :
         MaySend(p) => r.token # publish[p].token

\* The operation lock of a rule has one holder.
LocksAreHeld ==
    /\ \A p \in Publishes : Locked(p) => Key(p) \in active
    /\ \A p, q \in Publishes : Locked(p) /\ Locked(q) /\ Key(p) = Key(q)
                                 => p = q

RuleInv == /\ CheckTypes /\ PublishTypes
           /\ TokensAreSpentOnce /\ PublishedIsSpent /\ LocksAreHeld
-----------------------------------------------------------------------------
LEMMA NoCheckIsARecord == NoCheck \in CheckRecords
  BY DEF NoCheck, CheckRecords

LEMMA InitRules == Init => RuleInv
  <1> SUFFICES ASSUME Init PROVE RuleInv
    OBVIOUS
  <1>1. CheckTypes
    <2>1. check = [t \in Checks |-> NoCheck] /\ checks = {} /\ ranks = 0
      BY DEF Init
    <2> QED BY <2>1, NoCheckIsARecord DEF CheckTypes
  <1>2. PublishTypes
    BY DEF Init, PublishTypes, NoPublish
  <1>3. published = {} /\ \A p \in Publishes : publish[p].pc = "idle"
    BY DEF Init, NoPublish
  <1>4. TokensAreSpentOnce /\ PublishedIsSpent /\ LocksAreHeld
    BY <1>3 DEF TokensAreSpentOnce, PublishedIsSpent, LocksAreHeld, Spending,
                MaySend, Locked
  <1> QED BY <1>1, <1>2, <1>4 DEF RuleInv

LEMMA StutterRules == ASSUME RuleInv, UNCHANGED ruleVars PROVE RuleInv'
  <1> USE DEF ruleVars, RuleInv
  <1>1. CheckTypes'
    BY DEF CheckTypes
  <1>2. PublishTypes'
    BY DEF PublishTypes
  <1>3. TokensAreSpentOnce'
    BY DEF TokensAreSpentOnce, Spending, Spent
  <1>4. PublishedIsSpent'
    BY DEF PublishedIsSpent, MaySend, Spent
  <1>5. LocksAreHeld'
    BY DEF LocksAreHeld, Locked, Key
  <1> QED BY <1>1, <1>2, <1>3, <1>4, <1>5

\* The scans do not touch the rules.
LEMMA ScanRules == ASSUME RuleInv, NEW s \in Scans, Scan(s)
                   PROVE  RuleInv'
  <1>1. UNCHANGED ruleVars
    BY DEF Scan, StartScan, BeginDetection, EndDetection
  <1> QED BY <1>1, StutterRules

\* A token that is not in use becomes one in use; a spent one stays spent.
LEMMA TokenRules ==
    ASSUME RuleInv, NEW t \in Checks,
           IssueCheck(t) \/ \E source \in Sources : CheckRule(t, source)
    PROVE  RuleInv'
  <1>1. CheckTypes'
    <2>1. CASE \E source \in Sources : CheckRule(t, source)
      <3> PICK source \in Sources : CheckRule(t, source)
        BY <2>1
      <3>1. [source |-> source, pc |-> "checked", rank |-> ranks + 1]
              \in CheckRecords
        <4>1. ranks + 1 \in Int
          BY DEF RuleInv, CheckTypes
        <4> QED BY <4>1 DEF CheckRecords
      <3> QED BY <2>1, <3>1 DEF CheckRule, RuleInv, CheckTypes
    <2>2. CASE IssueCheck(t)
      <3>1. [check[t] EXCEPT !.pc = "issued"] \in CheckRecords
        BY DEF RuleInv, CheckTypes, CheckRecords
      <3>2. check' = [check EXCEPT ![t] = [check[t] EXCEPT !.pc = "issued"]]
        BY <2>2 DEF IssueCheck
      <3>3. checks' \subseteq checks \cup {t} /\ ranks' = ranks
        BY <2>2 DEF IssueCheck
      <3>4. \A u \in Checks : check'[u].pc = "issued" <=>
              u = t \/ check[u].pc = "issued"
        BY <3>2 DEF RuleInv, CheckTypes, CheckRecords
      <3> QED BY <3>1, <3>2, <3>3, <3>4 DEF RuleInv, CheckTypes
    <2> QED BY <2>1, <2>2
  <1>2. publish' = publish /\ published' = published /\ active' = active
    BY DEF CheckRule, IssueCheck
  <1>3. \A u : Spent(u) => Spent(u)' /\ check'[u].source = check[u].source
    BY DEF CheckRule, IssueCheck, Spent, RuleInv, CheckTypes, CheckRecords
  <1> USE DEF RuleInv
  <1>4. PublishTypes'
    BY <1>2 DEF PublishTypes
  <1>5. TokensAreSpentOnce'
    BY <1>2, <1>3 DEF TokensAreSpentOnce, Spending
  <1>6. PublishedIsSpent'
    BY <1>2, <1>3 DEF PublishedIsSpent, MaySend
  <1>7. LocksAreHeld'
    BY <1>2 DEF LocksAreHeld, Locked, Key
  <1> QED BY <1>1, <1>4, <1>5, <1>6, <1>7

LEMMA ExpireRules == ASSUME RuleInv, ExpireCheck PROVE RuleInv'
  <1>1. checks' \subseteq checks
    BY DEF ExpireCheck
  <1>2. UNCHANGED <<check, ranks, publish, active, published>>
    BY DEF ExpireCheck
  <1> USE <1>1, <1>2 DEF RuleInv
  <1>3. CheckTypes'
    BY DEF CheckTypes
  <1>4. PublishTypes'
    BY DEF PublishTypes
  <1>5. TokensAreSpentOnce'
    BY DEF TokensAreSpentOnce, Spending, Spent
  <1>6. PublishedIsSpent'
    BY DEF PublishedIsSpent, MaySend, Spent
  <1>7. LocksAreHeld'
    BY DEF LocksAreHeld, Locked, Key
  <1> QED BY <1>3, <1>4, <1>5, <1>6, <1>7

\* Nothing is spent by asking for an agent.
LEMMA ResolveRules ==
    ASSUME RuleInv, NEW p \in Publishes, NEW t \in Checks, NEW a \in Agents,
           NEW source \in Sources, ResolveAgent(p, t, a, source)
    PROVE  RuleInv'
  <1>1. UNCHANGED <<check, checks, ranks, active, published>>
    BY DEF ResolveAgent
  <1>2. PublishTypes'
    BY DEF ResolveAgent, RuleInv, PublishTypes
  <1>3. \A q \in Publishes : Spending(q)' => q # p /\ Spending(q)
    BY DEF ResolveAgent, Spending, RuleInv, PublishTypes
  <1>4. \A q \in Publishes : q # p => publish'[q] = publish[q]
    BY DEF ResolveAgent, RuleInv, PublishTypes
  <1> USE <1>1 DEF RuleInv
  <1>5. CheckTypes'
    BY DEF CheckTypes
  <1>6. TokensAreSpentOnce'
    BY <1>3, <1>4 DEF TokensAreSpentOnce, Spent
  <1>7. PublishedIsSpent'
    BY <1>3, <1>4 DEF PublishedIsSpent, Spent, MaySend, Spending
  <1>8. LocksAreHeld'
    BY <1>3, <1>4 DEF LocksAreHeld, Locked, Key, Spending
  <1> QED BY <1>2, <1>5, <1>6, <1>7, <1>8

LEMMA PcKeepsTypes ==
    ASSUME PublishTypes, NEW p \in Publishes,
           NEW x \in {"consumed", "begun", "ended"},
           publish' = [publish EXCEPT ![p].pc = x]
    PROVE  PublishTypes'
  BY DEF PublishTypes

LEMMA ConsumeRules == ASSUME RuleInv, NEW p \in Publishes, ConsumeCheck(p)
                      PROVE  RuleInv'
  <1>1. UNCHANGED <<check, ranks, active, published>> /\ checks' \subseteq checks
    BY DEF ConsumeCheck
  <1>2. PublishTypes'
    <2>1. \E x \in {"consumed", "begun", "ended"} :
            publish' = [publish EXCEPT ![p].pc = x]
      BY DEF ConsumeCheck, End
    <2> QED BY <2>1, PcKeepsTypes DEF RuleInv
  <1>3. /\ \A q \in Publishes : q # p => publish'[q] = publish[q]
        /\ publish'[p].token = publish[p].token
        /\ publish'[p].source = publish[p].source
        /\ publish'[p].pc \in {"consumed", "ended"}
    <2>1. PICK x \in {"consumed", "ended"} : publish' = [publish EXCEPT ![p].pc = x]
      BY DEF ConsumeCheck, End
    <2>2. p \in DOMAIN publish /\ DOMAIN publish = Publishes /\ "pc" \in DOMAIN publish[p]
      BY DEF RuleInv, PublishTypes
    <2> QED BY <2>1, <2>2
  <1>4. publish'[p].pc = "consumed" =>
          /\ publish[p].token \in checks /\ publish[p].token \notin checks'
          /\ check[publish[p].token].source = publish[p].source
    BY DEF ConsumeCheck, End, RuleInv, PublishTypes
  <1> USE <1>1 DEF RuleInv
  <1>5. CheckTypes'
    BY DEF CheckTypes
  <1>6. TokensAreSpentOnce'
    BY <1>3, <1>4 DEF TokensAreSpentOnce, Spent, Spending, CheckTypes
  <1>7. PublishedIsSpent'
    BY <1>3, <1>4 DEF PublishedIsSpent, Spent, MaySend
  <1>8. LocksAreHeld'
    BY <1>3 DEF LocksAreHeld, Locked, Key
  <1> QED BY <1>2, <1>5, <1>6, <1>7, <1>8

LEMMA BeginRules == ASSUME RuleInv, NEW p \in Publishes, BeginMutation(p)
                    PROVE  RuleInv'
  <1>1. UNCHANGED <<check, checks, ranks, published>> /\ active \subseteq active'
    BY DEF BeginMutation
  <1>2. PublishTypes'
    <2>1. \E x \in {"consumed", "begun", "ended"} :
            publish' = [publish EXCEPT ![p].pc = x]
      BY DEF BeginMutation, End
    <2> QED BY <2>1, PcKeepsTypes DEF RuleInv
  <1>3. /\ \A q \in Publishes : q # p => publish'[q] = publish[q]
        /\ publish[p].pc = "consumed" /\ publish'[p].pc \in {"begun", "ended"}
        /\ publish'[p].token = publish[p].token
        /\ publish'[p].source = publish[p].source
        /\ publish'[p].agent = publish[p].agent
    BY DEF BeginMutation, End, RuleInv, PublishTypes
  <1>4. publish'[p].pc = "begun" => Key(p) \notin active /\ Key(p) \in active'
    BY DEF BeginMutation, End, RuleInv, PublishTypes
  <1> USE <1>1 DEF RuleInv
  <1>5. CheckTypes'
    BY DEF CheckTypes
  <1>6. TokensAreSpentOnce'
    BY <1>3 DEF TokensAreSpentOnce, Spent, Spending
  <1>7. PublishedIsSpent'
    BY <1>3 DEF PublishedIsSpent, Spent, MaySend
  <1>8. LocksAreHeld'
    <2>1. \A q \in Publishes : Key(q)' = Key(q)
      BY <1>3 DEF Key
    <2>2. \A q \in Publishes : Locked(q)' =>
            \/ q = p /\ publish'[p].pc = "begun"
            \/ q # p /\ Locked(q)
      <3> TAKE q \in Publishes
      <3>1. CASE q = p
        BY <1>3, <3>1 DEF Locked
      <3>2. CASE q # p
        BY <1>3, <3>2 DEF Locked
      <3> QED BY <3>1, <3>2
    <2> QED BY <1>4, <2>1, <2>2 DEF LocksAreHeld
  <1> QED BY <1>2, <1>5, <1>6, <1>7, <1>8

\* The one step that publishes: its token was spent by it and by nobody else.
LEMMA SendRules == ASSUME RuleInv, NEW p \in Publishes, SendRule(p)
                   PROVE  RuleInv'
  <1>1. UNCHANGED <<check, checks, ranks, active>>
    BY DEF SendRule
  <1>2. PublishTypes'
    BY DEF SendRule, RuleInv, PublishTypes
  <1>3. /\ \A q \in Publishes : q # p => publish'[q] = publish[q]
        /\ publish[p].pc = "begun" /\ publish'[p].pc = "sent"
        /\ publish'[p].token = publish[p].token
        /\ publish'[p].source = publish[p].source
        /\ publish'[p].agent = publish[p].agent
    BY DEF SendRule, RuleInv, PublishTypes
  <1>4. \A r \in published' : \/ r \in published
                               \/ r = [token |-> publish[p].token, by |-> p,
                                       key |-> Key(p)]
    BY DEF SendRule
  <1> USE <1>1 DEF RuleInv
  <1>5. CheckTypes'
    BY DEF CheckTypes
  <1>6. TokensAreSpentOnce'
    BY <1>3 DEF TokensAreSpentOnce, Spent, Spending
  <1>7. PublishedIsSpent'
    <2>1. /\ Spending(p) /\ Spent(publish[p].token)
          /\ check[publish[p].token].source = publish[p].source
      BY <1>3 DEF TokensAreSpentOnce, Spending
    <2>2. \A r \in published' : Spent(r.token) /\ check[r.token].source = r.key[2]
      BY <1>4, <2>1 DEF PublishedIsSpent, Key
    <2>3. \A r, q \in published' : r.token = q.token => r = q
      BY <1>3, <1>4 DEF PublishedIsSpent, MaySend
    <2>4. \A r \in published', q \in Publishes :
            MaySend(q)' => r.token # publish'[q].token
      BY <1>3, <1>4, <2>1 DEF PublishedIsSpent, TokensAreSpentOnce, MaySend,
                              Spending
    <2> QED BY <2>2, <2>3, <2>4 DEF PublishedIsSpent, Spent
  <1>8. LocksAreHeld'
    BY <1>3 DEF LocksAreHeld, Locked, Key
  <1> QED BY <1>2, <1>5, <1>6, <1>7, <1>8

LEMMA EndRules == ASSUME RuleInv, NEW p \in Publishes, EndMutation(p)
                  PROVE  RuleInv'
  <1>1. /\ UNCHANGED <<check, checks, ranks, published>>
        /\ active' = active \ {Key(p)}
    BY DEF EndMutation
  <1>2. PublishTypes'
    BY DEF EndMutation, End, RuleInv, PublishTypes
  <1>3. /\ \A q \in Publishes : q # p => publish'[q] = publish[q]
        /\ publish[p].pc = "sent" /\ publish'[p].pc = "ended"
    BY DEF EndMutation, End, RuleInv, PublishTypes
  <1> USE <1>1 DEF RuleInv
  <1>5. CheckTypes'
    BY DEF CheckTypes
  <1>6. TokensAreSpentOnce'
    BY <1>3 DEF TokensAreSpentOnce, Spent, Spending
  <1>7. PublishedIsSpent'
    BY <1>3 DEF PublishedIsSpent, Spent, MaySend
  <1>8. LocksAreHeld'
    <2>1. \A q \in Publishes : Locked(q)' => q # p /\ Locked(q) /\ Key(q)' = Key(q)
      BY <1>3 DEF Locked, Key
    <2> QED BY <1>3, <2>1 DEF LocksAreHeld, Locked
  <1> QED BY <1>2, <1>5, <1>6, <1>7, <1>8

\* Who was spending is gone, and a token that was handed out stays unusable.
LEMMA RestartRules == ASSUME RuleInv, Restart PROVE RuleInv'
  <1>1. /\ checks' = {} /\ active' = {} /\ ranks' = ranks
        /\ published' = published
    BY DEF Restart
  <1>2. \A t \in Checks : check[t].pc = "issued" =>
          check'[t].pc = "issued" /\ check'[t].source = check[t].source
    BY DEF Restart, RuleInv, CheckTypes, CheckRecords
  <1>3. \A p \in Publishes : publish'[p].pc \in {"idle", "ended"}
    BY DEF Restart, RuleInv, PublishTypes, NoPublish
  <1>4. CheckTypes'
    <2>1. \A t \in Checks : [check[t] EXCEPT !.pc = "issued"] \in CheckRecords
      BY DEF RuleInv, CheckTypes, CheckRecords
    <2>2. check' = [t \in Checks |-> IF check[t].pc = "idle" THEN NoCheck
                                     ELSE [check[t] EXCEPT !.pc = "issued"]]
      BY DEF Restart
    <2> QED BY <1>1, <2>1, <2>2, NoCheckIsARecord DEF RuleInv, CheckTypes
  <1>5. PublishTypes'
    BY DEF Restart, RuleInv, PublishTypes, NoPublish
  <1> USE DEF RuleInv
  <1>6. TokensAreSpentOnce'
    BY <1>3 DEF TokensAreSpentOnce, Spending
  <1>7. PublishedIsSpent'
    BY <1>1, <1>2, <1>3 DEF PublishedIsSpent, Spent, MaySend
  <1>8. LocksAreHeld'
    BY <1>3 DEF LocksAreHeld, Locked
  <1> QED BY <1>4, <1>5, <1>6, <1>7, <1>8
-----------------------------------------------------------------------------
LEMMA RuleStep == ASSUME RuleInv, [Next]_vars PROVE RuleInv'
  <1>1. CASE Restart
    BY <1>1, RestartRules
  <1>2. CASE \E s \in Scans : Scan(s)
    BY <1>2, ScanRules
  <1>3. CASE \E t \in Checks : Check(t)
    BY <1>3, TokenRules DEF Check
  <1>4. CASE ExpireCheck
    BY <1>4, ExpireRules
  <1>5. CASE \E p \in Publishes : Publish(p)
    <2>1. PICK p \in Publishes : Publish(p)
      BY <1>5
    <2>2. CASE \E t \in Checks, agent \in Agents, source \in Sources :
                 ResolveAgent(p, t, agent, source)
      BY <2>2, ResolveRules
    <2> QED BY <2>1, <2>2, ConsumeRules, BeginRules, SendRules, EndRules
            DEF Publish
  <1>6. CASE UNCHANGED vars
    BY <1>6, StutterRules DEF vars
  <1> QED BY <1>1, <1>2, <1>3, <1>4, <1>5, <1>6 DEF Next, NextScans, NextRules

\* The invariant behind OnePublishPerCheck (CheckRule to EndMutation of
\* protect/service.go): spent tokens stay spent, and have one spender.
THEOREM RuleInvariant == Spec => []RuleInv
  BY InitRules, RuleStep, PTL DEF Spec

LEMMA PublishesAreCheckedNow == RuleInv => OnePublishPerCheck
  BY DEF RuleInv, PublishedIsSpent, LocksAreHeld, Locked, OnePublishPerCheck

\* OnePublishPerCheck, for any numbers of checks, publications, agents and
\* sources and any size of the map: PublishRule of protect/service.go never
\* sends a rule without a check of its source, nor twice on one check, nor
\* twice at a time for one agent.
THEOREM PublishesAreChecked == Spec => []OnePublishPerCheck
  BY PublishesAreCheckedNow, RuleInvariant, PTL
-----------------------------------------------------------------------------
(* Scans *)

Statuses == {"queued", "running", "succeeded", "failed"}
\* The list holds each registered job once, in no particular order here.
Lists(order, set) ==
    /\ order \in Seq(Scans)
    /\ \A i \in 1..Len(order) : order[i] \in set
    /\ \A i, j \in 1..Len(order) : order[i] = order[j] => i = j
    /\ \A s \in set : \E i \in 1..Len(order) : order[i] = s

\* A goroutine that goes on has a job which is registered and unfinished; a scan
\* that was never asked for has none.
ScanInv ==
    /\ IsFiniteSet(DOMAIN jobs) /\ DOMAIN jobs \subseteq Scans
    /\ Cardinality(DOMAIN jobs) <= MaxScanJobs
    /\ \A s \in DOMAIN jobs : jobs[s] \in Statuses
    /\ Lists(jobOrder, DOMAIN jobs)
    /\ worker \in [Scans -> {"none", "started", "detecting", "done"}]
    /\ \A s \in Scans : worker[s] = "none" => s \notin DOMAIN jobs
    /\ \A s \in Scans : worker[s] \in {"started", "detecting"} =>
         s \in DOMAIN jobs /\ ~Completed(s)

\* A list of distinct elements grows by a new one,
LEMMA AppendLists ==
    ASSUME NEW order, NEW set, NEW s \in Scans, Lists(order, set), s \notin set
    PROVE  Lists(Append(order, s), set \cup {s})
  <1> DEFINE longer == Append(order, s)
  <1>1. order \in Seq(Scans) /\ Len(order) \in Nat
    BY LenProperties DEF Lists
  <1>2. /\ longer \in Seq(Scans) /\ Len(longer) = Len(order) + 1
        /\ \A i \in 1..Len(order) : longer[i] = order[i]
        /\ longer[Len(order) + 1] = s
    BY <1>1, AppendProperties
  <1> HIDE DEF longer
  <1>3. \A i \in 1..Len(longer) : i \in 1..Len(order) \/ i = Len(order) + 1
    BY <1>1, <1>2
  <1>4. \A i \in 1..Len(longer) : longer[i] \in set \cup {s}
    BY <1>2, <1>3 DEF Lists
  <1>5. \A i, j \in 1..Len(longer) : longer[i] = longer[j] => i = j
    BY <1>2, <1>3 DEF Lists
  <1>6. \A t \in set \cup {s} : \E i \in 1..Len(longer) : longer[i] = t
    <2>1. \A i \in 1..Len(order) : i \in 1..Len(longer)
      BY <1>1, <1>2
    <2>2. Len(order) + 1 \in 1..Len(longer)
      BY <1>1, <1>2
    <2> QED BY <1>2, <2>1, <2>2 DEF Lists
  <1> QED BY <1>2, <1>4, <1>5, <1>6 DEF Lists, longer

\* and shrinks by the one at a position.
LEMMA RemoveLists ==
    ASSUME NEW order, NEW set, NEW i \in 1..Len(order), Lists(order, set)
    PROVE  Lists(RemoveAt(order, i), set \ {order[i]})
  <1> DEFINE before == SubSeq(order, 1, i - 1)
             after == SubSeq(order, i + 1, Len(order))
             rest == RemoveAt(order, i)
             at(k) == IF k < i THEN k ELSE k + 1
  <1>1. order \in Seq(Scans) /\ Len(order) \in Nat /\ i \in Int
        /\ \A k \in 1..Len(order) : order[k] \in Scans
    BY LenProperties DEF Lists
  <1>2. /\ before \in Seq(Scans) /\ Len(before) = i - 1
        /\ \A k \in 1..i - 1 : before[k] = order[k]
    <2>1. /\ before \in Seq(Scans) /\ Len(before) = (IF 1 <= i - 1 THEN i - 1 - 1 + 1 ELSE 0)
          /\ \A k \in 1..(i - 1) - 1 + 1 : before[k] = order[1 + k - 1]
      <3>1. \A k \in 1..i - 1 : order[k] \in Scans
        BY <1>1
      <3> QED BY <1>1, <3>1, SubSeqProperties
    <2> QED BY <1>1, <2>1
  <1>3. /\ after \in Seq(Scans) /\ Len(after) = Len(order) - i
        /\ \A k \in 1..Len(order) - i : after[k] = order[k + i]
    <2>1. /\ after \in Seq(Scans)
          /\ Len(after) = (IF i + 1 <= Len(order) THEN Len(order) - (i + 1) + 1 ELSE 0)
          /\ \A k \in 1..Len(order) - (i + 1) + 1 : after[k] = order[i + 1 + k - 1]
      <3>1. \A k \in i + 1..Len(order) : order[k] \in Scans
        BY <1>1
      <3> QED BY <1>1, <3>1, SubSeqProperties
    <2> QED BY <1>1, <2>1
  <1>4. /\ rest \in Seq(Scans) /\ Len(rest) = Len(order) - 1
        /\ \A k \in 1..Len(rest) : rest[k] = order[at(k)]
    <2>1. rest = before \o after
      BY DEF RemoveAt
    <2> HIDE DEF before, after, rest
    <2>2. /\ rest \in Seq(Scans) /\ Len(rest) = Len(before) + Len(after)
          /\ \A k \in 1..Len(before) + Len(after) :
               rest[k] = IF k <= Len(before) THEN before[k] ELSE after[k - Len(before)]
      BY <1>2, <1>3, <2>1, ConcatProperties
    <2>3. Len(rest) = Len(order) - 1
      BY <1>1, <1>2, <1>3, <2>2
    <2>4. ASSUME NEW k \in 1..Len(rest) PROVE rest[k] = order[at(k)]
      <3>1. rest[k] = IF k <= i - 1 THEN before[k] ELSE after[k - (i - 1)]
        BY <1>2, <2>2
      <3>2. CASE k < i
        <4>1. k \in 1..i - 1
          BY <1>1, <2>3, <3>2
        <4> QED BY <1>1, <1>2, <3>1, <3>2, <4>1
      <3>3. CASE ~ (k < i)
        <4>1. k - (i - 1) \in 1..Len(order) - i /\ k - (i - 1) + i = k + 1 /\ ~ (k <= i - 1)
          BY <1>1, <2>3, <3>3
        <4> QED BY <1>3, <3>1, <3>3, <4>1
      <3> QED BY <3>2, <3>3
    <2> QED BY <2>2, <2>3, <2>4
  <1> HIDE DEF rest, before, after
  <1>5. \A k \in 1..Len(rest) : at(k) \in 1..Len(order) /\ at(k) # i
    BY <1>1, <1>4
  <1>6. \A k \in 1..Len(rest) : rest[k] \in set \ {order[i]}
    <2> TAKE k \in 1..Len(rest)
    <2>1. at(k) \in 1..Len(order) /\ at(k) # i /\ rest[k] = order[at(k)]
      BY <1>4, <1>5
    <2> HIDE DEF at
    <2> QED BY <2>1 DEF Lists
  <1>7. \A k, l \in 1..Len(rest) : rest[k] = rest[l] => k = l
    <2> TAKE k, l \in 1..Len(rest)
    <2> HAVE rest[k] = rest[l]
    <2>1. at(k) = at(l)
      <3>1. /\ at(k) \in 1..Len(order) /\ rest[k] = order[at(k)]
            /\ at(l) \in 1..Len(order) /\ rest[l] = order[at(l)]
        BY <1>4, <1>5
      <3> HIDE DEF at
      <3> QED BY <3>1 DEF Lists
    <2> QED BY <1>1, <1>4, <2>1
  <1>8. \A s \in set \ {order[i]} : \E k \in 1..Len(rest) : rest[k] = s
    <2> TAKE s \in set \ {order[i]}
    <2>1. PICK l \in 1..Len(order) : order[l] = s
      BY DEF Lists
    <2> DEFINE k == IF l < i THEN l ELSE l - 1
    <2>2. l # i /\ l \in Int
      BY <1>1, <2>1
    <2>3. k \in 1..Len(rest) /\ at(k) = l
      BY <1>1, <1>4, <2>2
    <2> QED BY <1>4, <2>1, <2>3
  <1> QED BY <1>4, <1>6, <1>7, <1>8 DEF Lists, rest

\* The registry takes a job only while it has room for it.
LEMMA RegisterScan ==
    ASSUME GuardAssumption, ScanInv, NEW s \in Scans, worker[s] = "none",
           NEW kept, NEW order, kept \subseteq DOMAIN jobs, Lists(order, kept),
           Cardinality(kept) < MaxScanJobs,
           \A t \in DOMAIN jobs \ kept : Completed(t),
           Register(s, kept, order),
           worker' = [worker EXCEPT ![s] = "started"]
    PROVE  ScanInv'
  <1>1. s \notin DOMAIN jobs /\ s \notin kept
    BY DEF ScanInv
  <1>2. /\ DOMAIN jobs' = kept \cup {s} /\ jobOrder' = Append(order, s)
        /\ jobs'[s] = "queued" /\ \A t \in kept : jobs'[t] = jobs[t]
    BY <1>1 DEF Register
  <1>3. IsFiniteSet(DOMAIN jobs') /\ Cardinality(DOMAIN jobs') <= MaxScanJobs
    <2>1. IsFiniteSet(kept) /\ Cardinality(kept) \in Nat
      BY FS_Subset, FS_CardinalityType DEF ScanInv
    <2>2. IsFiniteSet(kept \cup {s}) /\ Cardinality(kept \cup {s}) = Cardinality(kept) + 1
      BY <1>1, <2>1, FS_AddElement
    <2> QED BY <1>2, <2>1, <2>2 DEF GuardAssumption
  <1>4. Lists(jobOrder', DOMAIN jobs')
    BY <1>1, <1>2, AppendLists
  <1>5. \A t \in DOMAIN jobs' : jobs'[t] \in Statuses
    BY <1>2 DEF ScanInv, Statuses
  <1>6. /\ worker'[s] = "started" /\ \A t \in Scans : t # s => worker'[t] = worker[t]
        /\ worker' \in [Scans -> {"none", "started", "detecting", "done"}]
    BY DEF ScanInv
  <1>7. \A t \in Scans : worker'[t] = "none" => t \notin DOMAIN jobs'
    BY <1>2, <1>6 DEF ScanInv
  <1>8. ASSUME NEW t \in Scans, worker'[t] \in {"started", "detecting"}
        PROVE  t \in DOMAIN jobs' /\ jobs'[t] \notin {"succeeded", "failed"}
    <2>1. CASE t = s
      BY <1>2, <2>1
    <2>2. CASE t # s
      <3>1. t \in DOMAIN jobs /\ ~Completed(t)
        BY <1>6, <1>8, <2>2 DEF ScanInv
      <3>2. t \in kept
        BY <3>1
      <3> QED BY <1>2, <3>1, <3>2 DEF Completed
    <2> QED BY <2>1, <2>2
  <1>9. DOMAIN jobs' \subseteq Scans
    BY <1>2 DEF ScanInv
  <1> QED BY <1>3, <1>4, <1>5, <1>6, <1>7, <1>8, <1>9 DEF ScanInv, Completed

\* A new job is listed, and only a completed one makes room for it.
LEMMA StartKeepsScans ==
    ASSUME GuardAssumption, ScanInv, NEW s \in Scans, StartScan(s)
    PROVE  ScanInv'
  <1>0. worker[s] = "none" /\ worker' = [worker EXCEPT ![s] = "started"]
    BY DEF StartScan
  <1>1. CASE ~Full /\ Register(s, DOMAIN jobs, jobOrder)
    <2>1. Cardinality(DOMAIN jobs) < MaxScanJobs
      BY <1>1, FS_CardinalityType DEF Full, ScanInv, GuardAssumption
    <2> QED BY <1>0, <1>1, <2>1, RegisterScan DEF ScanInv
  <1>2. CASE \E i \in Pruned :
               Register(s, DOMAIN jobs \ {jobOrder[i]}, RemoveAt(jobOrder, i))
    <2>1. PICK i \in Pruned :
            Register(s, DOMAIN jobs \ {jobOrder[i]}, RemoveAt(jobOrder, i))
      BY <1>2
    <2>2. i \in 1..Len(jobOrder) /\ Completed(jobOrder[i])
      BY <2>1, LenProperties DEF Pruned, ScanInv, Lists
    <2>3. jobOrder[i] \in DOMAIN jobs
      BY <2>2 DEF ScanInv, Lists
    <2>4. Cardinality(DOMAIN jobs \ {jobOrder[i]}) < MaxScanJobs
      <3>1. Cardinality(DOMAIN jobs \ {jobOrder[i]}) = Cardinality(DOMAIN jobs) - 1
            /\ Cardinality(DOMAIN jobs) \in Nat
        BY <2>3, FS_RemoveElement, FS_CardinalityType DEF ScanInv
      <3> QED BY <3>1 DEF ScanInv, GuardAssumption
    <2>5. Lists(RemoveAt(jobOrder, i), DOMAIN jobs \ {jobOrder[i]})
      BY <2>2, RemoveLists DEF ScanInv
    <2>6. \A t \in DOMAIN jobs \ (DOMAIN jobs \ {jobOrder[i]}) : Completed(t)
      BY <2>2
    <2> QED BY <1>0, <2>1, <2>4, <2>5, <2>6, RegisterScan
  <1> QED BY <1>1, <1>2 DEF StartScan, NewJob

\* A goroutine updates its own job, which is registered, and completes it last.
LEMMA UpdateKeepsScans ==
    ASSUME ScanInv, NEW s \in Scans, NEW status \in Statuses, NEW next,
           UpdateJob(s, status), jobOrder' = jobOrder,
           worker[s] \in {"started", "detecting"}, next \in {"detecting", "done"},
           worker' = [worker EXCEPT ![s] = next],
           next = "detecting" => status \notin {"succeeded", "failed"}
    PROVE  ScanInv'
  <1>1. /\ DOMAIN jobs' = DOMAIN jobs
        /\ \A t \in DOMAIN jobs : jobs'[t] = IF t = s THEN status ELSE jobs[t]
    BY DEF UpdateJob
  <1>2. /\ worker'[s] = next /\ \A t \in Scans : t # s => worker'[t] = worker[t]
        /\ worker' \in [Scans -> {"none", "started", "detecting", "done"}]
    BY DEF ScanInv
  <1>3. s \in DOMAIN jobs
    BY DEF ScanInv
  <1>4. \A t \in Scans : worker'[t] \in {"started", "detecting"} =>
          t \in DOMAIN jobs /\ jobs'[t] \notin {"succeeded", "failed"}
    BY <1>1, <1>2, <1>3 DEF ScanInv, Completed
  <1>5. \A t \in Scans : worker'[t] = "none" => t \notin DOMAIN jobs
    BY <1>2 DEF ScanInv
  <1>6. \A t \in DOMAIN jobs : jobs'[t] \in Statuses
    BY <1>1 DEF ScanInv
  <1> QED BY <1>1, <1>2, <1>4, <1>5, <1>6 DEF ScanInv, Completed

LEMMA ScanStep == ASSUME GuardAssumption, ScanInv, [Next]_vars PROVE ScanInv'
  <1>1. ASSUME UNCHANGED scanVars PROVE ScanInv'
    BY <1>1 DEF scanVars, ScanInv, Completed
  <1>2. CASE Restart
    <2>1. /\ jobs' = [s \in {} |-> ""] /\ jobOrder' = <<>>
          /\ worker' = [s \in Scans |-> IF worker[s] = "none" THEN "none" ELSE "done"]
      BY <1>2 DEF Restart
    <2>2. DOMAIN jobs' = {} /\ IsFiniteSet({}) /\ Cardinality({}) = 0
      BY <2>1, FS_EmptySet
    <2>3. Lists(<<>>, {})
      BY EmptySeq DEF Lists
    <2>4. \A s \in Scans : worker'[s] \in {"none", "done"}
      BY <2>1
    <2> QED BY <2>1, <2>2, <2>3, <2>4 DEF ScanInv, GuardAssumption
  <1>3. CASE \E s \in Scans : Scan(s)
    <2>1. PICK s \in Scans : Scan(s)
      BY <1>3
    <2>2. CASE StartScan(s)
      BY <2>2, StartKeepsScans
    <2>3. CASE BeginDetection(s)
      BY <2>3, UpdateKeepsScans DEF BeginDetection, Statuses
    <2>4. CASE EndDetection(s)
      <3>1. PICK status \in {"succeeded", "failed"} : UpdateJob(s, status)
        BY <2>4 DEF EndDetection
      <3> QED BY <2>4, <3>1, UpdateKeepsScans DEF EndDetection, Statuses
    <2> QED BY <2>1, <2>2, <2>3, <2>4 DEF Scan
  <1>4. CASE NextRules /\ ~Restart
    BY <1>1, <1>4 DEF NextRules, Check, CheckRule, IssueCheck, ExpireCheck, Publish,
                      ResolveAgent, ConsumeCheck, BeginMutation, SendRule, EndMutation
  <1> QED BY <1>1, <1>2, <1>3, <1>4 DEF Next, NextScans, vars

LEMMA InitScans == ASSUME GuardAssumption, Init PROVE ScanInv
  <1>1. DOMAIN jobs = {} /\ jobOrder = <<>> /\ worker = [s \in Scans |-> "none"]
    BY DEF Init
  <1>2. IsFiniteSet({}) /\ Cardinality({}) = 0 /\ Lists(<<>>, {})
    BY FS_EmptySet, EmptySeq DEF Lists
  <1> QED BY <1>1, <1>2 DEF ScanInv, GuardAssumption

\* Each listed job is registered once, so the list is as long as the registry.
LEMMA ScansAreListedNow == ScanInv => RunningScansAreListed
  <1> SUFFICES ASSUME ScanInv PROVE RunningScansAreListed
    OBVIOUS
  <1>1. /\ Len(jobOrder) \in Nat /\ DOMAIN jobOrder = 1..Len(jobOrder)
        /\ jobOrder \in [1..Len(jobOrder) -> Scans]
    BY LenProperties DEF ScanInv, Lists
  <1>2. ToSet(jobOrder) = DOMAIN jobs
    <2>1. ToSet(jobOrder) = {jobOrder[i] : i \in 1..Len(jobOrder)}
      BY <1>1 DEF ToSet
    <2>2. /\ \A i \in 1..Len(jobOrder) : jobOrder[i] \in DOMAIN jobs
          /\ \A s \in DOMAIN jobs : \E i \in 1..Len(jobOrder) : jobOrder[i] = s
      BY DEF ScanInv, Lists
    <2>3. ASSUME NEW s \in DOMAIN jobs PROVE s \in ToSet(jobOrder)
      BY <2>1, <2>2
    <2>4. ASSUME NEW s \in ToSet(jobOrder) PROVE s \in DOMAIN jobs
      BY <2>1, <2>2
    <2> QED BY <2>3, <2>4
  <1>3. jobOrder \in Bijection(1..Len(jobOrder), DOMAIN jobs)
    BY <1>1 DEF Bijection, Injection, Surjection, IsInjective, ScanInv, Lists
  <1>4. Cardinality(DOMAIN jobs) = Len(jobOrder)
    <2>1. IsFiniteSet(1..Len(jobOrder)) /\ Cardinality(1..Len(jobOrder)) = Len(jobOrder)
      BY <1>1, FS_Interval
    <2> QED BY <1>3, <2>1, FS_Bijection DEF ExistsBijection
  <1> QED BY <1>2, <1>4 DEF RunningScansAreListed, ScanInv

\* A scan that goes on stays registered and listed, for any number of scans and
\* any size of the registry (newJob and pruneCompletedJobs of trust/service.go).
THEOREM ScansStayListed == GuardAssumption => (Spec => []RunningScansAreListed)
  <1> SUFFICES ASSUME GuardAssumption PROVE Spec => []RunningScansAreListed
    OBVIOUS
  <1>1. Init => ScanInv
    BY InitScans
  <1>2. ScanInv /\ [Next]_vars => ScanInv'
    BY ScanStep
  <1> QED BY <1>1, <1>2, ScansAreListedNow, PTL DEF Spec
-----------------------------------------------------------------------------
(* Bounds of the map of checks *)

\* Clock readings are handed out once per check, and the map is no larger than
\* its limit.
Begun == {t \in Checks : check[t].pc # "idle"}
BoundInv == /\ ranks = Cardinality(Begun)
            /\ Cardinality(checks) <= MaxChecks

\* Only finitely many checks are kept.
LEMMA ChecksAreFinite ==
    ASSUME GuardAssumption, RuleInv
    PROVE  /\ IsFiniteSet(checks) /\ Cardinality(checks) \in Nat
           /\ IsFiniteSet(Begun) /\ Cardinality(Begun) \in Nat
  <1>1. IsFiniteSet(Checks) /\ checks \subseteq Checks /\ Begun \subseteq Checks
    BY DEF GuardAssumption, RuleInv, CheckTypes, Begun
  <1> QED BY <1>1, FS_Subset, FS_CardinalityType

\* The oldest of finitely many checks is one of them.
LEMMA OldestIsChecked ==
    ASSUME GuardAssumption, RuleInv, checks # {}
    PROVE  OldestCheck \in checks
  <1> DEFINE below(t) == {u \in checks : check[u].rank < check[t].rank}
             B == {below(t) : t \in checks}
             R == StrictSubsetOrdering(checks)
  <1>1. B \subseteq FiniteSubsetsOf(checks) /\ B # {}
    <2>1. \A t \in checks : below(t) \subseteq checks /\ IsFiniteSet(below(t))
      BY ChecksAreFinite, FS_Subset
    <2> QED BY <2>1 DEF FiniteSubsetsOf
  <1>2. IsWellFoundedOn(R, FiniteSubsetsOf(checks))
    BY FS_StrictSubsetOrderingWellFounded
  <1>3. PICK X \in B : \A Y \in B : ~ (<<Y, X>> \in R)
    <2> HIDE DEF R, B
    <2> QED BY <1>1, <1>2, WFMin
  <1>4. PICK t \in checks : X = below(t)
    OBVIOUS
  <1>0. \A u \in checks : check[u].rank \in Int
    BY DEF RuleInv, CheckTypes, CheckRecords
  <1>5. ASSUME NEW u \in checks, check[u].rank < check[t].rank PROVE FALSE
    <2>1. below(u) \subseteq below(t) /\ u \in below(t) /\ u \notin below(u)
      BY <1>0, <1>5
    <2>2. below(u) \in SUBSET checks /\ below(t) \in SUBSET checks /\ below(u) \in B
      OBVIOUS
    <2> HIDE DEF below, B
    <2>3. <<below(u), below(t)>> \in R
      BY <2>1, <2>2 DEF StrictSubsetOrdering
    <2> QED BY <1>3, <1>4, <2>2, <2>3
  <1>6. \A u \in checks : check[t].rank <= check[u].rank
    BY <1>0, <1>5
  <1> HIDE DEF below, B, R
  <1> QED BY <1>6 DEF OldestCheck

\* A check that makes room for another was in the map.
LEMMA BoundStep ==
    ASSUME GuardAssumption, RuleInv, BoundInv, [Next]_vars PROVE BoundInv'
  <1>c. check \in [Checks -> CheckRecords]
    BY DEF RuleInv, CheckTypes
  <1>f. /\ IsFiniteSet(checks) /\ Cardinality(checks) \in Nat
        /\ IsFiniteSet(Begun) /\ Cardinality(Begun) \in Nat
    BY ChecksAreFinite
  <1>m. MaxChecks \in Nat \ {0}
    BY DEF GuardAssumption
  \* the map, without some checks, and with at most one that it has room for
  <1>1. ASSUME checks' \subseteq checks
        PROVE  Cardinality(checks') <= MaxChecks
    <2>1. Cardinality(checks') <= Cardinality(checks) /\ Cardinality(checks') \in Nat
      BY <1>1, <1>f, FS_Subset, FS_CardinalityType
    <2> QED BY <2>1, <1>f, <1>m DEF BoundInv
  <1>2. ASSUME Begun' = Begun, ranks' = ranks PROVE ranks' = Cardinality(Begun')
    BY <1>2 DEF BoundInv
  <1>3. ASSUME UNCHANGED <<check, checks, ranks>> PROVE BoundInv'
    BY <1>3 DEF BoundInv, Begun
  <1>4. ASSUME NEW t \in Checks, NEW source \in Sources, CheckRule(t, source)
        PROVE  BoundInv'
    <2>1. t \notin Begun /\ ranks' = ranks + 1 /\ checks' = checks
      BY <1>4 DEF CheckRule, Begun
    <2>2. Begun' = Begun \cup {t}
      <3>1. /\ check'[t].pc = "checked"
            /\ \A u \in Checks : u # t => check'[u] = check[u]
        BY <1>4, <1>c DEF CheckRule
      <3> QED BY <3>1 DEF Begun
    <2>3. Cardinality(Begun \cup {t}) = Cardinality(Begun) + 1
      BY <2>1, <1>f, FS_AddElement
    <2> QED BY <2>1, <2>2, <2>3 DEF BoundInv
  <1>5. ASSUME NEW t \in Checks, IssueCheck(t) PROVE BoundInv'
    <2>1. Begun' = Begun /\ ranks' = ranks
      <3>1. /\ check[t].pc = "checked" /\ check'[t].pc = "issued"
            /\ \A u \in Checks : u # t => check'[u] = check[u]
        BY <1>5, <1>c DEF IssueCheck, CheckRecords
      <3> QED BY <1>5, <3>1 DEF Begun, IssueCheck
    <2> DEFINE kept == IF Cardinality(checks) >= MaxChecks
                       THEN checks \ {OldestCheck} ELSE checks
    <2>2. checks' = kept \cup {t}
      BY <1>5 DEF IssueCheck
    <2>3. IsFiniteSet(kept) /\ Cardinality(kept) < MaxChecks
      <3>1. CASE Cardinality(checks) >= MaxChecks
        <4>1. checks # {}
          BY <3>1, <1>m, FS_EmptySet
        <4>2. OldestCheck \in checks
          BY <4>1, OldestIsChecked
        <4>3. /\ IsFiniteSet(checks \ {OldestCheck})
              /\ Cardinality(checks \ {OldestCheck}) = Cardinality(checks) - 1
          BY <4>2, <1>f, FS_RemoveElement
        <4> QED BY <3>1, <4>3, <1>f, <1>m DEF BoundInv
      <3>2. CASE ~ (Cardinality(checks) >= MaxChecks)
        BY <3>2, <1>f, <1>m
      <3> QED BY <3>1, <3>2
    <2> HIDE DEF kept
    <2>4. Cardinality(kept \cup {t}) <= Cardinality(kept) + 1 /\ Cardinality(kept) \in Nat
          /\ Cardinality(kept \cup {t}) \in Nat
      BY <2>3, FS_AddElement, FS_CardinalityType
    <2> QED BY <2>1, <2>2, <2>3, <2>4, <1>2, <1>m DEF BoundInv
  <1>6. CASE ExpireCheck
    BY <1>1, <1>3, <1>6 DEF ExpireCheck, BoundInv, Begun
  <1>7. CASE Restart
    <2>1. checks' = {} /\ ranks' = ranks
      BY <1>7 DEF Restart
    <2>2. \A t \in Checks : check'[t].pc = "idle" <=> check[t].pc = "idle"
      BY <1>7, <1>c DEF Restart, NoCheck, CheckRecords
    <2>3. Begun' = Begun
      BY <2>2 DEF Begun
    <2> QED BY <1>1, <1>2, <2>1, <2>3 DEF BoundInv
  <1>8. ASSUME NEW p \in Publishes, Publish(p) PROVE BoundInv'
    <2>1. check' = check /\ ranks' = ranks /\ checks' \subseteq checks
      BY <1>8 DEF Publish, ResolveAgent, ConsumeCheck, BeginMutation, SendRule, EndMutation
    <2>2. Begun' = Begun
      BY <2>1 DEF Begun
    <2> QED BY <1>1, <1>2, <2>1, <2>2 DEF BoundInv
  <1>9. CASE \E s \in Scans : Scan(s)
    BY <1>3, <1>9 DEF Scan, StartScan, BeginDetection, EndDetection, ruleVars
  <1>10. CASE UNCHANGED vars
    BY <1>3, <1>10 DEF vars, ruleVars
  <1> QED BY <1>4, <1>5, <1>6, <1>7, <1>8, <1>9, <1>10 DEF Next, NextScans, NextRules, Check

LEMMA InitBounds == ASSUME GuardAssumption, Init PROVE BoundInv
  <1>1. Begun = {} /\ checks = {} /\ ranks = 0
    BY DEF Init, Begun, NoCheck
  <1> QED BY <1>1, FS_EmptySet DEF BoundInv, GuardAssumption

\* What the three invariants say together.
GuardInv == RuleInv /\ ScanInv /\ BoundInv

LEMMA GuardStart == ASSUME GuardAssumption, Init PROVE GuardInv
  BY InitRules, InitScans, InitBounds DEF GuardInv

LEMMA GuardStep == ASSUME GuardAssumption, GuardInv, [Next]_vars PROVE GuardInv'
  BY RuleStep, ScanStep, BoundStep DEF GuardInv

\* What the invariants say of the registries.
LEMMA GuardMeaning ==
    ASSUME GuardAssumption, GuardInv
    PROVE  TypeOK /\ RunningScansAreListed /\ OnePublishPerCheck
  <1>1. RunningScansAreListed /\ OnePublishPerCheck
    BY ScansAreListedNow, PublishesAreCheckedNow DEF GuardInv
  <1>2. ranks <= Cardinality(Checks)
    <2>1. Begun \subseteq Checks /\ IsFiniteSet(Checks)
      BY DEF Begun, GuardAssumption
    <2> QED BY <2>1, FS_Subset DEF GuardInv, BoundInv
  <1>3. checks \subseteq {t \in Checks : check[t].pc = "issued"}
    BY DEF GuardInv, RuleInv, CheckTypes
  <1>4. /\ \A s \in DOMAIN jobs : jobs[s] \in Statuses
        /\ \A s \in Scans : worker[s] \in {"none", "started", "detecting", "done"}
    BY DEF GuardInv, ScanInv
  <1> QED BY <1>1, <1>2, <1>3, <1>4 DEF TypeOK, GuardInv, BoundInv, Statuses

\* The registries stay within their bounds and each entry has its type (newJob,
\* issueCheck).
THEOREM GuardTypes == GuardAssumption => (Spec => []TypeOK)
  <1> SUFFICES ASSUME GuardAssumption PROVE Spec => []TypeOK
    OBVIOUS
  <1>1. Init => GuardInv
    BY GuardStart
  <1>2. GuardInv /\ [Next]_vars => GuardInv'
    BY GuardStep
  <1>3. GuardInv => TypeOK
    BY GuardMeaning
  <1> QED BY <1>1, <1>2, <1>3, PTL DEF Spec
=============================================================================
