--------------------------- MODULE GuardOperations ---------------------------
(***************************************************************************)
(* Long operations the BFF runs at AgentGuard: scans of an agent's         *)
(* resources (trust/service.go), which go on after their request was       *)
(* answered, and the publication of a runtime rule (protect/service.go),   *)
(* which needs a check of the same source.  Jobs and checks are kept in    *)
(* bounded maps, in memory only.                                           *)
(*                                                                         *)
(* Approvals, the third kind of operation of the Protect service, are in   *)
(* AuditService.  Checks live equally long, so the oldest expires first    *)
(* and no clock is needed.                                                 *)
(***************************************************************************)
EXTENDS Integers, FiniteSets, Sequences, SequencesExt

CONSTANTS Scans,      \* scan requests, each the ID of its job
          MaxScanJobs,
          Checks,     \* check requests, each the token it is given
          MaxChecks,
          Publishes,  \* publish requests
          Agents, Sources

GuardAssumption == /\ IsFiniteSet(Checks)
                   /\ MaxScanJobs \in Nat \ {0}
                   /\ MaxChecks \in Nat \ {0}

VARIABLES
    jobs,      \* registered scan jobs: ID -> status
    jobOrder,  \* their IDs, oldest first
    worker,    \* the goroutine of each scan
    check,     \* each check: [source, pc, rank], rank by its createdAt
    checks,    \* the tokens in the map
    ranks,     \* clock readings handed out
    publish,   \* each publish request
    active,    \* operation keys in flight
    published  \* ghost: publications, as records [token, by, key]

scanVars == <<jobs, jobOrder, worker>>
ruleVars == <<check, checks, ranks, publish, active, published>>
vars == <<scanVars, ruleVars>>

NoCheck == [source |-> "", pc |-> "idle", rank |-> 0]
NoPublish == [source |-> "", pc |-> "idle", token |-> "", agent |-> ""]

Init == /\ jobs = [s \in {} |-> ""] /\ jobOrder = <<>>
        /\ worker = [s \in Scans |-> "none"]
        /\ check = [t \in Checks |-> NoCheck]
        /\ checks = {} /\ ranks = 0
        /\ publish = [p \in Publishes |-> NoPublish]
        /\ active = {} /\ published = {}
-----------------------------------------------------------------------------
(* Scans *)

Completed(s) == jobs[s] \in {"succeeded", "failed"}

Full == Cardinality(DOMAIN jobs) >= MaxScanJobs

\* Mutant: the oldest job makes room, whatever it is doing.
AnyPruned == IF Full THEN {1} ELSE {}

\* pruneCompletedJobs: where the oldest completed job stands, if a full
\* registry has one.  It never has more jobs than the maximum, so one makes room.
Pruned ==
    {i \in DOMAIN jobOrder :
       /\ Full /\ Completed(jobOrder[i])
       /\ \A j \in 1..i - 1 : ~Completed(jobOrder[j])}

\* newJob.  A full registry refuses the request.
Register(s, kept, order) ==
    /\ jobs' = [j \in kept \cup {s} |-> IF j = s THEN "queued" ELSE jobs[j]]
    /\ jobOrder' = Append(order, s)
NewJob(s) ==
    \/ ~Full /\ Register(s, DOMAIN jobs, jobOrder)
    \/ \E i \in Pruned :
         Register(s, DOMAIN jobs \ {jobOrder[i]}, RemoveAt(jobOrder, i))

\* The job is registered and a goroutine started for it.
StartScan(s) == /\ worker[s] = "none" /\ NewJob(s)
                /\ worker' = [worker EXCEPT ![s] = "started"]
                /\ UNCHANGED ruleVars

\* updateJob: nothing happens to a job that is not registered.
UpdateJob(s, status) ==
    jobs' = [j \in DOMAIN jobs |-> IF j = s THEN status ELSE jobs[j]]

BeginDetection(s) == /\ worker[s] = "started"
                     /\ UpdateJob(s, "running")
                     /\ worker' = [worker EXCEPT ![s] = "detecting"]
                     /\ UNCHANGED <<jobOrder, ruleVars>>

\* The answer, an error, or the end of scanTimeout.
EndDetection(s) == /\ worker[s] = "detecting"
                   /\ \E status \in {"succeeded", "failed"} :
                         UpdateJob(s, status)
                   /\ worker' = [worker EXCEPT ![s] = "done"]
                   /\ UNCHANGED <<jobOrder, ruleVars>>
-----------------------------------------------------------------------------
(* Checks of a rule *)

\* AgentGuard finds the source publishable; the clock is read before the lock.
CheckRule(t, source) ==
    /\ check[t].pc = "idle"
    /\ check' = [check EXCEPT ![t] = [source |-> source, pc |-> "checked",
                                      rank |-> ranks + 1]]
    /\ ranks' = ranks + 1
    /\ UNCHANGED <<scanVars, checks, publish, active, published>>

OldestCheck == CHOOSE t \in checks :
                 \A u \in checks : check[t].rank <= check[u].rank

\* issueCheck: a full map drops the oldest check.
IssueCheck(t) ==
    /\ check[t].pc = "checked"
    /\ checks' = (IF Cardinality(checks) >= MaxChecks
                  THEN checks \ {OldestCheck} ELSE checks) \cup {t}
    /\ check' = [check EXCEPT ![t].pc = "issued"]
    /\ UNCHANGED <<scanVars, ranks, publish, active, published>>

\* pruneChecks, at the next use of the map.
ExpireCheck == /\ checks # {}
               /\ checks' = checks \ {OldestCheck}
               /\ UNCHANGED <<scanVars, check, ranks, publish, active, published>>
-----------------------------------------------------------------------------
(* Publications *)

\* The request is read and its agent looked up in AgentGuard's list; then
\* its token waits to be consumed.
ResolveAgent(p, token, agent, source) ==
    /\ publish[p].pc = "idle"
    /\ check[token].pc = "issued"
    /\ publish' = [publish EXCEPT ![p] = [source |-> source, pc |-> "resolved",
                                          token |-> token, agent |-> agent]]
    /\ UNCHANGED <<scanVars, check, checks, ranks, active, published>>

End(p) == publish' = [publish EXCEPT ![p] = [@ EXCEPT !.pc = "ended"]]
Key(p) == <<publish[p].agent, publish[p].source>>

\* Mutant: a check is good for as long as it lives.
ConsumeCheckKeeps(p) ==
    /\ publish[p].pc = "resolved" /\ UNCHANGED checks
    /\ IF publish[p].token \in checks
          /\ check[publish[p].token].source = publish[p].source
       THEN publish' = [publish EXCEPT ![p].pc = "consumed"]
       ELSE End(p)
    /\ UNCHANGED <<scanVars, check, ranks, active, published>>

\* consumeCheck: one check of this very source.
ConsumeCheck(p) ==
    /\ publish[p].pc = "resolved"
    /\ IF publish[p].token \in checks
          /\ check[publish[p].token].source = publish[p].source
       THEN /\ checks' = checks \ {publish[p].token}
            /\ publish' = [publish EXCEPT ![p].pc = "consumed"]
       ELSE End(p) /\ UNCHANGED checks
    /\ UNCHANGED <<scanVars, check, ranks, active, published>>

BeginMutation(p) ==
    /\ publish[p].pc = "consumed"
    /\ IF Key(p) \in active
       THEN End(p) /\ UNCHANGED active
       ELSE /\ active' = active \cup {Key(p)}
            /\ publish' = [publish EXCEPT ![p].pc = "begun"]
    /\ UNCHANGED <<scanVars, check, checks, ranks, published>>

\* AgentGuard publishes the rule or does not; the answer may be lost.
SendRule(p) ==
    /\ publish[p].pc = "begun"
    /\ \/ published' = published \cup {[token |-> publish[p].token, by |-> p,
                                        key |-> Key(p)]}
       \/ UNCHANGED published
    /\ publish' = [publish EXCEPT ![p].pc = "sent"]
    /\ UNCHANGED <<scanVars, check, checks, ranks, active>>

EndMutation(p) == /\ publish[p].pc = "sent"
                  /\ active' = active \ {Key(p)}
                  /\ End(p)
                  /\ UNCHANGED <<scanVars, check, checks, ranks, published>>

\* The BFF stops and starts: jobs, checks and handlers are gone, what reached
\* AgentGuard is not.
Restart ==
    /\ jobs' = [s \in {} |-> ""] /\ jobOrder' = <<>>
    /\ worker' = [s \in Scans |-> IF worker[s] = "none" THEN "none" ELSE "done"]
    /\ checks' = {} /\ active' = {}
    /\ check' = [t \in Checks |-> IF check[t].pc = "idle" THEN NoCheck
                                  ELSE [check[t] EXCEPT !.pc = "issued"]]
    /\ publish' = [p \in Publishes |->
                     IF publish[p].pc = "idle" THEN NoPublish
                     ELSE [publish[p] EXCEPT !.pc = "ended"]]
    /\ UNCHANGED <<ranks, published>>
-----------------------------------------------------------------------------
Scan(s) == StartScan(s) \/ BeginDetection(s) \/ EndDetection(s)
Check(t) == (\E source \in Sources : CheckRule(t, source)) \/ IssueCheck(t)
Publish(p) ==
    \/ \E t \in Checks, agent \in Agents, source \in Sources :
         ResolveAgent(p, t, agent, source)
    \/ ConsumeCheck(p) \/ BeginMutation(p) \/ SendRule(p) \/ EndMutation(p)

NextScans == Restart \/ \E s \in Scans : Scan(s)
NextRules == \/ \E t \in Checks : Check(t)
             \/ ExpireCheck
             \/ \E p \in Publishes : Publish(p)
             \/ Restart
Next == NextScans \/ NextRules

Spec == Init /\ [][Next]_vars
-----------------------------------------------------------------------------
TypeOK == /\ \A s \in DOMAIN jobs :
               jobs[s] \in {"queued", "running", "succeeded", "failed"}
          /\ \A s \in Scans :
               worker[s] \in {"none", "started", "detecting", "done"}
          /\ checks \subseteq {t \in Checks : check[t].pc = "issued"}
          /\ Cardinality(checks) <= MaxChecks
          /\ ranks <= Cardinality(Checks)

\* A scan that goes on is registered, unfinished and listed, whatever was
\* started after it and however full the registry became: the registry drops
\* jobs that have completed, the list holds each job once, and there are
\* never more than the maximum.
RunningScansAreListed ==
    /\ Cardinality(DOMAIN jobs) <= MaxScanJobs
    /\ ToSet(jobOrder) = DOMAIN jobs /\ Len(jobOrder) = Cardinality(DOMAIN jobs)
    /\ \A s \in Scans : worker[s] \in {"started", "detecting"} =>
         s \in DOMAIN jobs /\ ~Completed(s)

\* No rule reaches AgentGuard unless its very source was checked before, each
\* check leads to one publication at most, and one publication of a rule for
\* an agent is in flight at a time.
OnePublishPerCheck ==
    /\ \A r \in published : check[r.token].source = r.key[2]
    /\ \A r, q \in published : r.token = q.token => r = q
    /\ \A p, q \in Publishes :
         /\ publish[p].pc \in {"begun", "sent"}
         /\ publish[q].pc \in {"begun", "sent"}
         /\ Key(p) = Key(q)
         => p = q
=============================================================================
