---------------------------- MODULE AuditService ----------------------------
(***************************************************************************)
(* The Audit service of the BFF between its writers and the store: HTTP    *)
(* handlers that resolve approvals in AgentGuard and record the evidence,  *)
(* the poller, the health monitor, and the loop that makes persistence     *)
(* work when the database is down at start.  Every change of the shown     *)
(* window happens under updateMu, but polls fetch before they lock it, and *)
(* any store call may fail, before or after it took effect.                *)
(*                                                                         *)
(* The store is a set of events here (EventStore says why it may be).  The *)
(* gateway's request log stands for both polled feeds, there is one health *)
(* source, and no direct denies: what is counted are denied approvals.  An *)
(* hour is longer than MaxTime, so denials do not leave the trend window.  *)
(***************************************************************************)
EXTENDS Integers, FiniteSets

CONSTANTS Tickets,     \* approval tickets: numbers, they are event IDs too
          Deciders,    \* concurrent requests to resolve a ticket
          LogIDs,      \* entries of the gateway's request log: numbers
          Free,        \* updateMu is not held
          Capacity,    \* events in the shown window
          MaxTime,     \* bound on the clock
          Budgets      \* mixes of what may happen: numbers of failures,
                       \* health changes, crashes, log entries; the requests

\* Times of checks are the parts of health events that identify them, and
\* events of different kinds have different identities.
HealthID(at) == 100 + at
AuditAssumption ==
    /\ Tickets \subseteq Int /\ LogIDs \subseteq Int /\ Tickets \cap LogIDs = {}
    /\ \A at \in -1..MaxTime : HealthID(at) \notin Tickets \cup LogIDs
    /\ Capacity \in Nat \ {0} /\ MaxTime \in Nat \ {0}
    /\ Budgets \subseteq [faults : Nat, changes : Nat, crashes : Nat,
                         requests : SUBSET Deciders, entries : Nat]
    /\ {Free, "poller", "monitor"} \cap Deciders = {}
    /\ Free \notin {"poller", "monitor"}
ASSUME AuditAssumption

VARIABLES now, budget,  \* what is left of one of the Budgets
          tickets,      \* AgentGuard: what became of each ticket
          logs,         \* the gateway's request log
          actual,       \* the upstream's health
          stored,       \* the Audit store's events: [id, kind, at, what]
          svc,          \* the service's fields
          updateMu,     \* its holder
          active,       \* Protect: tickets with an operation in flight
          request,      \* each ResolveApproval
          poller,       \* initializePersistence, then Refresh for ever
          monitor,      \* monitorHealth and its healthPersistenceState
          aggregate,    \* aggregate.Service: the health it fetched last
          answered      \* ghost: tickets whose request was answered "done"

outside == <<tickets, logs, actual>>
vars == <<now, budget, outside, stored, svc, updateMu, active, request, poller,
          monitor, aggregate, answered>>

Event(id, kind, at, what) == [id |-> id, kind |-> kind, at |-> at, what |-> what]
Health(status, at) == Event(HealthID(at), "health", at, status)
NoHealth == Health("unknown", -1)

Later(e, f) == e.at > f.at \/ (e.at = f.at /\ e.id > f.id)
Newest(S) == {e \in S : Cardinality({f \in S : Later(f, e)}) < Capacity}
Upserted(S, E) == S \cup {e \in E : \A f \in S : f.id # e.id}
Approvals(S) == {e \in S : e.kind = "approval"}
Denials(S, to) == {e \in Approvals(S) : e.what = "deny" /\ e.at < to}

Fresh == [initialized |-> FALSE, serving |-> FALSE,
          shown |-> {}, resolutions |-> {},
          to |-> 0,           \* end of the last poll's window, 0 before it
          metric |-> 0, trend |-> 0]
NoRequest == [pc |-> "idle", ticket |-> 0, what |-> "none", at |-> 0]
NoMonitor == [pc |-> "off", current |-> NoHealth, persisted |-> NoHealth,
              pending |-> NoHealth, event |-> NoHealth]
Booting == [pc |-> "ready", to |-> 0, feed |-> {}, available |-> FALSE,
            event |-> NoHealth]

Init == /\ now = 1
        /\ budget \in Budgets
        /\ tickets = [t \in Tickets |-> "pending"]
        /\ logs = {} /\ actual = "up"
        /\ stored = {} /\ svc = Fresh
        /\ updateMu = Free /\ active = {}
        /\ request = [d \in Deciders |-> NoRequest]
        /\ poller = [Booting EXCEPT !.event = Health("up", 1)]
        /\ monitor = NoMonitor
        /\ aggregate = Health("up", 1)
        /\ answered = {}

\* A call of the store, of AgentGuard or of the gateway may fail.
Works == UNCHANGED budget
Spends(what) == /\ budget[what] > 0
                /\ budget' = [budget EXCEPT ![what] = @ - 1]
Fails == Spends("faults")
Lock(p) == updateMu = Free /\ updateMu' = p
Unlock == updateMu' = Free
-----------------------------------------------------------------------------
(* ResolveApproval *)

Step(d, pc) == request' = [request EXCEPT ![d].pc = pc]
EndRequest(d) == /\ request' = [request EXCEPT ![d] = NoRequest]
                 /\ active' = active \ {request[d].ticket}
Elsewhere(d) == UNCHANGED <<now, logs, actual, poller, monitor, aggregate>>

\* The ticket is looked up in a fresh list, before the operation lock.
ListTickets(d, t, what) ==
    /\ svc.serving /\ request[d].pc = "idle" /\ tickets[t] = "pending"
    /\ request' = [request EXCEPT ![d] =
                     [NoRequest EXCEPT !.pc = "listed", !.ticket = t, !.what = what]]
    /\ d \in budget.requests
    /\ budget' = [budget EXCEPT !.requests = @ \ {d}]
    /\ UNCHANGED <<tickets, stored, svc, updateMu, active, answered>>
    /\ Elsewhere(d)

BeginMutation(d) ==
    /\ request[d].pc = "listed"
    /\ IF request[d].ticket \in active
       THEN request' = [request EXCEPT ![d] = NoRequest] /\ UNCHANGED active
       ELSE Step(d, "begun") /\ active' = active \cup {request[d].ticket}
    /\ UNCHANGED <<budget, tickets, stored, svc, updateMu, answered>>
    /\ Elsewhere(d)

\* No decision is sent while its evidence could not be stored.
CheckReady(d) ==
    /\ request[d].pc = "begun"
    /\ \/ Works /\ svc.initialized /\ Step(d, "ready") /\ UNCHANGED active
       \/ Works /\ ~svc.initialized /\ EndRequest(d)
       \/ Fails /\ EndRequest(d)
    /\ UNCHANGED <<tickets, stored, svc, updateMu, answered>>
    /\ Elsewhere(d)

Decided(d) == tickets' = [tickets EXCEPT ![request[d].ticket] = request[d].what]
Acknowledged(d) == request' = [request EXCEPT ![d].pc = "decided", ![d].at = now]

\* Mutant: an answer other than success is taken for "already resolved".
DecideTrusting(d) ==
    /\ request[d].pc = "ready" /\ now < MaxTime
    /\ IF tickets[request[d].ticket] = "pending" THEN Decided(d)
       ELSE UNCHANGED tickets
    /\ Works /\ Acknowledged(d) /\ UNCHANGED active
    /\ UNCHANGED <<stored, svc, updateMu, answered>> /\ Elsewhere(d)

Decide(d) ==
    LET pending == tickets[request[d].ticket] = "pending"
    IN /\ request[d].pc = "ready" /\ now < MaxTime
       /\ \/ pending /\ Works /\ Decided(d) /\ Acknowledged(d)
             /\ UNCHANGED active
          \/ pending /\ Fails /\ Decided(d) /\ EndRequest(d)
          \/ Fails /\ UNCHANGED tickets /\ EndRequest(d)
          \/ ~pending /\ Works /\ UNCHANGED tickets /\ EndRequest(d)
       /\ UNCHANGED <<stored, svc, updateMu, answered>>
       /\ Elsewhere(d)

Evidence(d) == Event(request[d].ticket, "approval", request[d].at,
                     request[d].what)

LockRecord(d) ==
    /\ request[d].pc = "decided"
    /\ IF \E e \in svc.resolutions : e.id = request[d].ticket
       THEN /\ updateMu = Free /\ UNCHANGED updateMu
            /\ EndRequest(d) /\ answered' = answered \cup {request[d].ticket}
       ELSE Lock(d) /\ Step(d, "persist") /\ UNCHANGED <<active, answered>>
    /\ UNCHANGED <<budget, tickets, stored, svc>> /\ Elsewhere(d)

\* Mutant: a failed write is left to the next poll.
PersistLoosely(d) ==
    /\ request[d].pc = "persist"
    /\ \/ Works /\ stored' = Upserted(stored, {Evidence(d)}) /\ Step(d, "reload")
       \/ Fails /\ UNCHANGED stored /\ Step(d, "reload")
    /\ UNCHANGED <<tickets, svc, updateMu, active, answered>> /\ Elsewhere(d)

PersistEvidence(d) ==
    /\ request[d].pc = "persist"
    /\ \/ /\ Works /\ stored' = Upserted(stored, {Evidence(d)})
          /\ IF stored' = stored
             THEN /\ EndRequest(d) /\ Unlock
                  /\ answered' = answered \cup {request[d].ticket}
             ELSE Step(d, "reload") /\ UNCHANGED <<updateMu, active, answered>>
       \/ /\ Fails /\ EndRequest(d) /\ Unlock /\ UNCHANGED answered
          /\ stored' \in {stored, Upserted(stored, {Evidence(d)})}
    /\ UNCHANGED <<tickets, svc>> /\ Elsewhere(d)

\* The window is read again and the denial is counted at once.
Reload(d) ==
    LET e  == Evidence(d)
        to == IF e.at < svc.to THEN svc.to ELSE e.at + 1
        R  == svc.resolutions \cup {e}
        counted == svc.to # 0
    IN /\ request[d].pc = "reload"
       /\ \/ /\ Works
             /\ svc' = [svc EXCEPT
                  !.shown = Newest(stored), !.resolutions = R,
                  !.metric = IF counted THEN Cardinality(Denials(R, to)) ELSE @,
                  !.trend  = IF counted /\ e.what = "deny" THEN @ + 1 ELSE @]
             /\ answered' = answered \cup {e.id}
          \/ Fails /\ UNCHANGED <<svc, answered>>
       /\ EndRequest(d) /\ Unlock
       /\ UNCHANGED <<tickets, stored>> /\ Elsewhere(d)
-----------------------------------------------------------------------------
(* initializePersistence, recoverPersistence and monitorAudit *)

Poll(pc) == poller' = [poller EXCEPT !.pc = pc]
Apart == UNCHANGED <<now, outside, active, request, monitor, aggregate, answered>>

\* Every retry takes the health the aggregator has by then; the server is
\* up once the first attempt ended.
Retry == /\ poller' = [Booting EXCEPT !.event = aggregate]
         /\ svc' = [svc EXCEPT !.serving = TRUE]

ConnectStore ==
    /\ poller.pc = "ready"
    /\ \/ Works /\ Poll("restore") /\ UNCHANGED svc
       \/ Fails /\ Retry
    /\ UNCHANGED <<stored, updateMu>> /\ Apart

LockRestore ==
    /\ poller.pc = "restore" /\ Lock("poller")
    /\ svc' = [svc EXCEPT !.initialized = FALSE]
    /\ Poll("restoring")
    /\ UNCHANGED <<budget, stored>> /\ Apart

Restore ==
    /\ poller.pc = "restoring" /\ Unlock
    /\ \/ /\ Works /\ Poll("health")
          /\ svc' = [svc EXCEPT !.initialized = TRUE, !.shown = Newest(stored),
                       !.resolutions = Approvals(Newest(stored))]
       \/ Fails /\ Retry
    /\ UNCHANGED stored /\ Apart

LockHealth == /\ poller.pc = "health" /\ Lock("poller") /\ Poll("health persist")
              /\ UNCHANGED <<budget, stored, svc>> /\ Apart

PersistHealth ==
    /\ poller.pc = "health persist"
    /\ \/ /\ Works /\ Poll("health reload") /\ UNCHANGED <<svc, updateMu>>
          /\ stored' = Upserted(stored, {poller.event})
       \/ /\ Fails /\ Retry /\ Unlock
          /\ stored' \in {stored, Upserted(stored, {poller.event})}
    /\ Apart

ReloadHealth ==
    /\ poller.pc = "health reload" /\ Unlock
    /\ \/ Works /\ Poll("fetch") /\ svc' = [svc EXCEPT !.shown = Newest(stored)]
       \/ Fails /\ Retry
    /\ UNCHANGED stored /\ Apart

\* The window is closed and the feeds are read before updateMu is taken.
Fetch ==
    /\ poller.pc = "fetch"
    /\ \/ Works /\ poller' = [poller EXCEPT !.pc = "fetched", !.to = now,
                                            !.feed = logs, !.available = TRUE]
       \/ Fails /\ poller' = [poller EXCEPT !.pc = "fetched", !.to = now,
                                            !.feed = {}, !.available = FALSE]
    /\ UNCHANGED <<stored, svc, updateMu>> /\ Apart

\* Mutant: the poll does not serialise with the other writers.
MergeUnlocked == /\ poller.pc = "fetched" /\ updateMu' = updateMu
                 /\ Poll("merge")
                 /\ UNCHANGED <<budget, stored, svc>> /\ Apart

LockMerge == /\ poller.pc = "fetched" /\ Lock("poller") /\ Poll("merge")
             /\ UNCHANGED <<budget, stored, svc>> /\ Apart

\* persistSource; a feed that was not available only marks its checkpoint.
PersistFeed ==
    /\ poller.pc = "merge" /\ Poll("list")
    /\ \/ Works /\ stored' = Upserted(stored, poller.feed)
       \/ /\ poller.available /\ Fails
          /\ stored' \in {stored, Upserted(stored, poller.feed)}
    /\ UNCHANGED <<svc, updateMu>> /\ Apart

ListWindow ==
    /\ poller.pc = "list"
    /\ \/ Works /\ poller' = [poller EXCEPT !.pc = "install", !.feed = Newest(stored)]
       \/ Fails /\ poller' = [poller EXCEPT !.pc = "install", !.feed = svc.shown]
    /\ UNCHANGED <<stored, svc, updateMu>> /\ Apart

\* Mutant: the counts are added to those of the last poll.
Accumulated(n) == svc.metric + n

Counted(n) == n

\* Metrics and trend count the resolutions known when the poll began, up to
\* the window's end; the resolutions are then those of the new page.
Install ==
    LET denied == Counted(Cardinality(Denials(svc.resolutions, poller.to)))
    IN /\ poller.pc = "install" /\ Unlock
       /\ svc' = [svc EXCEPT !.shown = poller.feed, !.serving = TRUE,
                    !.resolutions = Approvals(poller.feed), !.to = poller.to,
                    !.metric = denied, !.trend = denied]
       /\ poller' = [Booting EXCEPT !.pc = "fetch"]
       /\ UNCHANGED <<budget, stored>> /\ Apart
-----------------------------------------------------------------------------
(* monitorHealth *)

Monitor(pc) == monitor' = [monitor EXCEPT !.pc = pc]
Beside == UNCHANGED <<now, outside, active, request, poller, answered>>

StartMonitor == /\ monitor.pc = "off" /\ svc.serving
                /\ monitor' = [NoMonitor EXCEPT !.pc = "idle", !.persisted = aggregate]
                /\ UNCHANGED <<budget, stored, svc, updateMu, aggregate>> /\ Beside

\* CheckedAt has nanoseconds: probes that differ have different times.
Distinct == now > aggregate.at \/ actual = aggregate.what

\* Mutant: what could not be recorded gives way to the newest state.
Newer(current) == IF monitor.persisted.what = current.what THEN NoHealth
                  ELSE current

Candidate(current) ==
    IF monitor.pending # NoHealth THEN monitor.pending
    ELSE IF monitor.persisted.what = current.what THEN NoHealth
    ELSE current

Probe ==
    LET current == Health(actual, now)
    IN /\ monitor.pc = "idle" /\ Distinct
       /\ monitor' = [monitor EXCEPT
            !.pc = IF Candidate(current) = NoHealth THEN "idle" ELSE "lock",
            !.current = current, !.event = Candidate(current)]
       /\ aggregate' = current
       /\ UNCHANGED <<budget, stored, svc, updateMu>> /\ Beside

LockRecordHealth ==
    /\ monitor.pc = "lock" /\ Lock("monitor") /\ Monitor("persist")
    /\ UNCHANGED <<budget, stored, svc, aggregate>> /\ Beside

\* Mutant: the state is marked as recorded before the error is looked at.
MarkAnyway == monitor' = [monitor EXCEPT !.pc = "idle",
                                         !.persisted = monitor.event]

\* The first state that could not be recorded is kept until it is.
Postpone == monitor' = [monitor EXCEPT !.pc = "idle", !.pending = monitor.event]

RecordHealth ==
    /\ monitor.pc = "persist"
    /\ \/ /\ Works /\ Monitor("reload") /\ UNCHANGED updateMu
          /\ stored' = Upserted(stored, {monitor.event})
       \/ /\ Fails /\ Postpone /\ Unlock
          /\ stored' \in {stored, Upserted(stored, {monitor.event})}
    /\ UNCHANGED <<svc, aggregate>> /\ Beside

\* Recorded; if the current state is another one, it is recorded next.
ReloadRecorded ==
    LET again == monitor.event.what # monitor.current.what
    IN /\ monitor.pc = "reload" /\ Unlock
       /\ \/ /\ Works /\ svc' = [svc EXCEPT !.shown = Newest(stored)]
             /\ monitor' = [monitor EXCEPT
                  !.pc = IF again THEN "lock" ELSE "idle",
                  !.persisted = monitor.event, !.pending = NoHealth,
                  !.event = monitor.current]
          \/ Fails /\ Postpone /\ UNCHANGED svc
       /\ UNCHANGED <<stored, aggregate>> /\ Beside
-----------------------------------------------------------------------------
(* The world *)

Inside == UNCHANGED <<stored, svc, updateMu, active, request, poller, monitor,
                      aggregate, answered>>
Tick == now < MaxTime /\ now' = now + 1 /\ UNCHANGED <<budget, outside>> /\ Inside

LogEntry == /\ now < MaxTime /\ Spends("entries")
            /\ \E id \in LogIDs : /\ \A e \in logs : e.id # id
                                  /\ logs' = logs \cup {Event(id, "log", now, "log")}
            /\ UNCHANGED <<now, tickets, actual>> /\ Inside

\* Somebody decides in AgentGuard's own console.
DecideInConsole(t, what) ==
    /\ tickets[t] = "pending" /\ tickets' = [tickets EXCEPT ![t] = what]
    /\ UNCHANGED <<now, budget, logs, actual>> /\ Inside

HealthChanges ==
    /\ Spends("changes") /\ now < MaxTime
    /\ actual' = IF actual = "up" THEN "down" ELSE "up"
    /\ UNCHANGED <<now, tickets, logs>> /\ Inside

\* The BFF is restarted.
Crash == /\ Spends("crashes") /\ Distinct
         /\ svc' = Fresh /\ updateMu' = Free /\ active' = {}
         /\ request' = [d \in Deciders |-> NoRequest]
         /\ aggregate' = Health(actual, now)
         /\ poller' = [Booting EXCEPT !.event = Health(actual, now)]
         /\ monitor' = NoMonitor
         /\ UNCHANGED <<now, outside, stored, answered>>
-----------------------------------------------------------------------------
Handle(d) == \/ BeginMutation(d) \/ CheckReady(d) \/ Decide(d)
             \/ LockRecord(d) \/ PersistEvidence(d) \/ Reload(d)
Boot == \/ ConnectStore \/ LockRestore \/ Restore
        \/ LockHealth \/ PersistHealth \/ ReloadHealth
Refresh == Fetch \/ LockMerge \/ PersistFeed \/ ListWindow \/ Install
WatchHealth == \/ StartMonitor \/ Probe \/ LockRecordHealth
               \/ RecordHealth \/ ReloadRecorded
World == \/ LogEntry \/ HealthChanges \/ Crash
         \/ \E t \in Tickets, what \in {"approve", "deny"} : DecideInConsole(t, what)

Next == \/ Tick \/ World \/ Boot \/ Refresh \/ WatchHealth
        \/ \E d \in Deciders :
             \/ Handle(d)
             \/ \E t \in Tickets, what \in {"approve", "deny"} : ListTickets(d, t, what)

Spec == Init /\ [][Next]_vars

\* Goroutines run, tickers fire, and nobody waits for a mutex for ever.
FairSpec == /\ Spec /\ WF_vars(Tick)
            /\ SF_vars(Boot \/ Refresh) /\ SF_vars(WatchHealth)
            /\ SF_vars(\E d \in Deciders : Handle(d))
-----------------------------------------------------------------------------
\* One thread is between taking and releasing updateMu, and Protect's
\* operation locks are those of the requests that are past BeginMutation.
TypeOK ==
    /\ \A d \in Deciders :
         updateMu = d <=> request[d].pc \in {"persist", "reload"}
    /\ updateMu = "poller" <=> poller.pc \in {"restoring", "health persist",
                                   "health reload", "merge", "list", "install"}
    /\ updateMu = "monitor" <=> monitor.pc \in {"persist", "reload"}
    /\ active = {request[d].ticket : d \in {c \in Deciders :
                   request[c].pc \notin {"idle", "listed"}}}
    /\ \A e, f \in stored : e.id = f.id => e = f

\* Stored evidence says what AgentGuard did: calls that failed, and decisions
\* taken elsewhere, are never recorded as somebody else's.
EvidenceIsReal == \A e \in Approvals(stored) : tickets[e.id] = e.what

\* A resolution answered as done has its evidence in the store, for good.
DoneIsDurable == \A t \in answered : \E e \in Approvals(stored) : e.id = t

\* No denial is counted twice, in the rate or in the trend.
NeverOvercounted ==
    LET denied == Cardinality(Denials(stored, MaxTime))
    IN svc.metric <= denied /\ svc.trend <= denied

\* While the BFF lives an event leaves the shown window only to newer ones: a
\* poll that began earlier does not take back what was recorded meanwhile.
ShownMovesForward ==
    [][budget'.crashes = budget.crashes =>
         \A e \in svc.shown \ svc'.shown :
           Cardinality({f \in svc'.shown : Later(f, e)}) >= Capacity]_vars

\* A health state that could not be recorded is not given up for a later one.
OutagesAreRemembered ==
    [][monitor.pending \in {NoHealth, monitor'.pending} \cup stored'
         \/ budget'.crashes < budget.crashes]_vars

\* Whatever failed on the way: the window ends up being the store's newest
\* events, rate and trend count its denials, and the last health event is true.
Converges ==
    <>[](/\ svc.shown = Newest(stored)
         /\ svc.metric = Cardinality(Denials(svc.shown, MaxTime))
         /\ svc.trend = svc.metric
         /\ \E e \in stored : /\ e.kind = "health" /\ e.what = actual
                              /\ \A f \in stored : f.kind = "health" => f.at <= e.at)
=============================================================================
