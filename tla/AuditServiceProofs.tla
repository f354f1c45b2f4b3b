------------------------- MODULE AuditServiceProofs -------------------------
(***************************************************************************)
(* Proofs about AuditService: its locks exclude each other, stored         *)
(* evidence is true and lasting, no denial is counted twice, the shown     *)
(* window never goes back, and no outage is given up for a later one.      *)
(***************************************************************************)
EXTENDS AuditService, FiniteSetTheorems, WellFoundedInduction, TLAPS

Holders == Deciders \cup {Free, "poller", "monitor"}
Decisions == {"approve", "deny"}

\* An event of the store, of one of the three sources.
IsApproval(e) == /\ e.kind = "approval" /\ e.id \in Tickets
                 /\ e.at \in Nat /\ e.at < MaxTime /\ e.what \in Decisions
IsHealth(e) == /\ e.kind = "health" /\ e.at \in -1..MaxTime
               /\ e.id = HealthID(e.at)
IsLog(e) == e.kind = "log" /\ e.id \in LogIDs
Events == [id : Int, kind : {"approval", "health", "log"}, at : Int,
           what : Decisions \cup {"up", "down", "unknown", "log"}]
HealthEvents == {e \in Events : IsHealth(e)}

\* At most one event has an identity.
Unique(S) == \A e, f \in S : e.id = f.id => e = f

Clocks == /\ now \in 1..MaxTime
          /\ budget \in [faults : Nat, changes : Nat, crashes : Nat,
                         requests : SUBSET Deciders, entries : Nat]

Outside == /\ tickets \in [Tickets -> Decisions \cup {"pending"}]
           /\ IsFiniteSet(logs) /\ Unique(logs)
           /\ logs \subseteq Events /\ \A e \in logs : IsLog(e)
           /\ actual \in {"up", "down"}

Rows == /\ IsFiniteSet(stored) /\ Unique(stored) /\ stored \subseteq Events
        /\ \A e \in stored : IsApproval(e) \/ IsHealth(e) \/ IsLog(e)

ServiceInv == /\ DOMAIN svc = DOMAIN Fresh
              /\ svc.shown \subseteq stored
              /\ svc.resolutions \subseteq Approvals(stored)
              /\ svc.to \in Int /\ svc.metric \in Int /\ svc.trend \in Int

Busy == {"begun", "ready", "decided", "persist", "reload"}
Past(d) == request[d].pc \in {"decided", "persist", "reload"}
RequestInv ==
    /\ request \in [Deciders -> [pc : {"idle", "listed"} \cup Busy,
                                 ticket : Tickets \cup {0},
                                 what : Decisions \cup {"none"}, at : Nat]]
    /\ \A d \in Deciders :
         /\ request[d].pc # "idle" => /\ request[d].ticket \in Tickets
                                      /\ request[d].what \in Decisions
         /\ Past(d) => /\ tickets[request[d].ticket] = request[d].what
                       /\ request[d].at < MaxTime
         /\ request[d].pc = "reload" => Evidence(d) \in stored
    /\ \A c, d \in Deciders :
         /\ request[c].pc \in Busy /\ request[d].pc \in Busy
         /\ request[c].ticket = request[d].ticket
         => c = d

PollerPcs == {"ready", "restore", "restoring", "health", "health persist",
              "health reload", "fetch", "fetched", "merge", "list", "install"}
PollerInv == /\ DOMAIN poller = DOMAIN Booting
             /\ poller.pc \in PollerPcs /\ poller.to \in Int
             /\ poller.available \in BOOLEAN
             /\ poller.event \in HealthEvents
             /\ poller.pc \in {"fetched", "merge"} => poller.feed \subseteq logs
             /\ poller.pc = "install" => \/ poller.feed = Newest(stored)
                                         \/ poller.feed = svc.shown

MonitorInv == /\ monitor \in [pc : {"off", "idle", "lock", "persist", "reload"},
                              current : HealthEvents, persisted : HealthEvents,
                              pending : HealthEvents, event : HealthEvents]
              /\ monitor.pc = "off" => monitor = NoMonitor
              /\ monitor.pc \in {"lock", "persist", "reload"} =>
                   monitor.pending \in {NoHealth, monitor.event}
              /\ monitor.pc = "reload" => monitor.event \in stored
              /\ aggregate \in HealthEvents /\ aggregate.at \in 1..now

\* Health events that may still be stored: two of one time are the same.
Known == {e \in stored : e.kind = "health"}
           \cup {NoHealth, aggregate, poller.event, monitor.current,
                 monitor.persisted, monitor.pending, monitor.event}
HealthInv == \A e \in Known : /\ e.at <= aggregate.at
                              /\ \A f \in Known : e.at = f.at => e = f

\* What is stored and was not counted yet, by the request that has the lock.
Uncounted == {Evidence(d) : d \in {c \in Deciders : request[c].pc = "reload"}}
Denied == Denials(stored, MaxTime)
CountInv == /\ svc.metric <= Cardinality(Denied)
            /\ svc.trend <= Cardinality(Denied \ Uncounted)

AuditInv ==
    /\ Clocks /\ Outside /\ Rows /\ ServiceInv /\ RequestInv /\ PollerInv
    /\ MonitorInv /\ HealthInv /\ CountInv
    /\ TypeOK /\ EvidenceIsReal /\ DoneIsDurable
    /\ updateMu \in Holders
-----------------------------------------------------------------------------
(* Facts about stored events *)

LEMMA UpsertedGrows ==
    ASSUME NEW S, NEW E, IsFiniteSet(S), IsFiniteSet(E), Unique(S), Unique(E)
    PROVE  /\ S \subseteq Upserted(S, E) /\ Upserted(S, E) \subseteq S \cup E
           /\ IsFiniteSet(Upserted(S, E)) /\ Unique(Upserted(S, E))
           /\ \A e \in E : \E f \in Upserted(S, E) : f.id = e.id
  <1>1. /\ S \subseteq Upserted(S, E) /\ Upserted(S, E) \subseteq S \cup E
        /\ \A e \in E : \E f \in Upserted(S, E) : f.id = e.id
    BY DEF Upserted
  <1>2. IsFiniteSet(Upserted(S, E))
    BY <1>1, FS_Union, FS_Subset
  <1>3. Unique(Upserted(S, E))
    BY DEF Upserted, Unique
  <1> QED BY <1>1, <1>2, <1>3

IsEvent(e) == e \in Events /\ (IsApproval(e) \/ IsHealth(e) \/ IsLog(e))

\* What a call of the store adds keeps the table in order.
LEMMA UpsertKeepsRows ==
    ASSUME Rows, NEW E, IsFiniteSet(E), Unique(E), \A e \in E : IsEvent(e),
           stored' \in {stored, Upserted(stored, E)}
    PROVE  Rows' /\ stored \subseteq stored' /\ stored' \subseteq stored \cup E
  <1>1. CASE stored' = stored
    BY <1>1 DEF Rows
  <1>2. CASE stored' = Upserted(stored, E)
    <2>1. /\ stored \subseteq stored' /\ stored' \subseteq stored \cup E
          /\ IsFiniteSet(stored') /\ Unique(stored')
      BY <1>2, UpsertedGrows DEF Rows
    <2> QED BY <2>1 DEF Rows, IsEvent
  <1> QED BY <1>1, <1>2

LEMMA SingletonIsUnique ==
    ASSUME NEW e
    PROVE  IsFiniteSet({e}) /\ Unique({e})
  BY FS_Singleton DEF Unique

LEMMA EvidenceIsAnEvent ==
    ASSUME AuditInv, NEW d \in Deciders, Past(d)
    PROVE  IsEvent(Evidence(d)) /\ IsApproval(Evidence(d))
  <1>1. /\ request[d].ticket \in Tickets /\ request[d].what \in Decisions
        /\ request[d].at \in Nat /\ request[d].at < MaxTime
        /\ request[d].ticket \in Int
    BY AuditAssumption DEF AuditInv, RequestInv, Past, AuditAssumption
  <1>2. Evidence(d) = [id |-> request[d].ticket, kind |-> "approval",
                       at |-> request[d].at, what |-> request[d].what]
    BY DEF Evidence, Event
  <1> QED BY <1>1, <1>2 DEF IsEvent, IsApproval, Events

LEMMA HealthIsAnEvent ==
    ASSUME NEW e \in HealthEvents
    PROVE  IsEvent(e) /\ ~IsApproval(e) /\ e.kind = "health"
  BY DEF HealthEvents, IsEvent, IsHealth, IsApproval

LEMMA NoHealthIsHealth == NoHealth \in HealthEvents
  BY AuditAssumption
     DEF AuditAssumption, NoHealth, Health, Event, HealthID, HealthEvents, Events, IsHealth

LEMMA ProbeIsHealth ==
    ASSUME NEW what \in {"up", "down"}, NEW at \in 1..MaxTime
    PROVE  /\ Health(what, at) \in HealthEvents
           /\ Health(what, at).at = at /\ Health(what, at).what = what
  BY AuditAssumption
     DEF AuditAssumption, Health, Event, HealthID, HealthEvents, Events, IsHealth

\* An identity tells which kind of event it is.
LEMMA TicketsAreApprovals ==
    ASSUME Rows, NEW e \in stored, e.id \in Tickets
    PROVE  e \in Approvals(stored) /\ IsApproval(e)
  BY AuditAssumption DEF AuditAssumption, Rows, IsApproval, IsHealth, IsLog, Approvals

LEMMA DeniedIsFinite ==
    ASSUME Rows
    PROVE  /\ IsFiniteSet(Denied) /\ Cardinality(Denied) \in Nat
           /\ IsFiniteSet(Denied \ Uncounted)
           /\ Cardinality(Denied \ Uncounted) \in Nat
           /\ Cardinality(Denied \ Uncounted) <= Cardinality(Denied)
  <1>1. IsFiniteSet(Denied)
    BY FS_Subset DEF Denied, Denials, Approvals, Rows
  <1>2. IsFiniteSet(Denied \ Uncounted) /\ Denied \ Uncounted \subseteq Denied
    BY <1>1, FS_Subset
  <1> QED BY <1>1, <1>2, FS_Subset, FS_CardinalityType
-----------------------------------------------------------------------------
(* What a step leaves alone, the invariant keeps *)

LEMMA ServiceFrame ==
    ASSUME ServiceInv, stored \subseteq stored', svc' = svc
    PROVE  ServiceInv'
  BY DEF ServiceInv, Approvals

LEMMA KnownFrame ==
    ASSUME HealthInv, Known' \subseteq Known, aggregate' = aggregate
    PROVE  HealthInv'
  BY DEF HealthInv

LEMMA DoneFrame ==
    ASSUME DoneIsDurable, stored \subseteq stored', answered' = answered
    PROVE  DoneIsDurable'
  BY DEF DoneIsDurable, Approvals

LEMMA EvidenceFrame ==
    ASSUME EvidenceIsReal, Rows, tickets' = tickets,
           \A e \in stored' \ stored : e.kind = "approval" => tickets[e.id] = e.what
    PROVE  EvidenceIsReal'
  BY DEF EvidenceIsReal, Approvals

LEMMA CountFrame ==
    ASSUME CountInv, Rows, Rows', stored \subseteq stored',
           svc.metric \in Int, svc.trend \in Int,
           svc'.metric = svc.metric, svc'.trend = svc.trend,
           (Uncounted' \ Uncounted) \cap stored = {}
    PROVE  CountInv'
  <1>1. Denied \subseteq Denied' /\ Denied \ Uncounted \subseteq Denied' \ Uncounted'
    BY DEF Denied, Denials, Approvals
  <1>2. /\ IsFiniteSet(Denied') /\ IsFiniteSet(Denied' \ Uncounted')
        /\ Cardinality(Denied) \in Nat /\ Cardinality(Denied \ Uncounted) \in Nat
        /\ Cardinality(Denied') \in Nat /\ Cardinality(Denied' \ Uncounted') \in Nat
    <2>1. IsFiniteSet(Denied')
      BY FS_Subset DEF Denied, Denials, Approvals, Rows
    <2>2. IsFiniteSet(Denied' \ Uncounted')
      BY <2>1, FS_Subset
    <2> QED BY <2>1, <2>2, DeniedIsFinite, FS_CardinalityType
  <1>3. /\ Cardinality(Denied) <= Cardinality(Denied')
        /\ Cardinality(Denied \ Uncounted) <= Cardinality(Denied' \ Uncounted')
    BY <1>1, <1>2, FS_Subset
  <1> QED BY <1>2, <1>3 DEF CountInv
-----------------------------------------------------------------------------
(* Requests *)

Choose(d) == \E t \in Tickets, what \in Decisions : ListTickets(d, t, what)
Request(d) == Handle(d) \/ Choose(d)

LEMMA RequestFrame ==
    ASSUME NEW d \in Deciders, Request(d)
    PROVE  UNCHANGED <<now, logs, actual, poller, monitor, aggregate>>
  BY DEF Request, Choose, Handle, ListTickets, BeginMutation, CheckReady, Decide,
         LockRecord, PersistEvidence, Reload, Elsewhere

LEMMA RequestStores ==
    ASSUME AuditInv, NEW d \in Deciders, Request(d)
    PROVE  /\ Rows' /\ stored \subseteq stored'
           /\ stored' \subseteq stored \cup {Evidence(d)}
           /\ stored' # stored => PersistEvidence(d) /\ request[d].pc = "persist"
  <1>1. CASE PersistEvidence(d)
    <2>1. Past(d) /\ request[d].pc = "persist"
      BY <1>1 DEF PersistEvidence, Past
    <2>2. stored' \in {stored, Upserted(stored, {Evidence(d)})}
      BY <1>1 DEF PersistEvidence
    <2> QED BY <2>1, <2>2, <1>1, UpsertKeepsRows, SingletonIsUnique, EvidenceIsAnEvent
            DEF AuditInv
  <1>2. CASE ~PersistEvidence(d)
    <2>1. stored' = stored
      BY <1>2 DEF Request, Choose, Handle, ListTickets, BeginMutation, CheckReady,
                  Decide, LockRecord, Reload
    <2> QED BY <2>1 DEF AuditInv, Rows
  <1> QED BY <1>1, <1>2

LEMMA SpendsKeepsBudget ==
    ASSUME Clocks, NEW what \in {"faults", "changes", "crashes", "entries"}, Spends(what)
    PROVE  /\ budget' \in [faults : Nat, changes : Nat, crashes : Nat,
                           requests : SUBSET Deciders, entries : Nat]
           /\ what # "crashes" => budget'.crashes = budget.crashes
           /\ what = "crashes" => budget'.crashes < budget.crashes
  BY DEF Clocks, Spends

LEMMA CallKeepsBudget ==
    ASSUME Clocks, Works \/ Fails
    PROVE  /\ budget' \in [faults : Nat, changes : Nat, crashes : Nat,
                           requests : SUBSET Deciders, entries : Nat]
           /\ budget'.crashes = budget.crashes
  BY SpendsKeepsBudget DEF Works, Fails, Clocks

LEMMA RequestBudget ==
    ASSUME Clocks, NEW d \in Deciders, Request(d)
    PROVE  Clocks' /\ budget'.crashes = budget.crashes
  <1>1. CASE Choose(d)
    <2>1. budget' = [budget EXCEPT !.requests = @ \ {d}]
      BY <1>1 DEF Choose, ListTickets
    <2> QED BY <2>1, RequestFrame DEF Clocks
  <1>2. CASE BeginMutation(d) \/ LockRecord(d)
    BY <1>2, RequestFrame DEF Clocks, BeginMutation, LockRecord
  <1>3. CASE CheckReady(d) \/ Decide(d) \/ PersistEvidence(d) \/ Reload(d)
    <2>1. Works \/ Fails
      BY <1>3 DEF CheckReady, Decide, PersistEvidence, Reload
    <2> QED BY <2>1, CallKeepsBudget, RequestFrame DEF Clocks
  <1> QED BY <1>1, <1>2, <1>3 DEF Request, Handle

\* A decision is final.
LEMMA RequestTickets ==
    ASSUME AuditInv, NEW d \in Deciders, Request(d)
    PROVE  /\ Outside'
           /\ \A t \in Tickets : tickets[t] # "pending" => tickets'[t] = tickets[t]
           /\ tickets' # tickets => Decide(d)
  <1>1. CASE Decide(d)
    <2>1. request[d].ticket \in Tickets /\ request[d].what \in Decisions
      BY <1>1 DEF AuditInv, RequestInv, Decide
    <2>2. \/ tickets' = tickets
          \/ tickets[request[d].ticket] = "pending" /\ Decided(d)
      BY <1>1 DEF Decide
    <2> QED BY <1>1, <2>1, <2>2, RequestFrame DEF AuditInv, Outside, Decided
  <1>2. CASE ~Decide(d)
    <2>1. tickets' = tickets
      BY <1>2 DEF Request, Choose, Handle, ListTickets, BeginMutation, CheckReady,
                  LockRecord, PersistEvidence, Reload
    <2> QED BY <2>1, RequestFrame DEF AuditInv, Outside
  <1> QED BY <1>1, <1>2

\* From one state of a request to the next one.
Moved(d, from, to) == /\ request[d].pc = from
                      /\ request'[d] = [request[d] EXCEPT !.pc = to]

LEMMA StepMoves ==
    ASSUME AuditInv, NEW d \in Deciders, NEW pc, Step(d, pc)
    PROVE  request'[d] = [request[d] EXCEPT !.pc = pc]
  BY DEF AuditInv, RequestInv, Step

LEMMA EndMoves ==
    ASSUME AuditInv, NEW d \in Deciders, EndRequest(d)
    PROVE  request'[d] = NoRequest
  BY DEF AuditInv, RequestInv, EndRequest

\* The record a step leaves for its own request; the others keep theirs.
LEMMA RequestMoves ==
    ASSUME AuditInv, NEW d \in Deciders, Request(d)
    PROVE  \/ request'[d] = NoRequest
           \/ /\ request[d].pc = "idle"
              /\ \E t \in Tickets, what \in Decisions : request'[d] =
                   [pc |-> "listed", ticket |-> t, what |-> what, at |-> 0]
           \/ Moved(d, "listed", "begun") /\ request[d].ticket \notin active
           \/ Moved(d, "begun", "ready")
           \/ /\ request[d].pc = "ready" /\ now < MaxTime /\ Decided(d)
              /\ request'[d] = [request[d] EXCEPT !.pc = "decided", !.at = now]
           \/ Moved(d, "decided", "persist")
           \/ Moved(d, "persist", "reload") /\ stored' # stored
  <1>0. DOMAIN request = Deciders
    BY DEF AuditInv, RequestInv
  <1>1. CASE Choose(d)
    <2>1. PICK t \in Tickets, what \in Decisions : ListTickets(d, t, what)
      BY <1>1 DEF Choose
    <2>2. /\ request[d].pc = "idle"
          /\ request' = [request EXCEPT ![d] =
               [NoRequest EXCEPT !.pc = "listed", !.ticket = t, !.what = what]]
      BY <2>1 DEF ListTickets
    <2>3. request'[d] = [pc |-> "listed", ticket |-> t, what |-> what, at |-> 0]
      BY <1>0, <2>2 DEF NoRequest
    <2> QED BY <2>2, <2>3
  <1>2. CASE BeginMutation(d)
    BY <1>0, <1>2, StepMoves DEF BeginMutation, Moved
  <1>3. CASE CheckReady(d)
    BY <1>3, StepMoves, EndMoves DEF CheckReady, Moved
  <1>4. CASE Decide(d)
    <2>1. \/ EndRequest(d)
          \/ request[d].pc = "ready" /\ now < MaxTime /\ Decided(d) /\ Acknowledged(d)
      BY <1>4 DEF Decide
    <2>2. Acknowledged(d) => request'[d] = [request[d] EXCEPT !.pc = "decided", !.at = now]
      BY <1>0 DEF Acknowledged
    <2> QED BY <2>1, <2>2, EndMoves
  <1>5. CASE LockRecord(d)
    BY <1>5, StepMoves, EndMoves DEF LockRecord, Moved
  <1>6. CASE PersistEvidence(d)
    BY <1>6, StepMoves, EndMoves DEF PersistEvidence, Moved
  <1>7. CASE Reload(d)
    BY <1>7, EndMoves DEF Reload
  <1> QED BY <1>1, <1>2, <1>3, <1>4, <1>5, <1>6, <1>7 DEF Request, Handle

LEMMA RequestApart ==
    ASSUME AuditInv, NEW d \in Deciders, Request(d)
    PROVE  /\ \A c \in Deciders : c # d => request'[c] = request[c]
           /\ DOMAIN request' = Deciders
           /\ request' = [c \in Deciders |-> request'[c]]
  <1>1. DOMAIN request = Deciders
    BY DEF AuditInv, RequestInv
  <1>2. \E f : request' = [request EXCEPT ![d] = f]
    <2>1. CASE Choose(d)
      BY <2>1 DEF Choose, ListTickets
    <2>2. CASE Handle(d)
      <3>1. \/ EndRequest(d) \/ Acknowledged(d) \/ \E pc \in Busy : Step(d, pc)
            \/ request' = [request EXCEPT ![d] = NoRequest]
        BY <2>2 DEF Handle, BeginMutation, CheckReady, Decide, LockRecord,
                    PersistEvidence, Reload, Busy
      <3>2. Acknowledged(d) => \E f : request' = [request EXCEPT ![d] = f]
        BY <1>1 DEF Acknowledged
      <3>3. (\E pc \in Busy : Step(d, pc)) => \E f : request' = [request EXCEPT ![d] = f]
        BY <1>1 DEF Step
      <3> QED BY <3>1, <3>2, <3>3 DEF EndRequest
    <2> QED BY <2>1, <2>2 DEF Request
  <1> QED BY <1>1, <1>2

Records == [pc : {"idle", "listed"} \cup Busy, ticket : Tickets \cup {0},
            what : Decisions \cup {"none"}, at : Nat]
\* What RequestInv says of one request.
Sound(d) == /\ request[d].pc # "idle" => /\ request[d].ticket \in Tickets
                                         /\ request[d].what \in Decisions
            /\ Past(d) => /\ tickets[request[d].ticket] = request[d].what
                          /\ request[d].at < MaxTime
            /\ request[d].pc = "reload" => Evidence(d) \in stored

LEMMA RequestsAreSound ==
    ASSUME RequestInv
    PROVE  \A d \in Deciders : request[d] \in Records /\ Sound(d)
  BY DEF RequestInv, Records, Sound

LEMMA RequestStaysSound ==
    ASSUME AuditInv, NEW d \in Deciders, Request(d)
    PROVE  request'[d] \in Records /\ Sound(d)'
  <1>0. request[d] \in Records /\ Sound(d) /\ NoRequest \in Records /\ now \in Nat
    BY AuditAssumption, RequestsAreSound
       DEF AuditAssumption, AuditInv, Clocks, NoRequest, Records
  <1>1. CASE request'[d] = NoRequest
    BY <1>0, <1>1 DEF NoRequest, Sound, Past
  <1>2. CASE \E t \in Tickets, what \in Decisions : request'[d] =
                   [pc |-> "listed", ticket |-> t, what |-> what, at |-> 0]
    BY <1>0, <1>2 DEF Sound, Past, Records
  <1>3. CASE Moved(d, "listed", "begun") \/ Moved(d, "begun", "ready")
    BY <1>0, <1>3 DEF Moved, Sound, Past, Records, Busy
  <1>4. CASE /\ request[d].pc = "ready" /\ now < MaxTime /\ Decided(d)
             /\ request'[d] = [request[d] EXCEPT !.pc = "decided", !.at = now]
    <2>1. request[d].ticket \in Tickets /\ request[d].what \in Decisions
      BY <1>0, <1>4 DEF Sound
    <2>2. tickets'[request[d].ticket] = request[d].what
      BY <1>4, <2>1 DEF Decided, AuditInv, Outside
    <2> QED BY <1>0, <1>4, <2>1, <2>2 DEF Sound, Past, Records, Busy
  <1>5. CASE \/ Moved(d, "decided", "persist")
             \/ Moved(d, "persist", "reload") /\ stored' # stored
    <2>1. Past(d) /\ request[d].ticket \in Tickets /\ request[d].what \in Decisions
      BY <1>0, <1>5 DEF Moved, Past, Sound
    <2>2. tickets[request[d].ticket] # "pending"
      BY <1>0, <2>1 DEF Sound, Decisions
    <2>3. tickets'[request[d].ticket] = request[d].what
      BY <1>0, <2>1, <2>2, RequestTickets DEF Sound
    <2>4. /\ request'[d] \in Records /\ Evidence(d)' = Evidence(d)
          /\ request'[d].ticket = request[d].ticket
          /\ request'[d].what = request[d].what /\ request'[d].at = request[d].at
      BY <1>0, <1>5 DEF Moved, Records, Busy, Evidence
    <2>5. request'[d].pc = "reload" => stored' # stored
      BY <1>0, <1>5 DEF Moved, Records
    <2>6. stored' # stored => Evidence(d) \in stored'
      BY RequestStores
    <2> QED BY <1>0, <2>1, <2>3, <2>4, <2>5, <2>6 DEF Sound, Past
  <1> QED BY <1>1, <1>2, <1>3, <1>4, <1>5, RequestMoves

LEMMA OthersStaySound ==
    ASSUME RequestInv, stored \subseteq stored', NEW c \in Deciders,
           \A t \in Tickets : tickets[t] # "pending" => tickets'[t] = tickets[t],
           request'[c] = request[c]
    PROVE  request'[c] \in Records /\ Sound(c)'
  <1>1. request[c] \in Records /\ Sound(c)
    BY RequestsAreSound
  <1>2. Past(c) => tickets'[request[c].ticket] = request[c].what
    BY <1>1 DEF Sound, Decisions, Past
  <1>3. Evidence(c)' = Evidence(c)
    BY DEF Evidence
  <1> QED BY <1>1, <1>2, <1>3 DEF Sound, Past

LEMMA RequestKeepsRequests ==
    ASSUME AuditInv, NEW d \in Deciders, Request(d)
    PROVE  RequestInv'
  <1>1. \A c \in Deciders : request'[c] \in Records /\ Sound(c)'
    <2>1. ASSUME NEW c \in Deciders, c # d
          PROVE  request'[c] \in Records /\ Sound(c)'
      BY <2>1, OthersStaySound, RequestApart, RequestStores, RequestTickets DEF AuditInv
    <2> QED BY <2>1, RequestStaysSound
  <1>2. request' \in [Deciders -> Records]
    BY <1>1, RequestApart
  <1>3. ASSUME NEW b \in Deciders, NEW c \in Deciders,
               request'[b].pc \in Busy, request'[c].pc \in Busy,
               request'[b].ticket = request'[c].ticket
        PROVE  b = c
    <2>1. request[d] \in Records
      BY RequestsAreSound DEF AuditInv
    <2>2. request'[d].pc \in Busy =>
            /\ request'[d].ticket = request[d].ticket
            /\ request[d].pc \in Busy \/ request[d].ticket \notin active
      <3>1. CASE request'[d] = NoRequest
        BY <3>1 DEF NoRequest, Busy
      <3>2. CASE \E t \in Tickets, what \in Decisions : request'[d] =
                   [pc |-> "listed", ticket |-> t, what |-> what, at |-> 0]
        BY <3>2 DEF Busy
      <3>3. CASE request[d].pc = "ready" /\
                 request'[d] = [request[d] EXCEPT !.pc = "decided", !.at = now]
        BY <2>1, <3>3 DEF Busy, Records
      <3>4. CASE Moved(d, "listed", "begun") /\ request[d].ticket \notin active
        BY <2>1, <3>4 DEF Busy, Records, Moved
      <3>5. CASE \/ Moved(d, "begun", "ready") \/ Moved(d, "decided", "persist")
                 \/ Moved(d, "persist", "reload")
        BY <2>1, <3>5 DEF Busy, Records, Moved
      <3> QED BY <3>1, <3>2, <3>3, <3>4, <3>5, RequestMoves
    <2>3. \A e \in Deciders : request[e].pc \in Busy => request[e].ticket \in active
      BY DEF AuditInv, TypeOK, Busy
    <2>4. \A e \in Deciders : e # d => request'[e] = request[e]
      BY RequestApart
    <2>5. CASE b # d /\ c # d
      BY <1>3, <2>4, <2>5 DEF AuditInv, RequestInv
    <2>6. CASE b = d /\ c # d
      BY <1>3, <2>2, <2>3, <2>4, <2>6 DEF AuditInv, RequestInv
    <2>7. CASE b # d /\ c = d
      BY <1>3, <2>2, <2>3, <2>4, <2>7 DEF AuditInv, RequestInv
    <2> QED BY <2>5, <2>6, <2>7
  <1> QED BY <1>1, <1>2, <1>3 DEF RequestInv, Records, Sound

\* The locks that TypeOK is about.
Mutex == /\ \A d \in Deciders :
              updateMu = d <=> request[d].pc \in {"persist", "reload"}
         /\ updateMu = "poller" <=> poller.pc \in {"restoring", "health persist",
                                     "health reload", "merge", "list", "install"}
         /\ updateMu = "monitor" <=> monitor.pc \in {"persist", "reload"}
Operations == active = {request[d].ticket : d \in {c \in Deciders :
                          request[c].pc \notin {"idle", "listed"}}}

LEMMA LocksOfTypeOK == TypeOK <=> Mutex /\ Operations /\ Unique(stored)
  BY DEF TypeOK, Mutex, Operations, Unique

LEMMA HoldersDiffer ==
    /\ Free # "poller" /\ Free # "monitor"
    /\ \A d \in Deciders : d # Free /\ d # "poller" /\ d # "monitor"
  BY AuditAssumption DEF AuditAssumption

LEMMA RequestKeepsMutex ==
    ASSUME AuditInv, NEW d \in Deciders, Request(d)
    PROVE  Mutex' /\ updateMu' \in Holders
  <1> DEFINE In(c) == request[c].pc \in {"persist", "reload"}
  <1>0. /\ Mutex /\ updateMu \in Holders
        /\ \A c \in Deciders : c # d => request'[c] = request[c]
        /\ poller' = poller /\ monitor' = monitor
        /\ Free \in Holders /\ d \in Holders
    BY LocksOfTypeOK, RequestApart, RequestFrame DEF AuditInv, Holders
  <1>1. CASE updateMu' = updateMu /\ In(d)' = In(d)
    BY <1>0, <1>1 DEF Mutex
  <1>2. CASE updateMu = Free /\ updateMu' = d /\ In(d)'
    BY <1>0, <1>2, HoldersDiffer DEF Mutex
  <1>3. CASE In(d) /\ updateMu' = Free /\ ~In(d)'
    <2>1. updateMu = d
      BY <1>0, <1>3 DEF Mutex
    <2>2. /\ \A c \in Deciders : updateMu' # c
          /\ updateMu' # "poller" /\ updateMu' # "monitor"
      BY <1>3, HoldersDiffer
    <2>3. \A c \in Deciders : ~(request'[c].pc \in {"persist", "reload"})
      BY <1>0, <1>3, <2>1 DEF Mutex
    <2>4. /\ ~(poller'.pc \in {"restoring", "health persist", "health reload",
                               "merge", "list", "install"})
          /\ ~(monitor'.pc \in {"persist", "reload"})
      BY <1>0, <2>1, HoldersDiffer DEF Mutex
    <2>5. \A c \in Deciders :
            updateMu' = c <=> request'[c].pc \in {"persist", "reload"}
      BY <2>2, <2>3
    <2>6. /\ updateMu' = "poller" <=> poller'.pc \in {"restoring",
               "health persist", "health reload", "merge", "list", "install"}
          /\ updateMu' = "monitor" <=> monitor'.pc \in {"persist", "reload"}
      BY <2>2, <2>4
    <2>7. updateMu' \in Holders
      BY <1>3 DEF Holders
    <2> QED BY <2>5, <2>6, <2>7 DEF Mutex
  <1>4. ~In(d)' => request'[d] = NoRequest \/ ~In(d)
    BY RequestMoves, RequestsAreSound DEF Moved, AuditInv, Records, Busy
  <1>5. NoRequest.pc = "idle"
    BY DEF NoRequest
  <1>6. CASE Choose(d) \/ BeginMutation(d) \/ CheckReady(d) \/ Decide(d)
    <2>1. updateMu' = updateMu
      BY <1>6 DEF Choose, ListTickets, BeginMutation, CheckReady, Decide
    <2>2. request[d].pc \notin {"persist", "reload", "decided"}
      BY <1>6 DEF Choose, ListTickets, BeginMutation, CheckReady, Decide
    <2>3. request[d] \in Records
      BY RequestsAreSound DEF AuditInv
    <2>4. ~In(d)'
      <3>1. CASE request'[d] = NoRequest
        BY <1>5, <3>1
      <3>2. CASE \E t \in Tickets, what \in Decisions : request'[d] =
                   [pc |-> "listed", ticket |-> t, what |-> what, at |-> 0]
        BY <3>2
      <3>3. CASE request'[d] = [request[d] EXCEPT !.pc = "decided", !.at = now]
        BY <2>3, <3>3 DEF Records
      <3>4. CASE Moved(d, "listed", "begun") \/ Moved(d, "begun", "ready")
        BY <2>3, <3>4 DEF Moved, Records
      <3> QED BY <2>2, <3>1, <3>2, <3>3, <3>4, RequestMoves DEF Moved
    <2>5. In(d)' = In(d)
      BY <2>2, <2>4
    <2> QED BY <1>1, <2>1, <2>5
  <1>7. CASE LockRecord(d)
    <2>1. \/ updateMu' = updateMu /\ request'[d] = NoRequest /\ request[d].pc = "decided"
          \/ updateMu = Free /\ updateMu' = d /\ request'[d] = [request[d] EXCEPT !.pc = "persist"]
      BY <1>7, StepMoves, EndMoves DEF LockRecord, Lock
    <2>2. request[d] \in Records
      BY RequestsAreSound DEF AuditInv
    <2>3. CASE updateMu' = updateMu /\ request'[d] = NoRequest /\ request[d].pc = "decided"
      BY <1>1, <1>5, <2>3
    <2>4. CASE updateMu = Free /\ updateMu' = d /\ request'[d] = [request[d] EXCEPT !.pc = "persist"]
      BY <1>2, <2>2, <2>4 DEF Records
    <2> QED BY <2>1, <2>3, <2>4
  <1>8. CASE PersistEvidence(d) \/ Reload(d)
    <2>1. /\ In(d)
          /\ \/ updateMu' = updateMu /\ request'[d] = [request[d] EXCEPT !.pc = "reload"]
             \/ updateMu' = Free /\ request'[d] = NoRequest
      BY <1>8, StepMoves, EndMoves DEF PersistEvidence, Reload, Unlock
    <2>2. request[d] \in Records
      BY RequestsAreSound DEF AuditInv
    <2>3. CASE updateMu' = updateMu /\ request'[d] = [request[d] EXCEPT !.pc = "reload"]
      BY <1>1, <2>1, <2>2, <2>3 DEF Records
    <2>4. CASE updateMu' = Free /\ request'[d] = NoRequest
      BY <1>3, <1>5, <2>1, <2>4
    <2> QED BY <2>1, <2>3, <2>4
  <1> QED BY <1>6, <1>7, <1>8 DEF Request, Handle

LEMMA RequestKeepsOperations ==
    ASSUME AuditInv, NEW d \in Deciders, Request(d)
    PROVE  Operations'
  <1> DEFINE In(c) == request[c].pc \notin {"idle", "listed"}
  <1>0. /\ Operations /\ request[d] \in Records
        /\ \A c \in Deciders : c # d => request'[c] = request[c]
    BY LocksOfTypeOK, RequestApart, RequestsAreSound DEF AuditInv
  <1>1. \A c \in Deciders : In(c) /\ In(d) /\ c # d => request[c].ticket # request[d].ticket
    BY RequestsAreSound DEF AuditInv, RequestInv, Records
  <1>2. NoRequest.pc = "idle"
    BY DEF NoRequest
  <1>3. CASE active' = active /\ In(d)' = In(d) /\ (In(d) => request'[d].ticket = request[d].ticket)
    BY <1>0, <1>3 DEF Operations
  <1>4. CASE ~In(d) /\ In(d)' /\ active' = active \cup {request'[d].ticket}
    BY <1>0, <1>4 DEF Operations
  <1>5. CASE In(d) /\ ~In(d)' /\ active' = active \ {request[d].ticket}
    BY <1>0, <1>1, <1>5 DEF Operations
  <1>6. CASE Choose(d)
    <2>1. PICK t \in Tickets, what \in Decisions : ListTickets(d, t, what)
      BY <1>6 DEF Choose
    <2>2. active' = active /\ request[d].pc = "idle"
      BY <2>1 DEF ListTickets
    <2>3. request'[d] = [NoRequest EXCEPT !.pc = "listed", !.ticket = t, !.what = what]
      BY <2>1 DEF ListTickets, AuditInv, RequestInv
    <2>4. request'[d].pc = "listed"
      BY <2>3 DEF NoRequest
    <2> QED BY <1>3, <2>2, <2>4
  <1>7. CASE BeginMutation(d)
    <2>1. /\ request[d].pc = "listed"
          /\ \/ active' = active /\ request'[d] = NoRequest
             \/ /\ active' = active \cup {request[d].ticket}
                /\ request'[d] = [request[d] EXCEPT !.pc = "begun"]
      BY <1>7, StepMoves DEF BeginMutation, AuditInv, RequestInv
    <2>2. CASE active' = active /\ request'[d] = NoRequest
      BY <1>2, <1>3, <2>1, <2>2
    <2>3. CASE /\ active' = active \cup {request[d].ticket}
               /\ request'[d] = [request[d] EXCEPT !.pc = "begun"]
      BY <1>0, <1>4, <2>1, <2>3 DEF Records
    <2> QED BY <2>1, <2>2, <2>3
  <1>8. CASE \/ CheckReady(d) \/ Decide(d) \/ LockRecord(d)
             \/ PersistEvidence(d) \/ Reload(d)
    <2>1. In(d)
      BY <1>8 DEF CheckReady, Decide, LockRecord, PersistEvidence, Reload
    <2>2. \/ EndRequest(d)
          \/ Acknowledged(d) /\ active' = active
          \/ \E pc \in Busy : Step(d, pc) /\ active' = active
      BY <1>8 DEF CheckReady, Decide, LockRecord, PersistEvidence, Reload, Busy
    <2>3. CASE EndRequest(d)
      <3>1. request'[d] = NoRequest /\ active' = active \ {request[d].ticket}
        BY <2>3, EndMoves DEF EndRequest
      <3> QED BY <1>2, <1>5, <2>1, <3>1
    <2>4. CASE Acknowledged(d) /\ active' = active
      <3>1. request'[d] = [request[d] EXCEPT !.pc = "decided", !.at = now]
        BY <2>4 DEF Acknowledged, AuditInv, RequestInv
      <3> QED BY <1>0, <1>3, <2>1, <2>4, <3>1 DEF Records
    <2>5. ASSUME NEW pc \in Busy, Step(d, pc), active' = active
          PROVE  Operations'
      <3>1. request'[d] = [request[d] EXCEPT !.pc = pc]
        BY <2>5, StepMoves
      <3> QED BY <1>0, <1>3, <2>1, <2>5, <3>1 DEF Records, Busy
    <2> QED BY <2>2, <2>3, <2>4, <2>5
  <1> QED BY <1>6, <1>7, <1>8 DEF Request, Handle

LEMMA RequestKeepsEvidence ==
    ASSUME AuditInv, NEW d \in Deciders, Request(d)
    PROVE  EvidenceIsReal'
  <1>1. \A t \in Tickets : tickets[t] # "pending" => tickets'[t] = tickets[t]
    BY RequestTickets
  <1>2. ASSUME NEW e \in stored, e.kind = "approval"
        PROVE  tickets'[e.id] = e.what
    <2>1. IsApproval(e) /\ tickets[e.id] = e.what
      BY <1>2 DEF AuditInv, Rows, IsApproval, IsHealth, IsLog, EvidenceIsReal, Approvals
    <2> QED BY <1>1, <2>1 DEF IsApproval, Decisions
  <1>3. ASSUME stored' # stored
        PROVE  tickets'[Evidence(d).id] = Evidence(d).what
    <2>1. request[d].pc = "persist" /\ Sound(d)
      BY <1>3, RequestStores, RequestsAreSound DEF AuditInv
    <2> QED BY <1>1, <2>1 DEF Sound, Past, Evidence, Event, Decisions
  <1>4. stored' \subseteq stored \cup {Evidence(d)}
    BY RequestStores
  <1> QED BY <1>2, <1>3, <1>4 DEF EvidenceIsReal, Approvals

LEMMA RequestKeepsDone ==
    ASSUME AuditInv, NEW d \in Deciders, Request(d)
    PROVE  DoneIsDurable'
  <1>0. stored \subseteq stored' /\ Rows' /\ DoneIsDurable
    BY RequestStores DEF AuditInv
  <1>1. ASSUME NEW e \in stored', e.id = request[d].ticket, request[d].pc # "idle"
        PROVE  \E f \in Approvals(stored') : f.id = request[d].ticket
    <2>1. request[d].ticket \in Tickets
      BY <1>1 DEF AuditInv, RequestInv
    <2>2. e.kind = "approval"
      BY <1>0, <1>1, <2>1, AuditAssumption
         DEF AuditAssumption, Rows, IsApproval, IsHealth, IsLog
    <2> QED BY <1>1, <2>2 DEF Approvals
  <1>2. CASE answered' = answered
    BY <1>0, <1>2, DoneFrame
  <1>3. CASE /\ answered' = answered \cup {request[d].ticket}
             /\ \E f \in Approvals(stored') : f.id = request[d].ticket
    BY <1>0, <1>3 DEF DoneIsDurable, Approvals
  <1>4. CASE LockRecord(d)
    <2>1. ASSUME answered' # answered
          PROVE  /\ answered' = answered \cup {request[d].ticket}
                 /\ request[d].pc # "idle"
                 /\ \E e \in svc.resolutions : e.id = request[d].ticket
      BY <1>4, <2>1 DEF LockRecord
    <2>2. svc.resolutions \subseteq stored
      BY DEF AuditInv, ServiceInv, Approvals
    <2> QED BY <1>0, <1>1, <1>2, <1>3, <2>1, <2>2
  <1>5. CASE PersistEvidence(d)
    <2>1. ASSUME answered' # answered
          PROVE  /\ answered' = answered \cup {request[d].ticket}
                 /\ request[d].pc = "persist"
                 /\ stored' = Upserted(stored, {Evidence(d)})
      BY <1>5, <2>1 DEF PersistEvidence
    <2>2. ASSUME answered' # answered
          PROVE  \E e \in stored' : e.id = Evidence(d).id
      BY <2>1, <2>2 DEF Upserted
    <2>3. Evidence(d).id = request[d].ticket
      BY DEF Evidence, Event
    <2> QED BY <1>1, <1>2, <1>3, <2>1, <2>2, <2>3
  <1>6. CASE Reload(d)
    <2>1. /\ answered' \in {answered, answered \cup {request[d].ticket}}
          /\ request[d].pc = "reload"
      BY <1>6 DEF Reload, Evidence, Event
    <2>2. Evidence(d) \in stored' /\ Evidence(d).id = request[d].ticket
      BY <1>0, <2>1 DEF AuditInv, RequestInv, Evidence, Event
    <2> QED BY <1>1, <1>2, <1>3, <2>1, <2>2
  <1>7. CASE Choose(d) \/ BeginMutation(d) \/ CheckReady(d) \/ Decide(d)
    BY <1>2, <1>7 DEF Choose, ListTickets, BeginMutation, CheckReady, Decide
  <1> QED BY <1>4, <1>5, <1>6, <1>7 DEF Request, Handle

\* Counting the denial that was just stored.
LEMMA ReloadCounts ==
    ASSUME AuditInv, NEW d \in Deciders, Reload(d)
    PROVE  ServiceInv' /\ CountInv'
  <1> DEFINE e == Evidence(d)
             to == IF e.at < svc.to THEN svc.to ELSE e.at + 1
             R == svc.resolutions \cup {e}
  <1>1. request[d].pc = "reload" /\ e \in stored /\ IsApproval(e) /\ stored' = stored
    BY EvidenceIsAnEvent DEF Reload, AuditInv, RequestInv, Past
  <1>2. R \subseteq Approvals(stored)
    BY <1>1 DEF AuditInv, ServiceInv, Approvals, IsApproval
  <1>3. Denials(R, to) \subseteq Denied
    <2>1. \A f \in Approvals(stored) : f.at < MaxTime
      BY DEF AuditInv, Rows, IsApproval, IsHealth, IsLog, Approvals
    <2> QED BY <1>2, <2>1 DEF Denied, Denials, Approvals
  <1>4. /\ IsFiniteSet(Denied) /\ Cardinality(Denied) \in Nat
        /\ Cardinality(Denials(R, to)) \in Nat
        /\ Cardinality(Denials(R, to)) <= Cardinality(Denied)
    <2>1. IsFiniteSet(Denied)
      BY DeniedIsFinite DEF AuditInv
    <2>2. IsFiniteSet(Denials(R, to))
      BY <1>3, <2>1, FS_Subset
    <2> QED BY <1>3, <2>1, <2>2, FS_Subset, FS_CardinalityType
  <1>5. Uncounted = {e}
    <2>1. \A c \in Deciders : request[c].pc = "reload" => c = d
      BY <1>1 DEF AuditInv, TypeOK
    <2> QED BY <1>1, <2>1 DEF Uncounted
  <1>6. Uncounted' = {} /\ Denied' = Denied
    <2>1. \A c \in Deciders : request'[c].pc # "reload"
      <3>1. request'[d].pc = "idle"
        BY EndMoves DEF Reload, NoRequest
      <3>2. \A c \in Deciders : c # d => request'[c] = request[c] /\ request[c].pc # "reload"
        BY <1>1, RequestApart DEF AuditInv, TypeOK, Request, Handle
      <3> QED BY <3>1, <3>2
    <2> QED BY <1>1, <2>1 DEF Uncounted, Denied
  <1>7. e.what = "deny" => Cardinality(Denied \ Uncounted) = Cardinality(Denied) - 1
    <2>1. ASSUME e.what = "deny" PROVE e \in Denied
      BY <1>1, <2>1 DEF Denied, Denials, Approvals, IsApproval
    <2> QED BY <1>4, <1>5, <2>1, FS_RemoveElement
  <1>8. /\ Cardinality(Denied \ Uncounted) <= Cardinality(Denied)
        /\ Cardinality(Denied \ Uncounted) \in Nat
    BY DeniedIsFinite DEF AuditInv
  <1>9. \/ svc' = svc
        \/ /\ DOMAIN svc' = DOMAIN Fresh
           /\ svc'.shown = Newest(stored) /\ svc'.resolutions = R /\ svc'.to = svc.to
           /\ svc'.metric \in {svc.metric, Cardinality(Denials(R, to))}
           /\ svc'.trend = svc.trend \/ (e.what = "deny" /\ svc'.trend = svc.trend + 1)
    <2>0. DOMAIN svc = DOMAIN Fresh
      BY DEF AuditInv, ServiceInv
    <2>1. \/ svc' = svc
          \/ svc' = [svc EXCEPT
               !.shown = Newest(stored), !.resolutions = R,
               !.metric = IF svc.to # 0 THEN Cardinality(Denials(R, to)) ELSE @,
               !.trend  = IF svc.to # 0 /\ e.what = "deny" THEN @ + 1 ELSE @]
      BY DEF Reload
    <2> HIDE DEF e, to, R
    <2> QED BY <2>0, <2>1 DEF Fresh
  <1>10. ServiceInv /\ CountInv
    BY DEF AuditInv
  <1>11. Cardinality(Denied' \ Uncounted') = Cardinality(Denied)
    <2>1. Denied' \ Uncounted' = Denied
      BY <1>6
    <2> QED BY <2>1
  <1>12. CountInv'
    <2> HIDE DEF e, to, R
    <2>1. Cardinality(Denied') = Cardinality(Denied)
      BY <1>6
    <2> QED BY <1>4, <1>7, <1>8, <1>9, <1>10, <1>11, <2>1 DEF CountInv, ServiceInv
  <1>13. ServiceInv'
    <2>1. Newest(stored) \subseteq stored
      BY DEF Newest
    <2> HIDE DEF e, to, R
    <2> QED BY <1>1, <1>2, <1>4, <1>9, <1>10, <2>1 DEF ServiceInv
  <1> QED BY <1>12, <1>13

LEMMA RequestKeepsService ==
    ASSUME AuditInv, NEW d \in Deciders, Request(d)
    PROVE  ServiceInv' /\ CountInv'
  <1>1. CASE Reload(d)
    BY <1>1, ReloadCounts
  <1>2. CASE ~Reload(d)
    <2>1. svc' = svc
      BY <1>2 DEF Request, Choose, Handle, ListTickets, BeginMutation, CheckReady,
                  Decide, LockRecord, PersistEvidence
    <2>2. stored \subseteq stored' /\ Rows'
      BY RequestStores
    <2>3. (Uncounted' \ Uncounted) \cap stored = {}
      <3>1. \A c \in Deciders : c # d => request'[c] = request[c]
        BY RequestApart
      <3>2. request[d].pc = "reload" \/ request'[d].pc # "reload"
              \/ (stored' # stored /\ Moved(d, "persist", "reload"))
        <4>0. request[d] \in Records
          BY RequestsAreSound DEF AuditInv
        <4>1. CASE request'[d] = NoRequest
          BY <4>1 DEF NoRequest
        <4>2. CASE \E t \in Tickets, what \in Decisions : request'[d] =
                   [pc |-> "listed", ticket |-> t, what |-> what, at |-> 0]
          BY <4>2
        <4>3. CASE request'[d] = [request[d] EXCEPT !.pc = "decided", !.at = now]
          BY <4>0, <4>3 DEF Records
        <4>4. CASE \/ Moved(d, "listed", "begun") \/ Moved(d, "begun", "ready")
                   \/ Moved(d, "decided", "persist")
          BY <4>0, <4>4 DEF Records, Moved
        <4> QED BY <4>1, <4>2, <4>3, <4>4, RequestMoves
      <3>3. ASSUME stored' # stored, Moved(d, "persist", "reload")
            PROVE  Evidence(d) \notin stored /\ Evidence(d)' = Evidence(d)
        <4>1. request[d] \in Records
          BY RequestsAreSound DEF AuditInv
        <4>2. Evidence(d)' = Evidence(d)
          BY <3>3, <4>1 DEF Moved, Records, Evidence
        <4> QED BY <3>3, <4>2, RequestStores
      <3>4. \A c \in Deciders : c # d => Evidence(c)' = Evidence(c)
        BY <3>1 DEF Evidence
      <3>5. request[d].pc # "reload"
        BY <1>2 DEF Request, Choose, Handle, ListTickets, BeginMutation, CheckReady,
                    Decide, LockRecord, PersistEvidence
      <3> QED BY <3>1, <3>2, <3>3, <3>4, <3>5 DEF Uncounted
    <2>4. svc.metric \in Int /\ svc.trend \in Int
      BY DEF AuditInv, ServiceInv
    <2> QED BY <2>1, <2>2, <2>3, <2>4, ServiceFrame, CountFrame DEF AuditInv
  <1> QED BY <1>1, <1>2

LEMMA RequestKeepsPollers ==
    ASSUME AuditInv, NEW d \in Deciders, Request(d)
    PROVE  PollerInv' /\ MonitorInv' /\ HealthInv'
  <1>1. UNCHANGED <<now, logs, actual, poller, monitor, aggregate>>
    BY RequestFrame
  <1>2. stored \subseteq stored' /\ stored' \subseteq stored \cup {Evidence(d)}
    BY RequestStores
  <1>3. ASSUME poller.pc = "install"
        PROVE  stored' = stored /\ svc' = svc
    <2>1. updateMu # d
      BY <1>3, HoldersDiffer DEF AuditInv, TypeOK
    <2>2. request[d].pc \notin {"persist", "reload"}
      BY <2>1 DEF AuditInv, TypeOK
    <2> QED BY <2>2 DEF Request, Choose, Handle, ListTickets, BeginMutation,
                        CheckReady, Decide, LockRecord, PersistEvidence, Reload
  <1>4. PollerInv'
    <2>1. poller.pc = "install" => Newest(stored)' = Newest(stored) /\ svc'.shown = svc.shown
      BY <1>3
    <2> QED BY <1>1, <2>1 DEF AuditInv, PollerInv
  <1>5. MonitorInv'
    BY <1>1, <1>2 DEF AuditInv, MonitorInv
  <1>6. Known' = Known
    <2>1. Evidence(d).kind # "health"
      BY DEF Evidence, Event
    <2> QED BY <1>1, <1>2, <2>1 DEF Known
  <1> QED BY <1>1, <1>4, <1>5, <1>6, KnownFrame DEF AuditInv

LEMMA RequestKeepsInv ==
    ASSUME AuditInv, NEW d \in Deciders, Request(d)
    PROVE  AuditInv'
  <1>1. TypeOK' /\ updateMu' \in Holders
    <2>1. (TypeOK <=> Mutex /\ Operations /\ Unique(stored))'
      BY LocksOfTypeOK, PTL
    <2> QED BY <2>1, RequestKeepsMutex, RequestKeepsOperations, RequestStores DEF Rows
  <1> QED BY <1>1, RequestBudget, RequestTickets, RequestStores, RequestKeepsService,
             RequestKeepsRequests, RequestKeepsPollers, RequestKeepsEvidence,
             RequestKeepsDone DEF AuditInv
-----------------------------------------------------------------------------
(* The poller *)

LEMMA PollerFrame ==
    ASSUME Boot \/ Refresh
    PROVE  Apart
  BY DEF Boot, Refresh, ConnectStore, LockRestore, Restore, LockHealth, PersistHealth,
         ReloadHealth, Fetch, LockMerge, PersistFeed, ListWindow, Install

LEMMA PollerBudget ==
    ASSUME Clocks, Boot \/ Refresh
    PROVE  Clocks' /\ budget'.crashes = budget.crashes
  <1>1. now' = now
    BY PollerFrame DEF Apart
  <1>2. CASE budget' = budget
    BY <1>1, <1>2 DEF Clocks
  <1>3. CASE Works \/ Fails
    BY <1>1, <1>3, CallKeepsBudget DEF Clocks
  <1>4. budget' = budget \/ Works \/ Fails
    BY DEF Boot, Refresh, ConnectStore, LockRestore, Restore, LockHealth, PersistHealth,
           ReloadHealth, Fetch, LockMerge, PersistFeed, ListWindow, Install
  <1> QED BY <1>2, <1>3, <1>4

LEMMA PollerStores ==
    ASSUME AuditInv, Boot \/ Refresh
    PROVE  /\ Rows' /\ stored \subseteq stored'
           /\ \A e \in stored' \ stored : e = poller.event \/ IsLog(e)
           /\ \A e \in stored' \ stored : e.kind # "approval"
           /\ stored' # stored => poller.pc \in {"health persist", "merge"}
  <1>1. CASE PersistHealth
    <2>1. stored' \in {stored, Upserted(stored, {poller.event})}
      BY <1>1 DEF PersistHealth
    <2>2. IsEvent(poller.event) /\ poller.event.kind = "health"
      BY HealthIsAnEvent DEF AuditInv, PollerInv
    <2>3. Rows' /\ stored \subseteq stored' /\ stored' \subseteq stored \cup {poller.event}
      BY <2>1, <2>2, UpsertKeepsRows, SingletonIsUnique DEF AuditInv
    <2> QED BY <1>1, <2>2, <2>3 DEF PersistHealth
  <1>2. CASE PersistFeed
    <2>1. /\ stored' \in {stored, Upserted(stored, poller.feed)}
          /\ poller.feed \subseteq logs
      BY <1>2 DEF PersistFeed, AuditInv, PollerInv
    <2>2. /\ IsFiniteSet(poller.feed) /\ Unique(poller.feed)
          /\ \A e \in poller.feed : IsEvent(e) /\ IsLog(e)
      BY <2>1, FS_Subset DEF AuditInv, Outside, Unique, IsEvent
    <2>3. Rows' /\ stored \subseteq stored' /\ stored' \subseteq stored \cup poller.feed
      BY <2>1, <2>2, UpsertKeepsRows DEF AuditInv
    <2> QED BY <1>2, <2>2, <2>3 DEF PersistFeed, IsLog
  <1>3. CASE ~PersistHealth /\ ~PersistFeed
    <2>1. stored' = stored
      BY <1>3 DEF Boot, Refresh, ConnectStore, LockRestore, Restore, LockHealth,
                  ReloadHealth, Fetch, LockMerge, ListWindow, Install
    <2> QED BY <2>1 DEF AuditInv, Rows
  <1> QED BY <1>1, <1>2, <1>3

Mine == {"restoring", "health persist", "health reload", "merge", "list", "install"}

LEMMA PollerKeepsPoller ==
    ASSUME AuditInv, Boot \/ Refresh
    PROVE  PollerInv'
  <1>0. /\ DOMAIN poller = DOMAIN Booting /\ poller.pc \in PollerPcs
        /\ poller.to \in Int /\ poller.available \in BOOLEAN /\ poller.event \in HealthEvents
        /\ aggregate \in HealthEvents /\ NoHealth \in HealthEvents /\ now \in Int
        /\ UNCHANGED <<logs, aggregate>>
    BY NoHealthIsHealth, PollerFrame, AuditAssumption
       DEF AuditInv, PollerInv, MonitorInv, Clocks, Apart, outside, AuditAssumption
  <1>1. ASSUME NEW pc \in PollerPcs \ {"fetched", "merge", "install"}, Poll(pc)
        PROVE  PollerInv'
    BY <1>0, <1>1 DEF Poll, PollerInv, Booting
  <1>2. CASE Retry
    <2>1. /\ DOMAIN poller' = DOMAIN Booting /\ poller'.pc = "ready" /\ poller'.to = 0
          /\ poller'.available \in BOOLEAN /\ poller'.event = aggregate
      BY <1>2 DEF Retry, Booting
    <2>2. poller'.pc \in PollerPcs /\ poller'.pc \notin {"fetched", "merge", "install"}
      BY <2>1 DEF PollerPcs
    <2>3. poller'.to \in Int /\ poller'.event \in HealthEvents
      BY <1>0, <2>1
    <2> QED BY <2>1, <2>2, <2>3 DEF PollerInv
  <1>3. CASE Fetch
    <2>1. \E F, a : /\ F \subseteq logs /\ a \in BOOLEAN
                    /\ poller' = [poller EXCEPT !.pc = "fetched", !.to = now,
                                                !.feed = F, !.available = a]
      BY <1>3 DEF Fetch
    <2> QED BY <1>0, <2>1 DEF PollerInv, Booting, PollerPcs
  <1>4. CASE LockMerge
    <2>1. poller' = [poller EXCEPT !.pc = "merge"] /\ poller.feed \subseteq logs
      BY <1>4 DEF LockMerge, Poll, AuditInv, PollerInv
    <2> QED BY <1>0, <2>1 DEF PollerInv, Booting, PollerPcs
  <1>5. CASE ListWindow
    <2>1. \E F \in {Newest(stored), svc.shown} :
            poller' = [poller EXCEPT !.pc = "install", !.feed = F]
      BY <1>5 DEF ListWindow
    <2>2. Newest(stored)' = Newest(stored) /\ svc' = svc
      BY <1>5 DEF ListWindow
    <2> QED BY <1>0, <2>1, <2>2 DEF PollerInv, Booting, PollerPcs
  <1>6. CASE Install
    BY <1>0, <1>6 DEF Install, PollerInv, Booting, PollerPcs
  <1>7. CASE \/ ConnectStore \/ LockRestore \/ Restore \/ LockHealth
             \/ PersistHealth \/ ReloadHealth \/ PersistFeed
    <2>1. Retry \/ \E pc \in {"restore", "restoring", "health", "health persist",
                              "health reload", "fetch", "list"} : Poll(pc)
      BY <1>7 DEF ConnectStore, LockRestore, Restore, LockHealth, PersistHealth,
                  ReloadHealth, PersistFeed
    <2> QED BY <1>1, <1>2, <2>1 DEF PollerPcs
  <1> QED BY <1>3, <1>4, <1>5, <1>6, <1>7 DEF Boot, Refresh

LEMMA PollerKeepsMutex ==
    ASSUME AuditInv, Boot \/ Refresh
    PROVE  Mutex' /\ updateMu' \in Holders
  <1>0. /\ Mutex /\ updateMu \in Holders /\ UNCHANGED <<request, monitor>>
        /\ Free \in Holders /\ "poller" \in Holders
        /\ DOMAIN poller = DOMAIN Booting
    BY LocksOfTypeOK, PollerFrame DEF AuditInv, Holders, Apart, PollerInv
  <1>1. CASE updateMu' = updateMu /\ (poller'.pc \in Mine <=> poller.pc \in Mine)
    BY <1>0, <1>1 DEF Mutex, Mine
  <1>2. CASE updateMu = Free /\ updateMu' = "poller" /\ poller'.pc \in Mine
    BY <1>0, <1>2, HoldersDiffer DEF Mutex, Mine
  <1>3. CASE poller.pc \in Mine /\ updateMu' = Free /\ poller'.pc \notin Mine
    <2>1. updateMu = "poller"
      BY <1>0, <1>3 DEF Mutex, Mine
    <2> QED BY <1>0, <1>3, <2>1, HoldersDiffer DEF Mutex, Mine
  <1>4. ASSUME NEW pc, Poll(pc)
        PROVE  poller'.pc = pc
    BY <1>0, <1>4 DEF Poll, Booting
  <1>5. Retry => poller'.pc = "ready"
    BY DEF Retry, Booting
  <1>6. CASE ConnectStore
    BY <1>1, <1>4, <1>5, <1>6 DEF ConnectStore, Mine
  <1>7. CASE LockRestore
    BY <1>2, <1>4, <1>7 DEF LockRestore, Lock, Mine
  <1>8. CASE Restore
    BY <1>3, <1>4, <1>5, <1>8 DEF Restore, Unlock, Mine
  <1>9. CASE LockHealth
    BY <1>2, <1>4, <1>9 DEF LockHealth, Lock, Mine
  <1>10. CASE PersistHealth
    BY <1>1, <1>3, <1>4, <1>5, <1>10 DEF PersistHealth, Unlock, Mine
  <1>11. CASE ReloadHealth
    BY <1>3, <1>4, <1>5, <1>11 DEF ReloadHealth, Unlock, Mine
  <1>12. CASE Fetch
    <2>1. poller.pc = "fetch" /\ poller'.pc = "fetched" /\ updateMu' = updateMu
      BY <1>0, <1>12 DEF Fetch, Booting
    <2> QED BY <1>1, <2>1 DEF Mine
  <1>13. CASE LockMerge
    BY <1>2, <1>4, <1>13 DEF LockMerge, Lock, Mine
  <1>14. CASE PersistFeed
    BY <1>1, <1>4, <1>14 DEF PersistFeed, Mine
  <1>15. CASE ListWindow
    <2>1. poller.pc = "list" /\ poller'.pc = "install" /\ updateMu' = updateMu
      BY <1>0, <1>15 DEF ListWindow, Booting
    <2> QED BY <1>1, <2>1 DEF Mine
  <1>16. CASE Install
    <2>1. poller.pc = "install" /\ poller'.pc = "fetch" /\ updateMu' = Free
      BY <1>16 DEF Install, Booting, Unlock
    <2> QED BY <1>3, <2>1 DEF Mine
  <1> QED BY <1>6, <1>7, <1>8, <1>9, <1>10, <1>11, <1>12, <1>13, <1>14, <1>15, <1>16
          DEF Boot, Refresh

\* What the service shows is always a part of what is stored.
LEMMA PollerKeepsService ==
    ASSUME AuditInv, Boot \/ Refresh
    PROVE  ServiceInv' /\ CountInv'
  <1>0. /\ stored \subseteq stored' /\ Rows' /\ Rows /\ ServiceInv /\ CountInv
        /\ svc.metric \in Int /\ svc.trend \in Int
    BY PollerStores DEF AuditInv, ServiceInv
  <1>1. Uncounted' = Uncounted
    BY PollerFrame DEF Apart, Uncounted, Evidence
  <1>2. CASE svc' = svc
    BY <1>0, <1>1, <1>2, ServiceFrame, CountFrame
  <1>3. Newest(stored) \subseteq stored
    BY DEF Newest
  <1>4. ASSUME NEW X, X \subseteq stored, NEW Y, Y \subseteq Approvals(stored),
               NEW i, NEW v,
               \/ svc' = [svc EXCEPT !.serving = v]
               \/ svc' = [svc EXCEPT !.initialized = i]
               \/ svc' = [svc EXCEPT !.shown = X]
               \/ svc' = [svc EXCEPT !.initialized = i, !.shown = X, !.resolutions = Y]
        PROVE  ServiceInv' /\ CountInv'
    <2>1. svc'.metric = svc.metric /\ svc'.trend = svc.trend
      BY <1>0, <1>4 DEF ServiceInv, Fresh
    <2>2. ServiceInv'
      BY <1>0, <1>4 DEF ServiceInv, Fresh, Approvals
    <2> QED BY <1>0, <1>1, <2>1, <2>2, CountFrame
  <1>5. CASE Restore \/ ReloadHealth
    <2>1. Approvals(Newest(stored)) \subseteq Approvals(stored)
      BY <1>3 DEF Approvals
    <2>2. \/ svc' = [svc EXCEPT !.serving = TRUE]
          \/ svc' = [svc EXCEPT !.shown = Newest(stored)]
          \/ svc' = [svc EXCEPT !.initialized = TRUE, !.shown = Newest(stored),
                                !.resolutions = Approvals(Newest(stored))]
      BY <1>5 DEF Restore, ReloadHealth, Retry
    <2> QED BY <1>3, <1>4, <2>1, <2>2
  <1>6. CASE ConnectStore \/ LockRestore \/ PersistHealth
    <2>1. \/ svc' = svc \/ svc' = [svc EXCEPT !.serving = TRUE]
          \/ svc' = [svc EXCEPT !.initialized = FALSE]
      BY <1>6 DEF ConnectStore, LockRestore, PersistHealth, Retry
    <2> QED BY <1>2, <1>4, <1>3, <2>1 DEF Approvals
  <1>7. CASE LockHealth \/ Fetch \/ LockMerge \/ PersistFeed \/ ListWindow
    BY <1>2, <1>7 DEF LockHealth, Fetch, LockMerge, PersistFeed, ListWindow
  <1>8. CASE Install
    <2> DEFINE counted == Denials(svc.resolutions, poller.to)
               denied == Cardinality(counted)
    <2>1. /\ svc' = [svc EXCEPT !.shown = poller.feed, !.serving = TRUE,
                      !.resolutions = Approvals(poller.feed), !.to = poller.to,
                      !.metric = denied, !.trend = denied]
          /\ poller.pc = "install" /\ stored' = stored
      BY <1>8 DEF Install, Counted
    <2>2. poller.feed \subseteq stored /\ poller.to \in Int
      BY <1>3, <2>1, <1>0 DEF AuditInv, PollerInv, ServiceInv
    <2>3. counted \subseteq Denied
      <3>1. \A f \in Approvals(stored) : f.at < MaxTime
        BY DEF AuditInv, Rows, IsApproval, IsHealth, IsLog, Approvals
      <3> QED BY <1>0, <3>1 DEF Denied, Denials, Approvals, ServiceInv
    <2>4. /\ IsFiniteSet(Denied) /\ denied \in Nat /\ denied <= Cardinality(Denied)
      <3>1. IsFiniteSet(Denied) /\ IsFiniteSet(counted)
        BY <1>0, <2>3, DeniedIsFinite, FS_Subset
      <3> QED BY <2>3, <3>1, FS_Subset, FS_CardinalityType
    <2>5. Uncounted = {}
      <3>1. \A c \in Deciders : request[c].pc # "reload"
        BY <2>1, HoldersDiffer DEF AuditInv, TypeOK
      <3> QED BY <3>1 DEF Uncounted
    <2>6. Denied' = Denied /\ Denied' \ Uncounted' = Denied
      BY <1>1, <2>1, <2>5 DEF Denied
    <2> HIDE DEF denied, counted
    <2>7. svc'.metric = denied /\ svc'.trend = denied /\ ServiceInv'
      BY <1>0, <2>1, <2>2, <2>4 DEF ServiceInv, Fresh, Approvals
    <2> QED BY <2>4, <2>6, <2>7 DEF CountInv
  <1> QED BY <1>5, <1>6, <1>7, <1>8 DEF Boot, Refresh

LEMMA PollerKeepsInv ==
    ASSUME AuditInv, Boot \/ Refresh
    PROVE  AuditInv'
  <1>0. /\ Apart /\ stored \subseteq stored' /\ Rows'
        /\ \A e \in stored' \ stored : e = poller.event \/ IsLog(e)
        /\ \A e \in stored' \ stored : e.kind # "approval"
    BY PollerFrame, PollerStores
  <1>1. Outside'
    BY <1>0 DEF Apart, outside, AuditInv, Outside
  <1>2. RequestInv'
    BY <1>0 DEF Apart, outside, AuditInv, RequestInv, Past, Evidence
  <1>3. MonitorInv'
    BY <1>0 DEF Apart, AuditInv, MonitorInv
  <1>4. HealthInv'
    <2>1. poller'.event \in {poller.event, aggregate, NoHealth}
      <3>1. DOMAIN poller = DOMAIN Booting
        BY DEF AuditInv, PollerInv
      <3> QED BY <3>1
          DEF Boot, Refresh, ConnectStore, LockRestore, Restore, LockHealth,
              PersistHealth, ReloadHealth, Fetch, LockMerge, PersistFeed, ListWindow,
              Install, Poll, Retry, Booting
    <2>2. Known' \subseteq Known
      BY <1>0, <2>1 DEF Known, Apart, IsLog
    <2> QED BY <1>0, <2>2, KnownFrame DEF AuditInv, Apart
  <1>5. EvidenceIsReal' /\ DoneIsDurable'
    BY <1>0, EvidenceFrame, DoneFrame DEF AuditInv, Apart, outside
  <1>6. TypeOK' /\ updateMu' \in Holders
    <2>1. (TypeOK <=> Mutex /\ Operations /\ Unique(stored))'
      BY LocksOfTypeOK, PTL
    <2>2. Operations'
      BY <1>0, LocksOfTypeOK DEF Apart, AuditInv, Operations
    <2> QED BY <1>0, <2>1, <2>2, PollerKeepsMutex DEF Rows
  <1> QED BY <1>0, <1>1, <1>2, <1>3, <1>4, <1>5, <1>6, PollerBudget, PollerKeepsPoller,
             PollerKeepsService DEF AuditInv
-----------------------------------------------------------------------------
(* The health monitor *)

LEMMA WatchFrame ==
    ASSUME WatchHealth
    PROVE  Beside
  BY DEF WatchHealth, StartMonitor, Probe, LockRecordHealth, RecordHealth, ReloadRecorded

LEMMA WatchBudget ==
    ASSUME Clocks, WatchHealth
    PROVE  Clocks' /\ budget'.crashes = budget.crashes
  <1>1. now' = now
    BY WatchFrame DEF Beside
  <1>2. CASE budget' = budget
    BY <1>1, <1>2 DEF Clocks
  <1>3. CASE Works \/ Fails
    BY <1>1, <1>3, CallKeepsBudget DEF Clocks
  <1>4. budget' = budget \/ Works \/ Fails
    BY DEF WatchHealth, StartMonitor, Probe, LockRecordHealth, RecordHealth, ReloadRecorded
  <1> QED BY <1>2, <1>3, <1>4

LEMMA WatchStores ==
    ASSUME AuditInv, WatchHealth
    PROVE  /\ Rows' /\ stored \subseteq stored'
           /\ stored' \subseteq stored \cup {monitor.event}
           /\ \A e \in stored' \ stored : e.kind # "approval"
           /\ stored' # stored => monitor.pc = "persist"
  <1>1. CASE RecordHealth
    <2>1. stored' \in {stored, Upserted(stored, {monitor.event})} /\ monitor.pc = "persist"
      BY <1>1 DEF RecordHealth
    <2>2. IsEvent(monitor.event) /\ monitor.event.kind = "health"
      BY HealthIsAnEvent DEF AuditInv, MonitorInv
    <2>3. Rows' /\ stored \subseteq stored' /\ stored' \subseteq stored \cup {monitor.event}
      BY <2>1, <2>2, UpsertKeepsRows, SingletonIsUnique DEF AuditInv
    <2> QED BY <2>1, <2>2, <2>3
  <1>2. CASE ~RecordHealth
    <2>1. stored' = stored
      BY <1>2 DEF WatchHealth, StartMonitor, Probe, LockRecordHealth, ReloadRecorded
    <2> QED BY <2>1 DEF AuditInv, Rows
  <1> QED BY <1>1, <1>2

\* The event that is recorded, or one of its time, is there afterwards; two of
\* one time are the same.
LEMMA RecordedIsStored ==
    ASSUME AuditInv, stored' = Upserted(stored, {monitor.event})
    PROVE  monitor.event \in stored'
  <1>1. CASE \A f \in stored : f.id # monitor.event.id
    BY <1>1 DEF Upserted
  <1>2. ASSUME NEW f \in stored, f.id = monitor.event.id
        PROVE  f = monitor.event
    <2>1. monitor.event \in HealthEvents
      BY DEF AuditInv, MonitorInv
    <2>2. /\ monitor.event.at \in -1..MaxTime /\ monitor.event.id = 100 + monitor.event.at
          /\ monitor.event \in Known
      BY <2>1 DEF HealthEvents, IsHealth, HealthID, Known
    <2>3. IsHealth(f)
      <3>1. f.id \notin Tickets \cup LogIDs
        BY <1>2, <2>2, AuditAssumption DEF AuditAssumption, HealthID
      <3> QED BY <3>1 DEF AuditInv, Rows, IsApproval, IsLog
    <2>4. f.at = monitor.event.at /\ f \in Known
      BY <1>2, <2>2, <2>3 DEF IsHealth, HealthID, Known
    <2> QED BY <2>2, <2>4 DEF AuditInv, HealthInv
  <1> QED BY <1>1, <1>2 DEF Upserted

LEMMA CandidateIsHealth ==
    ASSUME AuditInv, NEW current \in HealthEvents
    PROVE  /\ Candidate(current) \in {monitor.pending, NoHealth, current}
           /\ Candidate(current) \in HealthEvents
           /\ monitor.pending \in {NoHealth, Candidate(current)}
  BY NoHealthIsHealth DEF Candidate, AuditInv, MonitorInv

LEMMA ProbedIsNew ==
    ASSUME AuditInv, Distinct
    PROVE  LET current == Health(actual, now)
           IN /\ current \in HealthEvents /\ current.at = now
              /\ aggregate.at <= now
              /\ \A e \in Known : e \in HealthEvents /\ e.at <= now
                                    /\ (e.at = now => e = current)
  <1> DEFINE current == Health(actual, now)
  <1>1. current \in HealthEvents /\ current.at = now /\ current.what = actual /\ now \in Int
    BY ProbeIsHealth, AuditAssumption DEF AuditInv, Outside, Clocks, AuditAssumption
  <1>2. aggregate \in HealthEvents /\ aggregate.at \in 1..now
    BY DEF AuditInv, MonitorInv
  <1>3. \A e \in Known : e \in HealthEvents
    BY NoHealthIsHealth
       DEF Known, AuditInv, Rows, HealthEvents, IsHealth, IsLog, IsApproval, MonitorInv, PollerInv
  <1>4. \A e \in Known : e.at <= aggregate.at /\ e.at \in Int
    BY <1>3, AuditAssumption DEF AuditInv, HealthInv, HealthEvents, Events
  <1>5. aggregate \in Known
    BY DEF Known
  <1>6. now = aggregate.at => aggregate = current
    <2>1. now = aggregate.at => actual = aggregate.what
      BY <1>1, <1>2 DEF Distinct
    <2>2. ASSUME now = aggregate.at PROVE aggregate = current
      <3> HIDE DEF current
      <3>1. /\ aggregate.at = current.at /\ aggregate.what = current.what
            /\ aggregate.id = current.id /\ aggregate.kind = current.kind
        BY <1>1, <1>2, <2>1, <2>2 DEF HealthEvents, IsHealth
      <3> QED BY <3>1, <1>1, <1>2 DEF HealthEvents, Events
    <2> QED BY <2>2
  <1>7. \A e \in Known : e.at = now => e = current
    <2> HIDE DEF current
    <2>1. ASSUME NEW e \in Known, e.at = now PROVE e = current
      <3>1. e.at = aggregate.at /\ now = aggregate.at
        BY <1>1, <1>2, <1>4, <2>1
      <3> QED BY <1>5, <1>6, <3>1, <2>1 DEF AuditInv, HealthInv
    <2> QED BY <2>1
  <1> QED BY <1>1, <1>2, <1>3, <1>4, <1>7

LEMMA ProbeKeepsHealth ==
    ASSUME AuditInv, Distinct, aggregate' = Health(actual, now),
           Known' \subseteq Known \cup {aggregate'}
    PROVE  HealthInv'
  <1>1. /\ aggregate'.at = now
        /\ \A e \in Known : e.at <= now /\ (e.at = now => e = aggregate')
    BY ProbedIsNew
  <1>2. \A e \in Known' : e.at <= aggregate'.at
    BY <1>1, AuditAssumption DEF AuditInv, Clocks, AuditAssumption
  <1>3. \A e, f \in Known' : e.at = f.at => e = f
    BY <1>1 DEF AuditInv, HealthInv
  <1> QED BY <1>2, <1>3 DEF HealthInv

LEMMA WatchKeepsMonitor ==
    ASSUME AuditInv, WatchHealth
    PROVE  MonitorInv' /\ HealthInv'
  <1> DEFINE M == [pc : {"off", "idle", "lock", "persist", "reload"},
                   current : HealthEvents, persisted : HealthEvents,
                   pending : HealthEvents, event : HealthEvents]
  <1>0. /\ monitor \in M /\ aggregate \in HealthEvents /\ NoHealth \in HealthEvents
        /\ aggregate.at \in 1..now /\ now \in 1..MaxTime
        /\ now' = now /\ poller' = poller /\ stored \subseteq stored'
        /\ stored' \subseteq stored \cup {monitor.event}
        /\ MonitorInv /\ HealthInv
    BY NoHealthIsHealth, WatchFrame, WatchStores DEF AuditInv, MonitorInv, Clocks, Beside
  <1>1. CASE StartMonitor
    <2>1. /\ monitor' = [NoMonitor EXCEPT !.pc = "idle", !.persisted = aggregate]
          /\ aggregate' = aggregate
      BY <1>1 DEF StartMonitor
    <2>2. MonitorInv'
      BY <1>0, <2>1 DEF MonitorInv, NoMonitor
    <2>3. Known' \subseteq Known
      BY <1>0, <1>1, <2>1 DEF Known, NoMonitor, StartMonitor
    <2> QED BY <1>0, <2>1, <2>2, <2>3, KnownFrame
  <1>2. CASE Probe
    <2> DEFINE current == Health(actual, now)
               event == Candidate(current)
    <2>1. /\ \E pc \in {"idle", "lock"} :
               monitor' = [monitor EXCEPT !.pc = pc, !.current = current, !.event = event]
          /\ aggregate' = current /\ Distinct /\ stored' = stored
      BY <1>2 DEF Probe
    <2>2. current \in HealthEvents /\ current.at = now
      BY <2>1, ProbedIsNew
    <2>3. /\ event \in {monitor.pending, NoHealth, current} /\ event \in HealthEvents
          /\ monitor.pending \in {NoHealth, event}
      BY <2>2, CandidateIsHealth
    <2> HIDE DEF current, event
    <2>4. MonitorInv'
      <3>1. monitor' \in M /\ monitor'.pc \in {"idle", "lock"}
            /\ monitor'.pending = monitor.pending /\ monitor'.event = event
        BY <1>0, <2>1, <2>2, <2>3
      <3>2. aggregate' \in HealthEvents /\ aggregate'.at \in 1..now'
        BY <1>0, <2>1, <2>2
      <3> HIDE DEF M
      <3>3. /\ monitor'.pc \notin {"off", "reload"}
            /\ monitor'.pending \in {NoHealth, monitor'.event}
        BY <2>3, <3>1
      <3> QED BY <3>1, <3>2, <3>3 DEF MonitorInv, M
    <2>5. Known' \subseteq Known \cup {aggregate'}
      BY <1>0, <2>1, <2>3 DEF Known
    <2> QED BY <2>1, <2>4, <2>5, ProbeKeepsHealth DEF current
  <1>3. CASE LockRecordHealth
    <2>1. /\ monitor' = [monitor EXCEPT !.pc = "persist"] /\ monitor.pc = "lock"
          /\ aggregate' = aggregate /\ stored' = stored
      BY <1>3 DEF LockRecordHealth, Monitor
    <2>2. MonitorInv'
      BY <1>0, <2>1 DEF MonitorInv
    <2>3. Known' \subseteq Known
      BY <1>0, <2>1 DEF Known
    <2> QED BY <1>0, <2>1, <2>2, <2>3, KnownFrame
  <1>4. CASE RecordHealth
    <2>1. /\ monitor.pc = "persist" /\ aggregate' = aggregate
          /\ \/ /\ monitor' = [monitor EXCEPT !.pc = "reload"]
                /\ stored' = Upserted(stored, {monitor.event})
             \/ monitor' = [monitor EXCEPT !.pc = "idle", !.pending = monitor.event]
      BY <1>4 DEF RecordHealth, Monitor, Postpone
    <2>2. stored' = Upserted(stored, {monitor.event}) => monitor.event \in stored'
      BY RecordedIsStored
    <2>3. MonitorInv'
      BY <1>0, <2>1, <2>2 DEF MonitorInv
    <2>4. Known' \subseteq Known
      BY <1>0, <2>1 DEF Known
    <2> QED BY <1>0, <2>1, <2>3, <2>4, KnownFrame
  <1>5. CASE ReloadRecorded
    <2>1. /\ monitor.pc = "reload" /\ aggregate' = aggregate /\ stored' = stored
          /\ \/ \E pc \in {"lock", "idle"} :
                  monitor' = [monitor EXCEPT !.pc = pc, !.persisted = monitor.event,
                                !.pending = NoHealth, !.event = monitor.current]
             \/ monitor' = [monitor EXCEPT !.pc = "idle", !.pending = monitor.event]
      BY <1>5 DEF ReloadRecorded, Postpone
    <2>2. MonitorInv'
      BY <1>0, <2>1 DEF MonitorInv
    <2>3. Known' \subseteq Known
      BY <1>0, <2>1 DEF Known
    <2> QED BY <1>0, <2>1, <2>2, <2>3, KnownFrame
  <1> QED BY <1>1, <1>2, <1>3, <1>4, <1>5 DEF WatchHealth

LEMMA WatchKeepsMutex ==
    ASSUME AuditInv, WatchHealth
    PROVE  Mutex' /\ updateMu' \in Holders
  <1> DEFINE In == monitor.pc \in {"persist", "reload"}
  <1>0. /\ Mutex /\ updateMu \in Holders /\ UNCHANGED <<request, poller>>
        /\ Free \in Holders /\ "monitor" \in Holders
        /\ DOMAIN monitor = {"pc", "current", "persisted", "pending", "event"}
    BY LocksOfTypeOK, WatchFrame DEF AuditInv, Holders, Beside, MonitorInv
  <1>1. CASE updateMu' = updateMu /\ (In' <=> In)
    BY <1>0, <1>1 DEF Mutex
  <1>2. CASE updateMu = Free /\ updateMu' = "monitor" /\ In'
    BY <1>0, <1>2, HoldersDiffer DEF Mutex
  <1>3. CASE In /\ updateMu' = Free /\ ~In'
    <2>1. updateMu = "monitor"
      BY <1>0, <1>3 DEF Mutex
    <2> QED BY <1>0, <1>3, <2>1, HoldersDiffer DEF Mutex
  <1>4. CASE StartMonitor \/ Probe
    <2>1. updateMu' = updateMu /\ monitor.pc \in {"off", "idle"}
            /\ monitor'.pc \in {"idle", "lock"}
      BY <1>0, <1>4 DEF StartMonitor, Probe, NoMonitor
    <2> QED BY <1>1, <2>1
  <1>5. CASE LockRecordHealth
    BY <1>0, <1>2, <1>5 DEF LockRecordHealth, Lock, Monitor
  <1>6. CASE RecordHealth
    <2>1. /\ monitor.pc = "persist"
          /\ \/ updateMu' = updateMu /\ monitor'.pc = "reload"
             \/ updateMu' = Free /\ monitor'.pc = "idle"
      BY <1>0, <1>6 DEF RecordHealth, Postpone, Unlock, Monitor
    <2> QED BY <1>1, <1>3, <2>1
  <1>7. CASE ReloadRecorded
    <2>1. /\ monitor.pc = "reload" /\ updateMu' = Free
          /\ monitor'.pc \in {"idle", "lock"}
      BY <1>0, <1>7 DEF ReloadRecorded, Postpone, Unlock
    <2> QED BY <1>3, <2>1
  <1> QED BY <1>4, <1>5, <1>6, <1>7 DEF WatchHealth

LEMMA WatchKeepsInv ==
    ASSUME AuditInv, WatchHealth
    PROVE  AuditInv'
  <1>0. /\ Beside /\ stored \subseteq stored' /\ Rows' /\ Rows
        /\ stored' \subseteq stored \cup {monitor.event}
        /\ \A e \in stored' \ stored : e.kind # "approval"
    BY WatchFrame, WatchStores DEF AuditInv
  <1>1. Outside'
    BY <1>0 DEF Beside, outside, AuditInv, Outside
  <1>2. RequestInv'
    BY <1>0 DEF Beside, outside, AuditInv, RequestInv, Past, Evidence
  <1>3. EvidenceIsReal' /\ DoneIsDurable'
    BY <1>0, EvidenceFrame, DoneFrame DEF AuditInv, Beside, outside
  <1>4. svc' = svc \/ (ReloadRecorded /\ svc' = [svc EXCEPT !.shown = Newest(stored)])
    BY DEF WatchHealth, StartMonitor, Probe, LockRecordHealth, RecordHealth, ReloadRecorded
  <1>5. ServiceInv'
    <2>1. Newest(stored) \subseteq stored
      BY DEF Newest
    <2>2. ServiceInv /\ Approvals(stored) \subseteq Approvals(stored')
      BY <1>0 DEF AuditInv, Approvals
    <2> QED BY <1>0, <1>4, <2>1, <2>2 DEF ServiceInv, Fresh
  <1>6. CountInv'
    <2>1. svc.metric \in Int /\ svc.trend \in Int
      BY DEF AuditInv, ServiceInv
    <2>2. svc'.metric = svc.metric /\ svc'.trend = svc.trend
      BY <1>4 DEF AuditInv, ServiceInv, Fresh
    <2>3. Uncounted' = Uncounted
      BY <1>0 DEF Beside, Uncounted, Evidence
    <2> QED BY <1>0, <2>1, <2>2, <2>3, CountFrame DEF AuditInv
  <1>7. PollerInv'
    <2>1. poller.pc = "install" => monitor.pc \notin {"persist", "reload"}
      BY HoldersDiffer DEF AuditInv, TypeOK
    <2>2. poller.pc = "install" => stored' = stored
      BY <2>1, WatchStores
    <2>3. poller.pc = "install" => svc' = svc
      BY <1>4, <2>1 DEF ReloadRecorded
    <2>4. poller.pc = "install" => Newest(stored)' = Newest(stored)
      BY <2>2
    <2> QED BY <1>0, <2>3, <2>4 DEF AuditInv, PollerInv, Beside, outside
  <1>8. TypeOK' /\ updateMu' \in Holders
    <2>1. (TypeOK <=> Mutex /\ Operations /\ Unique(stored))'
      BY LocksOfTypeOK, PTL
    <2>2. Operations'
      BY <1>0, LocksOfTypeOK DEF Beside, AuditInv, Operations
    <2> QED BY <1>0, <2>1, <2>2, WatchKeepsMutex DEF Rows
  <1> QED BY <1>0, <1>1, <1>2, <1>3, <1>5, <1>6, <1>7, <1>8, WatchBudget,
             WatchKeepsMonitor DEF AuditInv
-----------------------------------------------------------------------------
(* The world *)

Outer == \/ Tick \/ LogEntry \/ HealthChanges
         \/ \E t \in Tickets, what \in Decisions : DecideInConsole(t, what)

LEMMA OuterKeepsOutside ==
    ASSUME AuditInv, Outer
    PROVE  /\ Clocks' /\ Outside' /\ logs \subseteq logs' /\ now <= now'
           /\ budget'.crashes = budget.crashes
           /\ \A t \in Tickets : tickets[t] # "pending" => tickets'[t] = tickets[t]
  <1>0. Clocks /\ Outside /\ now \in Int /\ MaxTime \in Int
    BY AuditAssumption DEF AuditInv, Clocks, AuditAssumption
  <1>1. CASE Tick
    BY <1>0, <1>1 DEF Tick, Clocks, Outside, outside
  <1>2. CASE LogEntry
    <2> DEFINE entry(id) == Event(id, "log", now, "log")
    <2>1. PICK id \in LogIDs : /\ \A e \in logs : e.id # id
                               /\ logs' = logs \cup {entry(id)}
      BY <1>2 DEF LogEntry
    <2>2. /\ UNCHANGED <<now, tickets, actual>> /\ Spends("entries")
      BY <1>2 DEF LogEntry
    <2>3. entry(id) \in Events /\ IsLog(entry(id)) /\ entry(id).id = id
      BY <1>0, AuditAssumption DEF Event, Events, IsLog, AuditAssumption
    <2> HIDE DEF entry
    <2>4. IsFiniteSet(logs')
      BY <1>0, <2>1, FS_Singleton, FS_Union DEF Outside
    <2>5. Unique(logs') /\ logs' \subseteq Events /\ \A e \in logs' : IsLog(e)
      BY <1>0, <2>1, <2>3 DEF Outside, Unique
    <2>6. Outside'
      BY <1>0, <2>2, <2>4, <2>5 DEF Outside
    <2>7. Clocks' /\ budget'.crashes = budget.crashes
      BY <1>0, <2>2, SpendsKeepsBudget DEF Clocks
    <2> QED BY <1>0, <2>1, <2>2, <2>6, <2>7
  <1>3. CASE HealthChanges
    <2>1. Spends("changes") /\ UNCHANGED <<now, tickets, logs>> /\ actual' \in {"up", "down"}
      BY <1>3 DEF HealthChanges
    <2>2. Clocks' /\ budget'.crashes = budget.crashes
      BY <1>0, <2>1, SpendsKeepsBudget DEF Clocks
    <2> QED BY <1>0, <2>1, <2>2 DEF Outside
  <1>4. ASSUME NEW t \in Tickets, NEW what \in Decisions, DecideInConsole(t, what)
        PROVE  /\ Clocks' /\ Outside' /\ UNCHANGED <<now, budget, logs>>
               /\ \A u \in Tickets : tickets[u] # "pending" => tickets'[u] = tickets[u]
    BY <1>0, <1>4 DEF DecideInConsole, Clocks, Outside
  <1> QED BY <1>0, <1>1, <1>2, <1>3, <1>4 DEF Outer

LEMMA OuterKeepsInv ==
    ASSUME AuditInv, Outer
    PROVE  AuditInv'
  <1>0. /\ UNCHANGED <<stored, svc, updateMu, active, request, poller, monitor,
                       aggregate, answered>>
        /\ Clocks' /\ Outside' /\ logs \subseteq logs' /\ now <= now'
        /\ \A t \in Tickets : tickets[t] # "pending" => tickets'[t] = tickets[t]
    BY OuterKeepsOutside
       DEF Outer, Tick, LogEntry, HealthChanges, DecideInConsole, Inside
  <1>1. Rows' /\ ServiceInv' /\ DoneIsDurable' /\ updateMu' \in Holders
    BY <1>0 DEF AuditInv, Rows, ServiceInv, DoneIsDurable
  <1>7. TypeOK'
    <2>1. (TypeOK <=> Mutex /\ Operations /\ Unique(stored))'
      BY LocksOfTypeOK, PTL
    <2>2. Mutex /\ Operations /\ Unique(stored)
      BY LocksOfTypeOK DEF AuditInv
    <2>3. Mutex' /\ Unique(stored')
      BY <1>0, <2>2 DEF Mutex, Unique
    <2>4. Operations'
      BY <1>0, <2>2 DEF Operations
    <2> QED BY <2>1, <2>3, <2>4
  <1>2. RequestInv'
    <2>1. \A d \in Deciders : Past(d) => tickets'[request[d].ticket] = request[d].what
      BY <1>0 DEF AuditInv, RequestInv, Past, Decisions
    <2>2. \A d \in Deciders : (Past(d)' <=> Past(d)) /\ Evidence(d)' = Evidence(d)
      BY <1>0 DEF Past, Evidence
    <2> QED BY <1>0, <2>1, <2>2 DEF AuditInv, RequestInv
  <1>3. PollerInv'
    <2>1. Newest(stored)' = Newest(stored)
      BY <1>0
    <2> QED BY <1>0, <2>1 DEF AuditInv, PollerInv
  <1>4. MonitorInv' /\ HealthInv'
    <2>1. aggregate.at \in 1..now'
      BY <1>0, AuditAssumption DEF AuditInv, MonitorInv, Clocks, AuditAssumption
    <2>2. Known' = Known
      BY <1>0 DEF Known
    <2> QED BY <1>0, <2>1, <2>2 DEF AuditInv, MonitorInv, HealthInv
  <1>5. CountInv'
    BY <1>0 DEF AuditInv, CountInv, Denied, Uncounted, Evidence
  <1>6. EvidenceIsReal'
    <2>1. \A e \in Approvals(stored) : e.id \in Tickets /\ tickets[e.id] # "pending"
      BY DEF AuditInv, Rows, EvidenceIsReal, Approvals, IsApproval, IsHealth, IsLog,
             Decisions
    <2> QED BY <1>0, <2>1 DEF AuditInv, EvidenceIsReal
  <1> QED BY <1>0, <1>1, <1>2, <1>3, <1>4, <1>5, <1>6, <1>7 DEF AuditInv

\* What a service that starts has: nothing shown, nothing counted, no request,
\* and the aggregator's first answer.
Restarted ==
    /\ svc = Fresh /\ updateMu = Free /\ active = {}
    /\ request = [d \in Deciders |-> NoRequest]
    /\ aggregate \in HealthEvents /\ aggregate.at \in 1..now
    /\ poller = [Booting EXCEPT !.event = aggregate]
    /\ monitor = NoMonitor
StartedInv == /\ ServiceInv /\ RequestInv /\ PollerInv /\ MonitorInv /\ CountInv
              /\ Mutex /\ Operations /\ updateMu \in Holders
              /\ Known \subseteq {e \in stored : e.kind = "health"}
                                  \cup {NoHealth, aggregate}

LEMMA RestartIsSound == Clocks /\ Outside /\ Rows /\ Restarted => StartedInv
  <1> SUFFICES ASSUME Clocks, Outside, Rows, Restarted PROVE StartedInv
    OBVIOUS
  <1>0. \A d \in Deciders : /\ request[d].pc = "idle" /\ request[d].ticket = 0
                            /\ request[d].what = "none" /\ request[d].at = 0
    BY DEF Restarted, NoRequest
  <1>1. ServiceInv
    BY DEF Restarted, ServiceInv, Fresh
  <1>2. RequestInv
    <2>1. request \in [Deciders -> [pc : {"idle", "listed"} \cup Busy,
                                    ticket : Tickets \cup {0},
                                    what : Decisions \cup {"none"}, at : Nat]]
      BY DEF Restarted, NoRequest
    <2> QED BY <1>0, <2>1 DEF RequestInv, Past, Busy
  <1>3. PollerInv
    <2>1. /\ DOMAIN poller = DOMAIN Booting /\ poller.pc = "ready" /\ poller.to = 0
          /\ poller.available \in BOOLEAN /\ poller.event = aggregate
      BY DEF Restarted, Booting
    <2>2. poller.pc \in PollerPcs /\ poller.pc \notin {"fetched", "merge", "install"}
      BY <2>1 DEF PollerPcs
    <2> QED BY <2>1, <2>2 DEF PollerInv, Restarted
  <1>4. MonitorInv
    BY NoHealthIsHealth DEF Restarted, MonitorInv, NoMonitor
  <1>5. CountInv
    BY <1>1, DeniedIsFinite DEF Restarted, Fresh, CountInv
  <1>6. Mutex
    <2>1. poller.pc = "ready" /\ monitor.pc = "off" /\ updateMu = Free
      BY DEF Restarted, Booting, NoMonitor
    <2> QED BY <1>0, <2>1, HoldersDiffer DEF Mutex
  <1>7. Operations
    BY <1>0 DEF Operations, Restarted
  <1>8. Known \subseteq {e \in stored : e.kind = "health"} \cup {NoHealth, aggregate}
    BY DEF Known, Restarted, Booting, NoMonitor
  <1> QED BY <1>1, <1>2, <1>3, <1>4, <1>5, <1>6, <1>7, <1>8 DEF Restarted, Holders, StartedInv

LEMMA CrashKeepsInv ==
    ASSUME AuditInv, Crash
    PROVE  AuditInv' /\ budget'.crashes < budget.crashes
  <1> DEFINE health == Health(actual, now)
  <1>1. /\ UNCHANGED <<now, outside, stored, answered>> /\ Spends("crashes")
        /\ Distinct /\ aggregate' = health
        /\ svc' = Fresh /\ updateMu' = Free /\ active' = {}
        /\ request' = [d \in Deciders |-> NoRequest]
        /\ poller' = [Booting EXCEPT !.event = health]
        /\ monitor' = NoMonitor
    BY DEF Crash
  <1>2. health \in HealthEvents /\ health.at = now /\ now \in 1..MaxTime
    BY <1>1, ProbedIsNew DEF AuditInv, Clocks
  <1>3. Clocks' /\ budget'.crashes < budget.crashes
    BY <1>1, SpendsKeepsBudget DEF AuditInv, Clocks
  <1>4. Outside' /\ Rows' /\ DoneIsDurable' /\ EvidenceIsReal'
    BY <1>1 DEF outside, AuditInv, Outside, Rows, DoneIsDurable, EvidenceIsReal
  <1> HIDE DEF health
  <1>5. Restarted'
    <2>1. health' = health /\ now' = now
      BY <1>1 DEF health, outside
    <2> QED BY <1>1, <1>2, <2>1 DEF Restarted
  <1>7. StartedInv'
    <2>1. (Clocks /\ Outside /\ Rows /\ Restarted => StartedInv)'
      BY RestartIsSound, PTL
    <2> QED BY <1>3, <1>4, <1>5, <2>1
  <1>8. HealthInv'
    <2>1. Known' \subseteq Known \cup {aggregate'}
      BY <1>1, <1>7 DEF StartedInv, Known
    <2> QED BY <1>1, <2>1, ProbeKeepsHealth DEF health
  <1>9. TypeOK'
    <2>1. (TypeOK <=> Mutex /\ Operations /\ Unique(stored))'
      BY LocksOfTypeOK, PTL
    <2> QED BY <1>4, <1>7, <2>1 DEF Rows, StartedInv
  <1> QED BY <1>3, <1>4, <1>7, <1>8, <1>9 DEF AuditInv, StartedInv

LEMMA AuditInit ==
    ASSUME Init
    PROVE  AuditInv
  <1> DEFINE health == Health("up", 1)
  <1>1. health \in HealthEvents /\ health.at = 1
    BY ProbeIsHealth, AuditAssumption DEF AuditAssumption
  <1>2. Clocks
    BY AuditAssumption DEF Init, Clocks, AuditAssumption
  <1>3. Outside /\ Rows
    BY FS_EmptySet DEF Init, Outside, Rows, Unique
  <1>4. Restarted
    BY <1>1 DEF Init, Restarted
  <1>5. EvidenceIsReal /\ DoneIsDurable
    BY DEF Init, EvidenceIsReal, DoneIsDurable, Approvals
  <1>6. stored = {} /\ aggregate = health
    BY DEF Init
  <1> HIDE DEF health
  <1>7. StartedInv
    BY <1>2, <1>3, <1>4, RestartIsSound
  <1>8. NoHealth.at = -1
    BY DEF NoHealth, Health, Event
  <1>9. HealthInv
    BY <1>1, <1>6, <1>7, <1>8 DEF HealthInv, StartedInv
  <1>10. TypeOK
    BY <1>3, <1>7, LocksOfTypeOK DEF Rows, StartedInv
  <1> QED BY <1>2, <1>3, <1>5, <1>7, <1>9, <1>10 DEF AuditInv, StartedInv
-----------------------------------------------------------------------------
(* Every step *)


LEMMA NextCases ==
    ASSUME Next
    PROVE  \/ Outer \/ Crash \/ Boot \/ Refresh \/ WatchHealth
           \/ \E d \in Deciders : Request(d)
  BY DEF Next, World, Outer, Decisions, Request, Choose

LEMMA AuditStep ==
    ASSUME AuditInv, [Next]_vars
    PROVE  AuditInv'
  <1>1. CASE Next
    BY <1>1, NextCases, OuterKeepsInv, CrashKeepsInv, PollerKeepsInv, WatchKeepsInv,
       RequestKeepsInv
  <1>2. CASE UNCHANGED vars
    <2>1. /\ UNCHANGED <<now, budget, tickets, logs, actual, stored, svc, updateMu,
                         active, request, poller, monitor, aggregate, answered>>
      BY <1>2 DEF vars, outside
    <2>2. Clocks' /\ Outside' /\ Rows' /\ ServiceInv' /\ updateMu' \in Holders
      BY <2>1 DEF AuditInv, Clocks, Outside, Rows, ServiceInv
    <2>3. RequestInv'
      BY <2>1 DEF AuditInv, RequestInv, Past, Evidence
    <2>4. PollerInv' /\ MonitorInv'
      BY <2>1 DEF AuditInv, PollerInv, MonitorInv, Newest
    <2>5. HealthInv' /\ CountInv'
      BY <2>1 DEF AuditInv, HealthInv, Known, CountInv, Denied, Uncounted, Evidence
    <2>6. TypeOK'
      <3>1. (TypeOK <=> Mutex /\ Operations /\ Unique(stored))'
        BY LocksOfTypeOK, PTL
      <3>2. Mutex /\ Operations /\ Unique(stored)
        BY LocksOfTypeOK DEF AuditInv
      <3> QED BY <2>1, <3>1, <3>2 DEF Mutex, Operations, Unique
    <2>7. EvidenceIsReal' /\ DoneIsDurable'
      BY <2>1 DEF AuditInv, EvidenceIsReal, DoneIsDurable
    <2> QED BY <2>2, <2>3, <2>4, <2>5, <2>6, <2>7 DEF AuditInv
  <1> QED BY <1>1, <1>2

\* The inductive invariant of the Audit service.
THEOREM AuditInvariant == Spec => []AuditInv
  BY AuditInit, AuditStep, PTL DEF Spec

\* updateMu has one holder, the one whose state says so; Protect's operation
\* locks are those of the requests past BeginMutation; no event is there twice.
THEOREM AuditTypes == Spec => []TypeOK
  <1>1. AuditInv => TypeOK
    BY DEF AuditInv
  <1> QED BY <1>1, AuditInvariant, PTL

\* Stored evidence says what AgentGuard did (ResolveApproval).
THEOREM EvidenceIsTrue == Spec => []EvidenceIsReal
  <1>1. AuditInv => EvidenceIsReal
    BY DEF AuditInv
  <1> QED BY <1>1, AuditInvariant, PTL

\* The evidence of a resolution that was answered "done" stays in the store,
\* whatever fails, and across restarts (RecordResolution).
THEOREM DoneStaysStored == Spec => []DoneIsDurable
  <1>1. AuditInv => DoneIsDurable
    BY DEF AuditInv
  <1> QED BY <1>1, AuditInvariant, PTL

\* A denial recorded between two polls is counted once in the rate and in the
\* trend: never more are counted than are stored (persistResolution, Refresh).
THEOREM DenialsCountOnce == Spec => []NeverOvercounted
  <1>1. AuditInv => NeverOvercounted
    <2> SUFFICES ASSUME AuditInv PROVE NeverOvercounted
      OBVIOUS
    <2>1. /\ svc.metric \in Int /\ svc.trend \in Int /\ CountInv /\ Rows
      BY DEF AuditInv, ServiceInv
    <2>2. Cardinality(Denied \ Uncounted) <= Cardinality(Denied)
          /\ Cardinality(Denied) \in Nat /\ Cardinality(Denied \ Uncounted) \in Nat
      BY <2>1, DeniedIsFinite
    <2> QED BY <2>1, <2>2 DEF CountInv, Denied, NeverOvercounted
  <1> QED BY <1>1, AuditInvariant, PTL
-----------------------------------------------------------------------------
(* Outages *)

LEMMA WatchRemembers ==
    ASSUME AuditInv, WatchHealth
    PROVE  monitor.pending \in {NoHealth, monitor'.pending} \cup stored'
  <1>0. /\ DOMAIN monitor = {"pc", "current", "persisted", "pending", "event"}
        /\ monitor.pc \in {"lock", "persist", "reload"} =>
             monitor.pending \in {NoHealth, monitor.event}
        /\ monitor.pc = "reload" => monitor.event \in stored
        /\ monitor.pc = "off" => monitor = NoMonitor
    BY DEF AuditInv, MonitorInv
  <1>1. CASE StartMonitor
    BY <1>0, <1>1 DEF StartMonitor, NoMonitor
  <1>2. CASE Probe
    <2>1. monitor'.pending = monitor.pending
      BY <1>0, <1>2 DEF Probe
    <2> QED BY <2>1
  <1>3. CASE LockRecordHealth
    BY <1>0, <1>3 DEF LockRecordHealth, Monitor
  <1>4. CASE RecordHealth
    <2>1. monitor.pc = "persist" /\ monitor'.pending \in {monitor.pending, monitor.event}
      BY <1>0, <1>4 DEF RecordHealth, Monitor, Postpone
    <2> QED BY <1>0, <2>1
  <1>5. CASE ReloadRecorded
    BY <1>0, <1>5 DEF ReloadRecorded
  <1> QED BY <1>1, <1>2, <1>3, <1>4, <1>5 DEF WatchHealth

\* A health state that could not be recorded is kept until it is, unless the
\* BFF is restarted (healthPersistenceState.candidate and finish).
THEOREM OutagesStayRemembered == Spec => OutagesAreRemembered
  <1> DEFINE Kept == \/ monitor.pending \in {NoHealth, monitor'.pending} \cup stored'
                     \/ budget'.crashes < budget.crashes
  <1>1. ASSUME AuditInv, [Next]_vars
        PROVE  [Kept]_vars
    <2>1. CASE monitor' = monitor
      BY <2>1
    <2>2. CASE WatchHealth
      BY <1>1, <2>2, WatchRemembers
    <2>3. CASE Crash
      BY <1>1, <2>3, CrashKeepsInv
    <2>4. CASE Boot \/ Refresh
      BY <2>1, <2>4, PollerFrame DEF Apart
    <2>5. CASE \E d \in Deciders : Request(d)
      BY <2>1, <2>5, RequestFrame
    <2>6. CASE Outer
      BY <2>1, <2>6 DEF Outer, Tick, LogEntry, HealthChanges, DecideInConsole, Inside
    <2> HIDE DEF Kept
    <2> QED BY <1>1, <2>2, <2>3, <2>4, <2>5, <2>6, NextCases
  <1> QED BY <1>1, AuditInvariant, PTL DEF Spec, OutagesAreRemembered
-----------------------------------------------------------------------------
(* The shown window *)

\* What newer events push out of the newest Capacity, those keep out: among
\* the events that are newer than e but not in the window one has no newer
\* event outside it, and the Capacity that are newer than that one are in it.
LEMMA NewestAreEnough ==
    ASSUME NEW S, IsFiniteSet(S), S \subseteq Events,
           NEW e \in S \ Newest(S)
    PROVE  Cardinality({f \in Newest(S) : Later(f, e)}) >= Capacity
  <1> DEFINE newer(f) == {g \in S : Later(g, f)}
             in == {f \in Newest(S) : Later(f, e)}
             out == newer(e) \ Newest(S)
  <1>0. /\ \A f \in S : /\ newer(f) \in SUBSET S /\ IsFiniteSet(newer(f))
                        /\ Cardinality(newer(f)) \in Nat
        /\ Newest(S) \subseteq S /\ IsFiniteSet(in) /\ Cardinality(in) \in Nat
        /\ Capacity \in Nat
    <2>1. Newest(S) \subseteq S /\ in \subseteq S /\ Capacity \in Nat
      BY AuditAssumption DEF Newest, AuditAssumption
    <2>2. \A T \in SUBSET S : IsFiniteSet(T) /\ Cardinality(T) \in Nat
      BY FS_Subset, FS_CardinalityType
    <2> QED BY <2>1, <2>2
  <1>1. \A f \in S : f \in Newest(S) <=> Cardinality(newer(f)) < Capacity
    BY DEF Newest
  <1>2. \A f, g, h \in S : Later(f, g) /\ Later(g, h) => Later(f, h)
    BY DEF Events, Later
  <1>3. \A f \in S : ~Later(f, f)
    BY DEF Events, Later
  <1> HIDE DEF in, out
  <1>4. CASE out = {}
    <2>1. newer(e) \subseteq in
      BY <1>4 DEF in, out
    <2>2. Cardinality(newer(e)) <= Cardinality(in)
      BY <1>0, <2>1, FS_Subset
    <2>3. e \in S /\ ~(Cardinality(newer(e)) < Capacity)
      BY <1>1
    <2> HIDE DEF newer
    <2> QED BY <1>0, <2>2, <2>3 DEF in
  <1>5. CASE out # {}
    <2> DEFINE T == {newer(f) : f \in out}
    <2>1. out \subseteq S /\ \A f \in out : Later(f, e) /\ f \notin Newest(S)
      BY DEF out
    <2>2. T \subseteq FiniteSubsetsOf(S) /\ T # {}
      BY <1>0, <1>5, <2>1 DEF FiniteSubsetsOf
    <2>3. PICK x \in T : \A y \in T : ~(<<y, x>> \in StrictSubsetOrdering(S))
      <3> HIDE DEF T
      <3> QED BY <2>2, WFMin, FS_StrictSubsetOrderingWellFounded
    <2>4. PICK f \in out : x = newer(f)
      BY <2>3
    <2>5. newer(f) \subseteq in
      <3> SUFFICES ASSUME NEW g \in S, Later(g, f), g \notin in PROVE FALSE
        OBVIOUS
      <3>1. g \in out
        BY <1>2, <2>1 DEF in, out
      <3>2. newer(g) \subseteq newer(f) /\ newer(g) # newer(f)
        BY <1>2, <1>3, <2>1
      <3>3. newer(g) \in T /\ newer(g) \in SUBSET S /\ newer(f) \in SUBSET S
        BY <3>1
      <3>4. <<newer(g), x>> \in StrictSubsetOrdering(S)
        <4> HIDE DEF newer
        <4> QED BY <2>4, <3>2, <3>3 DEF StrictSubsetOrdering
      <3> QED BY <2>3, <3>3, <3>4
    <2>6. Cardinality(newer(f)) <= Cardinality(in)
      BY <1>0, <2>5, FS_Subset
    <2>7. f \in S /\ ~(Cardinality(newer(f)) < Capacity)
      BY <1>1, <2>1
    <2> QED BY <1>0, <2>6, <2>7 DEF in
  <1> QED BY <1>4, <1>5

\* A step shows what it showed before or the newest of what is stored.
LEMMA ShowsNewest ==
    ASSUME AuditInv, Next, ~Crash
    PROVE  svc'.shown \in {svc.shown, Newest(stored)}
  <1>0. DOMAIN svc = DOMAIN Fresh /\ PollerInv
    BY DEF AuditInv, ServiceInv
  <1>1. CASE svc' = svc
    BY <1>1
  <1>2. CASE \/ svc' = [svc EXCEPT !.shown = Newest(stored)]
             \/ svc' = [svc EXCEPT !.serving = TRUE]
             \/ svc' = [svc EXCEPT !.initialized = FALSE]
    BY <1>0, <1>2 DEF Fresh
  <1>3. CASE WatchHealth
    BY <1>1, <1>2, <1>3
       DEF WatchHealth, StartMonitor, Probe, LockRecordHealth, RecordHealth, ReloadRecorded
  <1>4. CASE Boot
    <2>1. CASE Restore
      <3>1. \/ svc' = [svc EXCEPT !.initialized = TRUE, !.shown = Newest(stored),
                              !.resolutions = Approvals(Newest(stored))]
            \/ svc' = [svc EXCEPT !.serving = TRUE]
        BY <2>1 DEF Restore, Retry
      <3> QED BY <1>0, <1>2, <3>1 DEF Fresh
    <2>2. CASE ~Restore
      <3>1. \/ svc' = svc
            \/ svc' = [svc EXCEPT !.shown = Newest(stored)]
            \/ svc' = [svc EXCEPT !.serving = TRUE]
            \/ svc' = [svc EXCEPT !.initialized = FALSE]
        BY <1>4, <2>2
           DEF Boot, ConnectStore, LockRestore, LockHealth, PersistHealth, ReloadHealth, Retry
      <3> QED BY <1>1, <1>2, <3>1
    <2> QED BY <2>1, <2>2
  <1>5. CASE Refresh
    <2>1. CASE Install
      <3>1. poller.feed \in {svc.shown, Newest(stored)}
        BY <1>0, <2>1 DEF PollerInv, Install
      <3>2. svc'.shown = poller.feed
        BY <1>0, <2>1 DEF Install, Fresh
      <3> QED BY <3>1, <3>2
    <2>2. CASE ~Install
      BY <1>1, <1>5, <2>2 DEF Refresh, Fetch, LockMerge, PersistFeed, ListWindow
    <2> QED BY <2>1, <2>2
  <1>6. ASSUME NEW d \in Deciders, Request(d)
        PROVE  svc'.shown \in {svc.shown, Newest(stored)}
    <2>1. CASE Reload(d)
      <3>1. svc' = svc \/ svc'.shown = Newest(stored)
        BY <1>0, <2>1 DEF Reload, Fresh
      <3> QED BY <3>1
    <2>2. CASE ~Reload(d)
      BY <1>1, <1>6, <2>2 DEF Request, Choose, Handle, ListTickets, BeginMutation,
                              CheckReady, Decide, LockRecord, PersistEvidence
    <2> QED BY <2>1, <2>2
  <1>7. CASE Outer
    BY <1>1, <1>7 DEF Outer, Tick, LogEntry, HealthChanges, DecideInConsole, Inside
  <1> QED BY <1>3, <1>4, <1>5, <1>6, <1>7, NextCases

\* No update of the shown window, whichever writer makes it and whenever it
\* began, takes an event out but for Capacity newer ones (Refresh,
\* reloadPersistentEventsLocked).
THEOREM WindowMovesForward == Spec => ShownMovesForward
  <1> DEFINE Forward == budget'.crashes = budget.crashes =>
               \A e \in svc.shown \ svc'.shown :
                 Cardinality({f \in svc'.shown : Later(f, e)}) >= Capacity
  <1>1. ASSUME AuditInv, [Next]_vars
        PROVE  [Forward]_vars
    <2>1. CASE Crash
      <3>1. budget.crashes \in Nat /\ budget'.crashes < budget.crashes
        BY <1>1, <2>1, CrashKeepsInv DEF AuditInv, Clocks
      <3> QED BY <3>1
    <2>2. CASE Next /\ ~Crash
      <3>1. svc'.shown \in {svc.shown, Newest(stored)}
        BY <1>1, <2>2, ShowsNewest
      <3>2. svc.shown \subseteq stored /\ IsFiniteSet(stored) /\ stored \subseteq Events
        BY <1>1 DEF AuditInv, ServiceInv, Rows
      <3> QED BY <3>1, <3>2, NewestAreEnough
    <2> QED BY <1>1, <2>1, <2>2
  <1> QED BY <1>1, AuditInvariant, PTL DEF Spec, ShownMovesForward
=============================================================================
