--------------------------- MODULE DemoRunProofs ---------------------------
(***************************************************************************)
(* For any number of POSTs, keys and faults: the types of DemoRun, that a  *)
(* recorded decision is AgentGuard's, that a denial reaches the Runner,    *)
(* and that the rows follow RunLifecycle.  The invariant DemoInv joins     *)
(* what an execution in each status has reported, what a handler knows of  *)
(* a row nobody else has written, and that one run is active.              *)
(***************************************************************************)
EXTENDS DemoRun, TLAPS

\* What it means for a row to be a legal successor of an active one.
Follows(new, r) ==
    /\ new \in Rows
    /\ new.status \in Ongoing => new.outcome = "none"
    /\ new.approval \in Decided => ticket[r] = new.approval

\* The row a snapshot leads to (applyRunnerSnapshotWithApproval).
LEMMA AppliedRow ==
  ASSUME NEW old \in Rows, NEW snap, NEW pending \in BOOLEAN,
         old.status \in Ongoing, Acceptable(old, snap),
         snap.status \in Executions \ {"absent"}, snap.step \in Steps,
         snap.status \in InFlight => snap.outcome = "none",
         snap.status \notin InFlight => Ends(snap.status, snap.outcome)
  PROVE  /\ Applied(old, snap, pending) \in Rows
         /\ Applied(old, snap, pending).outcome = snap.outcome
         /\ IF snap.status \in InFlight
            THEN /\ Applied(old, snap, pending).status \in {"starting", "running", "waiting"}
                 /\ Applied(old, snap, pending).status \in Lifecycle!Onward[old.status]
            ELSE Applied(old, snap, pending).status = snap.status
         /\ Applied(old, snap, pending).approval \in Decided =>
              \/ Applied(old, snap, pending).approval = old.approval
              \/ Applied(old, snap, pending).approval = snap.outcome
  <1>1. snap.outcome \in Results
    BY DEF Ends, Results, InFlight, Decided, Executions
  <1>2. /\ old.status \in Ongoing
        /\ old.approval \in {"none", "pending", "approved", "denied"}
    BY DEF Rows
  <1>3. Mapped(snap.status) \in {"starting", "running", "succeeded", "failed", "cancelled"}
    BY DEF Mapped, Executions
  <1> DEFINE new == Applied(old, snap, pending)
             waits == pending \/ (old.status = "waiting" /\ snap.step = old.step)
  <1>4. /\ new.status = IF Mapped(snap.status) = "running" /\ waits THEN "waiting"
                        ELSE Mapped(snap.status)
        /\ new.outcome = snap.outcome
        /\ new.step = snap.step
        /\ DOMAIN new = {"status", "outcome", "step", "approval"}
    BY DEF Applied
  <1>5. /\ new.approval \in {"none", "pending", "approved", "denied"}
        /\ new.approval \in Decided => new.approval = old.approval \/ new.approval = snap.outcome
    BY <1>2 DEF Applied, Decided
  <1>6. new \in Rows
    <2>1. new.status \in Ongoing \cup Terminal
      BY <1>3, <1>4 DEF Ongoing, Terminal
    <2>2. new = [status |-> new.status, outcome |-> new.outcome,
                 step |-> new.step, approval |-> new.approval]
      BY DEF Applied
    <2> HIDE DEF new
    <2> QED BY <1>1, <1>4, <1>5, <2>1, <2>2 DEF Rows
  <1>7. IF snap.status \in InFlight
        THEN new.status \in {"starting", "running", "waiting"}
        ELSE new.status = snap.status
    BY <1>4 DEF InFlight, Executions, Mapped
  <1>8. ASSUME snap.status \in InFlight PROVE new.status \in Lifecycle!Onward[old.status]
    <2>1. ValidTransition(old.status, Mapped(snap.status))
      BY DEF Acceptable
    <2>2. \/ Mapped(snap.status) = "starting" /\ old.status \in {"queued", "starting"}
          \/ Mapped(snap.status) = "running" /\ old.status \in {"starting", "running", "waiting"}
      BY <1>2, <1>8, <2>1 DEF ValidTransition, Mapped, InFlight, Ongoing
    <2>3. new.status = "starting" \/ new.status \in {"running", "waiting"}
      BY <1>7, <1>8
    <2> HIDE DEF new
    <2>4. /\ Lifecycle!Onward["queued"] = {"queued", "starting"}
          /\ Lifecycle!Onward["starting"] = {"starting", "running", "waiting"}
          /\ Lifecycle!Onward["running"] = {"running", "waiting"}
          /\ Lifecycle!Onward["waiting"] = {"waiting", "running"}
      BY DEF Lifecycle!Onward
    <2>5. new.status = "starting" => Mapped(snap.status) = "starting"
      BY <1>4, <2>2
    <2>6. new.status \in {"running", "waiting"} => Mapped(snap.status) = "running"
      BY <1>4, <2>2
    <2> QED BY <2>2, <2>3, <2>4, <2>5, <2>6
  <1> HIDE DEF new
  <1> QED BY <1>4, <1>5, <1>6, <1>7, <1>8 DEF new

\* A row that is given up (Ended), and one whose ticket was denied (Denied).
LEMMA EndedRow ==
  ASSUME NEW old \in Rows, NEW status \in Terminal, NEW outcome \in Results
  PROVE  /\ Ended(old, status, outcome) \in Rows
         /\ Ended(old, status, outcome).status = status
         /\ Ended(old, status, outcome).outcome = outcome
         /\ Ended(old, status, outcome).approval = old.approval
  BY DEF Ended, Rows

LEMMA DeniedRow ==
  ASSUME NEW old \in Rows, NEW how \in BOOLEAN
  PROVE  /\ Denied(old, how) \in Rows
         /\ Denied(old, how).status = old.status
         /\ Denied(old, how).outcome = old.outcome
         /\ Denied(old, how).approval = IF how THEN "denied" ELSE old.approval
  BY DEF Denied, Rows
\* An entry of the Runner's registry, changed in one field.
LEMMA EntryWrite ==
  ASSUME reg \in [Requests -> Entries], NEW r \in Requests
  PROVE  /\ \A st \in Executions : reg' = [reg EXCEPT ![r].status = st] =>
              /\ reg' \in [Requests -> Entries]
              /\ reg'[r].status = st /\ reg'[r].step = reg[r].step
              /\ \A s \in Requests : s # r => reg'[s] = reg[s]
         /\ \A n \in Steps : reg' = [reg EXCEPT ![r].step = n] =>
              /\ reg' \in [Requests -> Entries]
              /\ reg'[r].status = reg[r].status /\ reg'[r].step = n
              /\ \A s \in Requests : s # r => reg'[s] = reg[s]
         /\ \A c \in BOOLEAN : reg' = [reg EXCEPT ![r].cancel = c] =>
              /\ reg' \in [Requests -> Entries]
              /\ reg'[r].status = reg[r].status /\ reg'[r].step = reg[r].step
              /\ \A s \in Requests : s # r => reg'[s] = reg[s]
  <1>1. reg[r] \in Entries
    OBVIOUS
  <1>2. ASSUME NEW st \in Executions
        PROVE  /\ [reg[r] EXCEPT !.status = st] \in Entries
               /\ [reg[r] EXCEPT !.status = st].status = st
               /\ [reg[r] EXCEPT !.status = st].step = reg[r].step
    BY <1>1 DEF Entries
  <1>3. ASSUME NEW n \in Steps
        PROVE  /\ [reg[r] EXCEPT !.step = n] \in Entries
               /\ [reg[r] EXCEPT !.step = n].status = reg[r].status
               /\ [reg[r] EXCEPT !.step = n].step = n
    BY <1>1 DEF Entries
  <1>4. ASSUME NEW c \in BOOLEAN
        PROVE  /\ [reg[r] EXCEPT !.cancel = c] \in Entries
               /\ [reg[r] EXCEPT !.cancel = c].status = reg[r].status
               /\ [reg[r] EXCEPT !.cancel = c].step = reg[r].step
    BY <1>1 DEF Entries
  <1>5. ASSUME NEW e \in Entries, reg' = [reg EXCEPT ![r] = e]
        PROVE  /\ reg' \in [Requests -> Entries]
               /\ reg'[r] = e
               /\ \A s \in Requests : s # r => reg'[s] = reg[s]
    BY <1>5
  <1>6. \A st \in Executions : reg' = [reg EXCEPT ![r].status = st] =>
           reg' = [reg EXCEPT ![r] = [reg[r] EXCEPT !.status = st]]
    OBVIOUS
  <1>7. \A n \in Steps : reg' = [reg EXCEPT ![r].step = n] =>
           reg' = [reg EXCEPT ![r] = [reg[r] EXCEPT !.step = n]]
    OBVIOUS
  <1>8. \A c \in BOOLEAN : reg' = [reg EXCEPT ![r].cancel = c] =>
           reg' = [reg EXCEPT ![r] = [reg[r] EXCEPT !.cancel = c]]
    OBVIOUS
  <1>9. ASSUME NEW st \in Executions, reg' = [reg EXCEPT ![r].status = st]
        PROVE  /\ reg' \in [Requests -> Entries]
               /\ reg'[r].status = st /\ reg'[r].step = reg[r].step
               /\ \A s \in Requests : s # r => reg'[s] = reg[s]
    <2>1. reg'[r] = [reg[r] EXCEPT !.status = st]
      BY <1>2, <1>5, <1>6, <1>9
    <2> QED BY <1>2, <1>5, <1>6, <1>9, <2>1
  <1>10. ASSUME NEW n \in Steps, reg' = [reg EXCEPT ![r].step = n]
        PROVE  /\ reg' \in [Requests -> Entries]
               /\ reg'[r].status = reg[r].status /\ reg'[r].step = n
               /\ \A s \in Requests : s # r => reg'[s] = reg[s]
    <2>1. reg'[r] = [reg[r] EXCEPT !.step = n]
      BY <1>3, <1>5, <1>7, <1>10
    <2> QED BY <1>3, <1>5, <1>7, <1>10, <2>1
  <1>11. ASSUME NEW c \in BOOLEAN, reg' = [reg EXCEPT ![r].cancel = c]
        PROVE  /\ reg' \in [Requests -> Entries]
               /\ reg'[r].status = reg[r].status /\ reg'[r].step = reg[r].step
               /\ \A s \in Requests : s # r => reg'[s] = reg[s]
    <2>1. reg'[r] = [reg[r] EXCEPT !.cancel = c]
      BY <1>4, <1>5, <1>8, <1>11
    <2> QED BY <1>4, <1>5, <1>8, <1>11, <2>1
  <1> QED BY <1>9, <1>10, <1>11
-----------------------------------------------------------------------------
(* One update of demo_runs. *)

\* A write of an active row, or of the first one, keeps what rows satisfy, and
\* everybody else's copy becomes stale.
LEMMA WriteRow ==
  ASSUME DemoInv, ticket' = ticket,
         NEW h \in Handlers, NEW r \in Requests, NEW new, NEW heard \in BOOLEAN,
         WriteHeard(h, r, new, heard), Follows(new, r),
         \A s \in Requests : IsActive(s) => s = r
  PROVE  /\ row' \in [Requests -> Rows]
         /\ overdue' \in BOOLEAN /\ silent' \in BOOLEAN /\ stale' \subseteq Handlers
         /\ stale' = (stale \cup Holders(r)) \ {h}
         /\ row'[r] = new
         /\ \A s \in Requests : s # r => row'[s] = row[s]
         /\ ActiveDiscipline'
         /\ RecordedDecisionIsReal'
  <1> USE DEF DemoInv
  <1>1. /\ row \in [Requests -> Rows] /\ overdue \in BOOLEAN /\ silent \in BOOLEAN
        /\ stale \subseteq Handlers
    BY DEF TypeOK
  <1>2. /\ row' = [row EXCEPT ![r] = new] /\ stale' = (stale \cup Holders(r)) \ {h}
        /\ overdue' = (overdue /\ new.status \in Ongoing)
        /\ silent' = (silent /\ new.status \in Ongoing /\ ~heard)
    BY DEF WriteHeard
  <1>3. Holders(r) \subseteq Handlers
    BY DEF Holders, Handlers
  <1>4. new \in Rows
    BY DEF Follows
  <1>5. /\ row' \in [Requests -> Rows] /\ row'[r] = new
        /\ \A s \in Requests : s # r => row'[s] = row[s]
    BY <1>1, <1>2, <1>4
  <1>6. overdue' \in BOOLEAN /\ silent' \in BOOLEAN
    BY <1>1, <1>2
  <1>7. ActiveDiscipline'
    BY <1>5 DEF ActiveDiscipline, IsActive, Follows
  <1>8. RecordedDecisionIsReal'
    BY <1>5 DEF RecordedDecisionIsReal, Follows, Decided
  <1> QED BY <1>1, <1>2, <1>3, <1>5, <1>6, <1>7, <1>8

\* The Monitor or Cancel writes its row and gives the mutex back.
LEMMA ControlWrite ==
  ASSUME DemoInv, NEW new, NEW heard \in BOOLEAN,
         pc # "free", IsActive(run), Follows(new, run),
         WriteHeard(Control, run, new, heard), Release,
         UNCHANGED <<createVars, runnerVars, ticket, unheard>>
  PROVE  DemoInv'
  <1>t. TypeOK
    BY DEF DemoInv
  <1>r. run \in Requests
    BY <1>t DEF TypeOK
  <1>1. /\ row' \in [Requests -> Rows]
        /\ overdue' \in BOOLEAN /\ silent' \in BOOLEAN /\ stale' \subseteq Handlers
        /\ stale' = (stale \cup Holders(run)) \ {Control}
        /\ row'[run] = new
        /\ \A s \in Requests : s # run => row'[s] = row[s]
        /\ ActiveDiscipline' /\ RecordedDecisionIsReal'
    <2>1. \A s \in Requests : IsActive(s) => s = run
      BY <1>r DEF DemoInv, ActiveDiscipline
    <2>2. Control \in Handlers
      BY DEF Handlers
    <2> QED BY <1>r, <2>1, <2>2, WriteRow
  <1>2. TypeOK'
    BY <1>t, <1>1 DEF TypeOK, Release, createVars, given, runnerVars
  <1>3. RunnerDiscipline'
    BY DEF DemoInv, RunnerDiscipline, Executing, createVars, runnerVars
  <1>4. CreateDiscipline'
    <2> SUFFICES ASSUME NEW r \in Requests
                 PROVE  /\ cpc[r] \in {"new", "probing", "admitted"} => row'[r] = NoRow
                        /\ r \notin stale' =>
                              /\ cpc[r] = "created" => row'[r].status = "queued"
                              /\ cpc[r] \in {"starting", "replied", "refused"} =>
                                    row'[r].status = "starting"
      BY DEF CreateDiscipline, createVars
    <2>1. /\ cpc[r] \in {"new", "probing", "admitted"} => row[r] = NoRow
          /\ r \notin stale =>
                /\ cpc[r] = "created" => row[r].status = "queued"
                /\ cpc[r] \in {"starting", "replied", "refused"} =>
                      row[r].status = "starting"
      BY DEF DemoInv, CreateDiscipline
    <2>2. r # Control
      BY DemoAssumption
    <2>3. CASE r = run
      <3>1. cpc[r] # "done" => r \in stale'
        BY <1>1, <2>2, <2>3 DEF Holders
      <3>2. row[r] # NoRow
        BY <2>3 DEF IsActive, NoRow, Ongoing
      <3> QED BY <2>1, <3>1, <3>2
    <2>4. CASE r # run
      BY <1>1, <2>1, <2>2, <2>4
    <2> QED BY <2>3, <2>4
  <1>5. ControlDiscipline'
    BY DEF ControlDiscipline, Release
  <1> QED BY <1>1, <1>2, <1>3, <1>4, <1>5 DEF DemoInv
-----------------------------------------------------------------------------
(* Create *)

\* A Create handler writes its own row.
LEMMA CreateWrite ==
  ASSUME DemoInv, NEW r \in Requests, NEW new, NEW heard \in BOOLEAN,
         NEW where \in {"created", "starting", "done"},
         WriteHeard(r, r, new, heard), Goto(r, where), Follows(new, r),
         \A s \in Requests : IsActive(s) => s = r,
         cpc[r] \notin {"done", "new"},
         where = "created" => new.status = "queued" /\ cpc[r] = "admitted",
         where = "starting" => new.status = "starting" /\ cpc[r] = "created",
         UNCHANGED <<given, active, controlVars, runnerVars, ticket, unheard>>
  PROVE  DemoInv'
  <1>t. TypeOK
    BY DEF DemoInv
  <1>1. /\ row' \in [Requests -> Rows]
        /\ overdue' \in BOOLEAN /\ silent' \in BOOLEAN /\ stale' \subseteq Handlers
        /\ stale' = (stale \cup Holders(r)) \ {r}
        /\ row'[r] = new
        /\ \A s \in Requests : s # r => row'[s] = row[s]
        /\ ActiveDiscipline' /\ RecordedDecisionIsReal'
    <2>1. r \in Handlers
      BY DEF Handlers
    <2> QED BY <2>1, WriteRow
  <1>2. /\ cpc'[r] = where
        /\ \A s \in Requests : s # r => cpc'[s] = cpc[s]
        /\ cpc' \in [Requests -> {"new", "probing", "admitted", "created", "starting",
                                 "replied", "refused", "done"}]
    BY <1>t DEF TypeOK, Goto
  <1>3. TypeOK'
    BY <1>t, <1>1, <1>2 DEF TypeOK, given, controlVars, runnerVars
  <1>4. RunnerDiscipline'
    BY <1>2 DEF DemoInv, RunnerDiscipline, Executing, runnerVars
  <1>5. CreateDiscipline'
    <2> SUFFICES ASSUME NEW s \in Requests
                 PROVE  /\ cpc'[s] \in {"new", "probing", "admitted"} => row'[s] = NoRow
                        /\ s \notin stale' =>
                              /\ cpc'[s] = "created" => row'[s].status = "queued"
                              /\ cpc'[s] \in {"starting", "replied", "refused"} =>
                                    row'[s].status = "starting"
      BY DEF CreateDiscipline
    <2>1. CASE s = r
      BY <1>1, <1>2, <2>1
    <2>2. CASE s # r
      BY <1>1, <1>2, <2>2 DEF DemoInv, CreateDiscipline
    <2> QED BY <2>1, <2>2
  <1>6. ControlDiscipline'
    <2>1. ControlDiscipline /\ r # Control
      BY DemoAssumption DEF DemoInv
    <2>2. pc # "free" /\ Control \notin stale' => row'[run] = row[run] /\ Control \notin stale
      <3> SUFFICES ASSUME pc # "free", Control \notin stale'
                   PROVE  row'[run] = row[run] /\ Control \notin stale
        OBVIOUS
      <3>1. run \in Requests /\ run # r
        BY <1>t, <1>1, <2>1 DEF TypeOK, Holders
      <3> QED BY <1>1, <2>1, <3>1
    <2> QED BY <2>1, <2>2 DEF ControlDiscipline, CopyIsTrue, SnapshotIsTrue, controlVars, runnerVars
  <1> QED BY <1>1, <1>3, <1>4, <1>5, <1>6 DEF DemoInv

\* A Create handler moves on and writes nothing.
LEMMA CreateMoves ==
  ASSUME DemoInv, NEW r \in Requests, KeepRow,
         NEW where \in {"probing", "admitted", "done"}, Goto(r, where),
         where = "done" \/ (where = "probing" /\ cpc[r] = "new")
                        \/ (where = "admitted" /\ cpc[r] = "probing"),
         active' \in [Requests -> Requests \cup {NoRun}],
         UNCHANGED <<given, controlVars, runnerVars, ticket, unheard>>
  PROVE  DemoInv'
  <1>t. TypeOK
    BY DEF DemoInv
  <1>2. /\ cpc'[r] = where
        /\ \A s \in Requests : s # r => cpc'[s] = cpc[s]
        /\ cpc' \in [Requests -> {"new", "probing", "admitted", "created", "starting",
                                 "replied", "refused", "done"}]
    BY <1>t DEF TypeOK, Goto
  <1>3. TypeOK'
    BY <1>t, <1>2 DEF TypeOK, given, controlVars, runnerVars, KeepRow, rowVars
  <1>4. RunnerDiscipline' /\ CreateDiscipline'
    BY <1>2 DEF DemoInv, RunnerDiscipline, CreateDiscipline, Executing, runnerVars, KeepRow, rowVars
  <1>5. ControlDiscipline' /\ ActiveDiscipline' /\ RecordedDecisionIsReal'
    BY DEF DemoInv, ControlDiscipline, CopyIsTrue, SnapshotIsTrue, ActiveDiscipline,
           RecordedDecisionIsReal, IsActive, controlVars, runnerVars, KeepRow, rowVars
  <1> QED BY <1>3, <1>4, <1>5 DEF DemoInv

\* The active run is one of the requests.
LEMMA ActiveRunIsActive ==
  /\ ActiveRun \in Requests \cup {NoRun}
  /\ ActiveRun # NoRun => ActiveRun \in Requests /\ IsActive(ActiveRun)
  <1>1. CASE ActiveRuns = {}
    BY <1>1 DEF ActiveRun
  <1>2. CASE ActiveRuns # {}
    <2>1. ActiveRun \in ActiveRuns
      BY <1>2 DEF ActiveRun
    <2> QED BY <2>1 DEF ActiveRuns
  <1> QED BY <1>1, <1>2

\* Create preserves the invariant, statement by statement.
LEMMA CreateInv ==
  ASSUME DemoInv, NEW r \in Requests, CreateStep(r) \/ AbandonCreate(r)
  PROVE  DemoInv'
  <1>t. TypeOK
    BY DEF DemoInv
  <1>row. row[r] \in Rows
    BY <1>t DEF TypeOK
  <1>1. CASE Lookup(r)
    <2>1. active' \in [Requests -> Requests \cup {NoRun}]
      BY <1>1, <1>t, ActiveRunIsActive DEF Lookup, TypeOK
    <2>2. KeepRow
      BY <1>1 DEF Lookup, KeepRow
    <2>3. CASE Goto(r, "done")
      BY <1>1, <2>1, <2>2, <2>3, CreateMoves DEF Lookup
    <2>4. CASE Goto(r, "probing")
      BY <1>1, <2>1, <2>2, <2>4, CreateMoves DEF Lookup
    <2> QED BY <1>1, <2>3, <2>4 DEF Lookup
  <1>2. CASE Probe(r)
    <2>1. active' \in [Requests -> Requests \cup {NoRun}]
      BY <1>2, <1>t DEF Probe, TypeOK
    <2>2. KeepRow
      BY <1>2 DEF Probe, KeepRow
    <2>3. CASE Goto(r, "done")
      BY <1>2, <2>1, <2>2, <2>3, CreateMoves DEF Probe
    <2>4. CASE Goto(r, "admitted")
      BY <1>2, <2>1, <2>2, <2>4, CreateMoves DEF Probe
    <2> QED BY <1>2, <2>3, <2>4 DEF Probe
  <1>3. CASE Insert(r)
    <2> DEFINE new == [NoRow EXCEPT !.status = "queued"]
    <2>1. CASE Goto(r, "done") /\ KeepRow
      BY <1>3, <1>t, <2>1, CreateMoves DEF Insert, TypeOK
    <2>2. CASE ActiveRuns = {} /\ Goto(r, "created") /\ Write(r, r, new)
      <3>1. Follows(new, r) /\ new.status = "queued"
        BY DEF Follows, NoRow, Rows, Ongoing, Results, Steps, Decided
      <3>2. \A s \in Requests : ~IsActive(s)
        BY <2>2 DEF ActiveRuns
      <3> HIDE DEF new
      <3> QED BY <1>3, <2>2, <3>1, <3>2, CreateWrite DEF Insert, Write
    <2> QED BY <1>3, <2>1, <2>2 DEF Insert
  <1>w. ASSUME NEW new, NEW heard \in BOOLEAN, NEW where \in {"starting", "done"},
               CreateWrites(r, new, heard, where), cpc[r] \notin {"done", "new"},
               IsActive(r) => Follows(new, r),
               r \notin stale => IsActive(r),
               where = "starting" => new.status = "starting" /\ cpc[r] = "created",
               UNCHANGED <<given, active, controlVars, runnerVars, ticket, unheard>>
        PROVE  DemoInv'
    <2>1. CASE r \notin stale
      <3>1. \A s \in Requests : IsActive(s) => s = r
        BY <1>w, <2>1 DEF DemoInv, ActiveDiscipline
      <3> QED BY <1>w, <2>1, <3>1, CreateWrite DEF CreateWrites
    <2>2. CASE r \in stale
      BY <1>w, <1>t, <2>2, CreateMoves DEF CreateWrites, TypeOK
    <2> QED BY <2>1, <2>2
  <1>f. /\ IsActive(r) => row[r].outcome = "none"
        /\ row[r].approval \in Decided => ticket[r] = row[r].approval
        /\ r \notin stale /\ cpc[r] = "created" => row[r].status = "queued"
        /\ r \notin stale /\ cpc[r] \in {"starting", "replied", "refused"} =>
              row[r].status = "starting"
    BY DEF DemoInv, ActiveDiscipline, RecordedDecisionIsReal, CreateDiscipline, Decided
  <1>4. CASE PersistStarting(r)
    <2> DEFINE new == [row[r] EXCEPT !.status = "starting"]
    <2>1. /\ new \in Rows /\ new.status = "starting"
          /\ new.outcome = row[r].outcome /\ new.approval = row[r].approval
      BY <1>row DEF Rows, Ongoing
    <2>2. /\ CreateWrites(r, new, FALSE, "starting") /\ cpc[r] = "created"
          /\ UNCHANGED <<given, active, controlVars, runnerVars, ticket, unheard>>
      BY <1>4 DEF PersistStarting
    <2> HIDE DEF new
    <2>3. IsActive(r) => Follows(new, r)
      BY <1>f, <2>1 DEF Follows
    <2>4. r \notin stale => IsActive(r)
      BY <1>f, <2>2 DEF IsActive, Ongoing
    <2> QED BY <1>w, <2>1, <2>2, <2>3, <2>4
  <1>5. CASE Start(r)
    <2>1. /\ KeepRow
          /\ UNCHANGED <<given, active, controlVars, report, ticket, unheard>>
          /\ cpc[r] = "starting"
      BY <1>5 DEF Start, KeepRow
    <2>2. reg[r] = NoEntry /\ report[r] = "none" /\ ticket[r] = "none"
      BY <2>1 DEF DemoInv, RunnerDiscipline
    <2>3. PICK where \in {"replied", "refused"} : Goto(r, where)
      BY <1>5 DEF Start
    <2>4. reg' = [reg EXCEPT ![r].status = "queued"] \/ reg' = reg
      BY <1>5 DEF Start
    <2>5. /\ cpc'[r] = where
          /\ \A s \in Requests : s # r => cpc'[s] = cpc[s]
          /\ cpc' \in [Requests -> {"new", "probing", "admitted", "created", "starting",
                                   "replied", "refused", "done"}]
      BY <1>t, <2>3 DEF TypeOK, Goto
    <2>6. /\ reg' \in [Requests -> Entries]
          /\ \A s \in Requests : s # r => reg'[s] = reg[s]
          /\ reg'[r] = reg[r] \/ (reg'[r].status = "queued" /\ reg'[r].step = 0)
      <3>1. reg \in [Requests -> Entries] /\ "queued" \in Executions /\ reg[r].step = 0
        BY <1>t, <2>2 DEF TypeOK, NoEntry, Executions
      <3> QED BY <2>4, <3>1, EntryWrite
    <2>7. TypeOK'
      BY <1>t, <2>1, <2>5, <2>6 DEF TypeOK, given, controlVars, KeepRow, rowVars
    <2>8. RunnerDiscipline'
      BY <2>1, <2>2, <2>3, <2>5, <2>6
         DEF DemoInv, RunnerDiscipline, Executing, InFlight, NoEntry, LastStep, Decided
    <2>9. CreateDiscipline'
      BY <2>1, <2>3, <2>5 DEF DemoInv, CreateDiscipline, KeepRow, rowVars
    <2>10. ControlDiscipline' /\ ActiveDiscipline' /\ RecordedDecisionIsReal'
      BY <2>1 DEF DemoInv, ControlDiscipline, CopyIsTrue, SnapshotIsTrue, ActiveDiscipline,
             RecordedDecisionIsReal, IsActive, controlVars, KeepRow, rowVars
    <2> QED BY <2>7, <2>8, <2>9, <2>10 DEF DemoInv
  <1>6. CASE ApplyStart(r)
    <2>1. IsActive(r) => Follows(row[r], r)
      BY <1>f, <1>row DEF Follows
    <2>2. r \notin stale => IsActive(r)
      BY <1>f, <1>6 DEF IsActive, Ongoing, ApplyStart
    <2> QED BY <1>w, <1>6, <2>1, <2>2 DEF ApplyStart
  <1>7. CASE RefuseStart(r)
    <2> DEFINE new == Ended(row[r], "interrupted", "failed")
    <2>1. Follows(new, r)
      <3>1. /\ new \in Rows /\ new.status = "interrupted"
            /\ new.approval = row[r].approval
        BY <1>row, EndedRow DEF Terminal, Results
      <3> HIDE DEF new
      <3> QED BY <1>f, <3>1 DEF Follows, Ongoing
    <2>2. r \notin stale => IsActive(r)
      BY <1>f, <1>7 DEF IsActive, Ongoing, RefuseStart
    <2>3. /\ CreateWrites(r, new, FALSE, "done") /\ cpc[r] = "refused"
          /\ UNCHANGED <<given, active, controlVars, runnerVars, ticket, unheard>>
      BY <1>7 DEF RefuseStart
    <2> HIDE DEF new
    <2> QED BY <1>w, <2>1, <2>2, <2>3
  <1>8. CASE AbandonCreate(r)
    BY <1>8, <1>t, CreateMoves DEF AbandonCreate, KeepRow, TypeOK
  <1> QED BY <1>1, <1>2, <1>3, <1>4, <1>5, <1>6, <1>7, <1>8 DEF CreateStep
-----------------------------------------------------------------------------
(* The holder of controlMu *)

\* What it does to AgentGuard's ticket and to the Runner's registry.
TicketMove == \/ ticket' = ticket
              \/ ticket[run] = "pending" /\ ticket' = [ticket EXCEPT ![run] = "denied"]
RegistryMove == reg' = reg \/ (reg[run] # NoEntry /\ Noted)

\* Neither disturbs the executions, the other handlers or the rows.
LEMMA OutsideWorld ==
  ASSUME DemoInv, run \in Requests, KeepRow, UNCHANGED <<createVars, report>>,
         TicketMove, RegistryMove
  PROVE  /\ reg' \in [Requests -> Entries]
         /\ ticket' \in [Requests -> {"none", "pending", "approved", "denied"}]
         /\ \A r \in Requests : ticket[r] \in Decided => ticket'[r] = ticket[r]
         /\ RunnerDiscipline' /\ CreateDiscipline'
         /\ ActiveDiscipline' /\ RecordedDecisionIsReal'
  <1>t. TypeOK
    BY DEF DemoInv
  <1>1. /\ ticket' \in [Requests -> {"none", "pending", "approved", "denied"}]
        /\ \A r \in Requests : \/ ticket'[r] = ticket[r]
                               \/ ticket[r] = "pending" /\ ticket'[r] = "denied"
    BY <1>t DEF TypeOK, TicketMove
  <1>2. /\ reg' \in [Requests -> Entries]
        /\ \A r \in Requests : /\ reg'[r].status = reg[r].status
                               /\ reg'[r].step = reg[r].step
                               /\ reg[r] = NoEntry => reg'[r] = NoEntry
    <2>1. CASE reg' = reg
      BY <1>t, <2>1 DEF TypeOK
    <2>2. CASE reg[run] # NoEntry /\ Noted
      <3>1. reg \in [Requests -> Entries]
        BY <1>t DEF TypeOK
      <3>2. reg[run].cancel \in BOOLEAN
        BY <3>1 DEF Entries
      <3>3. (reg[run].cancel \/ Executing(run)) \in BOOLEAN
        BY DEF Executing
      <3>4. PICK c \in BOOLEAN : reg' = [reg EXCEPT ![run].cancel = c]
        BY <2>2, <3>3 DEF Noted
      <3> QED BY <2>2, <3>1, <3>4, EntryWrite
    <2> QED BY <2>1, <2>2 DEF RegistryMove
  <1>3. RunnerDiscipline'
    BY <1>1, <1>2 DEF DemoInv, RunnerDiscipline, Executing, Decided, createVars
  <1>4. CreateDiscipline' /\ ActiveDiscipline'
    BY DEF DemoInv, CreateDiscipline, ActiveDiscipline, IsActive, KeepRow, rowVars, createVars
  <1>5. RecordedDecisionIsReal'
    BY <1>1 DEF DemoInv, RecordedDecisionIsReal, KeepRow, rowVars
  <1>6. \A r \in Requests : ticket[r] \in Decided => ticket'[r] = ticket[r]
    BY <1>1 DEF Decided
  <1> QED BY <1>1, <1>2, <1>3, <1>4, <1>5, <1>6

\* It gives the mutex back, or goes on with a copy that is still true.
LEMMA ControlMoves ==
  ASSUME DemoInv, pc # "free", KeepRow, UNCHANGED <<createVars, report>>,
         TicketMove, RegistryMove, unheard' \subseteq Requests,
         \/ Release
         \/ /\ run' = run /\ pc' # "free"
            /\ linked' \in BOOLEAN /\ denied' \in BOOLEAN
            /\ CopyIsTrue'
            /\ pc' \in {"link", "apply", "cancel_apply"} => SnapshotIsTrue'
  PROVE  DemoInv'
  <1>t. TypeOK /\ run \in Requests
    BY DEF DemoInv, TypeOK
  <1>1. /\ reg' \in [Requests -> Entries]
        /\ ticket' \in [Requests -> {"none", "pending", "approved", "denied"}]
        /\ RunnerDiscipline' /\ CreateDiscipline'
        /\ ActiveDiscipline' /\ RecordedDecisionIsReal'
    BY <1>t, OutsideWorld
  <1>2. /\ run' \in Requests \cup {NoRun} /\ (run' = NoRun <=> pc' = "free")
        /\ linked' \in BOOLEAN /\ denied' \in BOOLEAN
    BY <1>t, DemoAssumption DEF Release
  <1>3. TypeOK'
    BY <1>t, <1>1, <1>2 DEF TypeOK, KeepRow, rowVars, createVars, given
  <1>4. ControlDiscipline'
    BY DEF ControlDiscipline, Release
  <1> QED BY <1>1, <1>3, <1>4 DEF DemoInv

\* A copy stays true while only tickets and registry move.
LEMMA CopyStays ==
  ASSUME DemoInv, pc # "free", KeepRow, UNCHANGED <<run, view, denied, createVars, report>>,
         TicketMove, RegistryMove
  PROVE  CopyIsTrue' /\ linked \in BOOLEAN /\ denied' \in BOOLEAN
  <1>1. TypeOK /\ run \in Requests /\ CopyIsTrue
    BY DEF DemoInv, TypeOK, ControlDiscipline
  <1>2. ticket[run] \in Decided => ticket'[run] = ticket[run]
    BY <1>1, OutsideWorld
  <1>3. linked \in BOOLEAN /\ denied \in BOOLEAN
    BY <1>1 DEF TypeOK
  <1> QED BY <1>1, <1>2, <1>3 DEF CopyIsTrue, KeepRow, rowVars, Decided

\* The Monitor and Cancel read a row (Reconcile, Cancel).
LEMMA LoadInv ==
  ASSUME DemoInv, MonitorLoad \/ \E r \in Requests : CancelLoad(r)
  PROVE  DemoInv'
  <1>t. TypeOK
    BY DEF DemoInv
  <1>1. PICK r \in Requests, where \in {"get", "deny_overdue", "cancel_overdue", "deny", "cancel"} :
            IsActive(r) /\ Load(r, where)
    <2>1. CASE MonitorLoad
      BY <2>1, ActiveRunIsActive DEF MonitorLoad
    <2>2. CASE \E r \in Requests : CancelLoad(r)
      BY <2>2 DEF CancelLoad
    <2> QED BY <2>1, <2>2
  <1>2. /\ UNCHANGED <<rowVars, createVars, runnerVars, ticket, unheard>>
        /\ pc = "free" /\ ~denied
    BY DEF MonitorLoad, CancelLoad, DemoInv, ControlDiscipline
  <1>3. TypeOK'
    BY <1>t, <1>1, <1>2, DemoAssumption
       DEF Load, TypeOK, rowVars, createVars, given, runnerVars
  <1>4. RunnerDiscipline' /\ ActiveDiscipline' /\ RecordedDecisionIsReal'
    BY <1>2 DEF DemoInv, RunnerDiscipline, Executing, ActiveDiscipline, RecordedDecisionIsReal,
           IsActive, rowVars, createVars, runnerVars
  <1>5. CreateDiscipline'
    BY <1>1, <1>2, DemoAssumption DEF Load, DemoInv, CreateDiscipline, rowVars, createVars
  <1>6. ControlDiscipline'
    <2>1. row[r] \in Rows /\ (row[r].approval \in Decided => ticket[r] = row[r].approval)
      BY <1>t DEF DemoInv, TypeOK, RecordedDecisionIsReal, Decided
    <2>2. CopyIsTrue'
      BY <1>1, <1>2, <2>1 DEF Load, CopyIsTrue, IsActive, rowVars, createVars, runnerVars
    <2> QED BY <1>1, <2>2 DEF Load, ControlDiscipline
  <1> QED BY <1>3, <1>4, <1>5, <1>6 DEF DemoInv

\* Reconcile and Cancel preserve the invariant, statement by statement.
LEMMA ControlInv ==
  ASSUME DemoInv, ControlStep \/ AbandonControl
  PROVE  DemoInv'
  <1>t. TypeOK /\ pc # "free" /\ run \in Requests /\ unheard \subseteq Requests
    BY DEF DemoInv, TypeOK, ControlStep, AbandonControl, DenyOverdue, CancelOverdue,
           EndOverdue, Get, LinkApproval, Apply, EndGiveUp, DenyFirst, CancelRunner,
           PersistCancellation
  <1>c. CopyIsTrue
    BY <1>t DEF DemoInv, ControlDiscipline
  <1>1. CASE DenyOverdue
    <2>1. /\ KeepRow /\ UNCHANGED <<createVars, report>> /\ RegistryMove /\ TicketMove
          /\ unheard' \subseteq Requests
      BY <1>1, <1>t DEF DenyOverdue, KeepRow, runnerVars, RegistryMove, TicketMove,
                       DenyFails, DenyTakesEffect, TicketGone
    <2>2. CASE Release
      BY <1>t, <2>1, <2>2, ControlMoves
    <2>3. CASE Continue("cancel_overdue")
      <3>1. /\ pc' = "cancel_overdue"
            /\ UNCHANGED <<run, view, snapshot, linked, denied>>
        BY <2>3 DEF Continue
      <3>2. CopyIsTrue' /\ linked \in BOOLEAN /\ denied' \in BOOLEAN
        BY <1>t, <2>1, <3>1, CopyStays
      <3> QED BY <1>t, <2>1, <3>1, <3>2, ControlMoves
    <2>4. CASE /\ DenyTakesEffect
               /\ pc' = "cancel_overdue"
               /\ view' = Denied(view, TRUE)
               /\ UNCHANGED <<run, snapshot, linked, denied>>
      <3>1. /\ view' \in Rows /\ view'.status = view.status
        BY <1>c, <2>4, DeniedRow DEF CopyIsTrue
      <3>2. ticket'[run] = "denied" /\ view'.approval = "denied"
        BY <1>t, <1>c, <2>4, DeniedRow DEF DenyTakesEffect, TypeOK, CopyIsTrue
      <3>3. CopyIsTrue'
        BY <1>c, <2>1, <2>4, <3>1, <3>2 DEF CopyIsTrue, KeepRow, rowVars
      <3>4. linked' \in BOOLEAN /\ denied' \in BOOLEAN
        BY <1>t, <2>4 DEF TypeOK
      <3> QED BY <1>t, <2>1, <2>4, <3>3, <3>4, ControlMoves
    <2> QED BY <1>1, <2>2, <2>3, <2>4 DEF DenyOverdue
  <1>2. CASE DenyFirst
    <2>1. /\ KeepRow /\ UNCHANGED <<createVars, report>> /\ RegistryMove /\ TicketMove
          /\ unheard' \subseteq Requests
      BY <1>2, <1>t DEF DenyFirst, KeepRow, runnerVars, RegistryMove, TicketMove,
                       DenyFails, DenyTakesEffect, TicketGone
    <2>2. CASE Release
      BY <1>t, <2>1, <2>2, ControlMoves
    <2>3. CASE /\ DenyTakesEffect
               /\ pc' = "cancel"
               /\ denied' = TRUE
               /\ UNCHANGED <<run, view, snapshot, linked>>
      <3>1. ticket'[run] = "denied" /\ ticket[run] = "pending"
        BY <1>t, <2>3 DEF DenyTakesEffect, TypeOK
      <3>2. CopyIsTrue'
        BY <1>c, <2>1, <2>3, <3>1 DEF CopyIsTrue, KeepRow, rowVars, Decided
      <3>3. linked' \in BOOLEAN /\ denied' \in BOOLEAN
        BY <1>t, <2>3 DEF TypeOK
      <3> QED BY <1>t, <2>1, <2>3, <3>2, <3>3, ControlMoves
    <2> QED BY <1>2, <2>2, <2>3 DEF DenyFirst
  <1>3. CASE CancelOverdue
    <2>1. /\ KeepRow /\ UNCHANGED <<createVars, report>> /\ RegistryMove /\ TicketMove
          /\ unheard' \subseteq Requests
      BY <1>3, <1>t DEF CancelOverdue, CancelFails, KeepRow, RegistryMove, TicketMove
    <2>2. CASE Release
      BY <1>t, <2>1, <2>2, ControlMoves
    <2>3. CASE Continue("end_overdue")
      <3>1. /\ pc' = "end_overdue"
            /\ UNCHANGED <<run, view, snapshot, linked, denied>>
        BY <2>3 DEF Continue
      <3>2. CopyIsTrue' /\ linked \in BOOLEAN /\ denied' \in BOOLEAN
        BY <1>t, <2>1, <3>1, CopyStays
      <3> QED BY <1>t, <2>1, <3>1, <3>2, ControlMoves
    <2> QED BY <1>3, <2>2, <2>3 DEF CancelOverdue
  <1>s. ASSUME reg[run] # NoEntry, reg' = reg \/ Noted, snapshot' = SnapshotOf(run), run' = run,
               report' = report
        PROVE  SnapshotIsTrue'
    <2>1. /\ reg[run] \in Entries /\ reg[run].status # "absent"
          /\ IF reg[run].status \in InFlight THEN report[run] = "none"
             ELSE Ends(reg[run].status, report[run])
      <3>1. /\ reg[run] \in Entries
            /\ CASE reg[run].status = "absent" -> reg[run] = NoEntry
                 [] reg[run].status \in InFlight -> report[run] = "none"
                 [] OTHER -> Ends(reg[run].status, report[run])
        BY <1>t DEF DemoInv, TypeOK, RunnerDiscipline
      <3>2. reg[run].status # "absent"
        BY <1>s, <3>1 DEF InFlight
      <3> QED BY <3>1, <3>2
    <2>2. /\ snapshot'.status = reg[run].status /\ snapshot'.step = reg[run].step
          /\ snapshot'.outcome = report[run]
      BY <1>s DEF SnapshotOf
    <2> QED BY <1>s, <2>1, <2>2 DEF SnapshotIsTrue, Entries
  <1>4. CASE CancelRunner
    <2>1. /\ KeepRow /\ UNCHANGED <<createVars, report>> /\ RegistryMove /\ TicketMove
          /\ unheard' \subseteq Requests
      BY <1>4, <1>t DEF CancelRunner, CancelFails, KeepRow, RegistryMove, TicketMove
    <2>2. CASE Release
      BY <1>t, <2>1, <2>2, ControlMoves
    <2>3. CASE Continue("note_denied") \/ Continue("cancel_lost")
      <3>1. /\ pc' \in {"note_denied", "cancel_lost"}
            /\ UNCHANGED <<run, view, snapshot, linked, denied>>
        BY <2>3 DEF Continue
      <3>2. CopyIsTrue' /\ linked \in BOOLEAN /\ denied' \in BOOLEAN
        BY <1>t, <2>1, <3>1, CopyStays
      <3> QED BY <1>t, <2>1, <3>1, <3>2, ControlMoves
    <2>4. CASE /\ reg[run] # NoEntry
               /\ Noted
               /\ snapshot' = SnapshotOf(run)
               /\ pc' = "cancel_apply"
               /\ UNCHANGED <<run, view, linked, denied>>
      <3>1. CopyIsTrue' /\ linked \in BOOLEAN /\ denied' \in BOOLEAN
        BY <1>t, <2>1, <2>4, CopyStays
      <3>2. SnapshotIsTrue'
        BY <1>s, <2>1, <2>4
      <3> QED BY <1>t, <2>1, <2>4, <3>1, <3>2, ControlMoves
    <2> QED BY <1>4, <2>2, <2>3, <2>4 DEF CancelRunner
  <1>5. CASE Get
    <2>1. /\ KeepRow /\ UNCHANGED <<createVars, report, reg>> /\ RegistryMove /\ TicketMove
          /\ unheard' \subseteq Requests
      BY <1>5, <1>t DEF Get, KeepRow, runnerVars, RegistryMove, TicketMove
    <2>2. CASE Release
      BY <1>t, <2>1, <2>2, ControlMoves
    <2>3. CASE Continue("end_contract") \/ Continue("end_lost")
      <3>1. /\ pc' \in {"end_contract", "end_lost"}
            /\ UNCHANGED <<run, view, snapshot, linked, denied>>
        BY <2>3 DEF Continue
      <3>2. CopyIsTrue' /\ linked \in BOOLEAN /\ denied' \in BOOLEAN
        BY <1>t, <2>1, <3>1, CopyStays
      <3> QED BY <1>t, <2>1, <3>1, <3>2, ControlMoves
    <2>4. CASE /\ reg[run] # NoEntry
               /\ snapshot' = SnapshotOf(run)
               /\ pc' = "link"
               /\ UNCHANGED <<run, view, linked, denied>>
      <3>1. CopyIsTrue' /\ linked \in BOOLEAN /\ denied' \in BOOLEAN
        BY <1>t, <2>1, <2>4, CopyStays
      <3>2. SnapshotIsTrue'
        BY <1>s, <2>1, <2>4
      <3> QED BY <1>t, <2>1, <2>4, <3>1, <3>2, ControlMoves
    <2> QED BY <1>5, <2>2, <2>3, <2>4 DEF Get
  <1>6. CASE LinkApproval
    <2>1. /\ KeepRow /\ UNCHANGED <<createVars, report, reg>> /\ RegistryMove /\ TicketMove
          /\ unheard' \subseteq Requests
          /\ pc' = "apply" /\ UNCHANGED <<run, view, snapshot, denied>>
          /\ linked' \in BOOLEAN
      BY <1>6, <1>t DEF LinkApproval, KeepRow, runnerVars, RegistryMove, TicketMove
    <2>2. CopyIsTrue' /\ denied' \in BOOLEAN
      BY <1>t, <2>1, CopyStays
    <2>3. SnapshotIsTrue'
      BY <1>6, <2>1 DEF LinkApproval, DemoInv, ControlDiscipline, SnapshotIsTrue
    <2> QED BY <1>t, <2>1, <2>2, <2>3, ControlMoves
  <1>m. ASSUME NEW new, NEW heard \in BOOLEAN, MonitorWrites(new, heard),
               Follows(new, run),
               UNCHANGED <<createVars, runnerVars, ticket, unheard>>
        PROVE  DemoInv'
    <2>1. CASE Control \notin stale
      <3>1. IsActive(run)
        BY <1>c, <2>1 DEF CopyIsTrue, IsActive
      <3> QED BY <1>t, <1>m, <2>1, <3>1, ControlWrite DEF MonitorWrites
    <2>2. CASE Control \in stale
      BY <1>t, <1>m, <2>2, ControlMoves DEF MonitorWrites, RegistryMove, TicketMove, runnerVars
    <2> QED BY <2>1, <2>2
  <1>e. ASSUME NEW old \in Rows, old.approval \in Decided => ticket[run] = old.approval,
               NEW status \in Terminal, NEW outcome \in Results
        PROVE  Follows(Ended(old, status, outcome), run)
    <2>1. /\ Ended(old, status, outcome) \in Rows
          /\ Ended(old, status, outcome).status = status
          /\ Ended(old, status, outcome).approval = old.approval
      BY EndedRow
    <2>2. status \notin Ongoing
      BY DEF Terminal, Ongoing
    <2> QED BY <1>e, <2>1, <2>2 DEF Follows
  <1>a. ASSUME NEW old \in Rows, old.approval \in Decided => ticket[run] = old.approval,
               old.status \in Ongoing, Acceptable(old, snapshot), NEW pending \in BOOLEAN,
               SnapshotIsTrue
        PROVE  Follows(Applied(old, snapshot, pending), run)
    <2>1. /\ snapshot.status \in Executions \ {"absent"} /\ snapshot.step \in Steps
          /\ snapshot.status \in InFlight => snapshot.outcome = "none"
          /\ snapshot.status \notin InFlight =>
                Ends(snapshot.status, snapshot.outcome) /\ snapshot.outcome = report[run]
      BY <1>a DEF SnapshotIsTrue
    <2> DEFINE new == Applied(old, snapshot, pending)
    <2>2. /\ new \in Rows /\ new.outcome = snapshot.outcome
          /\ snapshot.status \notin InFlight => new.status = snapshot.status
          /\ new.approval \in Decided =>
                new.approval = old.approval \/ new.approval = snapshot.outcome
      BY <1>a, <2>1, AppliedRow
    <2> HIDE DEF new
    <2>3. snapshot.outcome \in Decided => ticket[run] = snapshot.outcome
      BY <1>t, <2>1 DEF DemoInv, RunnerDiscipline, Decided
    <2>4. new.status \in Ongoing => new.outcome = "none"
      BY <2>1, <2>2 DEF Ends, Ongoing
    <2> QED BY <1>a, <2>2, <2>3, <2>4 DEF Follows, new
  <1>7. CASE EndOverdue
    <2> DEFINE end == IF view.status = "waiting" THEN "expired" ELSE "interrupted"
    <2>1. end \in Terminal /\ "failed" \in Results
      BY DEF Terminal, Results
    <2>2. Follows(Ended(view, end, "failed"), run)
      BY <1>c, <1>e, <2>1 DEF CopyIsTrue
    <2> QED BY <1>7, <1>m, <2>2 DEF EndOverdue
  <1>8. CASE EndGiveUp
    <2>1. Follows(Ended(view, "interrupted", "failed"), run)
      BY <1>c, <1>e DEF CopyIsTrue, Terminal, Results
    <2> QED BY <1>8, <1>m, <2>1 DEF EndGiveUp
  <1>9. CASE Apply
    <2>1. linked \in BOOLEAN /\ SnapshotIsTrue
      BY <1>9, <1>t DEF Apply, TypeOK, DemoInv, ControlDiscipline
    <2>2. CASE Acceptable(view, snapshot)
      <3>1. Follows(Applied(view, snapshot, linked), run)
        BY <1>c, <1>a, <2>1, <2>2 DEF CopyIsTrue
      <3> QED BY <1>9, <1>m, <2>2, <3>1 DEF Apply
    <2>3. CASE ~Acceptable(view, snapshot)
      <3>1. /\ KeepRow /\ UNCHANGED <<createVars, report>> /\ RegistryMove /\ TicketMove
            /\ unheard' \subseteq Requests
            /\ pc' = "end_contract" /\ UNCHANGED <<run, view, snapshot, linked, denied>>
        BY <1>9, <1>t, <2>3 DEF Apply, KeepRow, runnerVars, RegistryMove, TicketMove, Continue
      <3>2. CopyIsTrue' /\ linked \in BOOLEAN /\ denied' \in BOOLEAN
        BY <1>t, <3>1, CopyStays
      <3> QED BY <1>t, <3>1, <3>2, ControlMoves
    <2> QED BY <2>2, <2>3
  <1>10. CASE PersistCancellation
    <2> DEFINE old == Denied(row[run], denied)
    <2>1. /\ old \in Rows /\ old.status = row[run].status
          /\ old.outcome = row[run].outcome
          /\ old.approval = IF denied THEN "denied" ELSE row[run].approval
      BY <1>t, DeniedRow DEF TypeOK
    <2>2. old.approval \in Decided => ticket[run] = old.approval
      BY <1>t, <1>c, <2>1 DEF DemoInv, RecordedDecisionIsReal, Decided, CopyIsTrue
    <2> HIDE DEF old
    <2>w. ASSUME NEW new, NEW heard \in BOOLEAN, CancelWrites(new, heard),
                 IsActive(run) => Follows(new, run)
          PROVE  DemoInv'
      <3>1. Release /\ UNCHANGED <<createVars, runnerVars, ticket, unheard>>
        BY <1>10 DEF PersistCancellation
      <3>2. CASE IsActive(run) /\ WriteHeard(Control, run, new, heard)
        BY <1>t, <2>w, <3>1, <3>2, ControlWrite
      <3>3. CASE KeepRow
        BY <1>t, <3>1, <3>3, ControlMoves DEF RegistryMove, TicketMove, runnerVars
      <3> QED BY <2>w, <3>2, <3>3 DEF CancelWrites
    <2>3. CASE /\ pc = "cancel_apply"
               /\ Acceptable(old, snapshot)
               /\ CancelWrites(Applied(old, snapshot, FALSE), TRUE)
      <3>1. SnapshotIsTrue
        BY <2>3 DEF DemoInv, ControlDiscipline
      <3>2. IsActive(run) => Follows(Applied(old, snapshot, FALSE), run)
        BY <1>a, <2>1, <2>2, <2>3, <3>1 DEF IsActive
      <3> QED BY <2>w, <2>3, <3>2
    <2>4. CASE CancelWrites(Ended(old, "interrupted", "failed"), FALSE)
      <3>1. Follows(Ended(old, "interrupted", "failed"), run)
        BY <1>e, <2>1, <2>2 DEF Terminal, Results
      <3> QED BY <2>w, <2>4, <3>1
    <2>5. CASE CancelWrites(Ended(old, "interrupted", "cancelled"), FALSE)
      <3>1. Follows(Ended(old, "interrupted", "cancelled"), run)
        BY <1>e, <2>1, <2>2 DEF Terminal, Results
      <3> QED BY <2>w, <2>5, <3>1
    <2>6. CASE CancelWrites(old, FALSE)
      <3>1. IsActive(run) => Follows(old, run)
        BY <1>t, <2>1, <2>2 DEF Follows, IsActive, DemoInv, ActiveDiscipline
      <3> QED BY <2>w, <2>6, <3>1
    <2> QED BY <1>10, <2>3, <2>4, <2>5, <2>6 DEF PersistCancellation, old
  <1>11. CASE AbandonControl
    <2>1. /\ KeepRow /\ UNCHANGED <<createVars, report>> /\ RegistryMove /\ TicketMove
          /\ unheard' \subseteq Requests /\ Release
      BY <1>11 DEF AbandonControl, KeepRow, runnerVars, RegistryMove, TicketMove
    <2> QED BY <1>t, <2>1, ControlMoves
  <1> QED
    BY <1>1, <1>2, <1>3, <1>4, <1>5, <1>6, <1>7, <1>8, <1>9, <1>10, <1>11 DEF ControlStep
-----------------------------------------------------------------------------
(* The Runner, AgentGuard and time *)

\* They leave rows and handlers alone and keep decided tickets and reports.
LEMMA RunnerFrame ==
  ASSUME DemoInv, UNCHANGED <<rowVars, createVars, stale, controlVars>>,
         \A r \in Requests : ticket[r] \in Decided => ticket'[r] = ticket[r],
         \A r \in Requests : report[r] # "none" => report'[r] = report[r]
  PROVE  /\ CreateDiscipline' /\ ControlDiscipline' /\ ActiveDiscipline'
         /\ RecordedDecisionIsReal'
  <1>t. TypeOK
    BY DEF DemoInv
  <1>1. CreateDiscipline' /\ ActiveDiscipline'
    BY DEF DemoInv, CreateDiscipline, ActiveDiscipline, IsActive, rowVars, createVars
  <1>2. RecordedDecisionIsReal'
    BY DEF DemoInv, RecordedDecisionIsReal, rowVars, Decided
  <1>3. ASSUME pc # "free" PROVE CopyIsTrue'
    <2>1. run \in Requests /\ CopyIsTrue
      BY <1>t, <1>3 DEF DemoInv, TypeOK, ControlDiscipline
    <2> QED BY <2>1 DEF CopyIsTrue, Decided, rowVars, controlVars
  <1>4. ASSUME pc \in {"link", "apply", "cancel_apply"} PROVE SnapshotIsTrue'
    <2>1. run \in Requests /\ SnapshotIsTrue
      BY <1>t, <1>4 DEF DemoInv, TypeOK, ControlDiscipline
    <2>2. snapshot.status \notin InFlight => report[run] # "none"
      BY <2>1 DEF SnapshotIsTrue, Ends, Decided
    <2> QED BY <2>1, <2>2 DEF SnapshotIsTrue, controlVars
  <1>5. ControlDiscipline'
    BY <1>3, <1>4 DEF DemoInv, ControlDiscipline, controlVars
  <1> QED BY <1>1, <1>2, <1>5

\* An execution reports its end (_finish).
LEMMA ResultKeeps ==
  ASSUME DemoInv, NEW r \in Requests, Executing(r), ticket' = ticket,
         NEW status \in Executions, NEW result \in Results, Result(r, status, result),
         Ends(status, result), result \in Decided => ticket[r] = result,
         UNCHANGED <<rowVars, createVars, stale, controlVars, unheard>>
  PROVE  DemoInv'
  <1>t. TypeOK
    BY DEF DemoInv
  <1>1. /\ reg' \in [Requests -> Entries]
        /\ reg'[r].status = status /\ reg'[r].step = reg[r].step
        /\ \A s \in Requests : s # r => reg'[s] = reg[s]
    BY <1>t, EntryWrite DEF TypeOK, Result
  <1>2. /\ report' \in [Requests -> Results] /\ report'[r] = result
        /\ \A s \in Requests : s # r => report'[s] = report[s]
    BY <1>t DEF TypeOK, Result
  <1>3. /\ report[r] = "none"
        /\ reg[r] # NoEntry
        /\ cpc[r] \notin {"new", "probing", "admitted", "created", "starting"}
    BY DEF DemoInv, RunnerDiscipline, Executing, InFlight, NoEntry
  <1>4. TypeOK'
    BY <1>t, <1>1, <1>2 DEF TypeOK, rowVars, createVars, given, controlVars
  <1>5. RunnerDiscipline'
    <2>1. status \in {"succeeded", "cancelled", "failed"}
      BY DEF Ends
    <2> SUFFICES ASSUME NEW s \in Requests
                 PROVE  /\ CASE reg'[s].status = "absent" -> reg'[s] = NoEntry
                             [] reg'[s].status \in InFlight -> report'[s] = "none"
                             [] OTHER -> Ends(reg'[s].status, report'[s])
                        /\ reg'[s].status = "queued" => reg'[s].step = 0
                        /\ Executing(s)' /\ reg'[s].step = 0 => ticket[s] = "none"
                        /\ Executing(s)' /\ reg'[s].step = LastStep => ticket[s] \in Decided
                        /\ report'[s] \in Decided => ticket[s] = report'[s]
                        /\ cpc[s] \in {"new", "probing", "admitted", "created", "starting"} =>
                             reg'[s] = NoEntry /\ report'[s] = "none" /\ ticket[s] = "none"
      BY DEF RunnerDiscipline, createVars
    <2>2. CASE s = r
      BY <1>1, <1>2, <1>3, <2>1, <2>2 DEF Executing, InFlight
    <2>3. CASE s # r
      <3>1. reg'[s] = reg[s] /\ report'[s] = report[s]
        BY <1>1, <1>2, <2>3
      <3> QED BY <3>1 DEF DemoInv, RunnerDiscipline, Executing
    <2> QED BY <2>2, <2>3
  <1>6. /\ CreateDiscipline' /\ ControlDiscipline' /\ ActiveDiscipline'
        /\ RecordedDecisionIsReal'
    <2>1. \A s \in Requests : report[s] # "none" => report'[s] = report[s]
      BY <1>2, <1>3
    <2> QED BY <2>1, RunnerFrame
  <1> QED BY <1>4, <1>5, <1>6 DEF DemoInv

\* An execution goes on: its entry changes, nothing is reported.
LEMMA ExecutionKeeps ==
  ASSUME DemoInv, NEW r \in Requests, Executing(r), report' = report,
         reg' \in [Requests -> Entries], reg'[r].status = "running",
         \A s \in Requests : s # r => reg'[s] = reg[s] /\ ticket'[s] = ticket[s],
         ticket' \in [Requests -> {"none", "pending", "approved", "denied"}],
         ticket[r] \in Decided => ticket'[r] = ticket[r],
         reg'[r].step = 0 => ticket'[r] = "none",
         reg'[r].step = LastStep => ticket'[r] \in Decided,
         UNCHANGED <<rowVars, createVars, stale, controlVars, unheard>>
  PROVE  DemoInv'
  <1>t. TypeOK
    BY DEF DemoInv
  <1>3. /\ report[r] = "none"
        /\ reg[r] # NoEntry
        /\ cpc[r] \notin {"new", "probing", "admitted", "created", "starting"}
    BY DEF DemoInv, RunnerDiscipline, Executing, InFlight, NoEntry
  <1>4. TypeOK'
    BY <1>t DEF TypeOK, rowVars, createVars, given, controlVars
  <1>5. RunnerDiscipline'
    BY <1>3 DEF DemoInv, RunnerDiscipline, Executing, InFlight, Decided, createVars
  <1>6. /\ CreateDiscipline' /\ ControlDiscipline' /\ ActiveDiscipline'
        /\ RecordedDecisionIsReal'
    <2>1. \A s \in Requests : ticket[s] \in Decided => ticket'[s] = ticket[s]
      OBVIOUS
    <2> QED BY <2>1, RunnerFrame
  <1> QED BY <1>4, <1>5, <1>6 DEF DemoInv

\* The Runner's steps preserve the invariant.
LEMMA RunnerInv ==
  ASSUME DemoInv, NEW r \in Requests, RunnerStep(r) \/ FailRun(r)
  PROVE  DemoInv'
  <1>t. TypeOK /\ Executing(r)
    BY DEF DemoInv, RunnerStep, Prepare, Checkpoint, LeaveGuard, Complete, FailRun, Executing
  <1>e. /\ reg \in [Requests -> Entries] /\ reg[r].step \in Steps
        /\ ticket \in [Requests -> {"none", "pending", "approved", "denied"}]
    <2>1. reg \in [Requests -> Entries]
      BY <1>t DEF TypeOK
    <2> QED BY <1>t, <2>1 DEF TypeOK, Entries
  <1>f. /\ UNCHANGED <<rowVars, createVars, stale, controlVars, unheard>>
        /\ reg[r].status \in {"queued", "running"}
    BY DEF RunnerStep, Prepare, Checkpoint, LeaveGuard, Complete, FailRun
  <1>d. /\ reg[r].status = "queued" => reg[r].step = 0
        /\ reg[r].step = 0 => ticket[r] = "none"
        /\ reg[r].step = LastStep => ticket[r] \in Decided
    BY <1>t DEF DemoInv, RunnerDiscipline
  <1>c. ASSUME Result(r, "cancelled", "cancelled"), ticket' = ticket
        PROVE  DemoInv'
    BY <1>c, <1>t, <1>f, ResultKeeps DEF Executions, Results, Ends, Decided
  <1>1. CASE Prepare(r)
    <2>1. CASE Result(r, "cancelled", "cancelled")
      BY <1>1, <1>c, <2>1 DEF Prepare
    <2>2. CASE reg' = [reg EXCEPT ![r].status = "running"] /\ report' = report
      <3>1. /\ reg' \in [Requests -> Entries]
            /\ reg'[r].status = "running" /\ reg'[r].step = reg[r].step
            /\ \A s \in Requests : s # r => reg'[s] = reg[s]
        BY <1>e, <2>2, EntryWrite DEF Executions
      <3>2. ticket' = ticket /\ reg[r].step = 0
        BY <1>1, <1>d DEF Prepare
      <3> QED BY <1>t, <1>e, <1>f, <1>d, <2>2, <3>1, <3>2, ExecutionKeeps
    <2> QED BY <1>1, <2>1, <2>2 DEF Prepare
  <1>2. CASE Checkpoint(r)
    <2>1. CASE Result(r, "cancelled", "cancelled") /\ ticket' = ticket
      BY <1>c, <2>1
    <2>2. CASE /\ reg' = [reg EXCEPT ![r].step = @ + 1]
               /\ ticket' = [ticket EXCEPT ![r] = "pending"]
               /\ report' = report
      <3>0. reg[r].step = 0 /\ reg[r].status = "running"
        BY <1>2, <1>e DEF Checkpoint, GuardedStep, Steps
      <3>1. reg' = [reg EXCEPT ![r].step = 1]
        BY <2>2, <3>0, <1>e
      <3>2. /\ reg' \in [Requests -> Entries]
            /\ reg'[r].status = "running" /\ reg'[r].step = 1
            /\ \A s \in Requests : s # r => reg'[s] = reg[s]
        <4>1. 1 \in Steps
          BY DEF Steps
        <4> QED BY <1>e, <3>0, <3>1, <4>1, EntryWrite
      <3>3. /\ ticket' \in [Requests -> {"none", "pending", "approved", "denied"}]
            /\ \A s \in Requests : s # r => ticket'[s] = ticket[s]
            /\ ticket[r] \notin Decided
        BY <1>e, <1>d, <2>2, <3>0 DEF Decided
      <3> QED BY <1>t, <1>f, <2>2, <3>2, <3>3, ExecutionKeeps DEF LastStep
    <2> QED BY <1>2, <2>1, <2>2 DEF Checkpoint
  <1>3. CASE LeaveGuard(r)
    <2>0. ticket' = ticket
      BY <1>3 DEF LeaveGuard
    <2>1. CASE Result(r, "cancelled", "cancelled")
      BY <1>c, <2>0, <2>1
    <2>2. CASE reg' = [reg EXCEPT ![r].step = @ + 1] /\ report' = report
      <3>0. reg[r].step = 1 /\ reg[r].status = "running" /\ ticket[r] \in Decided
        BY <1>3 DEF LeaveGuard, GuardedStep, Decided
      <3>1. reg' = [reg EXCEPT ![r].step = 2]
        BY <2>2, <3>0, <1>e
      <3>2. /\ reg' \in [Requests -> Entries]
            /\ reg'[r].status = "running" /\ reg'[r].step = 2
            /\ \A s \in Requests : s # r => reg'[s] = reg[s]
        <4>1. 2 \in Steps
          BY DEF Steps
        <4> QED BY <1>e, <3>0, <3>1, <4>1, EntryWrite
      <3> QED BY <1>t, <1>e, <1>f, <2>0, <2>2, <3>0, <3>2, ExecutionKeeps
    <2> QED BY <1>3, <2>1, <2>2 DEF LeaveGuard
  <1>4. CASE Complete(r)
    <2>1. /\ Result(r, "succeeded", ticket[r]) /\ ticket' = ticket
          /\ ticket[r] \in Decided
      BY <1>4, <1>d DEF Complete
    <2> QED BY <1>t, <1>f, <2>1, ResultKeeps DEF Executions, Results, Ends, Decided
  <1>5. CASE FailRun(r)
    <2>1. Result(r, "failed", "failed") /\ ticket' = ticket
      BY <1>5 DEF FailRun
    <2> QED BY <1>t, <1>f, <2>1, ResultKeeps DEF Executions, Results, Ends, Decided
  <1> QED BY <1>1, <1>2, <1>3, <1>4, <1>5 DEF RunnerStep

\* So do a restart of the Runner, a decision in the console and the clocks.
LEMMA EnvironmentInv ==
  ASSUME DemoInv,
         RestartRunner \/ Deadline \/ Silence \/ \E r \in Requests : Decide(r)
  PROVE  DemoInv'
  <1>t. TypeOK
    BY DEF DemoInv
  <1>1. CASE RestartRunner
    <2>1. TypeOK'
      BY <1>1, <1>t DEF RestartRunner, TypeOK, Entries, NoEntry, Executions, Steps, rowVars,
                        createVars, given, controlVars
    <2>2. RunnerDiscipline'
      <3>1. \A r \in Requests : reg'[r] = NoEntry /\ report'[r] = report[r]
                               /\ ticket'[r] = ticket[r] /\ cpc'[r] = cpc[r]
        BY <1>1 DEF RestartRunner, createVars
      <3>2. NoEntry.status = "absent"
        BY DEF NoEntry
      <3> QED BY <3>1, <3>2 DEF DemoInv, RunnerDiscipline, Executing, InFlight
    <2> QED BY <1>1, <2>1, <2>2, RunnerFrame DEF RestartRunner, DemoInv
  <1>2. CASE \E r \in Requests : Decide(r)
    <2>1. PICK r \in Requests : Decide(r)
      BY <1>2
    <2>2. /\ ticket' \in [Requests -> {"none", "pending", "approved", "denied"}]
          /\ ticket[r] = "pending" /\ ticket'[r] \in Decided
          /\ \A s \in Requests : s # r => ticket'[s] = ticket[s]
          /\ UNCHANGED <<rowVars, createVars, stale, controlVars, runnerVars, unheard>>
      BY <2>1, <1>t DEF Decide, TypeOK, Decided
    <2>3. TypeOK'
      BY <2>2, <1>t DEF TypeOK, rowVars, createVars, given, controlVars, runnerVars
    <2>4. RunnerDiscipline'
      BY <2>2 DEF DemoInv, RunnerDiscipline, Executing, Decided, createVars, runnerVars
    <2>5. /\ \A s \in Requests : ticket[s] \in Decided => ticket'[s] = ticket[s]
          /\ report' = report
      BY <2>2 DEF Decided, runnerVars
    <2> QED BY <2>2, <2>3, <2>4, <2>5, RunnerFrame DEF DemoInv
  <1>3. CASE Deadline \/ Silence
    <2>1. /\ UNCHANGED <<row, createVars, stale, controlVars, runnerVars, ticket, unheard>>
          /\ overdue' \in BOOLEAN /\ silent' \in BOOLEAN
      BY <1>3, <1>t DEF Deadline, Silence, TypeOK
    <2>2. TypeOK'
      BY <2>1, <1>t DEF TypeOK, createVars, given, controlVars, runnerVars
    <2>3. RunnerDiscipline' /\ CreateDiscipline'
      BY <2>1 DEF DemoInv, RunnerDiscipline, CreateDiscipline, Executing, createVars, runnerVars
    <2>4. ControlDiscipline'
      BY <2>1 DEF DemoInv, ControlDiscipline, CopyIsTrue, SnapshotIsTrue, controlVars, runnerVars
    <2>5. ActiveDiscipline' /\ RecordedDecisionIsReal'
      BY <2>1 DEF DemoInv, ActiveDiscipline, RecordedDecisionIsReal, IsActive
    <2> QED BY <2>2, <2>3, <2>4, <2>5 DEF DemoInv
  <1> QED BY <1>1, <1>2, <1>3
-----------------------------------------------------------------------------
(* The theorems. *)

\* It holds before anything has happened.
LEMMA DemoInit == Init => DemoInv
  <1> SUFFICES ASSUME Init PROVE DemoInv
    OBVIOUS
  <1> USE DEF Init
  <1>1. PICK m \in Mixes : /\ faults = m.faults
                          /\ cpc = [r \in Requests |-> IF r \in m.posts THEN "new" ELSE "done"]
    OBVIOUS
  <1>2. faults \subseteq FaultKinds
    BY <1>1, DemoAssumption
  <1>a. NoRow \in Rows /\ NoEntry \in Entries
    BY DEF Rows, NoRow, Entries, NoEntry, Executions, Results, Steps
  <1>b. cpc \in [Requests -> {"new", "probing", "admitted", "created", "starting",
                             "replied", "refused", "done"}]
    BY <1>1
  <1>3. TypeOK
    BY <1>2, <1>a, <1>b, DemoAssumption DEF TypeOK, Results
  <1>4. RunnerDiscipline
    BY DEF RunnerDiscipline, Executing, NoEntry, InFlight, Decided
  <1>5. CreateDiscipline
    BY <1>1 DEF CreateDiscipline
  <1>6. ControlDiscipline /\ ActiveDiscipline /\ RecordedDecisionIsReal
    BY DEF ControlDiscipline, ActiveDiscipline, RecordedDecisionIsReal, IsActive, NoRow, Ongoing
  <1> QED BY <1>3, <1>4, <1>5, <1>6 DEF DemoInv

\* Every step of Next preserves it.
LEMMA DemoStep == DemoInv /\ [Next]_vars => DemoInv'
  <1> SUFFICES ASSUME DemoInv, [Next]_vars PROVE DemoInv'
    OBVIOUS
  <1>1. CASE UNCHANGED vars
    <2>1. TypeOK' /\ RunnerDiscipline'
      BY <1>1 DEF vars, rowVars, createVars, given, controlVars, runnerVars, DemoInv, TypeOK,
                  RunnerDiscipline, Executing
    <2>2. CreateDiscipline' /\ ControlDiscipline' /\ ActiveDiscipline' /\ RecordedDecisionIsReal'
      BY <1>1, RunnerFrame DEF vars, runnerVars
    <2> QED BY <2>1, <2>2 DEF DemoInv
  <1> QED BY <1>1, CreateInv, LoadInv, ControlInv, RunnerInv, EnvironmentInv DEF Next

\* Every reachable state satisfies the inductive invariant.
THEOREM DemoInvariant == Spec => []DemoInv
  BY DemoInit, DemoStep, PTL DEF Spec

\* Rows, handlers, registry and tickets keep their types (type invariant).
THEOREM DemoTypes == Spec => []TypeOK
  <1>1. DemoInv => TypeOK
    BY DEF DemoInv
  <1> QED BY DemoInvariant, <1>1, PTL

\* A row never claims a decision that AgentGuard did not take, whatever fails
\* and whoever else decides.
THEOREM DecisionsAreReal == Spec => []RecordedDecisionIsReal
  <1>1. DemoInv => RecordedDecisionIsReal
    BY DEF DemoInv
  <1> QED BY DemoInvariant, <1>1, PTL

\* A handler that denied a ticket calls Runner.Cancel before it gives the mutex
\* back, in every behaviour where a denial that took effect is answered as such.
THEOREM DenialsReachRunner ==
  ASSUME \A m \in Mixes : "guard_reply" \notin m.faults
  PROVE  Spec => []DenialReachesRunner
  <1>1. Init => DenialIsOwed
    BY DEF Init, DenialIsOwed
  <1>2. TypeOK /\ DenialIsOwed /\ [Next]_vars => DenialIsOwed'
    <2> SUFFICES ASSUME TypeOK, DenialIsOwed, [Next]_vars PROVE DenialIsOwed'
      OBVIOUS
    <2>f. faults' = faults
      BY DEF Next, CreateStep, ControlStep, RunnerStep, Lookup, Probe, Insert, PersistStarting,
             Start, ApplyStart, RefuseStart, AbandonCreate, CancelLoad, Prepare, Checkpoint,
             LeaveGuard, Complete, FailRun, Decide, Deadline, Silence, MonitorLoad, DenyOverdue,
             CancelOverdue, EndOverdue, Get, LinkApproval, Apply, EndGiveUp, DenyFirst,
             CancelRunner, PersistCancellation, AbandonControl, RestartRunner, vars, createVars,
             given
    <2>g. "guard_reply" \notin faults' /\ (unheard' = {} => DenialIsOwed')
      BY <2>f DEF DenialIsOwed
    <2>1. CASE DenyOverdue \/ DenyFirst
      <3>1. unheard = {}
        BY <2>1 DEF DenialIsOwed, DenyOverdue, DenyFirst
      <3>2. \/ unheard' = unheard
            \/ unheard' = unheard \cup {run} /\ run' = run /\ pc' \in {"cancel_overdue", "cancel"}
        BY <2>1 DEF DenialIsOwed, DenyOverdue, DenyFirst, DenyFails, DenyTakesEffect,
                    TicketGone, Continue
      <3> QED BY <2>g, <3>1, <3>2 DEF DenialIsOwed
    <2>2. CASE CancelOverdue \/ CancelRunner
      <3>1. unheard' = {}
        BY <2>2 DEF DenialIsOwed, CancelOverdue, CancelRunner
      <3> QED BY <2>g, <3>1
    <2>3. CASE AbandonControl
      BY <2>g, <2>3 DEF AbandonControl
    <2>4. CASE EndOverdue \/ Get \/ LinkApproval \/ Apply \/ EndGiveUp \/ PersistCancellation
               \/ MonitorLoad \/ \E r \in Requests : CancelLoad(r)
      <3>1. unheard' = unheard /\ pc \notin {"cancel_overdue", "cancel"}
        BY <2>4 DEF EndOverdue, Get, LinkApproval, Apply, EndGiveUp, PersistCancellation,
                    MonitorLoad, CancelLoad
      <3> QED BY <2>g, <3>1 DEF DenialIsOwed
    <2>5. CASE \/ \E r \in Requests : CreateStep(r) \/ AbandonCreate(r) \/ RunnerStep(r)
                                      \/ FailRun(r) \/ Decide(r)
               \/ Deadline \/ Silence \/ RestartRunner \/ UNCHANGED vars
      <3>1. UNCHANGED <<unheard, controlVars>>
        BY <2>5 DEF CreateStep, RunnerStep, Lookup, Probe, Insert, PersistStarting,
             Start, ApplyStart, RefuseStart, AbandonCreate, Prepare, Checkpoint,
             LeaveGuard, Complete, FailRun, Decide, Deadline, Silence, RestartRunner, vars
      <3> QED BY <2>g, <3>1 DEF DenialIsOwed, controlVars
    <2> QED BY <2>1, <2>2, <2>3, <2>4, <2>5 DEF Next, ControlStep
  <1>3. TypeOK /\ DenialIsOwed => DenialReachesRunner
    BY DEF DenialIsOwed, DenialReachesRunner
  <1> QED BY <1>1, <1>2, <1>3, DemoTypes, PTL DEF Spec
-----------------------------------------------------------------------------
(* The refinement of RunLifecycle. *)

\* A step that changes one row at most, as RunLifecycle sees it.
LEMMA RowMaps ==
  ASSUME NEW r \in Requests, \A s \in Requests : s # r => row'[s] = row[s],
         report' = report,
         \/ row'[r].status = row[r].status /\ row'[r].outcome = row[r].outcome
         \/ /\ row[r].status = "absent" /\ ActiveRuns = {}
            /\ row'[r].status = "queued" /\ row'[r].outcome = row[r].outcome
         \/ /\ row[r].status \in Ongoing
            /\ row'[r].status \in Lifecycle!Onward[row[r].status]
            /\ row'[r].outcome = row[r].outcome
         \/ /\ row[r].status \in Ongoing
            /\ report[r] # "none"
            /\ row'[r].status = Lifecycle!StatusOf(report[r])
            /\ row'[r].outcome = report[r]
         \/ /\ row[r].status \in Ongoing
            /\ \/ row'[r].status = "interrupted"
               \/ row'[r].status = "expired" /\ row[r].status = "waiting"
            /\ row'[r].outcome \in {"failed", "cancelled"}
  PROVE  [Lifecycle!LifecycleNext]_Lifecycle!runVars
  <1> DEFINE status == [s \in Requests |-> row[s].status]
             outcome == [s \in Requests |-> row[s].outcome]
  <1>1. /\ status' = [status EXCEPT ![r] = row'[r].status]
        /\ outcome' = [outcome EXCEPT ![r] = row'[r].outcome]
    OBVIOUS
  <1>2. status[r] = row[r].status /\ outcome[r] = row[r].outcome
    OBVIOUS
  <1>3. /\ row'[r].status = row[r].status => status' = status
        /\ row'[r].outcome = row[r].outcome => outcome' = outcome
    OBVIOUS
  <1>o. Lifecycle!Ongoing = Ongoing
    BY DEF Lifecycle!Ongoing, Ongoing
  <1>4. CASE row'[r].status = row[r].status /\ row'[r].outcome = row[r].outcome
    BY <1>3, <1>4 DEF Lifecycle!runVars
  <1>5. CASE /\ row[r].status = "absent" /\ ActiveRuns = {}
             /\ row'[r].status = "queued" /\ row'[r].outcome = row[r].outcome
    <2>1. \A s \in Requests : status[s] \notin Lifecycle!Ongoing
      BY <1>5, <1>o DEF ActiveRuns, IsActive
    <2> HIDE DEF status, outcome
    <2>2. Lifecycle!Request(r)
      BY <1>1, <1>2, <1>3, <1>5, <2>1 DEF Lifecycle!Request, status, outcome
    <2> QED BY <2>2 DEF Lifecycle!LifecycleNext
  <1>6. CASE /\ row[r].status \in Ongoing
             /\ row'[r].status \in Lifecycle!Onward[row[r].status]
             /\ row'[r].outcome = row[r].outcome
    <2>2. Lifecycle!Progress(r)
      BY <1>1, <1>2, <1>3, <1>6, <1>o DEF Lifecycle!Progress
    <2> QED BY <2>2 DEF Lifecycle!LifecycleNext
  <1>7. CASE /\ row[r].status \in Ongoing
             /\ report[r] # "none"
             /\ row'[r].status = Lifecycle!StatusOf(report[r])
             /\ row'[r].outcome = report[r]
    <2>2. Lifecycle!Conclude(r)
      BY <1>1, <1>2, <1>7, <1>o DEF Lifecycle!Conclude
    <2> QED BY <2>2 DEF Lifecycle!LifecycleNext
  <1>8. CASE /\ row[r].status \in Ongoing
             /\ \/ row'[r].status = "interrupted"
                \/ row'[r].status = "expired" /\ row[r].status = "waiting"
             /\ row'[r].outcome \in {"failed", "cancelled"}
    <2>2. Lifecycle!GiveUp(r)
      BY <1>1, <1>2, <1>8, <1>o DEF Lifecycle!GiveUp
    <2> QED BY <2>2 DEF Lifecycle!LifecycleNext
  <1> QED BY <1>4, <1>5, <1>6, <1>7, <1>8

\* What a snapshot may make of an active row, in RunLifecycle's terms.
LEMMA SnapshotMaps ==
  ASSUME DemoInv, run \in Requests, SnapshotIsTrue, NEW old \in Rows, NEW pending \in BOOLEAN,
         old.status = row[run].status, IsActive(run), Acceptable(old, snapshot),
         report' = report,
         row'[run] = Applied(old, snapshot, pending),
         \A s \in Requests : s # run => row'[s] = row[s]
  PROVE  [Lifecycle!LifecycleNext]_Lifecycle!runVars
  <1>1. /\ snapshot.status \in Executions \ {"absent"} /\ snapshot.step \in Steps
        /\ snapshot.status \in InFlight => snapshot.outcome = "none"
        /\ snapshot.status \notin InFlight =>
              Ends(snapshot.status, snapshot.outcome) /\ snapshot.outcome = report[run]
    BY DEF SnapshotIsTrue
  <1>2. row[run].outcome = "none" /\ old.status \in Ongoing
    BY DEF DemoInv, ActiveDiscipline, IsActive
  <1>3. /\ row'[run].outcome = snapshot.outcome
        /\ IF snapshot.status \in InFlight
           THEN row'[run].status \in Lifecycle!Onward[old.status]
           ELSE row'[run].status = snapshot.status
    BY <1>1, <1>2, AppliedRow
  <1>4. CASE snapshot.status \in InFlight
    BY <1>1, <1>2, <1>3, <1>4, RowMaps
  <1>5. CASE snapshot.status \notin InFlight
    <2>1. report[run] # "none" /\ snapshot.status = Lifecycle!StatusOf(report[run])
      BY <1>1, <1>5 DEF Ends, Decided, Lifecycle!StatusOf
    <2> QED BY <1>1, <1>2, <1>3, <1>5, <2>1, RowMaps
  <1> QED BY <1>4, <1>5

\* A handler that writes no row, and an execution that reports its end.
LEMMA RowsStay ==
  ASSUME UNCHANGED <<row, report>>
  PROVE  [Lifecycle!LifecycleNext]_Lifecycle!runVars
  BY DEF Lifecycle!runVars

LEMMA FinishMaps ==
  ASSUME DemoInv, NEW r \in Requests, Executing(r), row' = row,
         NEW status, NEW result \in Lifecycle!Reports, Result(r, status, result)
  PROVE  [Lifecycle!LifecycleNext]_Lifecycle!runVars
  <1>1. report[r] = "none"
    BY DEF DemoInv, RunnerDiscipline, Executing, InFlight
  <1>2. Lifecycle!Finish(r)
    BY <1>1 DEF Lifecycle!Finish, Result
  <1> QED BY <1>2 DEF Lifecycle!LifecycleNext

\* Create: an insertion is a request, PersistStarting progress, a refusal the
\* end of the run.
LEMMA CreateMaps ==
  ASSUME DemoInv, NEW r \in Requests, CreateStep(r) \/ AbandonCreate(r)
  PROVE  [Lifecycle!LifecycleNext]_Lifecycle!runVars
  <1>t. row \in [Requests -> Rows]
    BY DEF DemoInv, TypeOK
  <1>f. /\ report' = report
        /\ IsActive(r) => row[r].outcome = "none"
        /\ r \notin stale /\ cpc[r] = "created" => row[r].status = "queued"
        /\ r \notin stale /\ cpc[r] \in {"starting", "replied", "refused"} =>
              row[r].status = "starting"
        /\ cpc[r] = "admitted" => row[r] = NoRow
    BY DEF DemoInv, ActiveDiscipline, CreateDiscipline, CreateStep, Lookup, Probe, Insert,
           PersistStarting, Start, ApplyStart, RefuseStart, AbandonCreate, runnerVars
  <1>w. ASSUME NEW new, row' = [row EXCEPT ![r] = new]
        PROVE  row'[r] = new /\ \A s \in Requests : s # r => row'[s] = row[s]
    BY <1>w, <1>t
  <1>1. CASE row' = row
    BY <1>1, <1>f, RowsStay
  <1>2. CASE Insert(r) /\ row' # row
    <2>1. /\ row' = [row EXCEPT ![r] = [NoRow EXCEPT !.status = "queued"]]
          /\ ActiveRuns = {} /\ row[r] = NoRow
      BY <1>2, <1>f DEF Insert, Write, WriteHeard, KeepRow, rowVars
    <2>2. /\ row'[r].status = "queued" /\ row'[r].outcome = row[r].outcome
          /\ row[r].status = "absent"
      BY <1>t, <2>1 DEF NoRow
    <2> QED BY <1>w, <1>f, <2>1, <2>2, RowMaps
  <1>3. CASE PersistStarting(r) /\ row' # row
    <2>1. /\ row' = [row EXCEPT ![r] = [row[r] EXCEPT !.status = "starting"]]
          /\ row[r].status = "queued"
      BY <1>3, <1>f DEF PersistStarting, CreateWrites, WriteHeard, KeepRow, rowVars
    <2>2. row'[r].status = "starting" /\ row'[r].outcome = row[r].outcome
      BY <1>t, <2>1 DEF Rows
    <2>3. "queued" \in Ongoing /\ "starting" \in Lifecycle!Onward["queued"]
      BY DEF Ongoing, Lifecycle!Onward
    <2> QED BY <1>w, <1>f, <2>1, <2>2, <2>3, RowMaps
  <1>4. CASE ApplyStart(r)
    <2>1. row' = [row EXCEPT ![r] = row[r]] \/ row' = row
      BY <1>4 DEF ApplyStart, CreateWrites, WriteHeard, KeepRow, rowVars
    <2>2. row' = row
      BY <1>t, <2>1
    <2> QED BY <1>1, <2>2
  <1>5. CASE RefuseStart(r) /\ row' # row
    <2>1. /\ row' = [row EXCEPT ![r] = Ended(row[r], "interrupted", "failed")]
          /\ row[r].status = "starting"
      BY <1>5, <1>f DEF RefuseStart, CreateWrites, WriteHeard, KeepRow, rowVars
    <2>2. row'[r].status = "interrupted" /\ row'[r].outcome = "failed"
      BY <1>t, <1>w, <2>1, EndedRow DEF Terminal, Results
    <2>3. "starting" \in Ongoing
      BY DEF Ongoing
    <2> QED BY <1>w, <1>f, <2>1, <2>2, <2>3, RowMaps
  <1>6. CASE Lookup(r) \/ Probe(r) \/ Start(r) \/ AbandonCreate(r)
    BY <1>1, <1>6 DEF Lookup, Probe, Start, AbandonCreate, rowVars
  <1> QED BY <1>1, <1>2, <1>3, <1>4, <1>5, <1>6 DEF CreateStep

\* The Monitor and Cancel: progress, the result the execution had, or giving up.
LEMMA ControlMaps ==
  ASSUME DemoInv, ControlStep \/ AbandonControl
  PROVE  [Lifecycle!LifecycleNext]_Lifecycle!runVars
  <1>t. row \in [Requests -> Rows] /\ pc # "free" /\ run \in Requests
    BY DEF DemoInv, TypeOK, ControlStep, AbandonControl, DenyOverdue, CancelOverdue,
           EndOverdue, Get, LinkApproval, Apply, EndGiveUp, DenyFirst, CancelRunner,
           PersistCancellation
  <1>c. CopyIsTrue
    BY <1>t DEF DemoInv, ControlDiscipline
  <1>f. report' = report
    BY DEF ControlStep, AbandonControl, DenyOverdue, CancelOverdue, runnerVars,
           EndOverdue, Get, LinkApproval, Apply, EndGiveUp, DenyFirst, CancelRunner,
           PersistCancellation
  <1>w. ASSUME NEW new, row' = [row EXCEPT ![run] = new]
        PROVE  row'[run] = new /\ \A s \in Requests : s # run => row'[s] = row[s]
    BY <1>w, <1>t
  <1>1. CASE row' = row
    BY <1>1, <1>f, RowsStay
  <1>e. ASSUME NEW old \in Rows, IsActive(run), NEW status \in {"interrupted", "expired"},
               status = "expired" => row[run].status = "waiting",
               NEW outcome \in {"failed", "cancelled"},
               row' = [row EXCEPT ![run] = Ended(old, status, outcome)]
        PROVE  [Lifecycle!LifecycleNext]_Lifecycle!runVars
    <2>1. row'[run].status = status /\ row'[run].outcome = outcome
      <3>1. status \in Terminal /\ outcome \in Results
        BY DEF Terminal, Results
      <3>2. row'[run] = Ended(old, status, outcome)
        BY <1>w, <1>e
      <3> QED BY <3>1, <3>2, EndedRow
    <2>2. row[run].status \in Ongoing
      BY <1>e DEF IsActive
    <2> QED BY <1>t, <1>w, <1>e, <1>f, <2>1, <2>2, RowMaps
  <1>m. ASSUME NEW new, NEW heard, MonitorWrites(new, heard), row' # row
        PROVE  row' = [row EXCEPT ![run] = new] /\ row[run].status = view.status /\ IsActive(run)
    BY <1>c, <1>m DEF MonitorWrites, WriteHeard, KeepRow, rowVars, CopyIsTrue, IsActive
  <1>2. CASE EndOverdue /\ row' # row
    <2> DEFINE end == IF view.status = "waiting" THEN "expired" ELSE "interrupted"
    <2>1. MonitorWrites(Ended(view, end, "failed"), FALSE)
      BY <1>2 DEF EndOverdue
    <2>2. /\ row' = [row EXCEPT ![run] = Ended(view, end, "failed")]
          /\ row[run].status = view.status /\ IsActive(run)
      BY <1>2, <1>m, <2>1
    <2>3. view \in Rows
      BY <1>c DEF CopyIsTrue
    <2> QED BY <1>e, <2>2, <2>3
  <1>3. CASE EndGiveUp /\ row' # row
    <2>1. MonitorWrites(Ended(view, "interrupted", "failed"), FALSE)
      BY <1>3 DEF EndGiveUp
    <2>2. row' = [row EXCEPT ![run] = Ended(view, "interrupted", "failed")] /\ IsActive(run)
      BY <1>3, <1>m, <2>1
    <2>3. view \in Rows
      BY <1>c DEF CopyIsTrue
    <2> QED BY <1>e, <2>2, <2>3
  <1>4. CASE Apply /\ row' # row
    <2>1. /\ Acceptable(view, snapshot)
          /\ MonitorWrites(Applied(view, snapshot, linked), TRUE)
      BY <1>4 DEF Apply, KeepRow, rowVars
    <2>2. /\ row' = [row EXCEPT ![run] = Applied(view, snapshot, linked)]
          /\ row[run].status = view.status /\ IsActive(run)
      BY <1>4, <1>m, <2>1
    <2>3. view \in Rows /\ linked \in BOOLEAN /\ SnapshotIsTrue
      BY <1>4, <1>c DEF CopyIsTrue, DemoInv, TypeOK, ControlDiscipline, Apply
    <2> QED BY <1>t, <1>f, <1>w, <2>1, <2>2, <2>3, SnapshotMaps
  <1>5. CASE PersistCancellation /\ row' # row
    <2> DEFINE old == Denied(row[run], denied)
    <2>1. old \in Rows /\ old.status = row[run].status /\ old.outcome = row[run].outcome
      <3>1. row[run] \in Rows /\ denied \in BOOLEAN
        BY <1>t DEF DemoInv, TypeOK
      <3> QED BY <3>1, DeniedRow
    <2> HIDE DEF old
    <2>w. ASSUME NEW new, NEW heard, CancelWrites(new, heard)
          PROVE  row' = [row EXCEPT ![run] = new] /\ IsActive(run)
      BY <1>5, <2>w DEF CancelWrites, WriteHeard, KeepRow, rowVars
    <2>2. CASE /\ pc = "cancel_apply"
               /\ Acceptable(old, snapshot)
               /\ CancelWrites(Applied(old, snapshot, FALSE), TRUE)
      <3>1. SnapshotIsTrue
        BY <2>2 DEF DemoInv, ControlDiscipline
      <3> QED BY <1>t, <1>f, <1>w, <2>1, <2>2, <2>w, <3>1, SnapshotMaps
    <2>3. CASE CancelWrites(Ended(old, "interrupted", "failed"), FALSE)
      BY <1>e, <2>1, <2>3, <2>w
    <2>4. CASE CancelWrites(Ended(old, "interrupted", "cancelled"), FALSE)
      BY <1>e, <2>1, <2>4, <2>w
    <2>5. CASE CancelWrites(old, FALSE)
      <3>1. row'[run] = old /\ \A s \in Requests : s # run => row'[s] = row[s]
        BY <1>w, <2>5, <2>w
      <3> QED BY <1>t, <1>f, <2>1, <3>1, RowMaps
    <2> QED BY <1>5, <2>2, <2>3, <2>4, <2>5 DEF PersistCancellation, old
  <1>6. CASE DenyOverdue \/ CancelOverdue \/ Get \/ LinkApproval \/ DenyFirst \/ CancelRunner
             \/ AbandonControl
    BY <1>1, <1>6 DEF DenyOverdue, CancelOverdue, Get, LinkApproval, DenyFirst, CancelRunner,
                      AbandonControl, rowVars
  <1> QED BY <1>1, <1>2, <1>3, <1>4, <1>5, <1>6 DEF ControlStep

\* The Runner: a result finishes the execution, everything else is invisible.
LEMMA RunnerMaps ==
  ASSUME DemoInv, NEW r \in Requests, RunnerStep(r) \/ FailRun(r)
  PROVE  [Lifecycle!LifecycleNext]_Lifecycle!runVars
  <1>1. row' = row /\ Executing(r)
    BY DEF RunnerStep, Prepare, Checkpoint, LeaveGuard, Complete, FailRun, Executing, rowVars
  <1>2. CASE report' = report
    BY <1>1, <1>2, RowsStay
  <1>3. CASE Result(r, "cancelled", "cancelled") \/ Result(r, "failed", "failed")
    BY <1>1, <1>3, FinishMaps DEF Lifecycle!Reports
  <1>4. CASE Complete(r)
    <2>1. ticket[r] \in Lifecycle!Reports
      BY <1>1, <1>4 DEF Complete, DemoInv, RunnerDiscipline, Decided, Lifecycle!Reports
    <2> QED BY <1>1, <1>4, <2>1, FinishMaps DEF Complete
  <1> QED BY <1>2, <1>3, <1>4 DEF RunnerStep, Prepare, Checkpoint, LeaveGuard, FailRun

\* The rows follow the life cycle: one active run, legal moves, one end that is
\* final and, when it is a result, the one the execution had.
THEOREM RowsFollowLifecycle == Spec => FollowsLifecycle
  <1>1. Init => Lifecycle!LifecycleInit
    BY DEF Init, NoRow, Lifecycle!LifecycleInit
  <1>2. DemoInv /\ [Next]_vars => [Lifecycle!LifecycleNext]_Lifecycle!runVars
    <2> SUFFICES ASSUME DemoInv, [Next]_vars
                 PROVE  [Lifecycle!LifecycleNext]_Lifecycle!runVars
      OBVIOUS
    <2>1. CASE \/ MonitorLoad \/ Deadline \/ Silence \/ RestartRunner
               \/ \E r \in Requests : CancelLoad(r) \/ Decide(r)
               \/ UNCHANGED vars
      BY <2>1, RowsStay DEF MonitorLoad, Deadline, Silence, RestartRunner, CancelLoad, Decide,
                            vars, rowVars, runnerVars
    <2> QED BY <2>1, CreateMaps, ControlMaps, RunnerMaps DEF Next
  <1> QED BY <1>1, <1>2, DemoInvariant, PTL DEF Spec, FollowsLifecycle, Lifecycle!LifecycleSpec
=============================================================================
