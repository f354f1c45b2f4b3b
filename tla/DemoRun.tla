------------------------------ MODULE DemoRun ------------------------------
(***************************************************************************)
(* Orchestration of Demo Lab runs.  A run is a row of demo_runs, written   *)
(* with an optimistic version by three kinds of code: the POST handler     *)
(* that creates it, the Monitor and the Cancel handler.  The last two hold *)
(* controlMu; Create does not.  The run executes in the Runner, another    *)
(* process with an in-memory registry, and may stop inside it at an        *)
(* AgentGuard approval ticket that a person or the BFF resolves.  Each     *)
(* call to the Runner or to AgentGuard is a step of its own and can fail,  *)
(* before or after it took effect.                                         *)
(*                                                                         *)
(* Every run is one of the approval scenario: the others are the same run  *)
(* without its ticket.  The version of a row is represented by the         *)
(* handlers whose copy of it is out of date ("stale"): an update fails     *)
(* exactly for them.                                                       *)
(***************************************************************************)
EXTENDS Naturals, FiniteSets

CONSTANTS Requests,      \* POSTs to create a run; a run is named by its POST
          Keys,          \* Idempotency-Key values
          Cancellable,   \* runs somebody may ask to cancel
          Mixes,         \* the POSTs that are made, and what can go wrong
                         \* (see FaultKinds): a behaviour has one of them
          NoRun

FaultKinds ==
    {"silence",      \* no heartbeat is stored for RunnerLostAfter
     "runner",       \* a Runner call fails without effect
     "reply",        \* a Runner call takes effect, its answer is lost
     "contract",     \* the Runner answers something malformed
     "guard",        \* resolving a ticket fails without effect
     "guard_reply",  \* a ticket is resolved but an error is returned
     "abort",        \* a handler dies: client gone, database error, restart
     "workflow",     \* the workflow itself fails
     "restart"}      \* the Runner loses its registry

\* The holder of controlMu, as a handler beside the POSTs.
Control == "control"

ASSUME DemoAssumption == /\ Cancellable \subseteq Requests
                         /\ \A m \in Mixes : /\ m.posts \subseteq Requests
                                              /\ m.faults \subseteq FaultKinds
                         /\ NoRun \notin Requests
                         /\ Control \notin Requests

VARIABLES
    faults,   \* what can go wrong in this behaviour
    key,      \* Idempotency-Key of each POST
    row,      \* demo_runs
    overdue,  \* RunTimeout has passed since the active run was requested
    silent,   \* RunnerLostAfter has passed since its last heartbeat
    cpc,      \* where each Create handler is
    active,   \* the active run its readiness check read from the database
    stale,    \* handlers whose copy of the row somebody else has updated
    pc,       \* where the holder of controlMu is, "free" if there is none
    run,      \* the run it works on
    view,     \* its copy of the row
    snapshot, \* the Runner's answer
    linked,   \* it found a pending ticket for the session
    denied,   \* Cancel denied the ticket
    reg,      \* the Runner's registry
    ticket,   \* AgentGuard's ticket for the session
    report,   \* how the execution of the run ended
    unheard   \* runs whose ticket a handler denied, and that it still owes a
              \* Runner.Cancel; a handler that dies owes nothing any more

rowVars     == <<row, overdue, silent>>
given       == <<faults, key>>
createVars  == <<given, cpc, active>>
controlVars == <<pc, run, view, snapshot, linked, denied>>
runnerVars  == <<reg, report>>
vars == <<rowVars, createVars, stale, controlVars, runnerVars, ticket, unheard>>

Handlers == Requests \cup {Control}

Ongoing  == {"queued", "starting", "running", "waiting"}
Terminal == {"succeeded", "failed", "cancelled", "interrupted", "expired"}
IsActive(r) == row[r].status \in Ongoing
ActiveRuns == {r \in Requests : IsActive(r)}
ActiveRun == IF ActiveRuns = {} THEN NoRun ELSE CHOOSE r \in ActiveRuns : TRUE

NoRow == [status |-> "absent", outcome |-> "none", approval |-> "none", step |-> 0]
NoEntry == [status |-> "absent", step |-> 0, cancel |-> FALSE]

\* Steps of the workflow: before the guarded action, inside it, and past the
\* last check for cancellation.
Steps == 0..2
GuardedStep == 1
LastStep == 2
Executing(r) == reg[r].status \in {"queued", "running"}
RunnerActive == IF \E r \in Requests : Executing(r)
                THEN CHOOSE r \in Requests : Executing(r) ELSE NoRun

ValidTransition(from, to) ==
    \/ from = to
    \/ to \in CASE from = "queued"   -> {"starting", "cancelled", "interrupted",
                                         "failed"}
                [] from = "starting" -> {"running", "waiting", "succeeded",
                                         "failed", "cancelled", "interrupted"}
                [] from = "running"  -> {"waiting", "succeeded", "failed",
                                         "cancelled", "interrupted"}
                [] from = "waiting"  -> {"running", "succeeded", "failed",
                                         "cancelled", "interrupted", "expired"}
                [] OTHER -> {}

Mapped(status) == IF status = "queued" THEN "starting" ELSE status

\* applyRunnerSnapshotWithApproval: refused as a contract violation, or the row
\* that results.  A run stays in waiting while its step has not moved.
Acceptable(old, snap) == /\ ValidTransition(old.status, Mapped(snap.status))
                         /\ old.step <= snap.step
Applied(old, snap, pending) ==
    LET mapped == Mapped(snap.status)
        waits  == \/ pending
                  \/ old.status = "waiting" /\ snap.step = old.step
    IN  [status   |-> IF mapped = "running" /\ waits THEN "waiting" ELSE mapped,
         outcome  |-> snap.outcome,
         step     |-> snap.step,
         approval |-> CASE pending -> "pending"
                        [] /\ ~pending
                           /\ old.approval # "none"
                           /\ snap.outcome \in {"approved", "denied"} -> snap.outcome
                        [] OTHER -> old.approval]

Ended(old, status, outcome) ==
    [old EXCEPT !.status = status, !.outcome = outcome]
Denied(old, how) == [old EXCEPT !.approval = IF how THEN "denied" ELSE @]

SnapshotOf(r) == [status |-> reg[r].status, step |-> reg[r].step,
                  outcome |-> report[r]]
NoSnapshot == [status |-> "absent", step |-> 0, outcome |-> "none"]

\* UpdateDemoRun ... WHERE run_version = expected: every other copy is stale.
Holders(r) == (IF cpc[r] = "done" THEN {} ELSE {r}) \cup
              (IF run = r THEN {Control} ELSE {})
WriteHeard(handler, r, new, heard) ==
    /\ row' = [row EXCEPT ![r] = new]
    /\ stale' = (stale \cup Holders(r)) \ {handler}
    /\ overdue' = (overdue /\ new.status \in Ongoing)
    /\ silent' = (silent /\ new.status \in Ongoing /\ ~heard)
Write(handler, r, new) == WriteHeard(handler, r, new, FALSE)
KeepRow == UNCHANGED <<rowVars, stale>>

Init == /\ key \in [Requests -> Keys]
        /\ row = [r \in Requests |-> NoRow]
        /\ overdue = FALSE /\ silent = FALSE
        /\ \E m \in Mixes :
             /\ faults = m.faults
             /\ cpc = [r \in Requests |-> IF r \in m.posts THEN "new" ELSE "done"]
        /\ active = [r \in Requests |-> NoRun]
        /\ stale = {}
        /\ pc = "free" /\ run = NoRun /\ view = NoRow
        /\ snapshot = NoSnapshot /\ linked = FALSE /\ denied = FALSE
        /\ reg = [r \in Requests |-> NoEntry]
        /\ report = [r \in Requests |-> "none"]
        /\ ticket = [r \in Requests |-> "none"]
        /\ unheard = {}
-----------------------------------------------------------------------------
(* Create *)

Goto(r, where) == cpc' = [cpc EXCEPT ![r] = where]

\* GetDemoRunByRequestID, then Status reads the active run.
Lookup(r) ==
    /\ cpc[r] = "new"
    /\ IF \E other \in Requests : key[other] = key[r] /\ row[other] # NoRow
       THEN Goto(r, "done") /\ UNCHANGED active
       ELSE Goto(r, "probing") /\ active' = [active EXCEPT ![r] = ActiveRun]
    /\ UNCHANGED <<given, rowVars, stale, controlVars, runnerVars, ticket, unheard>>

\* The Runner's probe: its active run must be the one the database named.
Probe(r) ==
    /\ cpc[r] = "probing"
    /\ Goto(r, IF RunnerActive = active[r] THEN "admitted" ELSE "done")
    /\ active' = [active EXCEPT ![r] = NoRun]
    /\ UNCHANGED <<given, rowVars, stale, controlVars, runnerVars, ticket,
                   unheard>>

\* Mutant: no unique index on being active.
InsertBesideActive(r) ==
    /\ cpc[r] = "admitted"
    /\ IF \E other \in Requests : key[other] = key[r] /\ row[other] # NoRow
       THEN Goto(r, "done") /\ KeepRow
       ELSE Goto(r, "created") /\ Write(r, r, [NoRow EXCEPT !.status = "queued"])
    /\ UNCHANGED <<given, active, controlVars, runnerVars, ticket, unheard>>

\* CreateDemoRun: unique on request_id, and on being active.
Insert(r) ==
    /\ cpc[r] = "admitted"
    /\ IF \/ \E other \in Requests : key[other] = key[r] /\ row[other] # NoRow
          \/ ActiveRuns # {}
       THEN Goto(r, "done") /\ KeepRow
       ELSE Goto(r, "created") /\ Write(r, r, [NoRow EXCEPT !.status = "queued"])
    /\ UNCHANGED <<given, active, controlVars, runnerVars, ticket,
                   unheard>>

\* persist inside Create: ErrStateChanged ends the handler.
CreateWrites(r, new, heard, where) ==
    IF r \notin stale THEN WriteHeard(r, r, new, heard) /\ Goto(r, where)
                   ELSE Goto(r, "done") /\ KeepRow

PersistStarting(r) ==
    /\ cpc[r] = "created"
    /\ CreateWrites(r, [row[r] EXCEPT !.status = "starting"], FALSE, "starting")
    /\ UNCHANGED <<given, active, controlVars, runnerVars, ticket,
                   unheard>>

\* RunRegistry.start: one active execution.  Each run is started once.
Start(r) ==
    /\ cpc[r] = "starting"
    /\ \/ /\ RunnerActive = NoRun
          /\ reg' = [reg EXCEPT ![r].status = "queued"]
          /\ \/ Goto(r, "replied")
             \/ {"reply", "contract"} \cap faults # {} /\ Goto(r, "refused")
       \/ /\ RunnerActive # NoRun \/ "runner" \in faults
          /\ Goto(r, "refused")
          /\ UNCHANGED reg
    /\ UNCHANGED <<given, active, rowVars, stale, controlVars, report, ticket,
                   unheard>>

\* applyRunnerSnapshot of the answer, which is always a queued execution.
ApplyStart(r) ==
    /\ cpc[r] = "replied"
    /\ CreateWrites(r, row[r], TRUE, "done")
    /\ UNCHANGED <<given, active, controlVars, runnerVars, ticket, unheard>>

RefuseStart(r) ==
    /\ cpc[r] = "refused"
    /\ CreateWrites(r, Ended(row[r], "interrupted", "failed"), FALSE, "done")
    /\ UNCHANGED <<given, active, controlVars, runnerVars, ticket,
                   unheard>>

AbandonCreate(r) ==
    /\ "abort" \in faults
    /\ cpc[r] \notin {"new", "done"}
    /\ Goto(r, "done")
    /\ UNCHANGED <<given, active, rowVars, stale, controlVars, runnerVars, ticket,
                   unheard>>
-----------------------------------------------------------------------------
(* Monitor and Cancel, one at a time under controlMu *)

\* The mutex is given back; what its holder knew is forgotten.
Release == /\ pc' = "free" /\ run' = NoRun /\ view' = NoRow
           /\ snapshot' = NoSnapshot /\ linked' = FALSE /\ denied' = FALSE
Continue(where) == /\ pc' = where
                   /\ UNCHANGED <<run, view, snapshot, linked, denied>>

\* Read a row and enter at a first step.
Load(r, where) == /\ pc' = where /\ run' = r /\ view' = row[r]
                  /\ stale' = stale \ {Control}
                  /\ UNCHANGED <<snapshot, linked, denied>>

MonitorLoad ==
    /\ pc = "free"
    /\ ActiveRun # NoRun
    /\ Load(ActiveRun, CASE ~overdue -> "get"
                         [] row[ActiveRun].status = "waiting" -> "deny_overdue"
                         [] OTHER -> "cancel_overdue")
    /\ UNCHANGED <<rowVars, createVars, runnerVars, ticket, unheard>>

CancelLoad(r) ==
    /\ pc = "free"
    /\ r \in Cancellable
    /\ IsActive(r)
    /\ Load(r, IF row[r].status = "waiting" /\ row[r].approval = "pending"
               THEN "deny" ELSE "cancel")
    /\ UNCHANGED <<rowVars, createVars, runnerVars, ticket, unheard>>

\* ResolveApproval(deny): the ticket must still be pending.
DenyTakesEffect == /\ ticket[run] = "pending"
                   /\ ticket' = [ticket EXCEPT ![run] = "denied"]
                   /\ unheard' = unheard \cup {run}
DenyFails == \/ /\ "guard" \in faults /\ ticket[run] = "pending"
                /\ UNCHANGED <<ticket, unheard>>
             \/ "guard_reply" \in faults /\ DenyTakesEffect
TicketGone == ticket[run] # "pending" /\ UNCHANGED <<ticket, unheard>>

\* Mutant: a ticket that is gone is taken to have been denied.
AssumeDenied ==
    /\ pc = "deny_overdue"
    /\ \/ view.approval # "pending" /\ Release /\ UNCHANGED <<ticket, unheard>>
       \/ view.approval = "pending" /\ DenyFails /\ Release
       \/ /\ view.approval = "pending"
          /\ TicketGone \/ DenyTakesEffect
          /\ pc' = "cancel_overdue"
          /\ view' = Denied(view, TRUE)
          /\ UNCHANGED <<run, snapshot, linked, denied>>
    /\ UNCHANGED <<rowVars, createVars, stale, runnerVars>>

\* Mutant: a ticket that is gone is an error like any other.
GoneIsAnError ==
    /\ pc = "deny_overdue"
    /\ \/ view.approval # "pending" /\ Release /\ UNCHANGED <<ticket, unheard>>
       \/ view.approval = "pending" /\ (DenyFails \/ TicketGone) /\ Release
       \/ /\ view.approval = "pending"
          /\ DenyTakesEffect
          /\ pc' = "cancel_overdue"
          /\ view' = Denied(view, TRUE)
          /\ UNCHANGED <<run, snapshot, linked, denied>>
    /\ UNCHANGED <<rowVars, createVars, stale, runnerVars>>

\* Mutant: the cancellation is left to the next round.
DenyOnly ==
    /\ pc = "deny_overdue"
    /\ \/ view.approval # "pending" /\ Release /\ UNCHANGED <<ticket, unheard>>
       \/ view.approval = "pending" /\ (DenyFails \/ DenyTakesEffect) /\ Release
       \/ view.approval = "pending" /\ TicketGone /\ Continue("cancel_overdue")
    /\ UNCHANGED <<rowVars, createVars, stale, runnerVars>>

\* denyTimedOutApproval.  A ticket that is gone was resolved by somebody else.
DenyOverdue ==
    /\ pc = "deny_overdue"
    /\ \/ view.approval # "pending" /\ Release /\ UNCHANGED <<ticket, unheard>>
       \/ view.approval = "pending" /\ DenyFails /\ Release
       \/ view.approval = "pending" /\ TicketGone /\ Continue("cancel_overdue")
       \/ /\ view.approval = "pending"
          /\ DenyTakesEffect
          /\ pc' = "cancel_overdue"
          /\ view' = Denied(view, TRUE)
          /\ UNCHANGED <<run, snapshot, linked, denied>>
    /\ UNCHANGED <<rowVars, createVars, stale, runnerVars>>

\* Cancel denies first; any error of the denial ends it.
DenyFirst ==
    /\ pc = "deny"
    /\ \/ (DenyFails \/ TicketGone) /\ Release
       \/ /\ DenyTakesEffect
          /\ pc' = "cancel"
          /\ denied' = TRUE
          /\ UNCHANGED <<run, view, snapshot, linked>>
    /\ UNCHANGED <<rowVars, createVars, stale, runnerVars>>

\* RunRegistry.cancel: the request is noted, the workflow notices it later.
Noted == reg' = [reg EXCEPT ![run].cancel = @ \/ Executing(run)]
CancelFails == \/ "runner" \in faults /\ UNCHANGED reg
               \/ /\ {"reply", "contract"} \cap faults # {}
                  /\ reg[run] # NoEntry
                  /\ Noted

CancelOverdue ==
    /\ pc = "cancel_overdue"
    /\ unheard' = unheard \ {run}
    /\ \/ CancelFails /\ Release
       \/ reg[run] = NoEntry /\ UNCHANGED reg /\ Continue("end_overdue")
       \/ reg[run] # NoEntry /\ Noted /\ Continue("end_overdue")
    /\ UNCHANGED <<rowVars, createVars, stale, report, ticket>>

\* Mutant: the update does not compare versions.
MonitorOverwrites(new, heard) ==
    /\ WriteHeard(Control, run, new, heard)
    /\ Release

\* persist by the Monitor, once; a conflict is left to its next round.
MonitorWrites(new, heard) ==
    /\ IF Control \notin stale THEN WriteHeard(Control, run, new, heard) ELSE KeepRow
    /\ Release

EndOverdue ==
    /\ pc = "end_overdue"
    /\ MonitorWrites(Ended(view, IF view.status = "waiting" THEN "expired"
                                 ELSE "interrupted", "failed"), FALSE)
    /\ UNCHANGED <<createVars, runnerVars, ticket, unheard>>

Get ==
    /\ pc = "get"
    /\ \/ /\ reg[run] # NoEntry
          /\ snapshot' = SnapshotOf(run)
          /\ pc' = "link"
          /\ UNCHANGED <<run, view, linked, denied>>
       \/ "contract" \in faults /\ Continue("end_contract")
       \/ /\ reg[run] = NoEntry \/ {"runner", "reply"} \cap faults # {}
          /\ IF silent THEN Continue("end_lost") ELSE Release
    /\ UNCHANGED <<rowVars, createVars, stale, runnerVars, ticket, unheard>>

\* PendingApprovalForSession; an error counts as no ticket.
LinkApproval ==
    /\ pc = "link"
    /\ linked' \in {ticket[run] = "pending"} \cup
                   (IF "guard" \in faults THEN {FALSE} ELSE {})
    /\ pc' = "apply"
    /\ UNCHANGED <<run, view, snapshot, denied, rowVars, createVars, stale,
                   runnerVars, ticket, unheard>>

Apply ==
    /\ pc = "apply"
    /\ IF Acceptable(view, snapshot)
       THEN MonitorWrites(Applied(view, snapshot, linked), TRUE)
       ELSE Continue("end_contract") /\ KeepRow
    /\ UNCHANGED <<createVars, runnerVars, ticket, unheard>>

EndGiveUp ==
    /\ pc \in {"end_contract", "end_lost"}
    /\ MonitorWrites(Ended(view, "interrupted", "failed"), FALSE)
    /\ UNCHANGED <<createVars, runnerVars, ticket, unheard>>

CancelRunner ==
    /\ pc = "cancel"
    /\ unheard' = unheard \ {run}
    /\ \/ CancelFails /\ (IF denied THEN Continue("note_denied") ELSE Release)
       \/ reg[run] = NoEntry /\ UNCHANGED reg /\ Continue("cancel_lost")
       \/ /\ reg[run] # NoEntry
          /\ Noted
          /\ snapshot' = SnapshotOf(run)
          /\ pc' = "cancel_apply"
          /\ UNCHANGED <<run, view, linked, denied>>
    /\ UNCHANGED <<rowVars, createVars, stale, report, ticket>>

\* loadCancellationState and the update it leads to.  A conflict is retried, up
\* to three times; only Create writes without controlMu, and at most twice, so
\* one of the attempts finds the row as it loaded it.
CancelWrites(new, heard) == IF IsActive(run) /\ (denied => row[run].approval # "none")
                            THEN WriteHeard(Control, run, new, heard)
                            ELSE KeepRow

PersistCancellation ==
    /\ LET old == Denied(row[run], denied)
       IN  \/ /\ pc = "cancel_apply"
              /\ IF Acceptable(old, snapshot)
                 THEN CancelWrites(Applied(old, snapshot, FALSE), TRUE)
                 ELSE CancelWrites(Ended(old, "interrupted", "failed"), FALSE)
           \/ /\ pc = "cancel_lost"
              /\ CancelWrites(Ended(old, "interrupted", "cancelled"), FALSE)
           \/ /\ pc = "note_denied"
              /\ CancelWrites(old, FALSE)
    /\ Release
    /\ UNCHANGED <<createVars, runnerVars, ticket, unheard>>

AbandonControl ==
    /\ "abort" \in faults
    /\ pc # "free"
    /\ Release
    /\ unheard' = {}
    /\ UNCHANGED <<rowVars, createVars, stale, runnerVars, ticket>>
-----------------------------------------------------------------------------
(* The Runner, AgentGuard and time *)

\* _finish: the execution has a result.
Result(r, status, outcome) ==
    /\ reg' = [reg EXCEPT ![r].status = status]
    /\ report' = [report EXCEPT ![r] = outcome]

Prepare(r) ==
    /\ reg[r].status = "queued"
    /\ IF reg[r].cancel
       THEN Result(r, "cancelled", "cancelled")
       ELSE reg' = [reg EXCEPT ![r].status = "running"] /\ UNCHANGED report
    /\ UNCHANGED <<rowVars, createVars, stale, controlVars, ticket, unheard>>

\* Mutant: steps are counted past the last one.
CheckpointUnbounded(r) ==
    /\ reg[r].status = "running"
    /\ IF reg[r].cancel
       THEN Result(r, "cancelled", "cancelled") /\ UNCHANGED ticket
       ELSE /\ reg' = [reg EXCEPT ![r].step = @ + 1]
            /\ ticket' = [ticket EXCEPT ![r] = "pending"]
            /\ UNCHANGED report
    /\ UNCHANGED <<rowVars, createVars, stale, controlVars, unheard>>

\* _checkpoint before the guarded action, which opens its ticket.
Checkpoint(r) ==
    /\ reg[r].status = "running"
    /\ reg[r].step < GuardedStep
    /\ IF reg[r].cancel
       THEN Result(r, "cancelled", "cancelled") /\ UNCHANGED ticket
       ELSE /\ reg' = [reg EXCEPT ![r].step = @ + 1]
            /\ ticket' = [ticket EXCEPT ![r] = "pending"]
            /\ UNCHANGED report
    /\ UNCHANGED <<rowVars, createVars, stale, controlVars, unheard>>

\* The guarded call returns once its ticket is decided, even if the run was
\* cancelled meanwhile; the next checkpoint notices that.
LeaveGuard(r) ==
    /\ reg[r].status = "running"
    /\ reg[r].step = GuardedStep
    /\ ticket[r] \in {"approved", "denied"}
    /\ IF reg[r].cancel
       THEN Result(r, "cancelled", "cancelled")
       ELSE reg' = [reg EXCEPT ![r].step = @ + 1] /\ UNCHANGED report
    /\ UNCHANGED <<rowVars, createVars, stale, controlVars, ticket, unheard>>

\* The workflow ends with what the guarded action was told.
Complete(r) ==
    /\ reg[r].status = "running"
    /\ reg[r].step = LastStep
    /\ Result(r, "succeeded", ticket[r])
    /\ UNCHANGED <<rowVars, createVars, stale, controlVars, ticket, unheard>>

\* A dependency fails.
FailRun(r) ==
    /\ "workflow" \in faults
    /\ reg[r].status = "running"
    /\ Result(r, "failed", "failed")
    /\ UNCHANGED <<rowVars, createVars, stale, controlVars, ticket, unheard>>

RestartRunner ==
    /\ "restart" \in faults
    /\ \E r \in Requests : reg[r] # NoEntry
    /\ reg' = [r \in Requests |-> NoEntry]
    /\ UNCHANGED <<rowVars, createVars, stale, controlVars, report, ticket, unheard>>

\* A person decides the ticket in the console.
Decide(r) ==
    /\ ticket[r] = "pending"
    /\ \E decision \in {"approved", "denied"} :
          ticket' = [ticket EXCEPT ![r] = decision]
    /\ UNCHANGED <<rowVars, createVars, stale, controlVars, runnerVars, unheard>>

Deadline == /\ ActiveRun # NoRun /\ ~overdue
            /\ overdue' = TRUE
            /\ UNCHANGED <<row, silent, createVars, stale, controlVars, runnerVars,
                           ticket, unheard>>

Silence == /\ "silence" \in faults /\ ActiveRun # NoRun /\ ~silent
           /\ silent' = TRUE
           /\ UNCHANGED <<row, overdue, createVars, stale, controlVars, runnerVars,
                          ticket, unheard>>
-----------------------------------------------------------------------------
CreateStep(r) == \/ Lookup(r) \/ Probe(r) \/ Insert(r) \/ PersistStarting(r)
                 \/ Start(r) \/ ApplyStart(r) \/ RefuseStart(r)
ControlStep == \/ DenyOverdue \/ CancelOverdue \/ EndOverdue
               \/ Get \/ LinkApproval \/ Apply \/ EndGiveUp
               \/ DenyFirst \/ CancelRunner \/ PersistCancellation
RunnerStep(r) == Prepare(r) \/ Checkpoint(r) \/ LeaveGuard(r) \/ Complete(r)

Next == \/ \E r \in Requests : \/ CreateStep(r) \/ AbandonCreate(r)
                               \/ CancelLoad(r)
                               \/ RunnerStep(r) \/ FailRun(r)
                               \/ Decide(r)
        \/ Deadline \/ Silence
        \/ MonitorLoad \/ ControlStep \/ AbandonControl \/ RestartRunner

Spec == Init /\ [][Next]_vars

\* Handlers run to their end, the Monitor's ticker fires and its turn at the
\* mutex comes (a Go mutex starves nobody), clocks advance.  Nothing is assumed
\* of the Runner, of AgentGuard or of people.
FairSpec == /\ Spec
            /\ \A r \in Requests : WF_vars(CreateStep(r))
            /\ WF_vars(Deadline)
            /\ WF_vars(Silence)
            /\ WF_vars(ControlStep)
            /\ SF_vars(MonitorLoad)
-----------------------------------------------------------------------------
(* Properties *)

Results == {"none", "approved", "denied", "cancelled", "failed"}
Executions == {"absent", "queued", "running", "succeeded", "cancelled", "failed"}
Rows == [status : Ongoing \cup Terminal \cup {"absent"}, outcome : Results,
         approval : {"none", "pending", "approved", "denied"}, step : Steps]
Entries == [status : Executions, step : Steps, cancel : BOOLEAN]
TypeOK ==
    /\ faults \subseteq FaultKinds
    /\ key \in [Requests -> Keys]
    /\ row \in [Requests -> Rows]
    /\ overdue \in BOOLEAN
    /\ silent \in BOOLEAN
    /\ cpc \in [Requests -> {"new", "probing", "admitted", "created", "starting",
                             "replied", "refused", "done"}]
    /\ active \in [Requests -> Requests \cup {NoRun}]
    /\ stale \subseteq Handlers
    /\ run \in Requests \cup {NoRun}
    /\ run = NoRun <=> pc = "free"
    /\ linked \in BOOLEAN
    /\ denied \in BOOLEAN
    /\ reg \in [Requests -> Entries]
    /\ ticket \in [Requests -> {"none", "pending", "approved", "denied"}]
    /\ report \in [Requests -> Results]
    /\ unheard \subseteq Requests

\* A row that says how its ticket was decided says what AgentGuard decided,
\* whoever decided it and however many denials raced with an approval.
RecordedDecisionIsReal ==
    \A r \in Requests : row[r].approval \in {"approved", "denied"} =>
        ticket[r] = row[r].approval

\* Its inductive strengthening, which also carries FollowsLifecycle: what an
\* execution in each status has reported and been told ...
Decided == {"approved", "denied"}
InFlight == {"queued", "running"}
Ends(status, result) == \/ status = "succeeded" /\ result \in Decided
                        \/ status \in {"cancelled", "failed"} /\ result = status
RunnerDiscipline ==
    \A r \in Requests :
        /\ CASE reg[r].status = "absent" -> reg[r] = NoEntry
             [] reg[r].status \in InFlight -> report[r] = "none"
             [] OTHER -> Ends(reg[r].status, report[r])
        /\ reg[r].status = "queued" => reg[r].step = 0
        /\ Executing(r) /\ reg[r].step = 0 => ticket[r] = "none"
        /\ Executing(r) /\ reg[r].step = LastStep => ticket[r] \in Decided
        /\ report[r] \in Decided => ticket[r] = report[r]
        /\ cpc[r] \in {"new", "probing", "admitted", "created", "starting"} =>
               reg[r] = NoEntry /\ report[r] = "none" /\ ticket[r] = "none"

\* ... what a Create handler knows of its row while nobody else has written it,
\* and what the holder of controlMu works with ...
CreateDiscipline ==
    \A r \in Requests :
        /\ cpc[r] \in {"new", "probing", "admitted"} => row[r] = NoRow
        /\ r \notin stale =>
              /\ cpc[r] = "created" => row[r].status = "queued"
              /\ cpc[r] \in {"starting", "replied", "refused"} =>
                    row[r].status = "starting"
SnapshotIsTrue ==
    /\ snapshot.status \in Executions \ {"absent"}
    /\ snapshot.step \in Steps
    /\ IF snapshot.status \in InFlight
       THEN snapshot.outcome = "none"
       ELSE /\ snapshot.outcome = report[run]
            /\ Ends(snapshot.status, snapshot.outcome)
CopyIsTrue ==
    /\ view \in Rows
    /\ view.status \in Ongoing
    /\ view.approval \in Decided => ticket[run] = view.approval
    /\ denied => ticket[run] = "denied"
    /\ Control \notin stale => row[run].status = view.status
ControlDiscipline ==
    /\ pc = "free" => ~denied
    /\ pc # "free" => CopyIsTrue
    /\ pc \in {"link", "apply", "cancel_apply"} => SnapshotIsTrue

\* ... and that one run is active, with no outcome yet.
ActiveDiscipline ==
    /\ \A r, s \in Requests : IsActive(r) /\ IsActive(s) => r = s
    /\ \A r \in Requests : IsActive(r) => row[r].outcome = "none"
DemoInv == /\ TypeOK
           /\ RunnerDiscipline
           /\ CreateDiscipline
           /\ ControlDiscipline
           /\ ActiveDiscipline
           /\ RecordedDecisionIsReal

\* Once the BFF has denied a ticket, it does not give the mutex back without
\* having called Runner.Cancel, unless the handler dies between the two
\* (capability-matrix.md, Demo orchestration).
DenialReachesRunner == pc = "free" => unheard = {}

\* Its inductive strengthening, true when a denial that took effect is answered
\* as such: only the handler about to call the Runner owes it the call.
DenialIsOwed == /\ "guard_reply" \notin faults
                /\ unheard \subseteq {run}
                /\ unheard # {} => pc \in {"cancel_overdue", "cancel"}

\* The rows follow the life cycle that RunLifecycle states: one active run,
\* legal moves, an end that is final and, when it claims a result, is the
\* result the execution had.
Lifecycle == INSTANCE RunLifecycle WITH
    status  <- [r \in Requests |-> row[r].status],
    outcome <- [r \in Requests |-> row[r].outcome]
FollowsLifecycle == Lifecycle!LifecycleSpec

\* A run that is active comes to an end, whatever becomes of its Runner
\* (docs/demo-lab.md, Recovery).
RunsEnd == \A r \in Requests : IsActive(r) ~> ~IsActive(r)
=============================================================================
