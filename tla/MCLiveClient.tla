---------------------------- MODULE MCLiveClient ----------------------------
(***************************************************************************)
(* The console's conversations with the BFF, each on a small instance and  *)
(* each explored for itself: the live stream of the whole console, the     *)
(* stream of the Demo page, and the operations at AgentGuard it starts,    *)
(* scans and rules apart.                                                  *)
(***************************************************************************)
EXTENDS LiveClient
CONSTANTS MaxVersion, MaxBreaks, Scans, MaxScanJobs, Checks, MaxChecks,
          Publishes, Agents, Sources
VARIABLES version, ended, rows, cursor, wire, stream, streamId, delivered,
          events, polling, fetch, replies, page, excused, torn, breaks,
          jobs, jobOrder, worker, check, checks, ranks, publish, active,
          published, working

DS == INSTANCE DemoStream WITH
        source <- stream, lastId <- streamId, seen <- delivered
GO == INSTANCE GuardOperations

ASSUME PagesAssumption == DS!StreamAssumption /\ GO!GuardAssumption

streamVars == <<version, ended, rows, cursor, wire, stream, streamId,
                delivered, events, polling, fetch, replies, page, excused, torn,
                breaks>>
guardVars == <<jobs, jobOrder, worker, check, checks, ranks, publish, active,
               published>>
PagesInit == /\ Init /\ DS!Init /\ GO!Init
             /\ working \in {"client", "demo page", "scans", "rules"}
PagesNext ==
    /\ UNCHANGED working
    /\ \/ working = "client" /\ Next /\ UNCHANGED <<streamVars, guardVars>>
       \/ working = "demo page" /\ DS!Next /\ UNCHANGED <<vars, guardVars>>
       \/ working = "scans" /\ GO!NextScans /\ UNCHANGED <<vars, streamVars>>
       \/ working = "rules" /\ GO!NextRules /\ UNCHANGED <<vars, streamVars>>
PagesSpec == PagesInit /\ [][PagesNext]_<<vars, streamVars, guardVars, working>>

\* Every part holds what its code can hold.
PagesTypeOK == TypeOK /\ DS!TypeOK /\ GO!TypeOK

\* The properties of DemoStream and GuardOperations, which state what each
\* says of the code.
PageIsCurrent == DS!PageIsCurrent
RunningScansAreListed == GO!RunningScansAreListed
OnePublishPerCheck == GO!OnePublishPerCheck
=============================================================================
