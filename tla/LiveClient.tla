----------------------------- MODULE LiveClient -----------------------------
(***************************************************************************)
(* The browser's end of the event stream: an EventSource that reconnects   *)
(* by itself and repeats the id it saw last, and the hook that drops       *)
(* deliveries whose id it remembers.  The server's end is the outbox table *)
(* with its reset rule (module Outbox has its writers and wakeups).  An    *)
(* operator may restore the database from a backup, after which sequence   *)
(* numbers the browser knows are given to other rows.                      *)
(***************************************************************************)
EXTENDS Integers, Sequences, SequencesExt

CONSTANTS MaxId,       \* bound: sequence numbers in one database
          Restores,    \* bound: restores from a backup
          Window       \* delivery ids the browser remembers

ASSUME LiveClientAssumption == /\ MaxId \in Nat
                               /\ Restores \in Nat
                               /\ Window \in Nat \ {0}

VARIABLES
    epoch,    \* restores so far: which database a row was written in
    table,    \* stream_outbox: rows <<sequence, epoch>>
    latest,   \* stream_outbox_state.latest_sequence
    backup,   \* the database as it was when the backup was taken
    source,   \* the EventSource: "closed", "connecting" or "open"
    lastId,   \* its last event ID, NoId for a new EventSource
    seen,     \* deliveryOrder: ids remembered, oldest first
    shown,    \* rows in the live cache
    given,    \* rows written to the browser since it last did reset
    covered,  \* the id of that reset: REST state was fetched again since
    synced    \* no restore happened since the page was loaded or did reset

serverVars == <<epoch, table, latest, backup>>
cacheVars  == <<seen, shown, given, covered>>
clientVars == <<source, lastId, cacheVars, synced>>
vars == <<serverVars, clientVars>>

NoId == -1
Id(row) == row[1]
Position == IF lastId = NoId THEN 0 ELSE lastId

NeedsReset == /\ lastId # NoId
              /\ \/ lastId > latest
                 \/ table # {} /\ \A row \in table : lastId < Id(row)
                 \/ table = {} /\ lastId < latest

Init == /\ epoch = 0 /\ table = {} /\ latest = 0
        /\ backup = [table |-> {}, latest |-> 0]
        /\ source = "closed" /\ lastId = NoId
        /\ seen = <<>> /\ shown = {} /\ given = {}
        /\ covered = 0 /\ synced = TRUE
-----------------------------------------------------------------------------
(* The database *)

Commit == /\ latest < MaxId
          /\ latest' = latest + 1
          /\ table' = table \cup {<<latest + 1, epoch>>}
          /\ UNCHANGED <<epoch, backup, clientVars>>

\* Retention removes the oldest rows, when the browser is not behind them.
Prune == /\ \E row \in table :
               /\ \A other \in table : Id(row) <= Id(other)
               /\ source = "open" => Id(row) <= Position
               /\ table' = table \ {row}
         /\ UNCHANGED <<epoch, latest, backup, clientVars>>

Backup == /\ epoch < Restores
          /\ backup' = [table |-> table, latest |-> latest]
          /\ UNCHANGED <<epoch, table, latest, clientVars>>

\* pg_restore with the BFF stopped: connections end, the browser retries.
Restore == /\ epoch < Restores
           /\ epoch' = epoch + 1
           /\ table' = backup.table
           /\ latest' = backup.latest
           /\ source' = IF source = "open" THEN "connecting" ELSE source
           /\ synced' = FALSE
           /\ UNCHANGED <<backup, lastId, cacheVars>>
-----------------------------------------------------------------------------
(* The browser *)

\* Mutant of Remember: the window never slides.
RememberAll(ids, id) == Append(ids, id)

\* rememberDelivery: FALSE for an id that is remembered.
IsNew(id) == ~Contains(seen, id)
Remember(ids, id) == LET longer == Append(ids, id)
                     IN  IF Len(longer) > Window THEN Tail(longer) ELSE longer

\* A sign-in or a page's first use of the hook: a new EventSource, no id.
Open == /\ source = "closed"
        /\ source' = "connecting"
        /\ lastId' = NoId
        /\ UNCHANGED <<serverVars, cacheVars, synced>>

Close == /\ source # "closed"
         /\ source' = "closed"
         /\ UNCHANGED <<serverVars, lastId, cacheVars, synced>>

\* The connection breaks; the EventSource tries again with its last id.
Drop == /\ source = "open"
        /\ source' = "connecting"
        /\ UNCHANGED <<serverVars, lastId, cacheVars, synced>>

Connect == /\ source = "connecting"
           /\ ~NeedsReset
           /\ source' = "open"
           /\ UNCHANGED <<serverVars, lastId, cacheVars, synced>>

ClearCache(id) == /\ shown' = {} /\ given' = {}
                  /\ covered' = id
                  /\ synced' = TRUE

\* Mutant: the memory of deliveries survives a reset.
ResetKeepsMemory(id) ==
    /\ lastId' = id
    /\ IF IsNew(id) THEN seen' = Remember(seen, id) /\ ClearCache(id)
                    ELSE UNCHANGED <<cacheVars, synced>>

\* handleReset: the live cache and the memory of deliveries are dropped and
\* REST state is fetched again, unless the reset's own id is remembered.
HandleReset(id) ==
    /\ lastId' = id
    /\ IF IsNew(id) THEN seen' = <<id>> /\ ClearCache(id)
                    ELSE UNCHANGED <<cacheVars, synced>>

\* Mutant: the reset repeats the browser's own id.
ConnectResetAtCursor ==
    /\ source = "connecting"
    /\ NeedsReset
    /\ source' = "open"
    /\ HandleReset(lastId)
    /\ UNCHANGED serverVars

\* The server answers a void cursor with a reset whose id is latest.
ConnectReset ==
    /\ source = "connecting"
    /\ NeedsReset
    /\ source' = "open"
    /\ HandleReset(latest)
    /\ UNCHANGED serverVars

\* handleEvent and handleTrace: a new delivery joins the cache.
Deliver ==
    /\ source = "open"
    /\ \E row \in table :
          /\ Position < Id(row)
          /\ \A other \in table : Id(other) <= Position \/ Id(row) <= Id(other)
          /\ lastId' = Id(row)
          /\ given' = given \cup {row}
          /\ IF IsNew(Id(row))
             THEN seen' = Remember(seen, Id(row)) /\ shown' = shown \cup {row}
             ELSE UNCHANGED <<seen, shown>>
    /\ UNCHANGED <<source, serverVars, covered, synced>>
-----------------------------------------------------------------------------
Next == \/ Commit \/ Prune \/ Backup \/ Restore
        \/ Open \/ Close \/ Drop \/ Connect \/ ConnectReset \/ Deliver

Spec == Init /\ [][Next]_vars
-----------------------------------------------------------------------------
(* Properties *)

TypeOK == /\ epoch \in 0..Restores
          /\ table \subseteq (1..MaxId) \X (0..Restores)
          /\ latest \in 0..MaxId
          /\ source \in {"closed", "connecting", "open"}
          /\ lastId \in {NoId} \cup 0..MaxId
          /\ seen \in Seq(0..MaxId) /\ Len(seen) <= Window
          /\ shown \subseteq (1..MaxId) \X (0..Restores)
          /\ given \subseteq (1..MaxId) \X (0..Restores)
          /\ covered \in 0..MaxId
          /\ synced \in BOOLEAN

Complete == synced /\ \A row \in table : row \in shown \/ Id(row) <= covered
HonoursReset == source = "connecting" /\ source' = "open" /\ NeedsReset =>
                    shown' = {} \/ Complete

\* Told to reset, the browser drops its live cache and fetches REST state again
\* (docs/architecture.md, "the browser discards its live assumption").  It may
\* ignore a reset whose id it remembers only while its cache holds what the
\* database retains and nothing a restore took away.
ResetIsHonoured == [][HonoursReset]_vars

\* The same, as long as the database was never restored.
RetentionResetIsHonoured == [][epoch = 0 => HonoursReset]_vars

\* Remembering deliveries by id drops repetitions and nothing else: each row
\* written to the browser is in its cache or covered by the REST state it
\* fetched at its last reset, also in a database restored before that reset.
DeliveriesAreShown ==
    synced => \A row \in given : row \in shown \/ Id(row) <= covered
=============================================================================
