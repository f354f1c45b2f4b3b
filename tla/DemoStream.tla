----------------------------- MODULE DemoStream -----------------------------
(***************************************************************************)
(* The Demo page and the event stream of the run it shows: demoRunEvents   *)
(* of the BFF, the hook use-demo-run-events.ts, and the page's query for   *)
(* the run.  The page never shows what an event says: an event makes it    *)
(* fetch the run again.  While the stream is down it polls instead, and    *)
(* every query is fetched at an interval besides.  The responses of Create *)
(* and Cancel are shown as they are, in place of the answer of a fetch.    *)
(*                                                                         *)
(* Every update of the run that writes an event has a version, and its row *)
(* in the outbox is named by it here: sequence numbers of one run are in   *)
(* the order of its versions.  Heartbeats write no event and are left out, *)
(* batches hold all rows of a run, and the window of 500 ids is not filled *)
(* by one run.  An answer is rendered before the next one comes, and Demo  *)
(* Lab stays enabled.                                                      *)
(***************************************************************************)
EXTENDS Integers, FiniteSets, Sequences, SequencesExt, FiniteSetsExt

CONSTANTS MaxVersion,  \* bound: updates of the run
          MaxBreaks    \* bound: connections that break, runs selected anew

StreamAssumption == MaxVersion \in Nat \ {0}

VARIABLES
    version,  \* the run's row: its version
    ended,    \* and whether its status is a terminal one
    rows,     \* its rows in stream_outbox
    cursor,   \* the connected handler's lastSequence, NoId without one
    wire,     \* what it wrote and the browser has not handled
    source,   \* "connecting", "open", "closed", "refused"
    lastId,   \* the EventSource's last event ID
    seen,     \* seenDeliveries
    events,   \* the events the page lists
    polling,  \* the two-second timer is set
    fetch,    \* the page's request for the run
    replies,  \* its Create and Cancel: the version in the response, or 0
    page,     \* the answer it shows
    excused,  \* ghost: the page could not know better (see PageIsCurrent)
    torn,     \* ghost: nor its list of events
    breaks

rowVars == <<version, ended, rows>>
pageVars == <<lastId, seen, events, polling, fetch, replies, page, excused,
              torn>>
vars == <<rowVars, cursor, wire, source, pageVars, breaks>>

NoId == -1
Mutations == {"create", "cancel"}
NoFetch == [version |-> 0, ended |-> FALSE, pc |-> "none"]
\* The row as it was at a version: only the last one can be terminal.
Row(v) == [version |-> v, ended |-> ended /\ v = version]
Message(kind, id, end) == [ended |-> end, id |-> id, kind |-> kind]

Init == /\ version = 1 /\ ended = FALSE /\ rows = {1}
        /\ cursor = NoId /\ wire = <<>>
        /\ source = "connecting" /\ lastId = NoId
        /\ seen = {} /\ events = <<>> /\ polling = FALSE
        /\ fetch = NoFetch /\ replies = [m \in Mutations |-> 0]
        /\ page = Row(1)
        /\ excused = FALSE /\ torn = FALSE /\ breaks = 0
-----------------------------------------------------------------------------
(* The database *)

Update == /\ ~ended /\ version < MaxVersion
          /\ version' = version + 1 /\ ended' \in BOOLEAN
          /\ rows' = rows \cup {version + 1}
          /\ UNCHANGED <<cursor, wire, source, pageVars, breaks>>

\* Retention removes the oldest row, once a connected handler has read it.
Prune == /\ rows # {} /\ (cursor # NoId => Min(rows) <= cursor)
         /\ rows' = rows \ {Min(rows)}
         /\ UNCHANGED <<version, ended, cursor, wire, source, pageVars, breaks>>

Oldest == IF rows = {} THEN 0 ELSE Min(rows)
Latest == IF rows = {} THEN 0 ELSE Max(rows)

\* Retention takes the oldest rows: what is left after a row are the newest.
RowsAfter(last) ==
    LET many  == Cardinality({r \in rows : r > last})
        Nth(i) == version - many + i
    IN [i \in 1..many |-> Message("event", Nth(i), ended /\ Nth(i) = version)]
-----------------------------------------------------------------------------
(* demoRunEvents.  Each first answer is one read-only transaction.         *)

\* Mutant: a cursor older than every retained row is not void.
NeedsResetAhead(last) == \/ last > Latest
                         \/ Oldest = 0 /\ Latest > last

NeedsReset(last) ==
    \/ Latest = 0 /\ last > 0
    \/ last > Latest
    \/ Oldest > 0 /\ last < Oldest
    \/ Oldest = 0 /\ Latest > last

\* The response's header stops the polling (onopen).
Opened(messages, position) ==
    /\ source = "connecting"
    /\ source' = "open" /\ polling' = FALSE
    /\ wire' = messages /\ cursor' = position
    /\ UNCHANGED <<rowVars, lastId, seen, events, fetch, replies, page, breaks>>
Excused(condition) == /\ excused' = (excused \/ condition)
                      /\ torn' = (torn \/ condition)

OpenSnapshot == /\ lastId = NoId
                /\ Opened(<<Message("snapshot", Latest, FALSE)>>, Latest)
                /\ UNCHANGED <<excused, torn>>
OpenReset == /\ lastId # NoId /\ NeedsReset(lastId)
             /\ Opened(<<Message("reset", Latest, FALSE)>>, Latest)
             /\ UNCHANGED <<excused, torn>>
OpenReplay ==
    /\ lastId # NoId /\ ~NeedsReset(lastId)
    /\ LET batch == RowsAfter(lastId)
       IN Opened(batch, IF batch = <<>> THEN lastId ELSE Last(batch).id)
    /\ Excused(lastId = 0 /\ rows = {})

\* Woken by a notification or by its ticker, the handler drains the outbox.
Drain == /\ cursor # NoId /\ RowsAfter(cursor) # <<>>
         /\ wire' = wire \o RowsAfter(cursor)
         /\ cursor' = Latest
         /\ UNCHANGED <<rowVars, source, pageVars, breaks>>
-----------------------------------------------------------------------------
(* The page *)

\* The query is fetched again; an answer that is under way is dropped.
Invalidate == fetch' = [NoFetch EXCEPT !.pc = "sent"] /\ excused' = FALSE

NoInvalidation == UNCHANGED <<fetch, excused>>

StartPolling == /\ IF polling THEN NoInvalidation ELSE Invalidate
                /\ polling' = TRUE

Disconnected == cursor' = NoId /\ wire' = <<>>

\* The connection breaks; the EventSource tries again with its last id.
Drop == /\ source = "open" /\ breaks < MaxBreaks
        /\ source' = "connecting" /\ Disconnected /\ StartPolling
        /\ breaks' = breaks + 1
        /\ UNCHANGED <<rowVars, lastId, seen, events, replies, page, torn>>

\* An answer other than 200: the EventSource gives up.
Refuse == /\ source = "connecting" /\ breaks < MaxBreaks
          /\ source' = "refused" /\ StartPolling
          /\ breaks' = breaks + 1
          /\ UNCHANGED <<rowVars, cursor, wire, lastId, seen, events, replies,
                         page, torn>>

OnlyInvalidates ==
    /\ Invalidate
    /\ UNCHANGED <<rowVars, cursor, wire, source, lastId, seen, events, polling,
                   replies, page, torn, breaks>>

\* The hook's timer, while the stream is down.
Poll == polling /\ OnlyInvalidates

\* The interval, the focus and the mount of every query, in every state of the
\* stream; they join a fetch that is under way.
Refetch == fetch = NoFetch /\ OnlyInvalidates

\* A decision about the run's approval was answered.
ReviewApproval == OnlyInvalidates

\* acceptDelivery
IsNew(message) == message.id \notin seen

\* A delivery with a known id is dropped.  Only 0 names two things: the snapshot
\* of a stream that was opened again may name the last event.
Repeated == /\ source = "open" /\ wire # <<>> /\ ~IsNew(Head(wire))
            /\ Excused(Head(wire).id = 0)
            /\ wire' = Tail(wire) /\ lastId' = Head(wire).id
            /\ UNCHANGED <<rowVars, cursor, source, seen, events, polling,
                           fetch, replies, page, breaks>>

Accepted(kind) == /\ source = "open" /\ wire # <<>>
                  /\ Head(wire).kind = kind /\ IsNew(Head(wire))
                  /\ lastId' = Head(wire).id
                  /\ polling' = FALSE /\ Invalidate
                  /\ UNCHANGED <<rowVars, replies, page, breaks>>

HandleSnapshot == /\ Accepted("snapshot")
                  /\ seen' = seen \cup {Head(wire).id} /\ wire' = Tail(wire)
                  /\ UNCHANGED <<cursor, source, events, torn>>

\* A terminal event ends the stream for good.
HandleEvent == /\ Accepted("event")
               /\ seen' = seen \cup {Head(wire).id}
               /\ events' = Append(events, Head(wire).id)
               /\ IF Head(wire).ended
                  THEN source' = "closed" /\ Disconnected
                  ELSE wire' = Tail(wire) /\ UNCHANGED <<cursor, source>>
               /\ UNCHANGED torn

HandleReset == /\ Accepted("reset")
               /\ seen' = {Head(wire).id} /\ wire' = Tail(wire)
               /\ events' = <<>> /\ torn' = FALSE
               /\ UNCHANGED <<cursor, source>>

ReadRun == /\ fetch.pc = "sent"
           /\ fetch' = [version |-> version, ended |-> ended, pc |-> "answered"]
           /\ UNCHANGED <<rowVars, cursor, wire, source, lastId, seen, events,
                          polling, replies, page, excused, torn, breaks>>

\* Create and Cancel answer with the row as they find or leave it.
Respond(m) == /\ replies[m] = 0
              /\ replies' = [replies EXCEPT ![m] = version]
              /\ UNCHANGED <<rowVars, cursor, wire, source, lastId, seen, events,
                             polling, fetch, page, excused, torn, breaks>>

\* The page shows a row.  When that turns a run that goes on into one that has
\* ended, or back, the hook closes its stream, or opens a new one; the ids seen
\* and the events belong to the run and stay.
Show(row) ==
    /\ page' = row
    /\ IF row.ended = page.ended
       THEN UNCHANGED <<source, lastId, polling, cursor, wire>>
       ELSE /\ source' = IF row.ended THEN "closed" ELSE "connecting"
            /\ lastId' = NoId /\ polling' = FALSE /\ Disconnected
    /\ UNCHANGED <<rowVars, seen, events, torn, breaks>>

\* The answer replaces whatever is shown, newer rows too.
ShowRun == /\ fetch.pc = "answered"
           /\ fetch' = NoFetch
           /\ Show([version |-> fetch.version, ended |-> fetch.ended])
           /\ UNCHANGED <<replies, excused>>

\* So does a response; the fetch that is under way goes on.  When none is, a
\* late response can leave an older row on the page until the next one.
ShowReply(m) ==
    /\ replies[m] > 0
    /\ replies' = [replies EXCEPT ![m] = 0]
    /\ Show(Row(replies[m]))
    /\ excused' = (excused \/ (fetch = NoFetch /\ replies[m] < page.version))
    /\ UNCHANGED fetch

\* The query is not retried: the run is fetched again by the next event, poll
\* or interval.
FetchFails == /\ fetch # NoFetch
              /\ fetch' = NoFetch /\ excused' = TRUE
              /\ UNCHANGED <<rowVars, cursor, wire, source, lastId, seen, events,
                             polling, replies, page, torn, breaks>>

\* Another run is selected, and this one again: the cached answer is shown while
\* it is fetched anew, and the hook starts from nothing.
Select == /\ breaks < MaxBreaks
          /\ source' = IF page.ended THEN "closed" ELSE "connecting"
          /\ Disconnected /\ Invalidate
          /\ lastId' = NoId /\ seen' = {} /\ events' = <<>>
          /\ polling' = FALSE /\ torn' = FALSE
          /\ breaks' = breaks + 1
          /\ UNCHANGED <<rowVars, replies, page>>

Handler == OpenSnapshot \/ OpenReset \/ OpenReplay \/ Drain
Page == \/ Drop \/ Refuse \/ Poll \/ Refetch \/ ReviewApproval \/ Repeated
        \/ HandleSnapshot \/ HandleEvent \/ HandleReset
        \/ ReadRun \/ ShowRun \/ FetchFails \/ Select
        \/ \E m \in Mutations : Respond(m) \/ ShowReply(m)
Next == Update \/ Prune \/ Handler \/ Page

Spec == Init /\ [][Next]_vars
-----------------------------------------------------------------------------
TypeOK == /\ version \in 1..MaxVersion /\ rows \subseteq 1..version
          /\ cursor \in {NoId} \cup 0..version
          /\ (cursor # NoId <=> source = "open")
          /\ source \in {"connecting", "open", "closed", "refused"}
          /\ seen \subseteq 0..version
          /\ polling => source \in {"connecting", "refused"}
          /\ page.version \in 1..version
          /\ replies \in [Mutations -> 0..version]

\* Nothing is under way that could still tell the page of a change, but the next
\* interval.
Settled == /\ fetch = NoFetch /\ wire = <<>> /\ ~polling
           /\ \/ source = "closed"
              \/ source = "open" /\ RowsAfter(cursor) = <<>>

\* When everything has settled, the page shows the run as it is, before any
\* interval fetches it again: however the stream broke, was reset, was refused,
\* lost rows to retention or was closed and opened again, and whichever of the
\* answers of fetches, Create and Cancel came late.  Three things leave an
\* older row on the page until it is next fetched, by the interval at the latest:
\* a fetch that failed, a response that replaced a newer row while no fetch was
\* under way, and the id 0, which names every emptied outbox: a snapshot or reset
\* with it is taken for a repetition, and a cursor of 0 is never void.  But for
\* the id 0 the list of events has no gap and no repetition.
PageIsCurrent ==
    /\ Settled /\ ~excused => page = [version |-> version, ended |-> ended]
    /\ ~torn => \A i \in 1..Len(events) - 1 : events[i + 1] = events[i] + 1
=============================================================================
