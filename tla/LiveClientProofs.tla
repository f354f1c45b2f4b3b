-------------------------- MODULE LiveClientProofs --------------------------
(***************************************************************************)
(* Proofs about LiveClient: what the browser was given it shows, and it    *)
(* ignores no reset that it needs, for any numbers of rows, restores and   *)
(* remembered deliveries; and about all conversations of the console       *)
(* together, by the proofs of DemoStreamProofs and GuardOperationsProofs.  *)
(***************************************************************************)
EXTENDS MCLiveClient, SequenceTheorems, TLAPS

\* A database's rows have different numbers, up to its latest.
Numbered(kept, last) ==
    /\ kept \subseteq (1..MaxId) \X (0..Restores) /\ last \in 0..MaxId
    /\ \A row \in kept : Id(row) <= last
    /\ \A row, other \in kept : Id(row) = Id(other) => row = other

\* Of the rows up to an id that the browser saw, it holds the retained ones.
Held(row) == row \in shown \/ Id(row) <= covered
Reached(id) == id <= latest /\ \A row \in table : Id(row) <= id => Held(row)

Synced == /\ \A id \in 0..MaxId : ~IsNew(id) => Reached(id)
          /\ Reached(lastId)
          /\ \A row \in given : Held(row)

ClientInv == /\ TypeOK
             /\ Numbered(table, latest)
             /\ Numbered(backup.table, backup.latest)
             /\ epoch = 0 => synced
             /\ synced => Synced
-----------------------------------------------------------------------------
LEMMA RowsHaveIds ==
    ASSUME NEW row \in (1..MaxId) \X (0..Restores)
    PROVE  Id(row) \in 1..MaxId
  BY DEF Id

\* What is remembered after a delivery: nothing but it and what was before.
LEMMA RememberIsBounded ==
    ASSUME seen \in Seq(0..MaxId), Len(seen) <= Window, NEW id \in 0..MaxId
    PROVE  /\ Remember(seen, id) \in Seq(0..MaxId)
           /\ Len(Remember(seen, id)) <= Window
           /\ \A old \in 0..MaxId : Contains(Remember(seen, id), old) =>
                                      old = id \/ Contains(seen, old)
  <1> DEFINE longer == Append(seen, id)
  <1>1. /\ longer \in Seq(0..MaxId) /\ Len(longer) = Len(seen) + 1
        /\ Len(seen) \in Nat /\ Window \in Nat \ {0}
        /\ \A i \in 1..Len(longer) : longer[i] = IF i <= Len(seen) THEN seen[i] ELSE id
    BY LiveClientAssumption DEF LiveClientAssumption
  <1> HIDE DEF longer
  <1>2. /\ Tail(longer) \in Seq(0..MaxId) /\ Len(Tail(longer)) = Len(seen)
        /\ \A i \in 1..Len(seen) : Tail(longer)[i] = longer[i + 1]
    BY <1>1
  <1>3. Remember(seen, id) \in {longer, Tail(longer)}
    BY DEF Remember, longer
  <1>4. \A old : Contains(longer, old) => old = id \/ Contains(seen, old)
    BY <1>1 DEF Contains
  <1>5. \A old : Contains(Tail(longer), old) => Contains(longer, old)
    BY <1>1, <1>2 DEF Contains
  <1>6. Len(Remember(seen, id)) <= Window
    BY <1>1, <1>2 DEF Remember, longer
  <1> QED BY <1>1, <1>2, <1>3, <1>4, <1>5, <1>6

\* What is committed later is not among what was reached.
LEMMA CommitKeeps ==
    ASSUME ClientInv, Commit
    PROVE  ClientInv'
  <1>1. /\ latest' = latest + 1 /\ table' = table \cup {<<latest + 1, epoch>>}
        /\ UNCHANGED <<epoch, backup, source, lastId, seen, shown, given, covered, synced>>
        /\ latest + 1 \in 1..MaxId /\ epoch \in 0..Restores /\ latest \in 0..MaxId
        /\ MaxId \in Nat
    BY LiveClientAssumption
       DEF Commit, ClientInv, TypeOK, clientVars, cacheVars, LiveClientAssumption
  <1>2. Id(<<latest + 1, epoch>>) = latest + 1
    BY DEF Id
  <1>3. Numbered(table', latest')
    BY <1>1, <1>2, RowsHaveIds DEF ClientInv, Numbered
  <1>4. TypeOK'
    BY <1>1, <1>3 DEF ClientInv, TypeOK, Numbered
  <1>5. ASSUME synced, NEW id \in {NoId} \cup 0..MaxId, Reached(id)
        PROVE  Reached(id)'
    <2>1. id <= latest /\ id <= latest'
      BY <1>1, <1>5 DEF Reached, NoId
    <2>2. ASSUME NEW row \in table', Id(row) <= id
          PROVE  row \in table
      BY <1>1, <1>2, <2>1, <2>2 DEF NoId
    <2> QED BY <1>1, <1>5, <2>1, <2>2 DEF Reached, Held
  <1>6. synced' => Synced'
    <2>1. ASSUME synced PROVE Synced'
      <3>1. Synced /\ lastId \in {NoId} \cup 0..MaxId
        BY <2>1 DEF ClientInv, TypeOK
      <3>2. Reached(lastId)'
        BY <1>1, <1>5, <2>1, <3>1 DEF Synced, Reached, Held
      <3>3. \A id \in 0..MaxId : ~IsNew(id)' => Reached(id)'
        BY <1>1, <1>5, <2>1, <3>1 DEF Synced, IsNew
      <3>4. \A row \in given' : Held(row)'
        BY <1>1, <3>1 DEF Synced, Held
      <3> QED BY <1>1, <3>2, <3>3, <3>4 DEF Synced
    <2> QED BY <1>1, <2>1
  <1> QED BY <1>1, <1>3, <1>4, <1>6 DEF ClientInv

\* What no delivery changes is kept when rows go and when connections move.
LEMMA OthersKeep ==
    ASSUME ClientInv, Prune \/ Backup \/ Open \/ Close \/ Drop \/ Connect
    PROVE  ClientInv'
  <1>1. /\ table' \subseteq table /\ UNCHANGED <<epoch, latest, cacheVars, synced>>
        /\ backup' \in {backup, [table |-> table, latest |-> latest]}
        /\ lastId' \in {lastId, NoId}
        /\ source' \in {"closed", "connecting", "open"}
    BY DEF Prune, Backup, Open, Close, Drop, Connect, clientVars, serverVars,
           ClientInv, TypeOK
  <1>2. Numbered(table', latest') /\ Numbered(table, latest)
    BY <1>1 DEF ClientInv, Numbered
  <1>3. Numbered(backup'.table, backup'.latest)
    <2>1. CASE backup' = backup
      BY <2>1 DEF ClientInv
    <2>2. CASE backup' = [table |-> table, latest |-> latest]
      BY <1>2, <2>2
    <2> QED BY <1>1, <2>1, <2>2
  <1>4. TypeOK'
    BY <1>1 DEF ClientInv, TypeOK, cacheVars
  <1>5. \A id : Reached(id) => Reached(id)'
    BY <1>1 DEF Reached, Held, cacheVars
  <1>6. synced' => Synced'
    <2>1. ASSUME synced PROVE Synced'
      <3>1. Synced
        BY <2>1 DEF ClientInv
      <3>2. Reached(lastId)'
        <4>1. CASE lastId' = lastId
          BY <1>5, <3>1, <4>1 DEF Synced, Reached
        <4>2. CASE lastId' = NoId
          <5>1. \A row \in table' : Id(row) \in 1..MaxId
            BY <1>2, RowsHaveIds DEF Numbered
          <5>2. latest' \in 0..MaxId
            BY <1>4 DEF TypeOK
          <5> QED BY <4>2, <5>1, <5>2 DEF Reached, NoId
        <4> QED BY <1>1, <4>1, <4>2
      <3>3. \A id \in 0..MaxId : ~IsNew(id)' => Reached(id)'
        BY <1>1, <1>5, <3>1 DEF Synced, IsNew, cacheVars
      <3>4. \A row \in given' : Held(row)'
        BY <1>1, <3>1 DEF Synced, Held, cacheVars
      <3> QED BY <3>2, <3>3, <3>4 DEF Synced
    <2> QED BY <1>1, <2>1
  <1> QED BY <1>1, <1>2, <1>3, <1>4, <1>6 DEF ClientInv

LEMMA RestoreKeeps ==
    ASSUME ClientInv, Restore
    PROVE  ClientInv'
  <1>1. /\ epoch' = epoch + 1 /\ table' = backup.table /\ latest' = backup.latest
        /\ source' \in {"connecting", source} /\ ~synced' /\ synced' \in BOOLEAN
        /\ UNCHANGED <<backup, lastId, cacheVars>>
        /\ epoch < Restores /\ epoch \in 0..Restores /\ Restores \in Nat
    BY LiveClientAssumption DEF Restore, ClientInv, TypeOK, LiveClientAssumption
  <1>2. Numbered(table', latest') /\ Numbered(backup'.table, backup'.latest)
    BY <1>1 DEF ClientInv
  <1>3. TypeOK'
    BY <1>1, <1>2 DEF ClientInv, TypeOK, Numbered, cacheVars
  <1> QED BY <1>1, <1>2, <1>3 DEF ClientInv

\* A reset the browser takes covers everything; one it ignores, because it
\* remembers the id, tells it nothing it does not hold.
LEMMA ResetKeeps ==
    ASSUME ClientInv, ConnectReset
    PROVE  ClientInv'
  <1>1. /\ UNCHANGED <<epoch, table, latest, backup>> /\ source' = "open"
        /\ lastId' = latest /\ latest \in 0..MaxId
    BY DEF ConnectReset, HandleReset, serverVars, ClientInv, TypeOK
  <1>2. CASE IsNew(latest)
    <2>1. /\ seen' = <<latest>> /\ shown' = {} /\ given' = {} /\ covered' = latest
          /\ synced' = TRUE
      BY <1>2 DEF ConnectReset, HandleReset, ClearCache
    <2>2. \A id \in 0..MaxId : ~IsNew(id)' => id = latest
      BY <2>1 DEF IsNew, Contains
    <2>3. Reached(latest)'
      BY <1>1, <2>1 DEF Reached, Held, ClientInv, Numbered
    <2>4. Synced'
      BY <1>1, <2>1, <2>2, <2>3 DEF Synced, Reached
    <2>5. seen' \in Seq(0..MaxId) /\ Len(seen') <= Window
      BY <1>1, <2>1, LiveClientAssumption DEF LiveClientAssumption
    <2>6. TypeOK'
      BY <1>1, <2>1, <2>5 DEF ClientInv, TypeOK
    <2> QED BY <1>1, <2>1, <2>4, <2>6 DEF ClientInv
  <1>3. CASE ~IsNew(latest)
    <2>1. UNCHANGED <<seen, shown, given, covered, synced>>
      BY <1>3 DEF ConnectReset, HandleReset, cacheVars
    <2>2. synced => Synced'
      BY <1>1, <1>3, <2>1 DEF ClientInv, Synced, Reached, Held, IsNew
    <2>3. TypeOK'
      BY <1>1, <2>1 DEF ClientInv, TypeOK
    <2> QED BY <1>1, <2>1, <2>2, <2>3 DEF ClientInv
  <1> QED BY <1>2, <1>3

\* The row that is delivered is the next one after those the browser reached.
LEMMA DeliverKeeps ==
    ASSUME ClientInv, Deliver
    PROVE  ClientInv'
  <1>1. PICK row \in table :
          /\ Position < Id(row)
          /\ \A other \in table : Id(other) <= Position \/ Id(row) <= Id(other)
          /\ lastId' = Id(row) /\ given' = given \cup {row}
          /\ IF IsNew(Id(row))
             THEN seen' = Remember(seen, Id(row)) /\ shown' = shown \cup {row}
             ELSE UNCHANGED <<seen, shown>>
    BY DEF Deliver
  <1>2. UNCHANGED <<source, epoch, table, latest, backup, covered, synced>>
    BY DEF Deliver, serverVars
  <1>3. /\ row \in (1..MaxId) \X (0..Restores) /\ Id(row) \in 1..MaxId
        /\ Id(row) \in 0..MaxId /\ Id(row) <= latest
    BY RowsHaveIds DEF ClientInv, Numbered
  <1>4. /\ seen' \in Seq(0..MaxId) /\ Len(seen') <= Window
        /\ \A id \in 0..MaxId : ~IsNew(id)' => id = Id(row) \/ ~IsNew(id)
    BY <1>1, <1>3, RememberIsBounded DEF ClientInv, TypeOK, IsNew
  <1>5. shown \subseteq shown' /\ shown' \subseteq shown \cup {row}
    BY <1>1
  <1>6. TypeOK'
    BY <1>1, <1>2, <1>3, <1>4, <1>5 DEF ClientInv, TypeOK
  <1>7. synced' => Synced'
    <2>1. SUFFICES ASSUME synced PROVE Synced'
      BY <1>2
    <2>2. Synced /\ lastId \in {NoId} \cup 0..MaxId
      BY <2>1 DEF ClientInv, TypeOK
    <2>3. \A other : Held(other) => Held(other)'
      BY <1>2, <1>5 DEF Held
    <2>4. \A id : Reached(id) => Reached(id)'
      BY <1>2, <2>3 DEF Reached
    <2>5. Held(row)'
      <3>1. CASE IsNew(Id(row))
        BY <1>1, <3>1 DEF Held
      <3>2. CASE ~IsNew(Id(row))
        BY <1>3, <2>2, <2>3, <3>2 DEF Synced, Reached
      <3> QED BY <3>1, <3>2
    <2>6. Reached(Id(row))'
      <3>1. ASSUME NEW other \in table, Id(other) <= Id(row)
            PROVE  Held(other)'
        <4>1. Id(other) \in 1..MaxId
          BY RowsHaveIds DEF ClientInv, Numbered
        <4>2. CASE Id(other) <= Position
          <5>1. lastId # NoId /\ Id(other) <= lastId
            BY <2>2, <4>1, <4>2 DEF Position, NoId
          <5> QED BY <2>2, <2>3, <5>1 DEF Synced, Reached
        <4>3. CASE Id(row) <= Id(other)
          <5>1. other = row
            BY <1>3, <3>1, <4>1, <4>3 DEF ClientInv, Numbered
          <5> QED BY <2>5, <5>1
        <4> QED BY <1>1, <4>2, <4>3
      <3> QED BY <1>2, <1>3, <3>1 DEF Reached
    <2>7. Reached(lastId)'
      BY <1>1, <2>6 DEF Reached
    <2>8. \A id \in 0..MaxId : ~IsNew(id)' => Reached(id)'
      BY <1>4, <2>2, <2>4, <2>6 DEF Synced, Reached
    <2>9. \A other \in given' : Held(other)'
      BY <1>1, <2>2, <2>3, <2>5 DEF Synced
    <2> QED BY <2>7, <2>8, <2>9 DEF Synced
  <1> QED BY <1>2, <1>6, <1>7 DEF ClientInv

LEMMA ClientInit ==
    ASSUME Init
    PROVE  ClientInv
  <1>1. seen \in Seq(0..MaxId) /\ Len(seen) = 0 /\ \A id : IsNew(id)
    BY DEF Init, IsNew, Contains
  <1> QED BY <1>1, LiveClientAssumption
          DEF Init, ClientInv, TypeOK, Numbered, Synced, Reached, Held, NoId,
              LiveClientAssumption

LEMMA ClientStep ==
    ASSUME ClientInv, [Next]_vars
    PROVE  ClientInv'
  <1>1. CASE UNCHANGED vars
    <2>1. UNCHANGED <<epoch, table, latest, backup, source, lastId, seen, shown, given,
                      covered, synced>>
      BY <1>1 DEF vars, serverVars, clientVars, cacheVars
    <2> QED BY <2>1 DEF ClientInv, TypeOK, Numbered, Synced, Reached, Held, IsNew
  <1> QED BY <1>1, CommitKeeps, OthersKeep, RestoreKeeps, ResetKeeps, DeliverKeeps DEF Next

\* The inductive invariant of the browser's end of the stream.
THEOREM ClientInvariant == Spec => []ClientInv
  BY ClientInit, ClientStep, PTL DEF Spec

\* Dropping remembered deliveries drops repetitions only: what was written to
\* the browser is in its cache, or was fetched again since (rememberDelivery).
THEOREM GivenIsShown == Spec => []DeliveriesAreShown
  <1>1. ClientInv => DeliveriesAreShown
    BY DEF ClientInv, Synced, Held, DeliveriesAreShown
  <1> QED BY <1>1, ClientInvariant, PTL

\* Told to reset, the browser drops its cache unless the cache holds all that
\* the database retains, when the database was never restored (handleReset).
THEOREM RetentionResetHonoured == Spec => RetentionResetIsHonoured
  <1>1. ASSUME ClientInv, [Next]_vars
        PROVE  [epoch = 0 => HonoursReset]_vars
    <2> SUFFICES ASSUME epoch = 0, source = "connecting", source' = "open", NeedsReset
                 PROVE  shown' = {} \/ Complete
      BY DEF HonoursReset
    <2>1. ConnectReset
      BY <1>1 DEF Next, Commit, Prune, Backup, Restore, Open, Close, Drop, Connect,
                  Deliver, vars, clientVars, serverVars
    <2>2. CASE IsNew(latest)
      BY <2>1, <2>2 DEF ConnectReset, HandleReset, ClearCache
    <2>3. CASE ~IsNew(latest)
      <3>1. synced /\ Synced /\ latest \in 0..MaxId /\ \A row \in table : Id(row) <= latest
        BY <1>1 DEF ClientInv, TypeOK, Numbered
      <3> QED BY <2>3, <3>1 DEF Synced, Reached, Held, Complete
    <2> QED BY <2>2, <2>3
  <1> QED BY <1>1, ClientInvariant, PTL DEF Spec, RetentionResetIsHonoured
-----------------------------------------------------------------------------
(* The other conversations.  Their proofs come from instances of their     *)
(* modules, which bring a second instance of each component: it is the     *)
(* same as the one MCLiveClient has, definition by definition.             *)

DP == INSTANCE DemoStreamProofs WITH
        source <- stream, lastId <- streamId, seen <- delivered
GP == INSTANCE GuardOperationsProofs

\* Both instances of DemoStream read the outbox alike.
LEMMA SameRows ==
    /\ DS!Oldest = DP!Oldest /\ DS!Latest = DP!Latest
    /\ \A last : DS!RowsAfter(last) = DP!RowsAfter(last)
  <1>1. DS!Oldest = DP!Oldest
    BY DEF DS!Oldest, DP!Oldest, DS!Min, DP!Min
  <1>2. DS!Latest = DP!Latest
    BY DEF DS!Latest, DP!Latest, DS!Max, DP!Max
  <1>3. \A S : DS!Cardinality(S) = DP!Cardinality(S)
    BY DEF DS!Cardinality, DP!Cardinality
  <1>4. \A last : DS!RowsAfter(last) = DP!RowsAfter(last)
    BY <1>3 DEF DS!RowsAfter, DP!RowsAfter, DS!Message, DP!Message
  <1> QED BY <1>1, <1>2, <1>4

\* Both instances of DemoStream take the same steps.
LEMMA SameStream == DS!Next <=> DP!Next
  <1>1. DS!Update <=> DP!Update
    BY SameRows DEF DS!pageVars, DS!Update, DP!pageVars, DP!Update
  <1>2. DS!Prune <=> DP!Prune
    BY SameRows DEF DS!pageVars, DS!NoId, DS!Prune, DS!Min, DP!pageVars, DP!NoId,
           DP!Prune, DP!Min
  <1>3. DS!OpenSnapshot <=> DP!OpenSnapshot
    BY SameRows DEF DS!rowVars, DS!NoId, DS!Message, DS!Opened, DS!OpenSnapshot,
           DP!rowVars, DP!NoId, DP!Message, DP!Opened, DP!OpenSnapshot
  <1>4. DS!OpenReset <=> DP!OpenReset
    BY SameRows DEF DS!rowVars, DS!NoId, DS!Message, DS!NeedsReset, DS!Opened,
           DS!OpenReset, DP!rowVars, DP!NoId, DP!Message, DP!NeedsReset,
           DP!Opened, DP!OpenReset
  <1>5. DS!OpenReplay <=> DP!OpenReplay
    BY SameRows DEF DS!rowVars, DS!NoId, DS!NeedsReset, DS!Opened, DS!Excused,
           DS!OpenReplay, DS!Last, DP!rowVars, DP!NoId, DP!NeedsReset,
           DP!Opened, DP!Excused, DP!OpenReplay, DP!Last
  <1>6. DS!Drain <=> DP!Drain
    BY SameRows DEF DS!rowVars, DS!pageVars, DS!NoId, DS!Drain, DP!rowVars,
           DP!pageVars, DP!NoId, DP!Drain
  <1>7. DS!Drop <=> DP!Drop
    BY SameRows DEF DS!rowVars, DS!NoId, DS!NoFetch, DS!Invalidate, DS!NoInvalidation,
           DS!StartPolling, DS!Disconnected, DS!Drop, DP!rowVars, DP!NoId,
           DP!NoFetch, DP!Invalidate, DP!NoInvalidation, DP!StartPolling,
           DP!Disconnected, DP!Drop
  <1>8. DS!Refuse <=> DP!Refuse
    BY SameRows DEF DS!rowVars, DS!NoFetch, DS!Invalidate, DS!NoInvalidation,
           DS!StartPolling, DS!Refuse, DP!rowVars, DP!NoFetch, DP!Invalidate,
           DP!NoInvalidation, DP!StartPolling, DP!Refuse
  <1>9. DS!Poll <=> DP!Poll
    BY SameRows DEF DS!rowVars, DS!NoFetch, DS!Invalidate, DS!OnlyInvalidates,
           DS!Poll, DP!rowVars, DP!NoFetch, DP!Invalidate, DP!OnlyInvalidates,
           DP!Poll
  <1>10. DS!Repeated <=> DP!Repeated
    BY SameRows DEF DS!rowVars, DS!Excused, DS!IsNew, DS!Repeated, DP!rowVars,
           DP!Excused, DP!IsNew, DP!Repeated
  <1>11. DS!HandleSnapshot <=> DP!HandleSnapshot
    BY SameRows DEF DS!rowVars, DS!NoFetch, DS!Invalidate, DS!IsNew, DS!Accepted,
           DS!HandleSnapshot, DP!rowVars, DP!NoFetch, DP!Invalidate,
           DP!IsNew, DP!Accepted, DP!HandleSnapshot
  <1>12. DS!HandleEvent <=> DP!HandleEvent
    BY SameRows DEF DS!rowVars, DS!NoId, DS!NoFetch, DS!Invalidate, DS!Disconnected,
           DS!IsNew, DS!Accepted, DS!HandleEvent, DP!rowVars, DP!NoId,
           DP!NoFetch, DP!Invalidate, DP!Disconnected, DP!IsNew, DP!Accepted,
           DP!HandleEvent
  <1>13. DS!HandleReset <=> DP!HandleReset
    BY SameRows DEF DS!rowVars, DS!NoFetch, DS!Invalidate, DS!IsNew, DS!Accepted,
           DS!HandleReset, DP!rowVars, DP!NoFetch, DP!Invalidate, DP!IsNew,
           DP!Accepted, DP!HandleReset
  <1>14. DS!ReadRun <=> DP!ReadRun
    BY SameRows DEF DS!rowVars, DS!ReadRun, DP!rowVars, DP!ReadRun
  <1>15. DS!ShowRun <=> DP!ShowRun
    BY SameRows DEF DS!rowVars, DS!NoId, DS!NoFetch, DS!Disconnected, DS!Show,
           DS!ShowRun, DP!rowVars, DP!NoId, DP!NoFetch, DP!Disconnected, DP!Show,
           DP!ShowRun
  <1>16. DS!FetchFails <=> DP!FetchFails
    BY SameRows DEF DS!rowVars, DS!NoFetch, DS!FetchFails, DP!rowVars, DP!NoFetch,
           DP!FetchFails
  <1>17. DS!Select <=> DP!Select
    BY SameRows DEF DS!rowVars, DS!NoId, DS!NoFetch, DS!Invalidate, DS!Disconnected,
           DS!Select, DP!rowVars, DP!NoId, DP!NoFetch, DP!Invalidate,
           DP!Disconnected, DP!Select
  <1>18. (DS!Refetch <=> DP!Refetch) /\ (DS!ReviewApproval <=> DP!ReviewApproval)
    BY SameRows DEF DS!rowVars, DS!NoFetch, DS!Invalidate, DS!OnlyInvalidates,
           DS!Refetch, DS!ReviewApproval, DP!rowVars, DP!NoFetch, DP!Invalidate,
           DP!OnlyInvalidates, DP!Refetch, DP!ReviewApproval
  <1>19. \A m : DS!Respond(m) <=> DP!Respond(m)
    BY SameRows DEF DS!rowVars, DS!Respond, DP!rowVars, DP!Respond
  <1>20. \A m : DS!ShowReply(m) <=> DP!ShowReply(m)
    BY SameRows DEF DS!rowVars, DS!NoId, DS!NoFetch, DS!Row, DS!Disconnected, DS!Show,
           DS!ShowReply, DP!rowVars, DP!NoId, DP!NoFetch, DP!Row, DP!Disconnected,
           DP!Show, DP!ShowReply
  <1>21. DS!Mutations = DP!Mutations
    BY DEF DS!Mutations, DP!Mutations
  <1> QED BY <1>1, <1>2, <1>3, <1>4, <1>5, <1>6, <1>7, <1>8, <1>9, <1>10, <1>11, <1>12,
             <1>13, <1>14, <1>15, <1>16, <1>17, <1>18, <1>19, <1>20, <1>21
          DEF DS!Next, DS!Handler, DS!Page, DP!Next, DP!Handler, DP!Page

\* Both instances of DemoStream start alike and promise the same.
LEMMA SamePage ==
    /\ DS!StreamAssumption <=> DP!StreamAssumption
    /\ DS!Init <=> DP!Init
    /\ DS!vars = DP!vars
    /\ DS!TypeOK <=> DP!TypeOK
    /\ DS!PageIsCurrent <=> DP!PageIsCurrent
  <1>1. DS!StreamAssumption <=> DP!StreamAssumption
    BY SameRows DEF DS!StreamAssumption, DP!StreamAssumption
  <1>2. DS!Init <=> DP!Init
    BY SameRows DEF DS!NoId, DS!NoFetch, DS!Mutations, DS!Row, DS!Init, DP!NoId,
           DP!NoFetch, DP!Mutations, DP!Row, DP!Init
  <1>3. DS!vars = DP!vars
    BY SameRows DEF DS!rowVars, DS!pageVars, DS!vars, DP!rowVars, DP!pageVars,
           DP!vars
  <1>4. DS!TypeOK <=> DP!TypeOK
    BY SameRows DEF DS!NoId, DS!Mutations, DS!TypeOK, DP!NoId, DP!Mutations, DP!TypeOK
  <1>5. DS!PageIsCurrent <=> DP!PageIsCurrent
    BY SameRows DEF DS!NoFetch, DS!Settled, DS!PageIsCurrent, DP!NoFetch, DP!Settled,
           DP!PageIsCurrent
  <1> QED BY <1>1, <1>2, <1>3, <1>4, <1>5

\* Both instances of GuardOperations use the same operators.
LEMMA SameSets ==
    /\ \A S : GO!Cardinality(S) = GP!Cardinality(S)
    /\ \A S : GO!IsFiniteSet(S) <=> GP!IsFiniteSet(S)
    /\ \A s : GO!ToSet(s) = GP!ToSet(s)
    /\ \A s, i : GO!RemoveAt(s, i) = GP!RemoveAt(s, i)
  <1>1. \A S : GO!Cardinality(S) = GP!Cardinality(S)
    BY DEF GO!Cardinality, GP!Cardinality
  <1>2. \A S : GO!IsFiniteSet(S) <=> GP!IsFiniteSet(S)
    BY DEF GO!IsFiniteSet, GP!IsFiniteSet
  <1>3. \A s : GO!ToSet(s) = GP!ToSet(s)
    BY DEF GO!ToSet, GP!ToSet
  <1>4. \A s, i : GO!RemoveAt(s, i) = GP!RemoveAt(s, i)
    BY DEF GO!RemoveAt, GP!RemoveAt
  <1> QED BY <1>1, <1>2, <1>3, <1>4

\* Both instances of GuardOperations take the same steps.
LEMMA SameGuard ==
    /\ GO!NextScans <=> GP!NextScans
    /\ GO!NextRules <=> GP!NextRules
  <1>1. \A s \in Scans : GO!StartScan(s) <=> GP!StartScan(s)
    BY SameSets DEF GO!ruleVars, GO!Completed, GO!Full, GO!Pruned, GO!Register,
           GO!NewJob, GO!StartScan, GP!ruleVars, GP!Completed, GP!Full,
           GP!Pruned, GP!Register, GP!NewJob, GP!StartScan
  <1>2. \A s \in Scans : GO!BeginDetection(s) <=> GP!BeginDetection(s)
    BY SameSets DEF GO!ruleVars, GO!UpdateJob, GO!BeginDetection, GP!ruleVars,
           GP!UpdateJob, GP!BeginDetection
  <1>3. \A s \in Scans : GO!EndDetection(s) <=> GP!EndDetection(s)
    BY SameSets DEF GO!ruleVars, GO!UpdateJob, GO!EndDetection, GP!ruleVars,
           GP!UpdateJob, GP!EndDetection
  <1>4. GO!Restart <=> GP!Restart
    BY SameSets DEF GO!NoCheck, GO!NoPublish, GO!Restart, GP!NoCheck, GP!NoPublish,
           GP!Restart
  <1>5. \A t \in Checks, origin \in Sources :
          GO!CheckRule(t, origin) <=> GP!CheckRule(t, origin)
    BY SameSets DEF GO!scanVars, GO!CheckRule, GP!scanVars, GP!CheckRule
  <1>6. \A t \in Checks : GO!IssueCheck(t) <=> GP!IssueCheck(t)
    BY SameSets DEF GO!scanVars, GO!OldestCheck, GO!IssueCheck, GP!scanVars,
           GP!OldestCheck, GP!IssueCheck
  <1>7. GO!ExpireCheck <=> GP!ExpireCheck
    BY SameSets DEF GO!scanVars, GO!OldestCheck, GO!ExpireCheck, GP!scanVars,
           GP!OldestCheck, GP!ExpireCheck
  <1>8. \A p \in Publishes, t \in Checks, agent \in Agents, origin \in Sources :
          GO!ResolveAgent(p, t, agent, origin) <=> GP!ResolveAgent(p, t, agent, origin)
    BY SameSets DEF GO!scanVars, GO!ResolveAgent, GP!scanVars, GP!ResolveAgent
  <1>9. \A p \in Publishes : GO!ConsumeCheck(p) <=> GP!ConsumeCheck(p)
    BY SameSets DEF GO!scanVars, GO!End, GO!ConsumeCheck, GP!scanVars, GP!End,
           GP!ConsumeCheck
  <1>10. \A p \in Publishes : GO!BeginMutation(p) <=> GP!BeginMutation(p)
    BY SameSets DEF GO!scanVars, GO!End, GO!Key, GO!BeginMutation, GP!scanVars,
           GP!End, GP!Key, GP!BeginMutation
  <1>11. \A p \in Publishes : GO!SendRule(p) <=> GP!SendRule(p)
    BY SameSets DEF GO!scanVars, GO!Key, GO!SendRule, GP!scanVars, GP!Key,
           GP!SendRule
  <1>12. \A p \in Publishes : GO!EndMutation(p) <=> GP!EndMutation(p)
    BY SameSets DEF GO!scanVars, GO!End, GO!Key, GO!EndMutation, GP!scanVars, GP!End,
           GP!Key, GP!EndMutation
  <1>13. GO!NextScans <=> GP!NextScans
    BY <1>1, <1>2, <1>3, <1>4 DEF GO!Scan, GP!Scan, GO!NextScans, GP!NextScans
  <1>14. \A t \in Checks : GO!Check(t) <=> GP!Check(t)
    BY <1>5, <1>6 DEF GO!Check, GP!Check
  <1>15. \A p \in Publishes : GO!Publish(p) <=> GP!Publish(p)
    BY <1>8, <1>9, <1>10, <1>11, <1>12 DEF GO!Publish, GP!Publish
  <1>16. GO!NextRules <=> GP!NextRules
    BY <1>4, <1>7, <1>14, <1>15 DEF GO!NextRules, GP!NextRules
  <1> QED BY <1>13, <1>16

\* Both instances of GuardOperations start alike and promise the same.
LEMMA SameRegistries ==
    /\ GO!GuardAssumption <=> GP!GuardAssumption
    /\ GO!Init <=> GP!Init
    /\ GO!vars = GP!vars
    /\ GO!TypeOK <=> GP!TypeOK
    /\ GO!RunningScansAreListed <=> GP!RunningScansAreListed
    /\ GO!OnePublishPerCheck <=> GP!OnePublishPerCheck
  <1>1. GO!GuardAssumption <=> GP!GuardAssumption
    BY SameSets DEF GO!GuardAssumption, GP!GuardAssumption
  <1>2. GO!Init <=> GP!Init
    BY SameSets DEF GO!NoCheck, GO!NoPublish, GO!Init, GP!NoCheck, GP!NoPublish,
           GP!Init
  <1>3. GO!vars = GP!vars
    BY SameSets DEF GO!scanVars, GO!ruleVars, GO!vars, GP!scanVars, GP!ruleVars,
           GP!vars
  <1>4. GO!TypeOK <=> GP!TypeOK
    BY SameSets DEF GO!TypeOK, GP!TypeOK
  <1>5. GO!RunningScansAreListed <=> GP!RunningScansAreListed
    BY SameSets DEF GO!Completed, GO!RunningScansAreListed, GP!Completed,
           GP!RunningScansAreListed
  <1>6. GO!OnePublishPerCheck <=> GP!OnePublishPerCheck
    BY SameSets DEF GO!Key, GO!OnePublishPerCheck, GP!Key, GP!OnePublishPerCheck
  <1> QED BY <1>1, <1>2, <1>3, <1>4, <1>5, <1>6

\* Each conversation has its invariant: the one that works by its own steps,
\* the others because nothing of theirs changes.
PagesInv == ClientInv /\ DP!StreamInv /\ GP!GuardInv

LEMMA PagesStart ==
    ASSUME PagesInit
    PROVE  PagesInv
  <1>1. DP!StreamInv
    BY PagesAssumption, SamePage, DP!StreamStart DEF PagesInit
  <1>2. GP!GuardInv
    BY PagesAssumption, SameRegistries, GP!GuardStart DEF PagesInit
  <1> QED BY <1>1, <1>2, ClientInit DEF PagesInit, PagesInv

LEMMA PagesStep ==
    ASSUME PagesInv, [PagesNext]_<<vars, streamVars, guardVars, working>>
    PROVE  PagesInv'
  <1>1. [Next]_vars
    BY DEF PagesNext
  <1>2. [DP!Next]_(DP!vars)
    <2>1. UNCHANGED streamVars => UNCHANGED DP!vars
      BY DEF streamVars, DP!vars, DP!rowVars, DP!pageVars
    <2> QED BY <2>1, SameStream DEF PagesNext
  <1>3. [GP!Next]_(GP!vars)
    <2>1. UNCHANGED guardVars => UNCHANGED GP!vars
      BY DEF guardVars, GP!vars, GP!scanVars, GP!ruleVars
    <2> QED BY <2>1, SameGuard DEF PagesNext, GP!Next
  <1>4. DP!StreamInv'
    BY <1>2, PagesAssumption, SamePage, DP!StreamStep DEF PagesInv
  <1>5. GP!GuardInv'
    BY <1>3, PagesAssumption, SameRegistries, GP!GuardStep DEF PagesInv
  <1> QED BY <1>1, <1>4, <1>5, ClientStep DEF PagesInv

LEMMA PagesMeaning ==
    ASSUME PagesInv
    PROVE  /\ PagesTypeOK /\ PageIsCurrent /\ RunningScansAreListed
           /\ OnePublishPerCheck
  <1>1. DS!TypeOK /\ DS!PageIsCurrent
    BY PagesAssumption, SamePage, DP!StreamMeaning DEF PagesInv
  <1>2. GO!TypeOK /\ GO!RunningScansAreListed /\ GO!OnePublishPerCheck
    BY PagesAssumption, SameRegistries, GP!GuardMeaning DEF PagesInv
  <1> QED BY <1>1, <1>2 DEF PagesInv, ClientInv, PagesTypeOK, PageIsCurrent,
             RunningScansAreListed, OnePublishPerCheck

\* The inductive invariant of the console's conversations.
THEOREM PagesInvariant == PagesSpec => []PagesInv
  BY PagesStart, PagesStep, PTL DEF PagesSpec

\* Every conversation keeps its state within the bounds and types of its code.
THEOREM PagesTypes == PagesSpec => []PagesTypeOK
  BY PagesInvariant, PagesMeaning, PTL

\* A Demo page about which nothing is under way but the next interval shows the run
\* as it is, with the exceptions of PageIsCurrent, and its list of events has
\* neither gap nor repetition (demoRunEvents, use-demo-run-events.ts and
\* demo-lab-page.tsx), for any number of updates, broken connections and late
\* responses.
THEOREM SettledPagesAreCurrent == PagesSpec => []PageIsCurrent
  BY PagesInvariant, PagesMeaning, PTL

\* A scan that goes on is registered, unfinished and listed (newJob), for any
\* scans and any maximum.
THEOREM RunningScansStayListed == PagesSpec => []RunningScansAreListed
  BY PagesInvariant, PagesMeaning, PTL

\* No rule is published unchecked, no check is used twice and no two
\* publications of a rule for an agent overlap (PublishRuntimeRule).
THEOREM PublishesUseOneCheck == PagesSpec => []OnePublishPerCheck
  BY PagesInvariant, PagesMeaning, PTL
=============================================================================
