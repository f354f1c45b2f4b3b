--------------------------- MODULE DemoStreamProofs ---------------------------
(***************************************************************************)
(* Proofs about DemoStream: once everything has settled, the Demo page     *)
(* shows the run as it is, and its list of events has no gap, for any      *)
(* number of updates, broken connections, failed fetches and late answers. *)
(***************************************************************************)
EXTENDS DemoStream, FiniteSetTheorems, SequenceTheorems, TLAPS

\* Retention keeps the newest rows.
Rows == /\ rows \subseteq 1..version
        /\ \A r \in rows, s \in 1..version : r <= s => s \in rows

Messages == [ended : BOOLEAN, id : Nat, kind : {"event", "snapshot", "reset"}]
IsEvent(m) == m.kind = "event"
\* What is on the wire is in order and not beyond the handler's position; a first
\* answer comes first, a terminal event last.
Wire ==
    /\ wire \in Seq(Messages)
    /\ wire # <<>> => source = "open"
    /\ \A i \in 1..Len(wire) :
         /\ wire[i].id <= cursor
         /\ IsEvent(wire[i]) => wire[i].id > 0
         /\ wire[i].ended => IsEvent(wire[i]) /\ ended /\ wire[i].id = version
         /\ i > 1 => IsEvent(wire[i])
         /\ wire[i].kind = "snapshot" => lastId = NoId
    /\ \A i, j \in 1..Len(wire) : i < j => wire[i].id < wire[j].id

\* Events follow each other without a gap, and the first one the id before it,
\* unless that is 0, the id of an emptied outbox.
Link(from, to) == from = 0 \/ to = from + 1
Links ==
    /\ \A i \in 1..Len(wire) - 1 : Link(wire[i].id, wire[i + 1].id)
    /\ wire # <<>> /\ IsEvent(wire[1]) => lastId # NoId /\ Link(lastId, wire[1].id)
    /\ source = "open" => cursor = IF wire = <<>> THEN lastId ELSE wire[Len(wire)].id

\* A connected handler finds every row after its position.
Server ==
    /\ cursor \in {NoId} \cup 0..version
    /\ (cursor # NoId <=> source = "open")
    /\ cursor > 0 => cursor + 1..version \subseteq rows

\* Rows after an id have not been delivered: not after the browser's, not after
\* the handler's, and not after the id that a message on the wire will leave.
\* A known id on the wire is one of a snapshot, or 0.
Fresh(id) == \A s \in seen, r \in rows : id < r => s < r
NoRepetition ==
    /\ lastId \in {NoId} \cup seen
    /\ seen \subseteq 0..version
    /\ lastId # NoId => Fresh(lastId)
    /\ source = "open" => Fresh(cursor)
    /\ \A i \in 1..Len(wire) : Fresh(wire[i].id)
    /\ \A i \in 1..Len(wire) :
         wire[i].kind # "snapshot" /\ wire[i].id > 0 => \A s \in seen : s < wire[i].id

\* The list of events ends with the last id, or no event will follow: a stream
\* that was closed is opened again only after the last update.
Over == /\ ended
        /\ \A i \in 1..Len(wire) : ~IsEvent(wire[i])
        /\ lastId # NoId => \A r \in rows : r <= lastId
        /\ source = "open" => \A r \in rows : r <= cursor
NoGap ==
    /\ events \in Seq(Nat)
    /\ torn \in BOOLEAN
    /\ ~torn => /\ \A i \in 1..Len(events) - 1 : events[i + 1] = events[i] + 1
                /\ events # <<>> => \/ Over
                                    \/ lastId > 0 /\ lastId = events[Len(events)]

\* What was read of the run was true; it may be older than what is shown.
Answer(x) == /\ x.version <= version
             /\ x.ended => ended /\ x.version = version
             /\ x.version = version => (x.ended <=> ended)
Answers ==
    /\ page \in [version : Nat, ended : BOOLEAN]
    /\ fetch \in [version : Nat, ended : BOOLEAN, pc : {"none", "sent", "answered"}]
    /\ replies \in [Mutations -> 0..version]
    /\ page.version > 0
    /\ Answer(page)
    /\ fetch.pc = "none" => fetch = NoFetch
    /\ fetch.pc = "answered" => Answer(fetch) /\ fetch.version > 0

\* The fetch under way, or else the page, knows of the last update.  It does once
\* the update's id was handled; before, the stream has yet to tell it.  A
\* response may close the stream while an older answer, which will open it
\* again, is under way.
Told == \/ fetch.pc = "none" /\ page.version = version
        \/ fetch.pc = "sent"
        \/ fetch.pc = "answered" /\ fetch.version = version
Current ==
    /\ excused \in BOOLEAN
    /\ ~excused =>
         /\ version \in seen => Told
         /\ source = "open" => \/ Told \/ wire # <<>>
                               \/ \E r \in rows : r > cursor
         /\ source = "closed" => Told \/ (fetch.pc = "answered" /\ page.ended)
    /\ source = "closed" => ended

StreamInv == /\ version \in 1..MaxVersion /\ ended \in BOOLEAN
             /\ source \in {"connecting", "open", "closed", "refused"}
             /\ polling \in BOOLEAN
             /\ polling => source \in {"connecting", "refused"}
             /\ Rows /\ Wire /\ Links /\ Server
             /\ NoRepetition /\ NoGap /\ Answers /\ Current
-----------------------------------------------------------------------------
(* Rows and messages *)

\* A set of versions with every later one is an interval.
LEMMA Newest ==
    ASSUME version \in Nat, NEW S, S \subseteq 1..version,
           \A r \in S, s \in 1..version : r <= s => s \in S
    PROVE  /\ IsFiniteSet(S) /\ Cardinality(S) \in Nat
           /\ S = version - Cardinality(S) + 1..version
  <1>1. /\ IsFiniteSet(1..version) /\ IsFiniteSet(S) /\ Cardinality(S) \in Nat
    <2>1. IsFiniteSet(1..version)
      <3>1. 1 \in Int /\ version \in Int
        OBVIOUS
      <3> QED BY <3>1, FS_Interval
    <2>2. IsFiniteSet(S)
      BY <2>1, FS_Subset
    <2> QED BY <2>1, <2>2, FS_CardinalityType
  <1>2. ASSUME NEW r \in S PROVE r >= version - Cardinality(S) + 1
    <2>1. r..version \subseteq S /\ r \in Int /\ r <= version
      OBVIOUS
    <2>2. Cardinality(r..version) = version - r + 1
      BY <2>1, FS_Interval
    <2>3. Cardinality(r..version) <= Cardinality(S)
      BY <1>1, <2>1, FS_Subset
    <2> QED BY <1>1, <2>1, <2>2, <2>3
  <1> DEFINE I == version - Cardinality(S) + 1..version
  <1>3. S \subseteq I
    BY <1>1, <1>2
  <1>4. IsFiniteSet(I) /\ Cardinality(I) = Cardinality(S)
    <2> DEFINE lo == version - Cardinality(S) + 1
    <2>1. lo \in Int /\ version \in Int /\ version - lo + 1 = Cardinality(S)
          /\ (lo > version <=> Cardinality(S) = 0)
      BY <1>1
    <2> HIDE DEF lo
    <2>2. IsFiniteSet(lo..version)
          /\ Cardinality(lo..version) = IF lo > version THEN 0 ELSE version - lo + 1
      BY <2>1, FS_Interval
    <2>3. Cardinality(lo..version) = Cardinality(S)
      BY <2>1, <2>2
    <2> QED BY <2>2, <2>3 DEF lo
  <1> HIDE DEF I
  <1>5. S = I
    BY <1>3, <1>4, FS_Subset
  <1> QED BY <1>1, <1>5 DEF I

\* The newest row is the last update's, and the oldest row is in the table.
LEMMA OutboxEnds ==
    ASSUME version \in Nat \ {0}, Rows
    PROVE  /\ rows = {} => Latest = 0 /\ Oldest = 0
           /\ rows # {} => /\ Latest = version /\ version \in rows
                           /\ Oldest \in rows
                           /\ \A r \in rows : Oldest <= r
           /\ rows # {} => Oldest = Min(rows)
  <1>1. CASE rows = {}
    BY <1>1 DEF Latest, Oldest
  <1>2. CASE rows # {}
    <2>1. rows \subseteq 1..version /\ version \in rows
      <3>1. PICK r \in rows : TRUE
        BY <1>2
      <3>2. version \in 1..version /\ r <= version
        BY <3>1 DEF Rows
      <3> QED BY <3>1, <3>2 DEF Rows
    <2>2. Max(rows) = version
      <3>1. version \in rows /\ \A r \in rows : version >= r
        BY <2>1
      <3>2. \A x \in rows : (\A r \in rows : x >= r) => x = version
        BY <2>1
      <3> QED BY <3>1, <3>2 DEF Max
    <2>3. Min(rows) \in rows /\ \A r \in rows : Min(rows) <= r
      <3> DEFINE lo == version - Cardinality(rows) + 1
      <3>1. rows = lo..version /\ Cardinality(rows) \in Nat
        BY Newest DEF Rows
      <3>2. lo \in Int
        BY <3>1
      <3> HIDE DEF lo
      <3>3. lo \in rows /\ \A r \in rows : lo <= r
        BY <3>1, <3>2, <1>2
      <3> QED BY <3>3 DEF Min
    <2> QED BY <1>2, <2>1, <2>2, <2>3 DEF Latest, Oldest
  <1> QED BY <1>1, <1>2

\* A batch: the rows after an id, in order.
Batch(last) ==
    /\ RowsAfter(last) \in Seq(Messages)
    /\ RowsAfter(last) = <<>> <=> \A r \in rows : r <= last
    /\ \A i \in 1..Len(RowsAfter(last)) :
         /\ RowsAfter(last)[i].kind = "event"
         /\ RowsAfter(last)[i].id = version - Len(RowsAfter(last)) + i
         /\ RowsAfter(last)[i].id \in rows /\ RowsAfter(last)[i].id > last
         /\ RowsAfter(last)[i].ended => ended /\ RowsAfter(last)[i].id = version
    /\ \A r \in rows : r > last => r >= version - Len(RowsAfter(last)) + 1

\* What the handler reads after an id is a batch.
LEMMA RowsAfterIsBatch ==
    ASSUME version \in Nat, ended \in BOOLEAN, Rows, NEW last \in Int
    PROVE  Batch(last)
  <1> DEFINE S == {r \in rows : r > last}
             many == Cardinality(S)
             nth(i) == version - many + i
             message(i) == Message("event", nth(i), ended /\ nth(i) = version)
  <1>1. many \in Nat /\ S = version - many + 1..version /\ IsFiniteSet(S)
    <2>1. S \subseteq 1..version
      BY DEF Rows
    <2>2. ASSUME NEW r \in S, NEW s \in 1..version, r <= s PROVE s \in S
      <3>1. r \in rows /\ r \in Int /\ s \in rows
        BY <2>1, <2>2 DEF Rows
      <3> QED BY <2>2, <3>1
    <2> HIDE DEF S
    <2> QED BY <2>1, <2>2, Newest DEF many
  <1>2. RowsAfter(last) = [i \in 1..many |-> message(i)]
    BY DEF RowsAfter
  <1>s. S \subseteq rows /\ rows \subseteq 1..version
        /\ (\A r \in S : r > last) /\ \A r \in rows : r > last => r \in S
    BY DEF Rows
  <1>e. many = 0 <=> S = {}
    BY <1>1, FS_EmptySet
  <1> HIDE DEF S, many
  <1>3. ASSUME NEW i \in 1..many
        PROVE  nth(i) \in S /\ nth(i) \in Nat /\ nth(i) > 0
    BY <1>1, <1>3, <1>s
  <1>4. ASSUME NEW i \in 1..many
        PROVE  /\ message(i) \in Messages /\ message(i).kind = "event"
               /\ message(i).id = nth(i)
               /\ message(i).ended => ended /\ message(i).id = version
    BY <1>3, <1>4 DEF Message, Messages
  <1> HIDE DEF message
  <1>5. RowsAfter(last) \in Seq(Messages)
    BY <1>1, <1>2, <1>4
  <1>6. Len(RowsAfter(last)) = many
    BY <1>1, <1>2, <1>5
  <1>7. \A i \in 1..many : RowsAfter(last)[i] = message(i)
    BY <1>2
  <1>8. RowsAfter(last) = <<>> <=> many = 0
    BY <1>1, <1>5, <1>6, EmptySeq, LenProperties
  <1>9. RowsAfter(last) = <<>> <=> \A r \in rows : r <= last
    <2>1. S = {} <=> \A r \in rows : r <= last
      <3>1. \A r \in rows : r \in Int
        BY <1>s
      <3> QED BY <1>s, <3>1
    <2> QED BY <1>8, <1>e, <2>1
  <1>10. \A i \in 1..many :
           /\ message(i).kind = "event" /\ message(i).id = version - many + i
           /\ message(i).id \in rows /\ message(i).id > last
           /\ message(i).ended => ended /\ message(i).id = version
    BY <1>3, <1>4, <1>s
  <1>11. \A r \in rows : r > last => r >= version - many + 1
    BY <1>1, <1>s
  <1> QED BY <1>5, <1>6, <1>7, <1>9, <1>10, <1>11 DEF Batch
-----------------------------------------------------------------------------
(* The stream *)

\* What the parts of the invariant about the stream say of it.
Flow == Wire /\ Links /\ Server /\ NoRepetition

\* The ids and versions are numbers.
LEMMA Versions ==
    ASSUME StreamInv
    PROVE  /\ version \in Nat \ {0} /\ ended \in BOOLEAN /\ Rows /\ Flow
           /\ lastId \in Int /\ cursor \in Int /\ rows \subseteq 1..version
           /\ seen \subseteq 0..version /\ lastId \in {NoId} \cup 0..version
  BY DEF StreamInv, Flow, NoRepetition, Server, NoId, Rows

\* Whatever the page does, the stream is as it was.
LEMMA FlowStays ==
    ASSUME Flow, UNCHANGED <<rowVars, cursor, wire, source, lastId, seen, events>>
    PROVE  Flow'
  <1>1. Wire'
    BY DEF Flow, Wire, rowVars
  <1>2. Links'
    BY DEF Flow, Links, rowVars
  <1>3. Server'
    BY DEF Flow, Server, rowVars
  <1>4. NoRepetition'
    BY DEF Flow, NoRepetition, Fresh, rowVars
  <1> QED BY <1>1, <1>2, <1>3, <1>4 DEF Flow

\* A stream that ends or breaks leaves its last id.
LEMMA FlowEnds ==
    ASSUME wire' = <<>>, cursor' = NoId, source' # "open",
           lastId' \in {NoId} \cup seen', seen' \subseteq 0..version',
           lastId' # NoId => \A s \in seen', r \in rows' : lastId' < r => s < r
    PROVE  Flow'
  <1>1. Wire'
    <2>1. wire' \in Seq(Messages) /\ Len(wire') = 0
      BY EmptySeq
    <2> QED BY <2>1 DEF Wire
  <1>2. Links'
    <2>1. Len(wire') = 0
      BY EmptySeq
    <2> QED BY <2>1 DEF Links
  <1>3. Server'
    BY DEF Server, NoId
  <1>4. NoRepetition'
    <2>1. Len(wire') = 0
      BY EmptySeq
    <2> QED BY <2>1 DEF NoRepetition, Fresh
  <1> QED BY <1>1, <1>2, <1>3, <1>4 DEF Flow

\* Messages on the wire have ids and end flags.
LEMMA WireFacts ==
    ASSUME Wire
    PROVE  /\ Len(wire) \in Nat
           /\ wire # <<>> <=> Len(wire) > 0
           /\ \A i \in 1..Len(wire) : /\ wire[i] \in Messages /\ wire[i].id \in Nat
                                      /\ wire[i].ended \in BOOLEAN
  <1>1. /\ Len(wire) \in Nat /\ \A i \in 1..Len(wire) : wire[i] \in Messages
        /\ wire # <<>> <=> Len(wire) > 0
    BY LenProperties, EmptySeq DEF Wire
  <1> QED BY <1>1 DEF Messages

\* What has been handled is behind what is left on the wire.
LEMMA HeadFacts ==
    ASSUME StreamInv, source = "open", wire # <<>>
    PROVE  /\ Head(wire) = wire[1] /\ wire[1] \in Messages
           /\ wire[1].id \in 0..version
           /\ \A s \in seen \cup {wire[1].id}, r \in rows : wire[1].id < r => s < r
           /\ wire[1].id <= cursor
           /\ wire[1].kind = "snapshot" => lastId = NoId
           /\ IsEvent(wire[1]) => /\ wire[1].id > 0 /\ wire[1].id \notin seen
                                  /\ lastId # NoId /\ Link(lastId, wire[1].id)
           /\ wire[1].ended => ended /\ wire[1].id = version
           /\ wire[1].kind # "snapshot" /\ wire[1].id > 0 => wire[1].id \notin seen
  <1>1. Wire /\ Len(wire) \in Nat /\ Len(wire) > 0 /\ wire \in Seq(Messages)
    BY WireFacts DEF StreamInv, Wire
  <1>2. 1 \in 1..Len(wire) /\ Head(wire) = wire[1] /\ wire[1] \in Messages
    BY <1>1, WireFacts
  <1>3. wire[1].id \in Nat /\ wire[1].id <= cursor /\ cursor \in Int /\ cursor <= version
    BY <1>2, WireFacts, Versions DEF StreamInv, Wire, Server, NoId
  <1>4. wire[1].id \in 0..version
    BY <1>3, Versions
  <1>5. \A s \in seen, r \in rows : wire[1].id < r => s < r
    BY <1>2 DEF StreamInv, NoRepetition, Fresh
  <1>6. /\ IsEvent(wire[1]) => wire[1].id > 0
        /\ wire[1].kind # "snapshot" /\ wire[1].id > 0 =>
             \A s \in seen : s < wire[1].id
    BY <1>2 DEF StreamInv, NoRepetition, Wire
  <1>7. /\ wire[1].kind # "snapshot" /\ wire[1].id > 0 => wire[1].id \notin seen
        /\ IsEvent(wire[1]) => wire[1].id \notin seen
    <2>1. wire[1].kind # "snapshot" /\ wire[1].id > 0 => wire[1].id \notin seen
      BY <1>3, <1>6
    <2> QED BY <1>6, <2>1 DEF IsEvent
  <1>8. IsEvent(wire[1]) => lastId # NoId /\ Link(lastId, wire[1].id)
    BY DEF StreamInv, Links
  <1> QED BY <1>2, <1>3, <1>4, <1>5, <1>6, <1>7, <1>8 DEF StreamInv, Wire

\* The first message is handled.
LEMMA FlowAdvances ==
    ASSUME StreamInv, source = "open", wire # <<>>,
           UNCHANGED <<rowVars, cursor, source>>,
           wire' = Tail(wire), lastId' = wire[1].id,
           seen' \subseteq seen \cup {wire[1].id}, wire[1].id \in seen'
    PROVE  Flow'
  <1>v. /\ version' = version /\ rows' = rows /\ ended' = ended
        /\ version \in Nat \ {0} /\ lastId \in Int /\ cursor \in Int
        /\ rows \subseteq 1..version /\ seen \subseteq 0..version
    BY Versions DEF rowVars
  <1>1. Wire /\ Links /\ Server /\ NoRepetition
    BY DEF StreamInv
  <1>2. /\ Len(wire) \in Nat /\ Len(wire) > 0
        /\ \A i \in 1..Len(wire) : wire[i] \in Messages /\ wire[i].id \in Nat
    BY <1>1, WireFacts
  <1>3. /\ wire' \in Seq(Messages) /\ Len(wire') = Len(wire) - 1
        /\ \A i \in 1..Len(wire') : i + 1 \in 1..Len(wire) /\ wire'[i] = wire[i + 1]
    <2>1. /\ wire' \in Seq(Messages) /\ Len(wire') = Len(wire) - 1
          /\ \A i \in 1..Len(wire') : wire'[i] = wire[i + 1]
      BY <1>1, HeadTailProperties DEF Wire
    <2> QED BY <1>2, <2>1
  <1>4. Len(wire') \in Nat /\ (wire' = <<>> <=> Len(wire') = 0)
    BY <1>3, LenProperties, EmptySeq
  <1>h. /\ wire[1].id \in 0..version /\ wire[1].id <= cursor
        /\ \A s \in seen \cup {wire[1].id}, r \in rows : wire[1].id < r => s < r
    BY HeadFacts
  <1>5. \A i \in 1..Len(wire') :
          /\ IsEvent(wire'[i]) /\ wire'[i].id > wire[1].id /\ wire'[i].id \in Nat
          /\ wire'[i].id <= cursor
    BY <1>1, <1>2, <1>3 DEF Wire
  <1>6. Wire'
    <2>1. \A i \in 1..Len(wire') :
            wire'[i].ended => ended /\ wire'[i].id = version
      BY <1>1, <1>3 DEF Wire
    <2>2. \A i, j \in 1..Len(wire') : i < j => wire'[i].id < wire'[j].id
      <3> TAKE i, j \in 1..Len(wire')
      <3> HAVE i < j
      <3>1. i + 1 < j + 1 /\ i + 1 \in 1..Len(wire) /\ j + 1 \in 1..Len(wire)
        BY <1>3, <1>4
      <3> QED BY <1>1, <1>3, <3>1 DEF Wire
    <2>3. \A i \in 1..Len(wire') : wire'[i].kind # "snapshot" /\ wire'[i].id > 0
      BY <1>5, <1>h DEF IsEvent
    <2> QED BY <1>v, <1>3, <1>5, <2>1, <2>2, <2>3 DEF Wire, IsEvent
  <1>7. Links'
    <2>1. \A i \in 1..Len(wire') - 1 : Link(wire'[i].id, wire'[i + 1].id)
      <3> TAKE i \in 1..Len(wire') - 1
      <3>1. i \in 1..Len(wire') /\ i + 1 \in 1..Len(wire') /\ i + 1 \in 1..Len(wire) - 1
        BY <1>3, <1>4
      <3>2. Link(wire[i + 1].id, wire[(i + 1) + 1].id)
        BY <1>1, <3>1 DEF Links
      <3> QED BY <1>3, <3>1, <3>2
    <2>2. wire' # <<>> => Link(wire[1].id, wire'[1].id)
      <3> HAVE wire' # <<>>
      <3>1. 1 \in 1..Len(wire) - 1 /\ 1 \in 1..Len(wire')
        BY <1>3, <1>4
      <3>2. Link(wire[1].id, wire[1 + 1].id)
        BY <1>1, <3>1 DEF Links
      <3> QED BY <1>3, <3>1, <3>2
    <2>3. lastId' # NoId
      BY <1>h DEF NoId
    <2>4. cursor = IF wire' = <<>> THEN lastId' ELSE wire'[Len(wire')].id
      <3>1. cursor = wire[Len(wire)].id
        BY <1>1 DEF Links
      <3>2. CASE wire' = <<>>
        BY <1>3, <1>4, <1>2, <3>1, <3>2
      <3>3. CASE wire' # <<>>
        <4>1. Len(wire') \in 1..Len(wire') /\ Len(wire') + 1 = Len(wire)
          BY <1>2, <1>3, <1>4, <3>3
        <4> QED BY <1>3, <3>1, <3>3, <4>1
      <3> QED BY <3>2, <3>3
    <2> QED BY <2>1, <2>2, <2>3, <2>4 DEF Links
  <1>8. Server'
    BY <1>1, <1>v DEF Server
  <1>9. NoRepetition'
    <2>1. seen' \subseteq 0..version /\ lastId' \in 0..version
      BY <1>v, <1>h
    <2>2. ASSUME NEW x \in Int, wire[1].id <= x, NEW s \in seen', NEW r \in rows, x < r
          PROVE  s < r
      <3>1. wire[1].id < r
        BY <1>h, <1>v, <2>2
      <3> QED BY <1>h, <3>1
    <2>3. Fresh(lastId)' /\ Fresh(cursor)'
      BY <1>h, <1>v, <2>2 DEF Fresh
    <2>4. \A i \in 1..Len(wire') : Fresh(wire[i].id)'
      BY <1>h, <1>v, <1>5, <2>2 DEF Fresh
    <2>5. ASSUME NEW i \in 1..Len(wire'), NEW s \in seen' PROVE s < wire'[i].id
      <3>1. CASE s = wire[1].id
        BY <1>5, <3>1
      <3>2. CASE s \in seen
        <4>1. /\ i + 1 \in 1..Len(wire) /\ wire'[i] = wire[i + 1]
              /\ wire[i + 1].kind # "snapshot" /\ wire[i + 1].id > 0
          BY <1>3, <1>5, <1>h DEF IsEvent
        <4> QED BY <1>1, <3>2, <4>1 DEF NoRepetition
      <3> QED BY <3>1, <3>2
    <2>6. lastId' \in seen'
      OBVIOUS
    <2> QED BY <1>v, <2>1, <2>3, <2>4, <2>5, <2>6 DEF NoRepetition
  <1> QED BY <1>6, <1>7, <1>8, <1>9 DEF Flow

\* A first answer that names the newest row, or 0 if there is none.
LEMMA FlowStarts ==
    ASSUME StreamInv, source = "connecting", source' = "open", UNCHANGED rowVars,
           UNCHANGED <<lastId, seen, events>>,
           NEW m \in Messages, m.kind \in {"snapshot", "reset"}, m.id = Latest, ~m.ended,
           m.kind = "snapshot" => lastId = NoId,
           m.kind = "reset" => lastId # NoId /\ NeedsReset(lastId),
           wire' = <<m>>, cursor' = Latest
    PROVE  Flow'
  <1>v. /\ version' = version /\ rows' = rows /\ ended' = ended
        /\ version \in Nat \ {0} /\ lastId \in Int /\ rows \subseteq 1..version
        /\ seen \subseteq 0..version /\ Rows
    BY Versions DEF rowVars
  <1>1. /\ Latest \in 0..version /\ (Latest > 0 => Latest = version)
        /\ \A r \in rows : ~ (Latest < r)
    BY <1>v, OutboxEnds
  <1>2. /\ wire' \in Seq(Messages) /\ Len(wire') = 1 /\ wire'[1] = m /\ wire' # <<>>
    OBVIOUS
  <1>3. \A i \in 1..Len(wire') : i = 1
    BY <1>2
  <1>4. Wire'
    BY <1>1, <1>2, <1>3 DEF Wire, IsEvent
  <1>5. Links'
    BY <1>2 DEF Links, IsEvent
  <1>6. Server'
    BY <1>1, <1>v DEF Server, NoId
  <1>7. NoRepetition'
    <2>1. NoRepetition
      BY DEF StreamInv
    <2>2. lastId' # NoId => Fresh(lastId)'
      BY <2>1, <1>v DEF NoRepetition, Fresh
    <2>3. Fresh(cursor)' /\ \A i \in 1..Len(wire') : Fresh(wire[i].id)'
      BY <1>v, <1>1, <1>2, <1>3 DEF Fresh
    <2>4. m.kind # "snapshot" /\ m.id > 0 => \A s \in seen : s < m.id
      <3> HAVE m.kind # "snapshot" /\ m.id > 0
      <3>1. lastId # NoId /\ NeedsReset(lastId) /\ Latest = version
        BY <1>1
      <3>2. rows # {} /\ version \in rows /\ Oldest \in rows
        BY <1>v, <1>1, OutboxEnds
      <3>3. lastId < version
        <4>1. lastId \in 0..version /\ Oldest \in 1..version
          BY <1>v, <3>1, <3>2, Versions
        <4> QED BY <1>v, <3>1, <4>1 DEF NeedsReset
      <3> QED BY <1>v, <2>1, <3>1, <3>2, <3>3 DEF NoRepetition, Fresh
    <2> QED BY <1>2, <1>3, <1>v, <2>1, <2>2, <2>3, <2>4 DEF NoRepetition
  <1> QED BY <1>4, <1>5, <1>6, <1>7 DEF Flow

\* A batch follows what is on the wire: it starts after an id that is 0 or has
\* all later rows in the table.
LEMMA FlowContinues ==
    ASSUME StreamInv, UNCHANGED <<rowVars, lastId, seen, events>>,
           NEW last \in 0..version, last > 0 => last + 1..version \subseteq rows,
           Fresh(last), RowsAfter(last) # <<>>,
           wire = <<>> => last = lastId,
           wire # <<>> => last = cursor,
           source' = "open", wire' = wire \o RowsAfter(last), cursor' = version
    PROVE  Flow'
  <1> DEFINE b == RowsAfter(last)
             n == Len(wire)
  <1>v. /\ version' = version /\ rows' = rows /\ ended' = ended
        /\ version \in Nat \ {0} /\ lastId \in Int /\ rows \subseteq 1..version
        /\ seen \subseteq 0..version /\ Rows /\ ended \in BOOLEAN
        /\ cursor \in Int /\ cursor <= version
    BY Versions DEF rowVars, StreamInv, Server, NoId
  <1>1. Wire /\ Links /\ Server /\ NoRepetition
    BY DEF StreamInv
  <1>2. /\ n \in Nat /\ (wire # <<>> <=> n > 0) /\ wire \in Seq(Messages)
        /\ \A i \in 1..n : wire[i] \in Messages /\ wire[i].id \in Nat
    BY <1>1, WireFacts DEF Wire
  <1>3. Batch(last)
    BY <1>v, RowsAfterIsBatch
  <1>4. /\ b \in Seq(Messages) /\ Len(b) \in Nat /\ Len(b) > 0
        /\ \A i \in 1..Len(b) : /\ IsEvent(b[i]) /\ b[i].id = version - Len(b) + i
                                /\ b[i].id \in rows /\ b[i].id > last
                                /\ b[i].ended => ended /\ b[i].id = version
    <2>1. b \in Seq(Messages)
      BY <1>3 DEF Batch
    <2>2. Len(b) \in Nat /\ Len(b) > 0
      BY <2>1, LenProperties, EmptySeq
    <2> QED BY <1>3, <2>1, <2>2 DEF Batch, IsEvent
  <1>5. Link(last, b[1].id)
    <2>1. 1 \in 1..Len(b) /\ b[1].id \in Int /\ b[1].id > last
          /\ b[1].id = version - Len(b) + 1 /\ b[1].id \in 1..version
      BY <1>4, <1>v
    <2>2. CASE last > 0
      <3>1. last + 1 \in rows
        BY <1>v, <2>1, <2>2
      <3>2. last + 1 > last /\ last + 1 \in Int
        OBVIOUS
      <3>3. last + 1 >= version - Len(b) + 1
        BY <1>3, <3>1, <3>2 DEF Batch
      <3>4. last + 1 >= b[1].id
        BY <2>1, <3>3
      <3> HIDE DEF b
      <3>5. b[1].id = last + 1
        BY <2>1, <3>4
      <3> QED BY <3>5 DEF Link
    <2>3. CASE last = 0
      BY <2>3 DEF Link
    <2> QED BY <2>2, <2>3
  <1> HIDE DEF b
  <1>6. /\ wire' \in Seq(Messages) /\ Len(wire') = n + Len(b)
        /\ \A i \in 1..n + Len(b) : wire'[i] = IF i <= n THEN wire[i] ELSE b[i - n]
    BY <1>2, <1>4, ConcatProperties DEF b
  <1>7. ASSUME NEW i \in 1..Len(wire')
        PROVE  \/ i \in 1..n /\ wire'[i] = wire[i]
               \/ i > n /\ i - n \in 1..Len(b) /\ wire'[i] = b[i - n]
    BY <1>2, <1>4, <1>6
  <1>8. Len(wire') > 0 /\ Len(wire') \in Nat /\ wire' # <<>>
    BY <1>2, <1>4, <1>6, EmptySeq
  <1>b. \A i \in 1..Len(b) : b[i].id \in 1..version /\ b[i].id \in Int /\ b[i].id > last
    BY <1>4, <1>v
  <1>9. \A i \in 1..n : wire[i].id <= last
    BY <1>1, <1>2 DEF Wire
  <1>10. Wire'
    <2>1. ASSUME NEW i \in 1..Len(wire')
          PROVE  /\ wire'[i].id <= version
                 /\ IsEvent(wire'[i]) => wire'[i].id > 0
                 /\ wire'[i].ended => IsEvent(wire'[i]) /\ ended /\ wire'[i].id = version
                 /\ i > 1 => IsEvent(wire'[i])
                 /\ wire'[i].kind = "snapshot" => lastId = NoId
      <3>1. CASE i \in 1..n /\ wire'[i] = wire[i]
        BY <1>1, <1>2, <1>v, <3>1 DEF Wire
      <3>2. CASE i > n /\ i - n \in 1..Len(b) /\ wire'[i] = b[i - n]
        <4>1. /\ IsEvent(b[i - n]) /\ b[i - n].id \in 1..version
              /\ b[i - n].ended => ended /\ b[i - n].id = version
          BY <1>4, <1>b, <3>2
        <4> QED BY <1>v, <3>2, <4>1 DEF IsEvent
      <3> QED BY <1>7, <3>1, <3>2
    <2>2. ASSUME NEW i \in 1..Len(wire'), NEW j \in 1..Len(wire'), i < j
          PROVE  wire'[i].id < wire'[j].id
      <3>1. CASE j \in 1..n /\ wire'[j] = wire[j]
        <4>1. i \in 1..n /\ wire'[i] = wire[i]
          BY <1>2, <1>6, <1>7, <2>2, <3>1
        <4> QED BY <1>1, <2>2, <3>1, <4>1 DEF Wire
      <3>2. CASE j > n /\ j - n \in 1..Len(b) /\ wire'[j] = b[j - n]
        <4>1. b[j - n].id \in Int /\ b[j - n].id > last
              /\ b[j - n].id = version - Len(b) + (j - n)
          BY <1>4, <1>b, <3>2
        <4>2. CASE i \in 1..n /\ wire'[i] = wire[i]
          <5>1. wire[i].id \in Nat /\ wire[i].id <= last
            BY <1>2, <1>9, <4>2
          <5> QED BY <3>2, <4>1, <4>2, <5>1
        <4>3. CASE i > n /\ i - n \in 1..Len(b) /\ wire'[i] = b[i - n]
          <5>1. b[i - n].id = version - Len(b) + (i - n)
            BY <1>4, <4>3
          <5>2. i - n < j - n /\ i - n \in Int /\ j - n \in Int
            BY <1>2, <2>2
          <5>3. b[i - n].id < b[j - n].id
            BY <1>4, <1>v, <4>1, <5>1, <5>2
          <5> QED BY <3>2, <4>3, <5>3
        <4> QED BY <1>7, <4>2, <4>3
      <3> QED BY <1>7, <3>1, <3>2
    <2> QED BY <1>6, <1>8, <1>v, <2>1, <2>2 DEF Wire
  <1>11. Links'
    <2>1. ASSUME NEW i \in 1..Len(wire') - 1
          PROVE  Link(wire'[i].id, wire'[i + 1].id)
      <3>1. i \in 1..Len(wire') /\ i + 1 \in 1..Len(wire')
        BY <1>8
      <3>2. CASE i + 1 <= n
        <4>0. i \in 1..n - 1 /\ i \in Int /\ i <= n /\ i \in 1..n + Len(b)
              /\ i + 1 \in 1..n + Len(b)
          BY <1>2, <1>4, <3>1, <3>2, <1>6
        <4>1. wire'[i] = wire[i] /\ wire'[i + 1] = wire[i + 1]
          BY <1>6, <3>2, <4>0
        <4> QED BY <1>1, <4>0, <4>1 DEF Links
      <3>3. CASE i = n
        <4>0. n \in 1..n + Len(b) /\ n + 1 \in 1..n + Len(b) /\ n <= n /\ ~ (n + 1 <= n)
              /\ (n + 1) - n = 1 /\ n > 0
          BY <1>2, <1>4, <3>1, <3>3, <1>6
        <4>1. /\ wire'[i] = wire[n] /\ wire'[i + 1] = b[1] /\ wire # <<>>
          BY <1>2, <1>6, <3>3, <4>0
        <4>2. wire[n].id = cursor /\ cursor = last
          BY <1>1, <4>1 DEF Links, Wire
        <4> QED BY <1>5, <4>1, <4>2
      <3>4. CASE i > n
        <4>0. /\ i - n \in 1..Len(b) /\ (i + 1) - n \in 1..Len(b)
              /\ i \in 1..n + Len(b) /\ i + 1 \in 1..n + Len(b)
              /\ ~ (i <= n) /\ ~ (i + 1 <= n) /\ (i + 1) - n = (i - n) + 1
          BY <1>2, <1>4, <1>6, <3>1, <3>4
        <4>1. wire'[i] = b[i - n] /\ wire'[i + 1] = b[(i + 1) - n]
          BY <1>6, <4>0
        <4>2. /\ b[(i + 1) - n].id = version - Len(b) + ((i - n) + 1)
              /\ b[i - n].id = version - Len(b) + (i - n)
          BY <1>4, <4>0
        <4>3. b[(i + 1) - n].id = b[i - n].id + 1
          BY <1>2, <1>4, <1>v, <4>0, <4>2
        <4> QED BY <4>1, <4>3 DEF Link
      <3> QED BY <1>2, <3>1, <3>2, <3>3, <3>4
    <2>2. IsEvent(wire'[1]) => lastId # NoId /\ Link(lastId, wire'[1].id)
      <3>1. CASE n > 0
        <4>1. wire'[1] = wire[1] /\ wire # <<>>
          BY <1>2, <1>6, <1>8, <3>1
        <4> QED BY <1>1, <4>1 DEF Links
      <3>2. CASE n = 0
        <4>1. wire'[1] = b[1] /\ last = lastId
          BY <1>2, <1>4, <1>6, <3>2
        <4> QED BY <1>5, <4>1 DEF NoId
      <3> QED BY <1>2, <3>1, <3>2
    <2>3. wire'[Len(wire')].id = version
      <3>1. /\ Len(wire') \in 1..n + Len(b) /\ ~ (Len(wire') <= n)
            /\ Len(wire') - n = Len(b) /\ Len(b) \in 1..Len(b)
        BY <1>2, <1>4, <1>6
      <3>2. wire'[Len(wire')] = b[Len(b)]
        BY <1>6, <3>1
      <3>3. b[Len(b)].id = version - Len(b) + Len(b)
        BY <1>4, <3>1
      <3>4. b[Len(b)].id = version
        BY <1>4, <1>v, <3>3
      <3> QED BY <3>2, <3>4
    <2> QED BY <1>8, <2>1, <2>2, <2>3 DEF Links
  <1>12. Server'
    BY <1>v DEF Server, NoId
  <1>13. NoRepetition'
    <2>1. (lastId' # NoId => Fresh(lastId)') /\ Fresh(cursor)'
      BY <1>1, <1>v DEF NoRepetition, Fresh
    <2>2. ASSUME NEW i \in 1..Len(wire') PROVE Fresh(wire[i].id)'
      <3>1. CASE i \in 1..n /\ wire'[i] = wire[i]
        BY <1>1, <1>v, <3>1 DEF NoRepetition, Fresh
      <3>2. CASE i > n /\ i - n \in 1..Len(b) /\ wire'[i] = b[i - n]
        <4>1. b[i - n].id \in Int /\ b[i - n].id > last
          BY <1>b, <3>2
        <4>2. ASSUME NEW s \in seen, NEW r \in rows, b[i - n].id < r PROVE s < r
          <5>1. last < r /\ r \in Int
            BY <1>v, <4>1, <4>2
          <5> QED BY <5>1 DEF Fresh
        <4> QED BY <1>v, <3>2, <4>2 DEF Fresh
      <3> QED BY <1>7, <3>1, <3>2
    <2>3. ASSUME NEW i \in 1..Len(wire'), NEW s \in seen,
                 wire'[i].kind # "snapshot", wire'[i].id > 0
          PROVE  s < wire'[i].id
      <3>1. CASE i \in 1..n /\ wire'[i] = wire[i]
        BY <1>1, <2>3, <3>1 DEF NoRepetition
      <3>2. CASE i > n /\ i - n \in 1..Len(b) /\ wire'[i] = b[i - n]
        BY <1>4, <3>2 DEF Fresh
      <3> QED BY <1>7, <3>1, <3>2
    <2> QED BY <1>1, <1>v, <2>1, <2>2, <2>3 DEF NoRepetition
  <1> QED BY <1>10, <1>11, <1>12, <1>13 DEF Flow

\* A first answer without rows: the browser has them all, or there are none.
LEMMA FlowRests ==
    ASSUME StreamInv, source = "connecting", source' = "open", UNCHANGED rowVars,
           UNCHANGED <<lastId, seen, events>>,
           lastId \in 0..version, lastId > 0 => lastId = version,
           wire' = <<>>, cursor' = lastId
    PROVE  Flow'
  <1>v. /\ version' = version /\ rows' = rows /\ ended' = ended
        /\ version \in Nat \ {0} /\ seen \subseteq 0..version
    BY Versions DEF rowVars
  <1>1. /\ wire' \in Seq(Messages) /\ Len(wire') = 0 /\ 1..Len(wire') = {}
        /\ 1..Len(wire') - 1 = {}
    BY EmptySeq
  <1>2. Wire'
    BY <1>1 DEF Wire
  <1>3. Links'
    BY <1>1 DEF Links
  <1>4. Server'
    BY <1>v DEF Server, NoId
  <1>5. NoRepetition'
    <2>1. NoRepetition
      BY DEF StreamInv
    <2>2. Fresh(lastId)' /\ Fresh(cursor)'
      BY <2>1, <1>v DEF NoRepetition, Fresh, NoId
    <2> QED BY <1>1, <1>v, <2>1, <2>2 DEF NoRepetition
  <1> QED BY <1>2, <1>3, <1>4, <1>5 DEF Flow
-----------------------------------------------------------------------------
(* The page *)

\* Without a connection nothing is on the wire.
LEMMA Unconnected ==
    ASSUME StreamInv, source # "open"
    PROVE  wire = <<>> /\ cursor = NoId
  BY DEF StreamInv, Wire, Server

\* A fetch that starts tells the page of everything.
LEMMA InvalidateTells ==
    ASSUME StreamInv, Invalidate, UNCHANGED <<rowVars, replies, page>>,
           source' = "closed" => ended
    PROVE  Answers' /\ Current'
  <1>1. /\ version' = version /\ ended' = ended /\ page' = page
        /\ replies' = replies
        /\ fetch' = [version |-> 0, ended |-> FALSE, pc |-> "sent"]
        /\ excused' = FALSE
    BY DEF Invalidate, NoFetch, rowVars
  <1>2. Answers'
    BY <1>1 DEF StreamInv, Answers, Answer
  <1>3. Told'
    BY <1>1 DEF Told
  <1> QED BY <1>1, <1>2, <1>3 DEF Current

\* The page is as it was.
LEMMA AnswersStay ==
    ASSUME StreamInv, UNCHANGED <<rowVars, fetch, replies, page>>
    PROVE  Answers' /\ (Told => Told')
  <1>1. /\ version' = version /\ ended' = ended /\ page' = page /\ fetch' = fetch
        /\ replies' = replies
    BY DEF rowVars
  <1> QED BY <1>1 DEF StreamInv, Answers, Answer, Told

\* A list of events that is only excused more is as good as before.
LEMMA NoGapStays ==
    ASSUME StreamInv, UNCHANGED <<lastId, events>>, torn' \in BOOLEAN, torn => torn',
           Over => Over'
    PROVE  NoGap'
  BY DEF StreamInv, NoGap

\* No event follows, as long as the stream is as it was or breaks.
LEMMA OverStays ==
    ASSUME Over, UNCHANGED <<rowVars, lastId>>,
           \/ UNCHANGED <<wire, cursor, source>>
           \/ wire' = <<>> /\ source' # "open"
    PROVE  Over'
  <1>1. ended' = ended /\ rows' = rows /\ lastId' = lastId
    BY DEF rowVars
  <1>2. CASE UNCHANGED <<wire, cursor, source>>
    BY <1>1, <1>2 DEF Over
  <1>3. CASE wire' = <<>> /\ source' # "open"
    <2>1. 1..Len(wire') = {}
      BY <1>3, EmptySeq
    <2> QED BY <1>1, <1>3, <2>1 DEF Over
  <1> QED BY <1>2, <1>3
-----------------------------------------------------------------------------
(* The database *)

\* An update that ends no stream has a row the connected handler will find.
LEMMA UpdateKeeps ==
    ASSUME StreamAssumption, StreamInv, Update
    PROVE  StreamInv'
  <1>v. /\ version \in Nat \ {0} /\ lastId \in Int /\ cursor \in Int
        /\ rows \subseteq 1..version /\ seen \subseteq 0..version
        /\ ended = FALSE /\ version' = version + 1 /\ ended' \in BOOLEAN
        /\ rows' = rows \cup {version + 1} /\ version' \in 1..MaxVersion
        /\ cursor <= version /\ lastId <= version /\ cursor' = cursor
        /\ wire' = wire /\ source' = source /\ lastId' = lastId /\ seen' = seen
        /\ events' = events /\ polling' = polling /\ fetch' = fetch /\ page' = page
        /\ replies' = replies /\ excused' = excused /\ torn' = torn
    BY Versions DEF Update, pageVars, StreamAssumption, StreamInv, Server,
                    NoRepetition, NoId
  <1>1. Rows'
    BY <1>v DEF Rows, StreamInv
  <1>2. Flow'
    <2>1. Wire'
      BY <1>v DEF StreamInv, Wire
    <2>2. Links'
      BY <1>v DEF StreamInv, Links
    <2>3. Server'
      BY <1>v DEF StreamInv, Server, NoId
    <2>4. \A id : Fresh(id) => Fresh(id)'
      BY <1>v DEF Fresh
    <2>5. NoRepetition'
      <3>1. NoRepetition
        BY DEF StreamInv
      <3>2. (lastId # NoId => Fresh(lastId)') /\ (source = "open" => Fresh(cursor)')
            /\ \A i \in 1..Len(wire) : Fresh(wire[i].id)'
        BY <1>v, <3>1, <2>4 DEF NoRepetition, Fresh
      <3> QED BY <1>v, <3>1, <3>2 DEF NoRepetition
    <2> QED BY <2>1, <2>2, <2>3, <2>5 DEF Flow
  <1>3. NoGap'
    BY <1>v, NoGapStays DEF StreamInv, NoGap, Over
  <1>4. Answers'
    <2>1. replies' \in [Mutations -> 0..version']
      BY <1>v DEF StreamInv, Answers
    <2> QED BY <1>v, <2>1 DEF StreamInv, Answers, Answer
  <1>5. Current'
    <2>1. \E r \in rows' : r > cursor
      BY <1>v
    <2>2. version' \notin seen'
      BY <1>v
    <2> QED BY <1>v, <2>1, <2>2 DEF StreamInv, Current
  <1> QED BY <1>v, <1>1, <1>2, <1>3, <1>4, <1>5 DEF StreamInv, Flow

\* Retention takes a row the connected handler has read.
LEMMA PruneKeeps ==
    ASSUME StreamInv, Prune
    PROVE  StreamInv'
  <1> DEFINE m == Min(rows)
  <1>v. /\ version \in Nat \ {0} /\ lastId \in Int /\ cursor \in Int
        /\ rows \subseteq 1..version /\ seen \subseteq 0..version
        /\ ended' = ended /\ version' = version
        /\ rows' = rows \ {m} /\ cursor' = cursor
        /\ wire' = wire /\ source' = source /\ lastId' = lastId /\ seen' = seen
        /\ events' = events /\ polling' = polling /\ fetch' = fetch /\ page' = page
        /\ replies' = replies /\ excused' = excused /\ torn' = torn
        /\ (cursor # NoId => m <= cursor)
    BY Versions DEF Prune, pageVars
  <1>m. m \in rows /\ \A r \in rows : m <= r
    BY Versions, OutboxEnds DEF Prune
  <1> HIDE DEF m
  <1>1. Rows'
    BY <1>v, <1>m DEF Rows, StreamInv
  <1>2. Flow'
    <2>1. Wire'
      BY <1>v DEF StreamInv, Wire
    <2>2. Links'
      BY <1>v DEF StreamInv, Links
    <2>3. Server'
      <3>1. Server
        BY DEF StreamInv
      <3>2. ASSUME cursor > 0 PROVE cursor + 1..version \subseteq rows'
        <4>1. m <= cursor /\ m \in Int
          BY <1>v, <1>m, <3>2 DEF NoId
        <4>2. m \notin cursor + 1..version
          BY <1>v, <4>1
        <4> QED BY <1>v, <3>1, <3>2, <4>2 DEF Server
      <3> QED BY <1>v, <3>1, <3>2 DEF Server
    <2>4. \A id : Fresh(id) => Fresh(id)'
      BY <1>v DEF Fresh
    <2>5. NoRepetition'
      <3>1. NoRepetition
        BY DEF StreamInv
      <3>2. (lastId # NoId => Fresh(lastId)') /\ (source = "open" => Fresh(cursor)')
            /\ \A i \in 1..Len(wire) : Fresh(wire[i].id)'
        BY <1>v, <3>1, <2>4 DEF NoRepetition, Fresh
      <3> QED BY <1>v, <3>1, <3>2 DEF NoRepetition
    <2> QED BY <2>1, <2>2, <2>3, <2>5 DEF Flow
  <1>3. NoGap'
    <2>1. Over => Over'
      BY <1>v DEF Over
    <2> QED BY <1>v, <2>1, NoGapStays DEF StreamInv, NoGap
  <1>4. Answers' /\ (Told => Told')
    BY <1>v, AnswersStay DEF StreamInv, Answers, Answer, Told
  <1>5. Current'
    <2>1. ASSUME source = "open", NEW r \in rows, r > cursor PROVE r \in rows'
      <3>1. m <= cursor
        BY <1>v, <2>1 DEF StreamInv, Server
      <3> QED BY <1>v, <1>m, <2>1, <3>1
    <2> QED BY <1>v, <1>4, <2>1 DEF StreamInv, Current
  <1> QED BY <1>v, <1>1, <1>2, <1>3, <1>4, <1>5 DEF StreamInv, Flow
-----------------------------------------------------------------------------
(* The handler *)

\* The first answers open the connection and leave the page alone.
LEMMA Opens ==
    ASSUME StreamInv, NEW messages, NEW position, Opened(messages, position)
    PROVE  /\ source = "connecting" /\ source' = "open" /\ polling' = FALSE
           /\ wire = <<>> /\ wire' = messages /\ cursor' = position
           /\ UNCHANGED rowVars /\ UNCHANGED <<lastId, seen, events>>
           /\ version' = version /\ ended' = ended /\ rows' = rows
           /\ Rows' /\ Answers' /\ (Told => Told')
  <1>1. /\ source = "connecting" /\ source' = "open" /\ polling' = FALSE
        /\ wire' = messages /\ cursor' = position
        /\ UNCHANGED rowVars /\ UNCHANGED <<lastId, seen, events, fetch, replies, page>>
        /\ version' = version /\ ended' = ended /\ rows' = rows
    BY DEF Opened, rowVars
  <1>2. Rows'
    BY <1>1 DEF StreamInv, Rows
  <1> QED BY <1>1, <1>2, AnswersStay, Unconnected

\* A snapshot or a reset will make the page fetch the run.
LEMMA FirstAnswerKeeps ==
    ASSUME StreamInv, OpenSnapshot \/ OpenReset
    PROVE  StreamInv'
  <1> DEFINE m(kind) == Message(kind, Latest, FALSE)
  <1>1. Latest \in 0..version
    BY Versions, OutboxEnds
  <1>2. ASSUME NEW kind \in {"snapshot", "reset"}
        PROVE  /\ m(kind) \in Messages /\ m(kind).kind = kind /\ m(kind).id = Latest
               /\ m(kind).ended = FALSE
    BY <1>1, Versions DEF Message, Messages
  <1>3. PICK kind \in {"snapshot", "reset"} :
          /\ Opened(<<m(kind)>>, Latest) /\ UNCHANGED <<excused, torn>>
          /\ kind = "snapshot" => lastId = NoId
          /\ kind = "reset" => lastId # NoId /\ NeedsReset(lastId)
    BY DEF OpenSnapshot, OpenReset
  <1> HIDE DEF m
  <1>4. /\ source = "connecting" /\ source' = "open" /\ polling' = FALSE
        /\ wire' = <<m(kind)>> /\ cursor' = Latest
        /\ UNCHANGED rowVars /\ UNCHANGED <<lastId, seen, events>>
        /\ version' = version /\ ended' = ended /\ rows' = rows
        /\ Rows' /\ Answers' /\ (Told => Told')
    BY <1>3, Opens
  <1>5. Flow'
    BY <1>2, <1>3, <1>4, FlowStarts
  <1>6. NoGap'
    <2>1. \A r \in rows : r <= Latest
      BY Versions, OutboxEnds
    <2>2. \A i \in 1..Len(wire') : ~IsEvent(wire'[i])
      BY <1>2, <1>4 DEF IsEvent
    <2>3. Over => Over'
      BY <1>4, <2>1, <2>2 DEF Over
    <2> QED BY <1>3, <1>4, <2>3, NoGapStays DEF StreamInv, NoGap
  <1>7. wire' # <<>>
    BY <1>4
  <1>8. Current'
    BY <1>3, <1>4, <1>7 DEF StreamInv, Current
  <1> QED BY <1>4, <1>5, <1>6, <1>8 DEF StreamInv, Flow

\* A cursor that is not void has all later rows in the table, or is 0 before an
\* empty one.
LEMMA CursorIsGood ==
    ASSUME StreamInv, lastId # NoId, ~NeedsReset(lastId)
    PROVE  /\ lastId \in 0..version
           /\ lastId > 0 => lastId + 1..version \subseteq rows
           /\ rows = {} => lastId = 0
           /\ rows # {} => lastId > 0 /\ (lastId = version \/ version > lastId)
  <1>1. /\ lastId \in 0..version /\ version \in Nat \ {0} /\ Rows
        /\ rows \subseteq 1..version
    BY Versions DEF StreamInv, NoRepetition
  <1>2. CASE rows = {}
    <2>1. Latest = 0 /\ Oldest = 0
      BY <1>1, <1>2, OutboxEnds
    <2> QED BY <1>1, <1>2, <2>1 DEF NeedsReset
  <1>3. CASE rows # {}
    <2>0. Latest = version /\ Oldest \in rows
      BY <1>1, <1>3, OutboxEnds
    <2>1. Latest = version /\ Oldest \in rows /\ Oldest > 0 /\ Oldest \in Int
      BY <1>1, <2>0
    <2>2. lastId >= Oldest
      BY <1>1, <2>1 DEF NeedsReset
    <2>3. \A s \in lastId + 1..version : s \in rows
      <3> TAKE s \in lastId + 1..version
      <3>1. s \in 1..version /\ Oldest <= s
        BY <1>1, <2>1, <2>2
      <3> QED BY <1>1, <2>1, <3>1 DEF Rows
    <2> QED BY <1>1, <1>3, <2>1, <2>2, <2>3
  <1> QED BY <1>2, <1>3

\* A cursor that is not void misses no row, unless it is 0.
LEMMA ReplayKeeps ==
    ASSUME StreamInv, OpenReplay
    PROVE  StreamInv'
  <1> DEFINE batch == RowsAfter(lastId)
             position == IF batch = <<>> THEN lastId ELSE Last(batch).id
  <1>v. /\ version \in Nat \ {0} /\ ended \in BOOLEAN /\ Rows /\ lastId \in Int
        /\ rows \subseteq 1..version /\ lastId # NoId /\ ~NeedsReset(lastId)
        /\ Opened(batch, position) /\ Excused(lastId = 0 /\ rows = {})
    BY Versions DEF OpenReplay
  <1>1. /\ lastId \in 0..version
        /\ lastId > 0 => lastId + 1..version \subseteq rows
        /\ rows = {} => lastId = 0
        /\ rows # {} => lastId > 0 /\ (lastId = version \/ version > lastId)
    BY <1>v, CursorIsGood
  <1>2. Batch(lastId)
    BY <1>v, RowsAfterIsBatch
  <1> HIDE DEF position
  <1>3. /\ source = "connecting" /\ source' = "open" /\ polling' = FALSE
        /\ wire = <<>> /\ wire' = batch /\ cursor' = position
        /\ UNCHANGED rowVars /\ UNCHANGED <<lastId, seen, events>>
        /\ version' = version /\ ended' = ended /\ rows' = rows
        /\ Rows' /\ Answers' /\ (Told => Told')
    BY <1>v, Opens
  <1>4. /\ excused' = (excused \/ (lastId = 0 /\ rows = {}))
        /\ torn' = (torn \/ (lastId = 0 /\ rows = {}))
    BY <1>v DEF Excused
  <1>5. NoGap'
    <2>1. torn \in BOOLEAN
      BY DEF StreamInv, NoGap
    <2>2. torn' \in BOOLEAN /\ (torn => torn')
      BY <1>4, <2>1
    <2>3. Over => Over'
      <3> HAVE Over
      <3>1. batch = <<>>
        BY <1>v, <1>2 DEF Over, Batch
      <3>2. wire' = <<>> /\ cursor' = lastId
        BY <1>3, <3>1 DEF position
      <3>3. 1..Len(wire') = {}
        BY <3>2
      <3> QED BY <1>v, <1>3, <3>2, <3>3 DEF Over
    <2> QED BY <1>3, <2>2, <2>3, NoGapStays
  <1>6. excused' \in BOOLEAN /\ (excused => excused')
        /\ (lastId = 0 /\ rows = {} => excused')
    <2>1. excused \in BOOLEAN
      BY DEF StreamInv, Current
    <2> QED BY <1>4, <2>1
  <1>7. CASE batch = <<>>
    <2>1. rows = {} \/ lastId = version
      <3>1. \A r \in rows : r <= lastId
        BY <1>2, <1>7 DEF Batch
      <3>2. rows # {} => version \in rows
        BY <1>v, OutboxEnds
      <3> QED BY <1>1, <1>v, <3>1, <3>2
    <2>2. cursor' = lastId /\ wire' = <<>>
      BY <1>3, <1>7 DEF position
    <2>3. Flow'
      BY <1>1, <1>3, <2>1, <2>2, FlowRests
    <2>4. Current'
      <3>1. CASE rows = {}
        BY <1>1, <1>3, <1>6, <3>1 DEF Current
      <3>2. CASE lastId = version
        <4>1. version \in seen
          BY <1>v, <3>2 DEF StreamInv, NoRepetition
        <4> QED BY <1>3, <1>6, <4>1 DEF StreamInv, Current
      <3> QED BY <2>1, <3>1, <3>2
    <2> QED BY <1>3, <1>5, <2>3, <2>4 DEF StreamInv, Flow
  <1>8. CASE batch # <<>>
    <2>1. batch \in Seq(Messages) /\ Len(batch) \in Nat /\ Len(batch) > 0
      BY <1>2, <1>8, LenProperties, EmptySeq DEF Batch
    <2>2. wire' = wire \o batch
      BY <1>3, <2>1, ConcatEmptySeq
    <2>3. cursor' = version
      <3>1. Len(batch) \in 1..Len(batch)
        BY <2>1
      <3>2. batch[Len(batch)].id = version - Len(batch) + Len(batch)
        BY <1>2, <3>1 DEF Batch
      <3>3. Last(batch) = batch[Len(batch)]
        BY DEF Last
      <3> QED BY <1>3, <1>8, <1>v, <2>1, <3>2, <3>3 DEF position
    <2> HIDE DEF batch
    <2>4. Fresh(lastId)
      BY <1>v DEF StreamInv, NoRepetition
    <2>5. Flow'
      BY <1>1, <1>3, <1>8, <2>2, <2>3, <2>4, FlowContinues DEF batch
    <2>6. Current'
      BY <1>3, <1>6, <1>8 DEF StreamInv, Current
    <2> QED BY <1>3, <1>5, <2>5, <2>6 DEF StreamInv, Flow
  <1> QED BY <1>7, <1>8

\* What a connected handler drains follows what it wrote before.
LEMMA DrainKeeps ==
    ASSUME StreamInv, Drain
    PROVE  StreamInv'
  <1> DEFINE batch == RowsAfter(cursor)
  <1>v. /\ version \in Nat \ {0} /\ ended \in BOOLEAN /\ Rows /\ cursor \in Int
        /\ rows \subseteq 1..version /\ cursor # NoId /\ batch # <<>>
        /\ wire' = wire \o batch /\ cursor' = Latest /\ UNCHANGED rowVars
        /\ version' = version /\ ended' = ended /\ rows' = rows
        /\ source' = source /\ lastId' = lastId /\ seen' = seen
        /\ events' = events /\ polling' = polling /\ fetch' = fetch /\ page' = page
        /\ replies' = replies /\ excused' = excused /\ torn' = torn
    BY Versions DEF Drain, rowVars, pageVars
  <1>1. /\ cursor \in 0..version /\ source = "open"
        /\ cursor > 0 => cursor + 1..version \subseteq rows
        /\ Fresh(cursor)
        /\ wire = <<>> => cursor = lastId
    BY <1>v DEF StreamInv, Server, NoRepetition, Links
  <1>2. Batch(cursor)
    BY <1>v, RowsAfterIsBatch
  <1>3. /\ batch \in Seq(Messages) /\ Len(batch) \in Nat /\ Len(batch) > 0
        /\ rows # {}
    <2>1. batch \in Seq(Messages) /\ ~ \A r \in rows : r <= cursor
      BY <1>2, <1>v DEF Batch
    <2> QED BY <1>v, <2>1, LenProperties, EmptySeq
  <1>4. cursor' = version
    BY <1>v, <1>3, OutboxEnds
  <1>5. Flow'
    BY <1>v, <1>1, <1>4, FlowContinues
  <1>6. wire' # <<>>
    <2>1. wire \in Seq(Messages) /\ Len(wire) \in Nat
      BY WireFacts DEF StreamInv, Wire
    <2>2. Len(wire') = Len(wire) + Len(batch)
      BY <1>v, <1>3, <2>1, ConcatProperties
    <2> QED BY <1>3, <2>1, <2>2, EmptySeq
  <1> HIDE DEF batch
  <1>7. Rows'
    BY <1>v DEF StreamInv, Rows
  <1>8. Answers' /\ (Told => Told')
    BY <1>v, AnswersStay
  <1>9. NoGap'
    <2>1. ~Over
      BY <1>1, <1>2, <1>v DEF Over, Batch, batch
    <2> QED BY <1>v, <2>1, NoGapStays DEF StreamInv, NoGap
  <1>10. Current'
    BY <1>v, <1>1, <1>6, <1>8 DEF StreamInv, Current
  <1> QED BY <1>v, <1>1, <1>5, <1>7, <1>8, <1>9, <1>10 DEF StreamInv, Flow
-----------------------------------------------------------------------------
(* The page's actions *)

\* What an action of the page leaves alone.
LEMMA RowsStay ==
    ASSUME StreamInv, UNCHANGED rowVars
    PROVE  /\ Rows' /\ version' = version /\ ended' = ended /\ rows' = rows
           /\ version' \in 1..MaxVersion /\ ended' \in BOOLEAN
  BY DEF StreamInv, Rows, rowVars

\* A page without a stream keeps its last id and what it has seen.
LEMMA FlowBreaks ==
    ASSUME StreamInv, UNCHANGED rowVars, UNCHANGED <<lastId, seen, events>>,
           wire' = <<>>, cursor' = NoId, source' # "open"
    PROVE  Flow'
  <1>1. version' = version /\ rows' = rows
    BY DEF rowVars
  <1>2. NoRepetition
    BY DEF StreamInv
  <1>3. /\ lastId' \in {NoId} \cup seen' /\ seen' \subseteq 0..version'
        /\ lastId' # NoId => \A s \in seen', r \in rows' : lastId' < r => s < r
    BY <1>1, <1>2 DEF NoRepetition, Fresh
  <1> QED BY <1>3, FlowEnds

\* A connection that breaks starts the polling, and so a fetch.
LEMMA DropKeeps ==
    ASSUME StreamInv, Drop
    PROVE  StreamInv'
  <1>1. /\ source = "open" /\ source' = "connecting" /\ polling' = TRUE
        /\ wire' = <<>> /\ cursor' = NoId /\ UNCHANGED rowVars
        /\ UNCHANGED <<lastId, seen, events, replies, page, torn>> /\ Invalidate
    BY DEF Drop, StartPolling, Disconnected, StreamInv
  <1>2. Answers' /\ Current'
    BY <1>1, InvalidateTells
  <1>3. NoGap'
    BY <1>1, NoGapStays, OverStays DEF StreamInv, NoGap
  <1> QED BY <1>1, <1>2, <1>3, FlowBreaks, RowsStay DEF StreamInv, Flow

\* So does one that is refused, unless the page polls already.
LEMMA RefuseKeeps ==
    ASSUME StreamInv, Refuse
    PROVE  StreamInv'
  <1>1. /\ source = "connecting" /\ source' = "refused" /\ polling' = TRUE
        /\ wire' = <<>> /\ cursor' = NoId /\ UNCHANGED rowVars
        /\ UNCHANGED <<lastId, seen, events, replies, page, torn>>
    BY Unconnected DEF Refuse, StartPolling
  <1>2. NoGap'
    BY <1>1, NoGapStays, OverStays DEF StreamInv, NoGap
  <1>3. Answers' /\ Current'
    <2>1. CASE polling
      <3>1. UNCHANGED <<fetch, excused>>
        BY <2>1 DEF Refuse, StartPolling, NoInvalidation
      <3>2. Answers' /\ (Told => Told')
        BY <1>1, <3>1, AnswersStay
      <3>3. version' = version
        BY <1>1 DEF rowVars
      <3> QED BY <1>1, <3>1, <3>2, <3>3 DEF StreamInv, Current
    <2>2. CASE ~polling
      <3>1. Invalidate
        BY <2>2 DEF Refuse, StartPolling
      <3> QED BY <1>1, <3>1, InvalidateTells
    <2> QED BY <2>1, <2>2
  <1> QED BY <1>1, <1>2, <1>3, FlowBreaks, RowsStay DEF StreamInv, Flow

\* Every poll is a fetch, and so are the interval and a decision's answer.
LEMMA InvalidatesKeeps ==
    ASSUME StreamInv, OnlyInvalidates
    PROVE  StreamInv'
  <1>1. /\ Invalidate /\ UNCHANGED rowVars
        /\ UNCHANGED <<cursor, wire, source, lastId, seen, events, polling, replies,
                       page, torn>>
    BY DEF OnlyInvalidates
  <1>2. Answers' /\ Current'
    BY <1>1, InvalidateTells DEF StreamInv, Current
  <1>3. NoGap'
    BY <1>1, NoGapStays, OverStays DEF StreamInv, NoGap
  <1>4. Flow'
    BY <1>1, Versions, FlowStays
  <1> QED BY <1>1, <1>2, <1>3, <1>4, RowsStay DEF StreamInv, Flow

\* A snapshot comes to a page that lists no event, or after the last update.
LEMMA SnapshotNoGap ==
    ASSUME StreamInv, source = "open", wire # <<>>, wire[1].kind = "snapshot",
           UNCHANGED <<rowVars, cursor, source, events>>,
           wire' = Tail(wire), lastId' = wire[1].id,
           torn' \in BOOLEAN, torn => torn'
    PROVE  NoGap'
  <1>1. Wire /\ Links /\ NoGap /\ Len(wire) \in Nat /\ Len(wire) > 0
        /\ lastId = NoId
    BY HeadFacts, WireFacts DEF StreamInv
  <1>2. ASSUME Over PROVE Over'
    <2>1. Len(wire) = 1
      <3> DEFINE n == Len(wire)
      <3>1. n \in Nat /\ n > 0
        BY <1>1
      <3>2. \A i \in 1..n : ~ (i > 1)
        BY <1>1, <1>2 DEF Over, Wire
      <3> HIDE DEF n
      <3>3. n = 1
        BY <3>1, <3>2
      <3> QED BY <3>3 DEF n
    <2>2. cursor = wire[1].id
      BY <1>1, <2>1 DEF Links
    <2>3. wire' \in Seq(Messages) /\ Len(wire') = 0
      BY <1>1, <2>1, HeadTailProperties DEF Wire
    <2>4. 1..Len(wire') = {}
      BY <2>3
    <2>5. ended' = ended /\ rows' = rows
      BY DEF rowVars
    <2> QED BY <1>2, <2>2, <2>4, <2>5 DEF Over
  <1>3. ~torn /\ events # <<>> => Over
    BY <1>1 DEF NoGap, NoId
  <1> QED BY <1>1, <1>2, <1>3 DEF NoGap

\* A delivery that is taken for a repetition is one, unless its id is 0: only
\* the snapshot of a stream that was opened again has a known id.
LEMMA RepeatedKeeps ==
    ASSUME StreamInv, Repeated
    PROVE  StreamInv'
  <1>1. /\ source = "open" /\ wire # <<>> /\ Head(wire).id \in seen
        /\ wire' = Tail(wire) /\ lastId' = Head(wire).id /\ UNCHANGED rowVars
        /\ UNCHANGED <<cursor, source, seen, events, polling, fetch, replies, page>>
        /\ excused' = (excused \/ Head(wire).id = 0)
        /\ torn' = (torn \/ Head(wire).id = 0)
    BY DEF Repeated, IsNew, Excused
  <1>2. /\ Head(wire) = wire[1] /\ wire[1].id \in 0..version
        /\ wire[1].id # 0 => wire[1].kind = "snapshot"
    BY <1>1, HeadFacts DEF IsEvent
  <1>b. excused \in BOOLEAN /\ torn \in BOOLEAN
    BY DEF StreamInv, Current, NoGap
  <1>3. /\ excused' \in BOOLEAN /\ (excused => excused')
        /\ torn' \in BOOLEAN /\ (torn => torn')
        /\ wire[1].id = 0 => excused' /\ torn'
    BY <1>1, <1>2, <1>b
  <1>4. Flow'
    BY <1>1, <1>2, FlowAdvances
  <1>5. NoGap'
    <2>1. CASE wire[1].id = 0
      BY <1>1, <1>3, <2>1 DEF StreamInv, NoGap
    <2>2. CASE wire[1].id # 0
      BY <1>1, <1>2, <1>3, <2>2, SnapshotNoGap
    <2> QED BY <2>1, <2>2
  <1>6. Answers' /\ (Told => Told')
    BY <1>1, AnswersStay
  <1>7. ASSUME ~excused', wire' = <<>> PROVE Told \/ \E r \in rows : r > cursor
    <2>1. wire[1].id > 0 /\ version \in Nat \ {0}
      BY <1>2, <1>3, <1>7, Versions
    <2>2. Len(wire) = 1
      <3>1. Len(wire) \in Nat /\ Len(wire) > 0 /\ wire \in Seq(Messages)
        BY <1>1, WireFacts DEF StreamInv, Wire
      <3>2. Len(wire') = Len(wire) - 1 /\ Len(wire') = 0
        BY <1>1, <1>7, <3>1, HeadTailProperties, EmptySeq
      <3> QED BY <3>1, <3>2
    <2>3. cursor = wire[1].id
      BY <1>1, <2>2 DEF StreamInv, Links
    <2>4. CASE cursor = version
      <3>1. version \in seen
        BY <1>1, <1>2, <2>3, <2>4
      <3> QED BY <1>3, <1>7, <3>1 DEF StreamInv, Current
    <2>5. CASE cursor # version
      <3>1. cursor > 0 /\ version \in cursor + 1..version /\ version > cursor
        BY <1>2, <2>1, <2>3, <2>5
      <3>2. version \in rows
        BY <3>1 DEF StreamInv, Server
      <3> QED BY <3>1, <3>2
    <2> QED BY <2>4, <2>5
  <1>8. Current'
    <2>1. version' = version /\ rows' = rows /\ ended' = ended
      BY <1>1 DEF rowVars
    <2> QED BY <1>1, <1>3, <1>6, <1>7, <2>1 DEF StreamInv, Current
  <1> QED BY <1>1, <1>4, <1>5, <1>6, <1>8, RowsStay DEF StreamInv, Flow

\* What a message that is new does to the page.
LEMMA AcceptedFacts ==
    ASSUME StreamInv, NEW kind, Accepted(kind)
    PROVE  /\ source = "open" /\ wire # <<>> /\ Head(wire) = wire[1]
           /\ wire[1].kind = kind /\ lastId' = wire[1].id
           /\ polling' = FALSE /\ Invalidate /\ UNCHANGED rowVars
           /\ UNCHANGED <<replies, page>>
  BY HeadFacts DEF Accepted

\* A snapshot makes the page fetch the run.
LEMMA SnapshotKeeps ==
    ASSUME StreamInv, HandleSnapshot
    PROVE  StreamInv'
  <1>1. /\ source = "open" /\ wire # <<>> /\ Head(wire) = wire[1]
        /\ wire[1].kind = "snapshot" /\ lastId' = wire[1].id
        /\ polling' = FALSE /\ Invalidate /\ UNCHANGED rowVars
        /\ UNCHANGED <<replies, page>>
    BY AcceptedFacts DEF HandleSnapshot
  <1>2. /\ seen' = seen \cup {wire[1].id} /\ wire' = Tail(wire)
        /\ UNCHANGED <<cursor, source, events, torn>>
    BY <1>1 DEF HandleSnapshot
  <1>3. Flow'
    BY <1>1, <1>2, FlowAdvances
  <1>4. Answers' /\ Current'
    BY <1>1, <1>2, InvalidateTells
  <1>5. torn' \in BOOLEAN /\ torn' = torn
    BY <1>2 DEF StreamInv, NoGap
  <1>6. NoGap'
    BY <1>1, <1>2, <1>5, SnapshotNoGap
  <1> QED BY <1>1, <1>2, <1>3, <1>4, <1>6, RowsStay DEF StreamInv, Flow

\* A reset empties the list of events.
LEMMA ResetKeeps ==
    ASSUME StreamInv, HandleReset
    PROVE  StreamInv'
  <1>1. /\ source = "open" /\ wire # <<>> /\ Head(wire) = wire[1]
        /\ lastId' = wire[1].id
        /\ polling' = FALSE /\ Invalidate /\ UNCHANGED rowVars
        /\ UNCHANGED <<replies, page>>
    BY AcceptedFacts DEF HandleReset
  <1>2. /\ seen' = {wire[1].id} /\ wire' = Tail(wire)
        /\ events' = <<>> /\ torn' = FALSE /\ UNCHANGED <<cursor, source>>
    BY <1>1 DEF HandleReset
  <1>3. Flow'
    BY <1>1, <1>2, FlowAdvances
  <1>4. Answers' /\ Current'
    BY <1>1, <1>2, InvalidateTells
  <1>5. NoGap'
    <2>1. events' \in Seq(Nat) /\ 1..Len(events') - 1 = {}
      BY <1>2, EmptySeq
    <2> QED BY <1>2, <2>1 DEF NoGap
  <1> QED BY <1>1, <1>2, <1>3, <1>4, <1>5, RowsStay DEF StreamInv, Flow

\* An event follows the last one listed; a terminal one ends the stream.
LEMMA EventKeeps ==
    ASSUME StreamInv, HandleEvent
    PROVE  StreamInv'
  <1> DEFINE id == wire[1].id
  <1>1. /\ source = "open" /\ wire # <<>> /\ Head(wire) = wire[1]
        /\ wire[1].kind = "event" /\ lastId' = id
        /\ polling' = FALSE /\ Invalidate /\ UNCHANGED rowVars
        /\ UNCHANGED <<replies, page>>
    BY AcceptedFacts DEF HandleEvent
  <1>2. /\ seen' = seen \cup {id} /\ events' = Append(events, id) /\ torn' = torn
        /\ IF wire[1].ended
           THEN source' = "closed" /\ Disconnected
           ELSE wire' = Tail(wire) /\ UNCHANGED <<cursor, source>>
    BY <1>1 DEF HandleEvent
  <1>3. /\ id \in 0..version /\ id > 0 /\ Link(lastId, id) /\ wire[1] \in Messages
        /\ \A s \in seen \cup {id}, r \in rows : id < r => s < r
        /\ wire[1].ended => ended
    BY <1>1, HeadFacts DEF IsEvent
  <1>v. /\ version' = version /\ rows' = rows /\ seen \subseteq 0..version
        /\ version \in Nat \ {0} /\ lastId \in Int
    BY <1>1, Versions DEF rowVars
  <1>4. Flow' /\ source' \in {"open", "closed"} /\ (source' = "closed" => ended)
    <2>1. CASE wire[1].ended
      <3>1. source' = "closed" /\ wire' = <<>> /\ cursor' = NoId
        BY <1>2, <2>1 DEF Disconnected
      <3> HIDE DEF id
      <3>a. lastId' = id /\ id \in 0..version /\ version' = version
            /\ seen' = seen \cup {id} /\ seen \subseteq 0..version /\ id \in seen'
        BY <1>1, <1>2, <1>3, <1>v
      <3>b. \A s \in seen', r \in rows' : lastId' < r => s < r
        BY <1>3, <1>v, <3>a
      <3>2. /\ lastId' \in {NoId} \cup seen' /\ lastId' # NoId
            /\ seen' \subseteq 0..version'
            /\ \A s \in seen', r \in rows' : lastId' < r => s < r
        BY <1>v, <3>a, <3>b DEF NoId
      <3>3. Flow'
        BY <3>1, <3>2, FlowEnds
      <3> QED BY <1>3, <2>1, <3>1, <3>3
    <2>2. CASE ~wire[1].ended
      <3>1. wire' = Tail(wire) /\ UNCHANGED <<cursor, source>>
        BY <1>2, <2>2
      <3>2. Flow'
        BY <1>1, <1>2, <3>1, FlowAdvances
      <3> QED BY <1>1, <3>1, <3>2
    <2> QED BY <2>1, <2>2
  <1>5. Answers' /\ Current'
    BY <1>1, <1>4, InvalidateTells
  <1>6. NoGap'
    <2>1. NoGap
      BY DEF StreamInv
    <2> HIDE DEF id
    <2>2. events \in Seq(Nat) /\ id \in Nat /\ Len(events) \in Nat
      BY <1>3, <2>1 DEF NoGap
    <2>3. /\ events' \in Seq(Nat) /\ Len(events') = Len(events) + 1
          /\ \A i \in 1..Len(events) : events'[i] = events[i]
          /\ events'[Len(events) + 1] = id
      BY <1>2, <2>2, AppendProperties
    <2>4. events' # <<>> /\ lastId' = events'[Len(events')] /\ lastId' > 0
      BY <1>1, <1>3, <2>2, <2>3, EmptySeq DEF id
    <2>5. ASSUME ~torn, NEW i \in 1..Len(events') - 1
          PROVE  events'[i + 1] = events'[i] + 1
      <3>1. CASE i < Len(events)
        <4>1. i \in 1..Len(events) - 1 /\ i \in 1..Len(events) /\ i + 1 \in 1..Len(events)
          BY <2>2, <2>3, <3>1
        <4> QED BY <2>1, <2>3, <2>5, <4>1 DEF NoGap
      <3>2. CASE i = Len(events)
        <4>1. Len(events) \in 1..Len(events) /\ events # <<>>
          BY <2>2, <2>3, <3>2, EmptySeq
        <4>2. lastId > 0 /\ lastId = events[Len(events)]
          <5>1. Len(wire) \in Nat /\ Len(wire) > 0
            BY <1>1, WireFacts DEF StreamInv
          <5>2. ~Over
            BY <1>1, <5>1 DEF Over, IsEvent
          <5> QED BY <2>1, <2>5, <4>1, <5>2 DEF NoGap
        <4>3. id = lastId + 1
          BY <1>3, <1>v, <4>2 DEF Link
        <4> QED BY <2>3, <3>2, <4>1, <4>2, <4>3
      <3> QED BY <2>2, <2>3, <3>1, <3>2
    <2>6. torn \in BOOLEAN /\ torn' = torn
      BY <1>2, <2>1 DEF NoGap
    <2>7. ~torn' => \A i \in 1..Len(events') - 1 : events'[i + 1] = events'[i] + 1
      BY <2>5, <2>6
    <2> QED BY <2>3, <2>4, <2>6, <2>7 DEF NoGap
  <1> QED BY <1>1, <1>4, <1>5, <1>6, RowsStay DEF StreamInv, Flow

\* An answer that was read knows of the last update.
LEMMA ReadKeeps ==
    ASSUME StreamInv, ReadRun
    PROVE  StreamInv'
  <1>1. /\ fetch.pc = "sent" /\ UNCHANGED rowVars
        /\ fetch' = [version |-> version, ended |-> ended, pc |-> "answered"]
        /\ UNCHANGED <<cursor, wire, source, lastId, seen, events, polling, replies,
                       page, excused, torn>>
    BY DEF ReadRun
  <1>v. version' = version /\ ended' = ended /\ version \in Nat /\ ended \in BOOLEAN
    BY <1>1, Versions DEF rowVars
  <1>2. Flow'
    BY <1>1, Versions, FlowStays
  <1>3. NoGap'
    BY <1>1, NoGapStays, OverStays DEF StreamInv, NoGap
  <1>4. Answers'
    <2>1. /\ fetch' \in [version : Nat, ended : BOOLEAN, pc : {"none", "sent", "answered"}]
          /\ fetch'.version = version /\ (fetch'.ended <=> ended)
          /\ fetch'.pc = "answered"
      BY <1>1, <1>v
    <2> QED BY <1>1, <1>v, <2>1 DEF StreamInv, Answers, Answer
  <1>5. Told'
    BY <1>1, <1>v DEF Told
  <1>6. Current'
    BY <1>1, <1>v, <1>5 DEF StreamInv, Current
  <1> QED BY <1>1, <1>2, <1>3, <1>4, <1>6, RowsStay DEF StreamInv, Flow

\* A response holds the row as it is when it is written.
LEMMA RespondKeeps ==
    ASSUME StreamInv, NEW m \in Mutations, Respond(m)
    PROVE  StreamInv'
  <1>1. /\ replies' = [replies EXCEPT ![m] = version] /\ UNCHANGED rowVars
        /\ UNCHANGED <<cursor, wire, source, lastId, seen, events, polling, fetch,
                       page, excused, torn>>
    BY DEF Respond
  <1>v. version' = version /\ ended' = ended /\ rows' = rows /\ version \in Nat
    BY <1>1, Versions DEF rowVars
  <1>2. Flow'
    BY <1>1, Versions, FlowStays
  <1>3. NoGap'
    BY <1>1, NoGapStays, OverStays DEF StreamInv, NoGap
  <1>4. Answers'
    <2>1. replies' \in [Mutations -> 0..version']
      BY <1>1, <1>v DEF StreamInv, Answers
    <2> QED BY <1>1, <1>v, <2>1 DEF StreamInv, Answers, Answer
  <1>5. Current'
    BY <1>1, <1>v DEF StreamInv, Current, Told
  <1> QED BY <1>1, <1>2, <1>3, <1>4, <1>5, RowsStay DEF StreamInv, Flow

\* What showing a row does to the stream: nothing, unless it ends the run on the
\* page or revives it; either way the run has ended and no event will follow.
LEMMA Shows ==
    ASSUME StreamInv, NEW row \in [version : Nat, ended : BOOLEAN],
           row.version > 0, Answer(row), Show(row)
    PROVE  /\ Rows' /\ Flow' /\ NoGap' /\ UNCHANGED rowVars
           /\ version' = version /\ ended' = ended /\ rows' = rows
           /\ source' \in {"connecting", "open", "closed", "refused"}
           /\ polling' \in BOOLEAN
           /\ polling' => source' \in {"connecting", "refused"}
           /\ page' = row /\ seen' = seen /\ Answer(page)'
           /\ \/ row.ended = page.ended /\ UNCHANGED <<source, cursor, wire>>
              \/ ended /\ row.ended /\ source' = "closed"
              \/ ended /\ page.ended /\ ~row.ended /\ source' = "connecting"
  <1>1. /\ page' = row /\ UNCHANGED rowVars /\ UNCHANGED <<seen, events, torn>>
        /\ IF row.ended = page.ended
           THEN UNCHANGED <<source, lastId, polling, cursor, wire>>
           ELSE /\ source' = IF row.ended THEN "closed" ELSE "connecting"
                /\ lastId' = NoId /\ polling' = FALSE /\ wire' = <<>>
                /\ cursor' = NoId
    BY DEF Show, Disconnected
  <1>v. /\ version' = version /\ ended' = ended /\ rows' = rows /\ ended \in BOOLEAN
        /\ page.ended \in BOOLEAN /\ row.ended \in BOOLEAN /\ Answer(page)
        /\ seen' \subseteq 0..version' /\ torn \in BOOLEAN
        /\ source \in {"connecting", "open", "closed", "refused"}
        /\ polling \in BOOLEAN /\ (polling => source \in {"connecting", "refused"})
    BY <1>1, Versions DEF rowVars, StreamInv, Answers, NoGap
  <1>2. Answer(page)' /\ Rows'
    BY <1>1, <1>v, RowsStay DEF Answer
  <1>3. CASE row.ended = page.ended
    <2>1. UNCHANGED <<source, lastId, polling, cursor, wire>>
      BY <1>1, <1>3
    <2>2. Flow'
      BY <1>1, <2>1, Versions, FlowStays
    <2>3. NoGap'
      BY <1>1, <1>v, <2>1, NoGapStays, OverStays
    <2> QED BY <1>1, <1>2, <1>3, <1>v, <2>1, <2>2, <2>3
  <1>4. CASE row.ended # page.ended
    <2>1. /\ source' = IF row.ended THEN "closed" ELSE "connecting"
          /\ lastId' = NoId /\ polling' = FALSE /\ wire' = <<>> /\ cursor' = NoId
      BY <1>1, <1>4
    <2>2. ended /\ source' # "open"
      BY <1>4, <1>v, <2>1 DEF Answer
    <2>3. Flow'
      BY <1>v, <2>1, <2>2, FlowEnds
    <2>4. NoGap'
      <3>1. 1..Len(wire') = {}
        BY <2>1
      <3>2. Over'
        BY <1>v, <2>1, <2>2, <3>1 DEF Over
      <3> QED BY <1>1, <3>2 DEF StreamInv, NoGap
    <2>5. \/ row.ended /\ source' = "closed"
          \/ page.ended /\ ~row.ended /\ source' = "connecting"
      BY <1>4, <1>v, <2>1
    <2> QED BY <1>1, <1>2, <1>v, <2>1, <2>2, <2>3, <2>4, <2>5
  <1> QED BY <1>3, <1>4

\* An answer that is shown leaves the page no worse than it was to become.
LEMMA ShowRunKeeps ==
    ASSUME StreamInv, ShowRun
    PROVE  StreamInv'
  <1> DEFINE row == [version |-> fetch.version, ended |-> fetch.ended]
  <1>1. /\ fetch.pc = "answered" /\ fetch' = NoFetch /\ Show(row)
        /\ UNCHANGED <<replies, excused>>
    BY DEF ShowRun
  <1>2. /\ Answer(fetch) /\ fetch.version \in Nat /\ fetch.ended \in BOOLEAN
        /\ fetch.version > 0
    BY <1>1 DEF StreamInv, Answers
  <1>3. /\ row \in [version : Nat, ended : BOOLEAN] /\ row.version = fetch.version
        /\ row.ended = fetch.ended /\ Answer(row) /\ row.version > 0
    BY <1>2 DEF Answer
  <1> HIDE DEF row
  <1>4. /\ Rows' /\ Flow' /\ NoGap' /\ UNCHANGED rowVars
        /\ version' = version /\ ended' = ended /\ rows' = rows
        /\ source' \in {"connecting", "open", "closed", "refused"}
        /\ polling' \in BOOLEAN
        /\ polling' => source' \in {"connecting", "refused"}
        /\ page' = row /\ seen' = seen /\ Answer(page)'
        /\ \/ row.ended = page.ended /\ UNCHANGED <<source, cursor, wire>>
           \/ ended /\ row.ended /\ source' = "closed"
           \/ ended /\ page.ended /\ ~row.ended /\ source' = "connecting"
    BY <1>1, <1>3, Shows
  <1>5. /\ fetch' \in [version : Nat, ended : BOOLEAN, pc : {"none", "sent", "answered"}]
        /\ fetch'.pc = "none"
    BY <1>1 DEF NoFetch
  <1>6. Answers'
    BY <1>1, <1>3, <1>4, <1>5 DEF StreamInv, Answers
  <1>7. /\ Told => Told'
        /\ row.ended => Told'
    BY <1>1, <1>2, <1>3, <1>4, <1>5 DEF Told, Answer
  <1>8. Current'
    <2>1. Current
      BY DEF StreamInv
    <2>2. source' = "closed" => ended'
      BY <1>4, <2>1 DEF Current
    <2>3. ASSUME ~excused, source' = "closed" PROVE Told'
      BY <1>4, <1>7, <2>1, <2>3 DEF Current
    <2>4. ASSUME ~excused, source' = "open"
          PROVE  Told' \/ wire' # <<>> \/ \E r \in rows' : r > cursor'
      <3>1. UNCHANGED <<source, cursor, wire>>
        BY <1>4, <2>4
      <3> QED BY <1>4, <1>7, <2>1, <2>4, <3>1 DEF Current
    <2> QED BY <1>1, <1>4, <1>7, <2>1, <2>2, <2>3, <2>4 DEF Current
  <1> QED BY <1>4, <1>6, <1>8, RowsStay DEF StreamInv, Flow

\* A response that is shown replaces no newer row, unless the fetch under way
\* makes up for it, or the page is excused.
LEMMA ShowReplyKeeps ==
    ASSUME StreamInv, NEW m \in Mutations, ShowReply(m)
    PROVE  StreamInv'
  <1> DEFINE row == Row(replies[m])
  <1>1. /\ replies[m] > 0 /\ replies' = [replies EXCEPT ![m] = 0] /\ Show(row)
        /\ excused' = (excused \/ (fetch = NoFetch /\ replies[m] < page.version))
        /\ UNCHANGED fetch
    BY DEF ShowReply
  <1>2. /\ replies \in [Mutations -> 0..version] /\ replies[m] \in 0..version
        /\ version \in Nat /\ ended \in BOOLEAN /\ excused \in BOOLEAN
    BY Versions DEF StreamInv, Answers, Current
  <1>3. /\ row \in [version : Nat, ended : BOOLEAN] /\ row.version = replies[m]
        /\ Answer(row) /\ row.version > 0
        /\ row.ended => row.version = version
    <2>1. /\ row.version = replies[m]
          /\ row.ended \in BOOLEAN /\ (row.ended <=> ended /\ replies[m] = version)
      BY <1>2 DEF Row
    <2>2. row \in [version : Nat, ended : BOOLEAN]
      <3>1. replies[m] \in Nat /\ (ended /\ replies[m] = version) \in BOOLEAN
        BY <1>2
      <3> QED BY <3>1 DEF Row
    <2> HIDE DEF row
    <2> QED BY <1>1, <1>2, <2>1, <2>2 DEF Answer
  <1> HIDE DEF row
  <1>4. /\ Rows' /\ Flow' /\ NoGap' /\ UNCHANGED rowVars
        /\ version' = version /\ ended' = ended /\ rows' = rows
        /\ source' \in {"connecting", "open", "closed", "refused"}
        /\ polling' \in BOOLEAN
        /\ polling' => source' \in {"connecting", "refused"}
        /\ page' = row /\ seen' = seen /\ Answer(page)'
        /\ \/ row.ended = page.ended /\ UNCHANGED <<source, cursor, wire>>
           \/ ended /\ row.ended /\ source' = "closed"
           \/ ended /\ page.ended /\ ~row.ended /\ source' = "connecting"
    BY <1>1, <1>3, Shows
  <1>5. Answers'
    <2>1. replies' \in [Mutations -> 0..version']
      BY <1>1, <1>2, <1>4
    <2>2. Answer(fetch)' <=> Answer(fetch)
      BY <1>1, <1>4 DEF Answer
    <2> QED BY <1>1, <1>3, <1>4, <2>1, <2>2 DEF StreamInv, Answers
  <1>6. excused' \in BOOLEAN /\ (excused => excused')
        /\ (~excused' /\ fetch = NoFetch => replies[m] >= page.version)
    <2>1. page.version \in Nat
      BY DEF StreamInv, Answers
    <2>2. (fetch = NoFetch /\ replies[m] < page.version) \in BOOLEAN
      OBVIOUS
    <2>3. excused' \in BOOLEAN /\ (excused => excused')
      BY <1>1, <1>2, <2>2
    <2>4. ~excused' /\ fetch = NoFetch => ~ (replies[m] < page.version)
      BY <1>1, <1>2
    <2> QED BY <1>2, <2>1, <2>3, <2>4
  <1>7. ASSUME ~excused' PROVE Told => Told'
    <2>1. CASE fetch.pc = "none"
      <3>1. fetch = NoFetch
        BY <2>1 DEF StreamInv, Answers
      <3>2. replies[m] >= page.version
        BY <1>6, <1>7, <3>1
      <3> QED BY <1>1, <1>2, <1>3, <1>4, <2>1, <3>2 DEF Told
    <2>2. CASE fetch.pc # "none"
      BY <1>1, <1>4, <2>2 DEF Told
    <2> QED BY <2>1, <2>2
  <1>8. row.ended => Told' \/ (fetch.pc = "answered" /\ row.ended)
    <2>1. fetch.pc \in {"none", "sent", "answered"}
      BY DEF StreamInv, Answers
    <2> QED BY <1>1, <1>3, <1>4, <2>1 DEF Told
  <1>9. Current'
    <2>1. Current
      BY DEF StreamInv
    <2>2. source' = "closed" => ended'
      BY <1>4, <2>1 DEF Current
    <2>3. ASSUME ~excused', source' = "closed"
          PROVE  Told' \/ (fetch'.pc = "answered" /\ page'.ended)
      BY <1>1, <1>4, <1>6, <1>7, <1>8, <2>1, <2>3 DEF Current
    <2>4. ASSUME ~excused', source' = "open"
          PROVE  Told' \/ wire' # <<>> \/ \E r \in rows' : r > cursor'
      <3>1. UNCHANGED <<source, cursor, wire>>
        BY <1>4, <2>4
      <3> QED BY <1>4, <1>6, <1>7, <2>1, <2>4, <3>1 DEF Current
    <2>5. ASSUME ~excused', version' \in seen' PROVE Told'
      BY <1>4, <1>6, <1>7, <2>1, <2>5 DEF Current
    <2> QED BY <1>6, <2>2, <2>3, <2>4, <2>5 DEF Current
  <1> QED BY <1>4, <1>5, <1>9, RowsStay DEF StreamInv, Flow

\* A fetch that failed excuses the page until the next.
LEMMA FailKeeps ==
    ASSUME StreamInv, FetchFails
    PROVE  StreamInv'
  <1>1. /\ fetch' = NoFetch /\ excused' = TRUE /\ UNCHANGED rowVars
        /\ UNCHANGED <<cursor, wire, source, lastId, seen, events, polling, replies,
                       page, torn>>
    BY DEF FetchFails
  <1>v. version' = version /\ ended' = ended
    BY <1>1 DEF rowVars
  <1>2. Flow'
    BY <1>1, Versions, FlowStays
  <1>3. NoGap'
    BY <1>1, NoGapStays, OverStays DEF StreamInv, NoGap
  <1>4. Answers'
    <2>1. fetch' \in [version : Nat, ended : BOOLEAN, pc : {"none", "sent", "answered"}]
          /\ fetch'.pc = "none"
      BY <1>1 DEF NoFetch
    <2> QED BY <1>1, <1>v, <2>1 DEF StreamInv, Answers, Answer
  <1>5. Current'
    BY <1>1, <1>v DEF StreamInv, Current
  <1> QED BY <1>1, <1>2, <1>3, <1>4, <1>5, RowsStay DEF StreamInv, Flow

\* A run selected anew starts without ids and events, and is fetched.
LEMMA SelectKeeps ==
    ASSUME StreamInv, Select
    PROVE  StreamInv'
  <1>1. /\ source' = IF page.ended THEN "closed" ELSE "connecting"
        /\ wire' = <<>> /\ cursor' = NoId /\ Invalidate /\ UNCHANGED rowVars
        /\ lastId' = NoId /\ seen' = {} /\ events' = <<>> /\ polling' = FALSE
        /\ torn' = FALSE /\ UNCHANGED <<replies, page>>
    BY DEF Select, Disconnected
  <1>2. /\ source' \in {"connecting", "closed"}
        /\ source' = "closed" => ended
    <2>1. page.ended => ended
      BY DEF StreamInv, Answers, Answer
    <2> QED BY <1>1, <2>1
  <1>3. Flow'
    BY <1>1, <1>2, FlowEnds
  <1>4. NoGap'
    <2>1. events' \in Seq(Nat) /\ 1..Len(events') - 1 = {}
      BY <1>1, EmptySeq
    <2> QED BY <1>1, <2>1 DEF NoGap
  <1>5. Answers' /\ Current'
    BY <1>1, <1>2, InvalidateTells
  <1> QED BY <1>1, <1>2, <1>3, <1>4, <1>5, RowsStay DEF StreamInv, Flow
-----------------------------------------------------------------------------
(* The invariant *)

\* The invariant holds at first,
LEMMA StreamStart ==
    ASSUME StreamAssumption, Init
    PROVE  StreamInv
  <1>1. /\ version = 1 /\ ended = FALSE /\ rows = {1} /\ cursor = -1 /\ wire = <<>>
        /\ source = "connecting" /\ lastId = -1 /\ seen = {} /\ events = <<>>
        /\ polling = FALSE /\ fetch = [version |-> 0, ended |-> FALSE, pc |-> "none"]
        /\ page = [version |-> 1, ended |-> FALSE] /\ excused = FALSE /\ torn = FALSE
        /\ replies = [m \in Mutations |-> 0]
    BY DEF Init, NoId, NoFetch, Row
  <1>2. /\ wire \in Seq(Messages) /\ 1..Len(wire) = {} /\ 1..Len(wire) - 1 = {}
        /\ events \in Seq(Nat) /\ 1..Len(events) - 1 = {}
    BY <1>1, EmptySeq
  <1>3. Rows
    BY <1>1 DEF Rows
  <1>4. Wire
    BY <1>1, <1>2 DEF Wire
  <1>5. Links /\ Server
    BY <1>1, <1>2 DEF Links, Server, NoId
  <1>6. NoRepetition
    BY <1>1, <1>2 DEF NoRepetition, Fresh, NoId
  <1>7. NoGap
    BY <1>1, <1>2 DEF NoGap
  <1>8. Answers
    <2>1. page.version = 1 /\ page.ended = FALSE /\ fetch.pc = "none" /\ fetch = NoFetch
          /\ page \in [version : Nat, ended : BOOLEAN]
          /\ fetch \in [version : Nat, ended : BOOLEAN, pc : {"none", "sent", "answered"}]
          /\ replies \in [Mutations -> 0..version]
      BY <1>1 DEF NoFetch
    <2> QED BY <1>1, <2>1 DEF Answers, Answer
  <1>9. Current
    <2>1. Told
      BY <1>1 DEF Told
    <2> QED BY <1>1, <2>1 DEF Current
  <1>10. version \in 1..MaxVersion
    BY <1>1 DEF StreamAssumption
  <1> QED BY <1>1, <1>3, <1>4, <1>5, <1>6, <1>7, <1>8, <1>9, <1>10 DEF StreamInv

\* and every step keeps it.
LEMMA StreamStep ==
    ASSUME StreamAssumption, StreamInv, [Next]_vars
    PROVE  StreamInv'
  <1>1. CASE Next
    BY <1>1, UpdateKeeps, PruneKeeps, FirstAnswerKeeps, ReplayKeeps, DrainKeeps,
       DropKeeps, RefuseKeeps, InvalidatesKeeps, RepeatedKeeps, SnapshotKeeps,
       EventKeeps, ResetKeeps, ReadKeeps, RespondKeeps, ShowRunKeeps, ShowReplyKeeps,
       FailKeeps, SelectKeeps
       DEF Next, Handler, Page, Poll, Refetch, ReviewApproval
  <1>2. CASE UNCHANGED vars
    <2>1. UNCHANGED <<rowVars, cursor, wire, source, lastId, seen, events, polling,
                      fetch, replies, page, excused, torn>>
      BY <1>2 DEF vars, pageVars
    <2>2. Flow'
      BY <2>1, Versions, FlowStays
    <2>3. NoGap'
      BY <2>1, NoGapStays, OverStays DEF StreamInv, NoGap
    <2>4. Answers' /\ (Told => Told')
      BY <2>1, AnswersStay
    <2>5. Current'
      BY <2>1, <2>4 DEF StreamInv, Current, rowVars
    <2> QED BY <2>1, <2>2, <2>3, <2>4, <2>5, RowsStay DEF StreamInv, Flow
  <1> QED BY <1>1, <1>2

\* What the invariant says of a settled page.
LEMMA StreamMeaning ==
    ASSUME StreamInv
    PROVE  PageIsCurrent /\ TypeOK
  <1>v. /\ version \in Nat \ {0} /\ ended \in BOOLEAN /\ Rows /\ cursor \in Int
        /\ rows \subseteq 1..version /\ Answers /\ Current /\ Flow
    BY Versions DEF StreamInv
  <1>1. ASSUME Settled, ~excused PROVE page = [version |-> version, ended |-> ended]
    <2>1. Told
      <3>1. CASE source = "closed"
        <4>1. fetch.pc = "none"
          BY <1>1 DEF Settled, NoFetch
        <4> QED BY <1>v, <1>1, <3>1, <4>1 DEF Current
      <3>2. CASE source = "open"
        <4>1. wire = <<>> /\ RowsAfter(cursor) = <<>>
          BY <1>1, <3>2 DEF Settled
        <4>2. \A r \in rows : r <= cursor
          BY <1>v, <4>1, RowsAfterIsBatch DEF Batch
        <4>3. ~ \E r \in rows : r > cursor
          BY <1>v, <4>2
        <4> QED BY <1>v, <1>1, <3>2, <4>1, <4>3 DEF Current
      <3> QED BY <1>1, <3>1, <3>2 DEF Settled
    <2>2. fetch.pc = "none"
      BY <1>1 DEF Settled, NoFetch
    <2>3. page.version = version
      BY <2>1, <2>2 DEF Told
    <2>4. page \in [version : Nat, ended : BOOLEAN] /\ (page.ended <=> ended)
      BY <1>v, <2>3 DEF Answers, Answer
    <2>5. page.ended = ended
      BY <1>v, <2>4
    <2> QED BY <2>3, <2>4, <2>5
  <1>2. ~torn => \A i \in 1..Len(events) - 1 : events[i + 1] = events[i] + 1
    BY DEF StreamInv, NoGap
  <1>3. TypeOK
    BY <1>v DEF StreamInv, TypeOK, Server, NoRepetition, Answers, Answer
  <1> QED BY <1>1, <1>2, <1>3 DEF PageIsCurrent

\* For any number of updates, broken connections, failed fetches and late responses
\* of Create and Cancel: a page about which nothing is under way but the next
\* interval shows the run as it is, unless its last fetch failed, a late response
\* replaced a newer row since, or the id 0 was repeated; and its list of events
\* has neither gap nor repetition.
THEOREM SettledPageIsCurrent == StreamAssumption => (Spec => []PageIsCurrent)
  <1> SUFFICES ASSUME StreamAssumption PROVE Spec => []PageIsCurrent
    OBVIOUS
  <1>1. Init => StreamInv
    BY StreamStart
  <1>2. StreamInv /\ [Next]_vars => StreamInv'
    BY StreamStep
  <1>3. StreamInv => PageIsCurrent
    BY StreamMeaning
  <1> QED BY <1>1, <1>2, <1>3, PTL DEF Spec
=============================================================================
