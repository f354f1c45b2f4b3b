----------------------------- MODULE EventFeed -----------------------------
(***************************************************************************)
(* What the event stream promises a browser, without a database, locks,    *)
(* wakeups or crashes.  Messages join one totally ordered feed, always at  *)
(* its end.  A browser that holds a position is handed the very next       *)
(* message of the feed, or is told explicitly (a "reset") that it must     *)
(* start again from the end; it is never moved past a message silently.    *)
(***************************************************************************)
EXTENDS Integers

CONSTANTS Readers,      \* the browsers
          MaxSeq        \* bound on the identifiers messages are given

VARIABLES feed,         \* identifiers of every message published so far
          cursor        \* identifier each browser received last, or NoId

feedVars == <<feed, cursor>>

NoId == -1

\* The identifier of the newest message; 0 while there is none.
IsNewest(m) == /\ m \in feed \cup {0}
               /\ \A s \in feed : s <= m

FeedInit == /\ feed = {}
            /\ cursor \in [Readers -> {NoId} \cup 0..MaxSeq]

\* A committed transaction appends its messages behind everything published.
Publish == \E batch \in SUBSET (1..MaxSeq) :
              /\ batch # {}
              /\ \A s \in batch, t \in feed : t < s
              /\ feed' = feed \cup batch
              /\ UNCHANGED cursor

\* A browser without a position is started anywhere in the feed.
Start(r) == /\ cursor[r] = NoId
            /\ \E m \in feed : cursor' = [cursor EXCEPT ![r] = m]
            /\ UNCHANGED feed

\* A browser with a position is handed the message that follows it.
Deliver(r) == /\ cursor[r] # NoId
              /\ \E m \in feed :
                    /\ cursor[r] < m
                    /\ \A s \in feed : s <= cursor[r] \/ m <= s
                    /\ cursor' = [cursor EXCEPT ![r] = m]
              /\ UNCHANGED feed

\* A browser is told that its position is void and resumes from the end.
Reset(r) == /\ cursor[r] # NoId
            /\ \E m \in feed \cup {0} :
                  /\ IsNewest(m)
                  /\ cursor' = [cursor EXCEPT ![r] = m]
            /\ UNCHANGED feed

FeedNext == \/ Publish
            \/ \E r \in Readers : Start(r) \/ Deliver(r) \/ Reset(r)

FeedSpec == FeedInit /\ [][FeedNext]_feedVars
=============================================================================
