------------------------- MODULE ConfigCoordinator -------------------------
(***************************************************************************)
(* Changes of the agentgateway configuration through the BFF.  The gateway *)
(* has whole-document GET and POST and no revisions, so the BFF hands out  *)
(* a token with every configuration it shows, remembers the digest of that *)
(* document for it, and applies a change only if a fresh read has the same *)
(* digest.  One flag (mutating) keeps changes apart; the native console    *)
(* and the YAML file are not bound by it.                                  *)
(*                                                                         *)
(* A document is the sequence of its named entries: the BFF addresses an   *)
(* entry by its index in the document it showed.  The digest of a document *)
(* is the document.  Tokens all live equally long, so they expire in the   *)
(* order of their time stamps and no clock is needed.                      *)
(***************************************************************************)
EXTENDS Naturals, Sequences, FiniteSets, SequencesExt

CONSTANTS Names,         \* names of providers, models, servers, ...
          Tokens,        \* bound: configurations shown
          Requests,      \* bound: changes submitted
          MaxRevisions,  \* tokens the BFF remembers
          MaxConsole,    \* bound: writes by the native console
          NoToken, NoRequest

ASSUME CoordinatorAssumption == /\ IsFiniteSet(Names)
                                /\ IsFiniteSet(Tokens)
                                /\ MaxRevisions \in Nat \ {0}
                                /\ MaxConsole \in Nat
                                /\ NoToken \notin Tokens
                                /\ NoRequest \notin Requests

VARIABLES
    config,    \* the gateway's document
    console,   \* writes by the native console so far
    state,     \* of each token, see TypeOK
    shown,     \* the document each token was issued for
    created,   \* revisionState.createdAt, as a rank
    inserted,  \* when a token entered the map, as a rank
    mutating,  \* the change that holds the flag
    rpc,       \* where each change is
    token,     \* the token it was submitted with
    edit,      \* what it does
    base,      \* the document it was computed from
    raced      \* changes whose document the console overtook

tokenVars   == <<state, shown, created, inserted>>
requestVars == <<rpc, token, edit, base, raced>>
vars == <<config, console, tokenVars, mutating, requestVars>>

Distinct(doc) == \A i, j \in DOMAIN doc : doc[i] = doc[j] => i = j
Docs == {doc \in UNION {[1..n -> Names] : n \in 0..Cardinality(Names)} : Distinct(doc)}

Indices == 1..Cardinality(Names)
Edits == [op : {"create"}, name : Names]
         \cup [op : {"update"}, index : Indices, name : Names]
         \cup [op : {"delete"}, index : Indices]
NoEdit == [op |-> "none"]

\* Mutant: the name of another entry may be taken.
ApplicableAnyName(e, doc) == e.op # "create" => e.index \in DOMAIN doc

\* The change is refused (not found, conflict) or yields a document.
Applicable(e, doc) ==
    /\ e.op # "create" => e.index \in DOMAIN doc
    /\ e.op # "delete" => \A i \in DOMAIN doc :
           doc[i] = e.name => e.op = "update" /\ i = e.index
Applied(e, doc) == CASE e.op = "create" -> Append(doc, e.name)
                     [] e.op = "update" -> [doc EXCEPT ![e.index] = e.name]
                     [] e.op = "delete" -> RemoveAt(doc, e.index)

Live == {k \in Tokens : state[k] = "live"}
Stamped == {k \in Tokens : created[k] # 0}
Entered == {k \in Tokens : inserted[k] # 0}
Oldest(set) == {k \in set : \A other \in set : created[k] <= created[other]}

Init == /\ config \in Docs
        /\ console = 0
        /\ state = [k \in Tokens |-> "none"]
        /\ shown = [k \in Tokens |-> <<>>]
        /\ created = [k \in Tokens |-> 0]
        /\ inserted = [k \in Tokens |-> 0]
        /\ mutating = NoRequest
        /\ rpc = [r \in Requests |-> "new"]
        /\ token = [r \in Requests |-> NoToken]
        /\ edit = [r \in Requests |-> NoEdit]
        /\ base = [r \in Requests |-> <<>>]
        /\ raced = {}
-----------------------------------------------------------------------------
(* Showing a configuration *)

Show(k) == /\ state[k] = "none"
           /\ state' = [state EXCEPT ![k] = "read"]
           /\ shown' = [shown EXCEPT ![k] = config]
           /\ UNCHANGED <<config, console, created, inserted, mutating, requestVars>>

\* issueRevision reads the clock before it takes the lock.
Stamp(k) == /\ state[k] = "read"
            /\ state' = [state EXCEPT ![k] = "stamped"]
            /\ created' = [created EXCEPT ![k] = Cardinality(Stamped) + 1]
            /\ UNCHANGED <<config, console, shown, inserted, mutating, requestVars>>

\* Mutant: a full map drops the token issued last.
EvictNewest ==
    IF Cardinality(Live) < MaxRevisions THEN {}
    ELSE {k \in Live : \A other \in Live : created[other] <= created[k]}

\* A full map makes room by dropping its oldest token.
Evicted ==
    IF Cardinality(Live) < MaxRevisions THEN {} ELSE Oldest(Live)

Issue(k) ==
    /\ state[k] = "stamped"
    /\ state' = [t \in Tokens |-> CASE t = k -> "live"
                                    [] t \in Evicted -> "evicted"
                                    [] OTHER -> state[t]]
    /\ inserted' = [inserted EXCEPT ![k] = Cardinality(Entered) + 1]
    /\ UNCHANGED <<config, console, shown, created, mutating, requestVars>>

Expire == /\ \E k \in Oldest(Live) : state' = [state EXCEPT ![k] = "expired"]
          /\ UNCHANGED <<config, console, shown, created, inserted, mutating,
                         requestVars>>
-----------------------------------------------------------------------------
(* Applying a change *)

Goto(r, where) == rpc' = [rpc EXCEPT ![r] = where]

\* Mutant: a token stays valid when it is used.
ConsumeKeeps(r) ==
    /\ rpc[r] = "new"
    /\ \E k \in Entered, e \in Edits :
          IF k \in Live
          THEN /\ Goto(r, "consumed")
               /\ token' = [token EXCEPT ![r] = k]
               /\ edit' = [edit EXCEPT ![r] = e]
               /\ UNCHANGED state
          ELSE Goto(r, "done") /\ UNCHANGED <<state, token, edit>>
    /\ UNCHANGED <<config, console, shown, created, inserted, mutating, base, raced>>

\* consumeRevision: somebody submits a change with a token that was issued.
Consume(r) ==
    /\ rpc[r] = "new"
    /\ \E k \in Entered, e \in Edits :
          IF k \in Live
          THEN /\ Goto(r, "consumed")
               /\ token' = [token EXCEPT ![r] = k]
               /\ edit' = [edit EXCEPT ![r] = e]
               /\ state' = [state EXCEPT ![k] = "used"]
          ELSE Goto(r, "done") /\ UNCHANGED <<state, token, edit>>
    /\ UNCHANGED <<config, console, shown, created, inserted, mutating, base, raced>>

\* The request is answered; what it worked on is forgotten.
Finish(r) == /\ Goto(r, "done")
             /\ edit' = [edit EXCEPT ![r] = NoEdit]
             /\ base' = [base EXCEPT ![r] = <<>>]
             /\ raced' = raced \ {r}

\* The same with the deferred endMutation, on every way out.
End(r) == Finish(r) /\ mutating' = NoRequest

Continue(r, where) == Goto(r, where) /\ UNCHANGED <<mutating, edit, base, raced>>
KeepTokens == UNCHANGED <<console, tokenVars, token>>

\* Mutant: changes are not kept apart.
BeginAlways(r) ==
    /\ rpc[r] = "consumed"
    /\ Goto(r, "locked")
    /\ mutating' = r
    /\ UNCHANGED <<config, edit, base, raced>>
    /\ KeepTokens

\* beginMutation; a change that finds the flag set has lost its token.
Begin(r) ==
    /\ rpc[r] = "consumed"
    /\ \/ /\ mutating = NoRequest
          /\ Goto(r, "locked")
          /\ mutating' = r
          /\ UNCHANGED <<edit, base, raced>>
       \/ mutating # NoRequest /\ Finish(r) /\ UNCHANGED mutating
    /\ UNCHANGED config
    /\ KeepTokens

\* Mutant: the flag is not cleared on errors found before the write.
RereadKeepsFlag(r) ==
    /\ rpc[r] = "locked"
    /\ \/ /\ config = shown[token[r]]
          /\ Applicable(edit[r], config)
          /\ Goto(r, "post")
          /\ base' = [base EXCEPT ![r] = config]
          /\ UNCHANGED <<edit, raced>>
       \/ Finish(r)
    /\ UNCHANGED <<config, mutating>>
    /\ KeepTokens

\* Apply...Change reads the document again and computes the new one from it,
\* unless it changed, refuses the change or cannot be read.
Reread(r) ==
    /\ rpc[r] = "locked"
    /\ \/ /\ config = shown[token[r]]
          /\ Applicable(edit[r], config)
          /\ Goto(r, "post")
          /\ base' = [base EXCEPT ![r] = config]
          /\ UNCHANGED <<mutating, edit, raced>>
       \/ End(r)
    /\ UNCHANGED config
    /\ KeepTokens

\* One POST of the whole document, never repeated.  It may fail before or after
\* it took effect.
Post(r) ==
    /\ rpc[r] = "post"
    /\ \/ /\ config' = Applied(edit[r], base[r])
          /\ Continue(r, "verify") \/ End(r)
       \/ UNCHANGED config /\ End(r)
    /\ KeepTokens

\* Reads the document once more to report the outcome.
Verify(r) == /\ rpc[r] = "verify"
             /\ End(r)
             /\ UNCHANGED config
             /\ KeepTokens

\* The native console or the YAML file: any document, at any time.
Console == /\ console < MaxConsole
           /\ console' = console + 1
           /\ config' \in Docs \ {config}
           /\ raced' = raced \cup {r \in Requests : rpc[r] = "post"}
           /\ UNCHANGED <<tokenVars, mutating, rpc, token, edit, base>>
-----------------------------------------------------------------------------
ChangeStep(r) == Begin(r) \/ Reread(r) \/ Post(r) \/ Verify(r)

Next == \/ \E k \in Tokens : Show(k) \/ Stamp(k) \/ Issue(k)
        \/ \E r \in Requests : Consume(r) \/ ChangeStep(r)
        \/ Expire \/ Console

Spec == Init /\ [][Next]_vars
-----------------------------------------------------------------------------
(* Properties *)

TypeOK ==
    /\ config \in Docs
    /\ console \in 0..MaxConsole
    /\ state \in [Tokens -> {"none", "read", "stamped", "live", "used", "expired",
                             "evicted"}]
    /\ shown \in [Tokens -> Docs]
    /\ created \in [Tokens -> 0..Cardinality(Tokens)]
    /\ inserted \in [Tokens -> 0..Cardinality(Tokens)]
    /\ mutating \in Requests \cup {NoRequest}
    /\ rpc \in [Requests -> {"new", "consumed", "locked", "post", "verify", "done"}]
    /\ token \in [Requests -> Tokens \cup {NoToken}]
    /\ edit \in [Requests -> Edits \cup {NoEdit}]
    /\ base \in [Requests -> Docs]
    /\ raced \subseteq Requests

\* The BFF makes a compare-and-swap out of a GET and a POST: a change takes
\* effect on the document its user was shown and on no other, so that an index
\* hits the entry the user meant and no change made through the BFF is undone by
\* another.  The exception is a write of the native console between the last
\* read and the POST (docs/architecture.md says that gap cannot be closed).
ChangesAreCompareAndSwap ==
    [][\A r \in Requests :
          rpc[r] = "post" /\ rpc'[r] # "post" /\ config' # config /\ r \notin raced =>
              /\ config = shown[token[r]]
              /\ config' = Applied(edit[r], shown[token[r]])]_vars

\* A token authorises one change: also two requests that carry the same token
\* at once, or a repeat after an ambiguous failure, never both get to write.
TokensAreUsedOnce ==
    \A q, r \in Requests : token[q] = token[r] /\ token[q] # NoToken => q = r

\* A token is forgotten early only when as many other tokens as the BFF
\* remembers were created or issued after it.
OnlyOldTokensAreEvicted ==
    \A k \in Tokens : state[k] = "evicted" =>
        MaxRevisions <= Cardinality({other \in Entered :
            created[k] < created[other] \/ inserted[k] < inserted[other]})

\* The flag never outlives the change that set it, however that change ends; a
\* flag left behind would refuse every later change until the BFF restarts.
FlagHasAHolder ==
    mutating # NoRequest => rpc[mutating] \in {"locked", "post", "verify"}
-----------------------------------------------------------------------------
(* The inductive invariant *)

\* A token gets its ranks on its way into the map, no two the same.
TokenDiscipline ==
    /\ \A k \in Tokens :
          /\ state[k] \in {"none", "read"} <=> created[k] = 0
          /\ state[k] \in {"none", "read", "stamped"} <=> inserted[k] = 0
          /\ created[k] <= Cardinality(Stamped)
          /\ inserted[k] <= Cardinality(Entered)
    /\ \A j, k \in Stamped : created[j] = created[k] => j = k

\* A change beyond Consume owns a used token, the one past Begin the flag.
ChangeDiscipline ==
    \A r \in Requests :
        /\ rpc[r] \in {"locked", "post", "verify"} <=> mutating = r
        /\ rpc[r] = "new" => token[r] = NoToken
        /\ rpc[r] \in {"consumed", "locked", "post", "verify"} =>
              token[r] \in Tokens /\ edit[r] \in Edits
        /\ token[r] # NoToken => state[token[r]] = "used"

\* A change about to POST was computed from the document its token stands for,
\* which the gateway still has unless the console wrote.
BaseIsCurrent ==
    \A r \in Requests : rpc[r] = "post" =>
        /\ base[r] = shown[token[r]]
        /\ Applicable(edit[r], base[r])
        /\ r \notin raced => config = base[r]

CoordinatorInv ==
    /\ TypeOK /\ TokenDiscipline /\ ChangeDiscipline /\ BaseIsCurrent
    /\ TokensAreUsedOnce /\ OnlyOldTokensAreEvicted
=============================================================================
