------------------------ MODULE MCConfigCoordinator ------------------------
(***************************************************************************)
(* Configuration changes on small instances: ConfigCoordinator decides     *)
(* when a change may be written, GatewayDocuments what it makes of the     *)
(* document.  Each is explored for itself: working says which.             *)
(***************************************************************************)
EXTENDS ConfigCoordinator, GatewayDocuments
VARIABLE working

\* Names, tokens and requests are told apart by nothing but their names.
NameSymmetry ==
    Permutations(Names) \cup Permutations(Tokens) \cup Permutations(Requests)

ProviderDraftsOf(name, kind, creds) ==
    [name : {name}, kind : {kind}, cred : creds]
MCProviderDrafts ==
    ProviderDraftsOf("p", "openai", {"preserve", "ambient", "environment",
                                     "literal", "$literal", "aws-static"})
    \cup ProviderDraftsOf("q", "bedrock", {"preserve", "aws-static", "literal"})
    \cup ProviderDraftsOf("r", "openai", {"preserve", "ambient"})
ModelDraftsOf(names, refs, kind, upstreams, exprs, creds) ==
    [name : names, ref : refs, kind : {kind}, upstream : upstreams,
     expr : exprs, cred : creds]
MCPrefix == [n \in {"m", "a/m", "b/m"} |->
                CASE n = "m" -> "" [] n = "a/m" -> "a" [] n = "b/m" -> "b"]
MCExpressions == {<<"strip", "a">>, <<"other">>}
MCModelDrafts ==
    ModelDraftsOf({"a/m"}, {"p"}, "", {"incoming", "explicit", "strip"}, {<<>>},
                  {"preserve", "ambient", "literal"})
    \cup ModelDraftsOf({"a/m"}, {"p"}, "", {"custom"}, MCExpressions,
                       {"preserve"})
    \cup ModelDraftsOf({"a/m"}, {""}, "openai", {"explicit"}, {<<>>},
                       {"preserve", "environment", "$literal"})
    \cup ModelDraftsOf({"m", "b/m"}, {"p", "r"}, "", {"incoming", "strip"},
                       {<<>>}, {"preserve", "ambient"})
    \cup ModelDraftsOf({"b/m"}, {"p"}, "", {"custom"}, MCExpressions,
                       {"ambient"})
MCServerDrafts ==
    [name : {"p", "r"}, transport : {"sse"}, body : {"given"}] \cup
    [name : {"p", "r"}, transport : {"stdio"}, body : {"given", "omitted"}]

Provider(name, kind, key, auth) ==
    [name |-> name, kind |-> kind, key |-> key, auth |-> auth, extra |-> "kept"]
Model(name, kind, ref, explicit, expr, policies) ==
    [name |-> name, kind |-> kind, key |-> "ambient", auth |-> "ambient",
     ref |-> ref, explicit |-> explicit, expr |-> expr, policies |-> policies]
Server(name, transport) == [name |-> name, extra |-> "kept",
                            transport |-> transport, body |-> "given"]
Listener(kind, ns, http, tcp) ==
    [kind |-> kind, ns |-> ns, extra |-> "kept", http |-> http, tcp |-> tcp]
Bind(port, listeners) == [port |-> port, listeners |-> listeners]
Document1 ==
    [providers |-> <<Provider("p", "openai", "environment", "ambient"),
                     Provider("q", "bedrock", "ambient", "aws-static")>>,
     models |-> <<Model("m", "", "p", FALSE, <<>>, {"tls"}),
                  Model("a/m", "openai", "", TRUE, <<>>, {})>>,
     virtual |-> {"a/m"},
     llmPolicies |-> [k \in PolicyKeys |-> "set"],
     mcpPolicies |-> [k \in PolicyKeys |-> "absent"],
     settings |-> "default",
     targets |-> <<Server("p", "mcp"), Server("q", "openapi")>>,
     binds |-> <<Bind(1, <<Listener("http", "n1", <<"r1">>, <<>>)>>)>>]
Document2 ==
    [Document1 EXCEPT
        !.providers[1].auth = "other",
        !.models = <<Model("a/m", "", "p", FALSE, <<"strip", "a">>, {}),
                     Model("m", "", "q", FALSE, <<"other">>, {"guardrails"})>>,
        !.virtual = {"m"},
        !.binds = <<Bind(1, <<Listener("tcp", "", <<>>, <<"r1", "r2">>)>>),
                    Bind(2, <<>>)>>]

NoEntries ==
    [Document1 EXCEPT !.providers = <<>>, !.models = <<>>, !.virtual = {},
                      !.targets = <<>>, !.binds = <<>>]
MCDocuments == {Document1, Document2, NoEntries}

\* Of the two, the one that does not work rests.
ChangesInit ==
    /\ Init /\ InitDocuments
    /\ \/ working = "coordinator" /\ doc = NoEntries
       \/ working = "documents" /\ config = <<>>
ChangesNext ==
    /\ UNCHANGED working
    /\ \/ working = "coordinator" /\ Next /\ UNCHANGED docVars
       \/ working = "documents" /\ NextDocuments /\ UNCHANGED vars
ChangesSpec == ChangesInit /\ [][ChangesNext]_<<vars, docVars, working>>
=============================================================================
