-------------------------- MODULE GatewayDocuments --------------------------
(***************************************************************************)
(* What the BFF does to the gateway's configuration document, edit by      *)
(* edit: llm_config.go, mcp_config.go, traffic_config.go and               *)
(* policy_config.go of internal/gateway.  ConfigCoordinator says when a    *)
(* change may be written; here a change reads the document, is refused or  *)
(* computes a new one, posts it whole and reads it again to confirm it.    *)
(* The native console may store a document of its own between the two.     *)
(*                                                                         *)
(* Values nothing depends on are left out, and so are drafts refused for   *)
(* their form alone (lengths, URLs, characters).                           *)
(***************************************************************************)
EXTENDS Integers, FiniteSets, Sequences, SequencesExt
CONSTANTS
    Documents,      \* what the native console stores
    ProviderDrafts, \* [name, kind, cred]
    ModelDrafts,    \* [name, ref, kind, upstream, expr, cred]
    ServerDrafts,   \* [name, transport, body]
    Prefix,         \* of a model's name up to its slash, or ""
    Expressions,    \* values of a transformation policy
    PolicyKeys,     \* policies of the LLM and the MCP gateway
    Ports,
    MaxChanges      \* bound on the changes written
VARIABLES
    doc,            \* the document at the gateway
    change,         \* the change posted last
    pending,        \* it has not been read again yet
    overwritten,    \* the console stored a document since the POST
    changes         \* changes posted
docVars == <<doc, change, pending, overwritten, changes>>

\* Whether another entry than the one at position except holds the value.
NameExists(entries, name, except) ==
    \E i \in DOMAIN entries \ {except} : entries[i].name = name
PortExists(binds, port, except) ==
    \E i \in DOMAIN binds \ {except} : binds[i].port = port

(***************************************************************************)
(* A document: lists of entries with these fields.  Names and ports are    *)
(* unique, every model's provider and every virtual model's target exist,  *)
(* no model has two TLS policies, and a listener holds routes of its own   *)
(* kind.                                                                   *)
(***************************************************************************)
Entries(s) == {s[i] : i \in DOMAIN s}
IsList(s) == s \in Seq(Entries(s))
Listeners(d) == UNION {Entries(b.listeners) : b \in Entries(d.binds)}
Shaped(d) ==
    /\ DOMAIN d = {"providers", "models", "virtual", "llmPolicies",
                   "mcpPolicies", "settings", "targets", "binds"}
    /\ IsList(d.providers) /\ IsList(d.models)
    /\ IsList(d.targets) /\ IsList(d.binds)
    /\ DOMAIN d.llmPolicies = PolicyKeys /\ DOMAIN d.mcpPolicies = PolicyKeys
    /\ \A p \in Entries(d.providers) :
         DOMAIN p = {"name", "kind", "key", "auth", "extra"}
    /\ \A m \in Entries(d.models) :
         DOMAIN m = {"name", "kind", "key", "auth", "ref", "explicit", "expr",
                     "policies"}
    /\ \A s \in Entries(d.targets) :
         DOMAIN s = {"name", "extra", "transport", "body"}
    /\ \A b \in Entries(d.binds) :
         DOMAIN b = {"port", "listeners"} /\ IsList(b.listeners)
    /\ \A l \in Listeners(d) :
         /\ DOMAIN l = {"kind", "ns", "extra", "http", "tcp"}
         /\ l.kind \in {"http", "tcp"} /\ IsList(l.http) /\ IsList(l.tcp)

Unique(s) == \A i, j \in DOMAIN s : s[i].name = s[j].name => i = j
Sound(d) ==
    /\ Unique(d.providers) /\ Unique(d.models) /\ Unique(d.targets)
    /\ \A b, c \in DOMAIN d.binds : d.binds[b].port = d.binds[c].port => b = c
    /\ \A m \in Entries(d.models) :
        /\ m.ref # "" => m.ref \in {p.name : p \in Entries(d.providers)}
        /\ ~({"tls", "backendTLS"} \subseteq m.policies)
    /\ d.virtual \subseteq {m.name : m \in Entries(d.models)}
    /\ \A l \in Listeners(d) : l.http # <<>> => l.kind = "http"
    /\ \A l \in Listeners(d) : l.tcp # <<>> => l.kind = "tcp"

(***************************************************************************)
(* Credentials.  An entry holds an API key and an auth object, each named  *)
(* here by what the BFF reads it as.  A literal secret that begins with a  *)
(* dollar sign ("$literal") is read as the name of a variable.             *)
(***************************************************************************)
CredentialMode(cred) == IF cred = "$literal" THEN "literal" ELSE cred
AuthModes == {"aws-static", "gcp-file", "azure-managed-identity"}
Allowed(kind) ==
    {"preserve", "ambient"} \cup
    CASE kind = "" -> {}
      [] kind = "bedrock" -> {"aws-static"}
      [] kind = "vertex" -> {"gcp-file"}
      [] kind = "azure" -> {"environment", "literal", "file",
                            "azure-managed-identity"}
      [] OTHER -> {"environment", "literal", "file"}
CredentialAllowed(kind, cred, updating) ==
    /\ CredentialMode(cred) \in Allowed(kind)
    /\ cred = "preserve" => updating
MergedKey(key, cred) ==
    CASE cred = "preserve" -> key
      [] cred \in AuthModes \cup {"ambient"} -> "ambient"
      [] cred = "$literal" -> "environment"
      [] OTHER -> cred
\* Mutant: another credential replaces the key and leaves the auth object.
MergedAuthKeeps(auth, cred) == IF cred \in AuthModes THEN cred ELSE auth

MergedAuth(auth, cred) ==
    CASE cred = "preserve" -> auth
      [] cred \in AuthModes -> cred
      [] OTHER -> "ambient"
Credentials == {"preserve", "ambient", "environment", "literal", "$literal",
                "file"} \cup AuthModes
ShownCredential(e) == CASE e.key = "ambient" -> e.auth
                        [] e.auth = "ambient" -> e.key
                        [] OTHER -> "other"
CredentialMatches(e, cred) ==
    cred = "preserve" \/ ShownCredential(e) = CredentialMode(cred)

\* What the console stores is what the gateway accepts.  A draft has the
\* fields of its form, a credential of one of the modes, and an expression
\* exactly if it asks for one of its own.
ASSUME DocumentsAssumption ==
    /\ "unlisted" \in PolicyKeys
    /\ \A d \in Documents : Shaped(d) /\ Sound(d)
    /\ \A p \in ProviderDrafts : /\ DOMAIN p = {"name", "kind", "cred"}
                                 /\ p.cred \in Credentials
    /\ \A m \in ModelDrafts :
         /\ DOMAIN m = {"name", "ref", "kind", "upstream", "expr", "cred"}
         /\ m.cred \in Credentials
         /\ m.upstream \in {"incoming", "explicit", "strip", "custom"}
         /\ m.upstream = "custom" <=> m.expr # <<>>
    /\ \A s \in ServerDrafts : DOMAIN s = {"name", "transport", "body"}

(***************************************************************************)
(* Every change is written and confirmed alike.                            *)
(***************************************************************************)
NoChange == [op |-> "none"]
PostDocument(op, target, draft, new) ==
    /\ ~pending /\ changes < MaxChanges
    /\ doc' = new /\ changes' = changes + 1
    /\ change' = [op |-> op, target |-> target, draft |-> draft,
                  expected |-> new]
    /\ pending' = TRUE /\ overwritten' = FALSE

(***************************************************************************)
(* LLM providers.                                                          *)
(***************************************************************************)
ReferringTo(name) == {i \in DOMAIN doc.models : doc.models[i].ref = name}
ModelReferenced(name) == name \in doc.virtual
BuildProvider(p, draft) ==
    [p EXCEPT !.name = draft.name, !.kind = draft.kind,
              !.key = MergedKey(p.key, draft.cred),
              !.auth = MergedAuth(p.auth, draft.cred)]
\* The entries of a list that are not at the positions gone, in their order.
AllBut(entries, gone) ==
    LET left == DOMAIN entries \ gone
    IN [n \in 1..Cardinality(left) |->
          entries[CHOOSE i \in left : Cardinality(left \cap 1..i) = n]]
NewProvider == [name |-> "", kind |-> "", key |-> "ambient",
                auth |-> "ambient", extra |-> "none"]

CreateProvider(draft) ==
    /\ CredentialAllowed(draft.kind, draft.cred, FALSE)
    /\ ~NameExists(doc.providers, draft.name, 0)
    /\ PostDocument("create-provider", draft.name, draft,
            [doc EXCEPT !.providers =
                Append(@, BuildProvider(NewProvider, draft))])

UpdateProvider(i, draft) ==
    LET current == doc.providers[i] IN
    /\ CredentialAllowed(draft.kind, draft.cred, TRUE)
    /\ current.kind = draft.kind
    /\ ~NameExists(doc.providers, draft.name, i)
    /\ current.name # draft.name => ReferringTo(current.name) = {}
    /\ PostDocument("update-provider", current.name, draft,
            [doc EXCEPT !.providers[i] = BuildProvider(current, draft)])

\* Mutant: a cascade does not look at the virtual models.
DeleteProviderUnchecked(i, cascade) ==
    LET name == doc.providers[i].name IN
    /\ ReferringTo(name) # {} => cascade
    /\ PostDocument("delete-provider", name, cascade,
            [doc EXCEPT !.models = AllBut(@, ReferringTo(name)),
                        !.providers = RemoveAt(@, i)])

DeleteProvider(i, cascade) ==
    LET name == doc.providers[i].name
        referring == ReferringTo(name)
    IN  /\ referring # {} => cascade
        /\ \A m \in referring : ~ModelReferenced(doc.models[m].name)
        /\ PostDocument("delete-provider", name, cascade,
            [doc EXCEPT !.models = AllBut(@, referring),
                        !.providers = RemoveAt(@, i)])

(***************************************************************************)
(* LLM models.  A model names a provider (ref) or holds one of its own     *)
(* (kind).  Which upstream model it asks for is a parameter (explicit) or  *)
(* an expression, <<>> for none.                                           *)
(***************************************************************************)
StripExpression(name) ==
    IF Prefix[name] = "" THEN <<>> ELSE <<"strip", Prefix[name]>>
ModelDraftAllowed(draft, updating) ==
    /\ draft.upstream = "strip" => StripExpression(draft.name) # <<>>
    /\ IF draft.ref = "" THEN draft.kind # ""
       ELSE draft.kind = "" /\ NameExists(doc.providers, draft.ref, 0)
    /\ CredentialAllowed(draft.kind, draft.cred, updating)
BuildModel(m, draft) ==
    [m EXCEPT !.name = draft.name, !.ref = draft.ref, !.kind = draft.kind,
              !.explicit = draft.upstream = "explicit",
              !.expr = CASE draft.upstream = "strip" ->
                                StripExpression(draft.name)
                         [] draft.upstream = "custom" -> draft.expr
                         [] OTHER -> <<>>,
              !.key = MergedKey(m.key, draft.cred),
              !.auth = MergedAuth(m.auth, draft.cred)]
NewModel == [name |-> "", kind |-> "", key |-> "ambient", auth |-> "ambient",
             ref |-> "", explicit |-> FALSE, expr |-> <<>>, policies |-> {}]
\* How the BFF shows what a model asks for.
ModelUpstream(m) ==
    CASE m.explicit -> <<"explicit", <<>>>>
      [] ~m.explicit /\ m.expr = <<>> -> <<"incoming", <<>>>>
      [] ~m.explicit /\ m.expr # <<>> /\ m.expr = StripExpression(m.name) ->
            <<"strip", <<>>>>
      [] OTHER -> <<"custom", m.expr>>

CreateModel(draft) ==
    /\ ModelDraftAllowed(draft, FALSE)
    /\ ~NameExists(doc.models, draft.name, 0)
    /\ PostDocument("create-model", draft.name, draft,
            [doc EXCEPT !.models = Append(@, BuildModel(NewModel, draft))])

UpdateModel(i, draft) ==
    LET current == doc.models[i] IN
    /\ ModelDraftAllowed(draft, TRUE)
    /\ current.ref = draft.ref /\ current.kind = draft.kind
    /\ ~NameExists(doc.models, draft.name, i)
    /\ current.name # draft.name => ~ModelReferenced(current.name)
    /\ PostDocument("update-model", current.name, draft,
            [doc EXCEPT !.models[i] = BuildModel(current, draft)])

DeleteModel(i) ==
    LET name == doc.models[i].name IN
    /\ ~ModelReferenced(name)
    /\ PostDocument("delete-model", name, FALSE,
            [doc EXCEPT !.models = RemoveAt(@, i)])

(***************************************************************************)
(* MCP servers and settings.  extra stands for the fields of an entry the  *)
(* BFF does not edit.  A stdio draft may leave its lists out ("omitted");  *)
(* they are stored as null and read as empty lists.                        *)
(***************************************************************************)
Editable(s) == s.transport # "openapi"
ReadBody(body) == IF body = "omitted" THEN "empty" ELSE body
EncodeServer(s, draft) ==
    [s EXCEPT !.name = draft.name, !.transport = draft.transport,
              !.body = draft.body]

UpdateSettings(settings) ==
    PostDocument("update-settings", "settings", settings,
         [doc EXCEPT !.settings = settings])

CreateServer(draft) ==
    /\ ~NameExists(doc.targets, draft.name, 0)
    /\ PostDocument("create-server", draft.name, draft,
            [doc EXCEPT !.targets = Append(@, EncodeServer(
                [name |-> "", extra |-> "none", transport |-> "",
                 body |-> ""], draft))])

UpdateServer(i, draft) ==
    /\ Editable(doc.targets[i])
    /\ ~NameExists(doc.targets, draft.name, i)
    /\ PostDocument("update-server", doc.targets[i].name, draft,
            [doc EXCEPT !.targets[i] = EncodeServer(@, draft)])

DeleteServer(i) ==
    /\ Editable(doc.targets[i])
    /\ PostDocument("delete-server", doc.targets[i].name, FALSE,
            [doc EXCEPT !.targets = RemoveAt(@, i)])

(***************************************************************************)
(* Policies: of the LLM and the MCP gateway by key, and of a model.  A     *)
(* key of the gateway outside the catalogue ("unlisted") is not editable.  *)
(* The policies auth and transformation of a model are the objects its     *)
(* credential and its expression are kept in.                              *)
(***************************************************************************)
Families == {"llmPolicies", "mcpPolicies"}
ModelPolicyKeys == {"tls", "backendTLS", "auth", "transformation", "guardrails"}
PolicyEnabled(m, key) == CASE key = "auth" -> m.auth # "ambient"
                           [] key = "transformation" -> m.expr # <<>>
                           [] OTHER -> key \in m.policies
WithPolicy(m, key, expr) ==
    CASE key = "auth" -> [m EXCEPT !.auth = "other"]
      [] key = "transformation" -> [m EXCEPT !.expr = expr]
      [] OTHER -> [m EXCEPT !.policies = @ \cup {key}]
WithoutPolicy(m, key) ==
    CASE key = "auth" -> [m EXCEPT !.auth = "ambient"]
      [] key = "transformation" -> [m EXCEPT !.expr = <<>>]
      [] OTHER -> [m EXCEPT !.policies = @ \ {key}]
\* What is left of a policy of the gateway that is switched off.
Disabled(family, key) ==
    IF family = "llmPolicies" /\ key \notin {"localRateLimit", "guardrails"}
    THEN "null" ELSE "absent"

SetGlobalPolicy(family, key, value) ==
    /\ key # "unlisted"
    /\ PostDocument("set-policy", key, value,
            [doc EXCEPT ![family][key] = value])

DeleteGlobalPolicy(family, key) ==
    /\ key # "unlisted" /\ doc[family][key] = "set"
    /\ PostDocument("delete-policy", key, FALSE,
            [doc EXCEPT ![family][key] = Disabled(family, key)])

SetModelPolicy(i, key, expr) ==
    /\ key = "tls" => "backendTLS" \notin doc.models[i].policies
    /\ key = "backendTLS" => "tls" \notin doc.models[i].policies
    /\ PostDocument("model-policy", doc.models[i].name, key,
            [doc EXCEPT !.models[i] = WithPolicy(@, key, expr)])

DeleteModelPolicy(i, key) ==
    /\ PolicyEnabled(doc.models[i], key)
    /\ PostDocument("model-policy", doc.models[i].name, key,
            [doc EXCEPT !.models[i] = WithoutPolicy(@, key)])

(***************************************************************************)
(* Traffic: binds, their listeners, and the routes of a listener, HTTP or  *)
(* TCP by its protocol.  A listener and a route are made anew from the     *)
(* draft, which is their whole configuration: of the listener before only  *)
(* the namespace and the routes stay, and the fields a draft cannot have   *)
(* (extra) are dropped.                                                    *)
(***************************************************************************)
ListenerDrafts == [kind : {"http", "tcp"}, ns : {"", "n2"}, agreed : BOOLEAN]
RouteDrafts == [kind : {"http", "tcp"}, route : {"r1", "r2"}]
RouteTotal(l) == Len(l.http) + Len(l.tcp)
EncodeListener(draft, ns) ==
    [kind |-> draft.kind, ns |-> IF draft.ns = "" THEN ns ELSE draft.ns,
     extra |-> "none", http |-> <<>>, tcp |-> <<>>]

CreateBind(port) ==
    /\ ~PortExists(doc.binds, port, 0)
    /\ PostDocument("create-bind", "traffic", FALSE,
            [doc EXCEPT !.binds = Append(@,
                [port |-> port, listeners |-> <<>>])])

UpdateBind(b, port) ==
    /\ ~PortExists(doc.binds, port, b)
    /\ PostDocument("update-bind", "traffic", FALSE,
            [doc EXCEPT !.binds[b].port = port])

DeleteBind(b, agreed) ==
    /\ doc.binds[b].listeners # <<>> => agreed
    /\ PostDocument("delete-bind", "traffic", agreed,
            [doc EXCEPT !.binds = RemoveAt(@, b)])

CreateListener(b, draft) ==
    PostDocument("create-listener", "traffic", FALSE,
         [doc EXCEPT !.binds[b].listeners =
            Append(@, EncodeListener(draft, ""))])

\* The listener l of bind b after draft: its routes stay, unless they are of
\* the other kind.
UpdatedListener(current, draft) ==
    IF current.kind # draft.kind THEN EncodeListener(draft, current.ns)
    ELSE [EncodeListener(draft, current.ns) EXCEPT
            ![draft.kind] = current[draft.kind]]
\* Mutant: routes of the other kind are dropped without a word.
UpdateListenerAlways(b, l, draft) ==
    PostDocument("update-listener", "traffic", draft.agreed,
         [doc EXCEPT !.binds[b].listeners[l] = UpdatedListener(@, draft)])

UpdateListener(b, l, draft) ==
    LET current == doc.binds[b].listeners[l] IN
    /\ current.kind # draft.kind /\ RouteTotal(current) > 0 => draft.agreed
    /\ PostDocument("update-listener", "traffic", draft.agreed,
            [doc EXCEPT !.binds[b].listeners[l] =
                UpdatedListener(current, draft)])

DeleteListener(b, l, agreed) ==
    /\ RouteTotal(doc.binds[b].listeners[l]) > 0 => agreed
    /\ PostDocument("delete-listener", "traffic", agreed,
            [doc EXCEPT !.binds[b].listeners = RemoveAt(@, l)])

CreateRoute(b, l, draft) ==
    /\ doc.binds[b].listeners[l].kind = draft.kind
    /\ PostDocument("create-route", "traffic", FALSE,
            [doc EXCEPT !.binds[b].listeners[l][draft.kind] =
                Append(@, draft.route)])

UpdateRoute(b, l, kind, r, draft) ==
    /\ kind = draft.kind
    /\ PostDocument("update-route", "traffic", FALSE,
            [doc EXCEPT !.binds[b].listeners[l][kind][r] = draft.route])

DeleteRoute(b, l, kind, r) ==
    PostDocument("delete-route", "traffic", FALSE,
         [doc EXCEPT !.binds[b].listeners[l][kind] = RemoveAt(@, r)])

(***************************************************************************)
(* Reading the document again.  LLM and MCP changes look for the entry     *)
(* with the name of the draft; the others compare the whole document.      *)
(***************************************************************************)
Named(entries, name) == {i \in DOMAIN entries : entries[i].name = name}
Found(entries, name) == {i \in Named(entries, name) :
                           \A j \in Named(entries, name) : i <= j}
ProviderMatches(p, draft) ==
    p.kind = draft.kind /\ CredentialMatches(p, draft.cred)
ModelMatches(m, draft) ==
    /\ m.ref = draft.ref /\ m.kind = draft.kind
    /\ ModelUpstream(m) = <<draft.upstream, draft.expr>>
    /\ CredentialMatches(m, draft.cred)
ServerMatches(s, draft) ==
    s.transport = draft.transport /\ ReadBody(s.body) = draft.body
Verified ==
    LET draft == change.draft
        gone(entries) == Named(entries, change.target) = {}
    IN  CASE change.op \in {"create-provider", "update-provider"} ->
                \E i \in Found(doc.providers, draft.name) :
                    ProviderMatches(doc.providers[i], draft)
          [] change.op = "delete-provider" ->
                /\ gone(doc.providers)
                /\ draft => ReferringTo(change.target) = {}
          [] change.op \in {"create-model", "update-model"} ->
                \E i \in Found(doc.models, draft.name) :
                    ModelMatches(doc.models[i], draft)
          [] change.op = "delete-model" -> gone(doc.models)
          [] change.op \in {"create-server", "update-server"} ->
                \E i \in Found(doc.targets, draft.name) :
                    ServerMatches(doc.targets[i], draft)
          [] change.op = "delete-server" -> gone(doc.targets)
          [] change.op = "update-settings" -> doc.settings = draft
          [] OTHER -> doc = change.expected

\* The user is told that the change is confirmed if it is Verified; if not,
\* or if the document cannot be read, that it is not.
RereadDocument ==
    /\ pending
    /\ pending' = FALSE /\ change' = NoChange /\ overwritten' = FALSE
    /\ UNCHANGED <<doc, changes>>

\* The native console stores a document of its own.
ConsoleStores(new) == /\ new # doc
                      /\ doc' = new /\ overwritten' = pending
                      /\ UNCHANGED <<change, pending, changes>>

InitDocuments == /\ doc \in Documents /\ changes = 0
                 /\ change = NoChange /\ pending = FALSE
                 /\ overwritten = FALSE

NextLLM ==
    \/ \E draft \in ProviderDrafts :
        \/ CreateProvider(draft)
        \/ \E i \in DOMAIN doc.providers : UpdateProvider(i, draft)
    \/ \E i \in DOMAIN doc.providers, cascade \in BOOLEAN :
        DeleteProvider(i, cascade)
    \/ \E draft \in ModelDrafts :
        \/ CreateModel(draft)
        \/ \E i \in DOMAIN doc.models : UpdateModel(i, draft)
    \/ \E i \in DOMAIN doc.models : DeleteModel(i)
NextMCP ==
    \/ \E settings \in {"default", "stateful"} : UpdateSettings(settings)
    \/ \E draft \in ServerDrafts :
        \/ CreateServer(draft)
        \/ \E i \in DOMAIN doc.targets : UpdateServer(i, draft)
    \/ \E i \in DOMAIN doc.targets : DeleteServer(i)
NextPolicies ==
    \/ \E family \in Families, key \in PolicyKeys :
        \/ \E value \in {"empty", "set"} : SetGlobalPolicy(family, key, value)
        \/ DeleteGlobalPolicy(family, key)
    \/ \E i \in DOMAIN doc.models, key \in ModelPolicyKeys :
        \/ \E expr \in Expressions : SetModelPolicy(i, key, expr)
        \/ DeleteModelPolicy(i, key)
NextRoutes(b, l) ==
    \/ \E draft \in RouteDrafts : CreateRoute(b, l, draft)
    \/ \E kind \in {"http", "tcp"} :
        \E r \in DOMAIN doc.binds[b].listeners[l][kind] :
            \/ \E draft \in RouteDrafts : UpdateRoute(b, l, kind, r, draft)
            \/ DeleteRoute(b, l, kind, r)
NextTraffic ==
    \/ \E port \in Ports :
        \/ CreateBind(port)
        \/ \E b \in DOMAIN doc.binds : UpdateBind(b, port)
    \/ \E b \in DOMAIN doc.binds :
        \/ \E agreed \in BOOLEAN : DeleteBind(b, agreed)
        \/ \E draft \in ListenerDrafts : CreateListener(b, draft)
        \/ \E l \in DOMAIN doc.binds[b].listeners :
            \/ \E draft \in ListenerDrafts : UpdateListener(b, l, draft)
            \/ \E agreed \in BOOLEAN : DeleteListener(b, l, agreed)
            \/ NextRoutes(b, l)
NextDocuments == \/ NextLLM \/ NextMCP \/ NextPolicies \/ NextTraffic
                 \/ RereadDocument
                 \/ \E new \in Documents : ConsoleStores(new)
DocumentsSpec == InitDocuments /\ [][NextDocuments]_docVars
-----------------------------------------------------------------------------
(***************************************************************************)
(* What is never lost.  The BFF posts the whole document, so whatever it   *)
(* drops is gone.                                                          *)
(***************************************************************************)

\* Whatever edits are made one after another, names and ports stay unique,
\* every model's provider and every virtual model's target exist, no model
\* has two TLS policies, and no listener holds routes of the other kind:
\* the gateway would refuse the document, or route into nothing.
DocumentIsSound == (pending <=> change # NoChange) /\ Sound(doc)

\* A change takes nothing from the document but what its user named or
\* agreed to: providers, models, servers and routes disappear only when they
\* are deleted or their owner is, with the user's word; a provider, a model or
\* a server that is edited keeps the fields the BFF does not manage, and its
\* policies.  A listener that is edited keeps its namespace and no field the BFF
\* does not manage, but every other listener stays as it is.
RoutesOf(b, listeners) ==
    UNION {{<<b, l, kind, r>> : r \in DOMAIN listeners[l][kind]} :
             l \in DOMAIN listeners, kind \in {"http", "tcp"}}
Routes(d) == UNION {RoutesOf(b, d.binds[b].listeners) : b \in DOMAIN d.binds}
RouteCount(d) == Cardinality(Routes(d))
ChangeTakesOnlyWhatIsNamed ==
    LET c == change' IN
    /\ \A p \in Entries(doc.providers) \ Entries(doc'.providers) :
        /\ c.target = p.name
        /\ \/ c.op = "delete-provider"
           \/ /\ c.op = "update-provider"
              /\ \E q \in Entries(doc'.providers) :
                    q.name = c.draft.name /\ q.extra = p.extra
    /\ \A m \in Entries(doc.models) \ Entries(doc'.models) :
        \/ c.op = "delete-model" /\ c.target = m.name
        \/ c.op = "delete-provider" /\ c.target = m.ref /\ c.draft
        \/ /\ c.op = "update-model" /\ c.target = m.name
           /\ \E q \in Entries(doc'.models) :
                q.name = c.draft.name /\ q.policies = m.policies
        \/ /\ c.op = "model-policy" /\ c.target = m.name
           /\ \E q \in Entries(doc'.models) :
                \A field \in DOMAIN m \ {"policies", "expr", "auth"} :
                    q[field] = m[field]
    /\ \A s \in Entries(doc.targets) \ Entries(doc'.targets) :
        /\ c.target = s.name /\ s.transport # "openapi"
        /\ \/ c.op = "delete-server"
           \/ \E t \in Entries(doc'.targets) :
                t.name = c.draft.name /\ t.extra = s.extra
    /\ \A family \in Families : doc'[family]["unlisted"] =
                                doc[family]["unlisted"]
    /\ RouteCount(doc') < RouteCount(doc) =>
        \/ c.op = "delete-route"
        \/ /\ c.op \in {"delete-bind", "delete-listener", "update-listener"}
           /\ c.draft
    /\ c.op = "update-listener" =>
        \A b \in DOMAIN doc.binds : \A l \in DOMAIN doc.binds[b].listeners :
            LET before == doc.binds[b].listeners[l]
                after == doc'.binds[b].listeners[l]
            IN  /\ after.ns = "" => before.ns = ""
                /\ \A k \in DOMAIN doc.binds :
                    \A j \in DOMAIN doc.binds[k].listeners :
                        \/ b = k /\ l = j
                        \/ after = before
                        \/ doc'.binds[k].listeners[j] = doc.binds[k].listeners[j]
ChangesAreLocal ==
    [][~pending /\ pending' =>
        ChangeTakesOnlyWhatIsNamed]_docVars

\* Drafts the gateway stores as they are and the BFF reads as something
\* else: a secret that looks like a variable, an expression that looks like
\* the prefix it strips, lists that are left out.
KnownGap ==
    /\ change.op \in {"create-provider", "update-provider", "create-model",
                      "update-model", "create-server", "update-server"}
    /\ \/ "cred" \in DOMAIN change.draft /\ change.draft.cred = "$literal"
       \/ /\ "upstream" \in DOMAIN change.draft
          /\ change.draft.upstream = "custom"
          /\ change.draft.expr = StripExpression(change.draft.name)
       \/ "body" \in DOMAIN change.draft /\ change.draft.body = "omitted"

\* A change the gateway stored, and nobody has overwritten, is confirmed:
\* what is written and what is read agree for every edit, whatever the entry
\* held before, but for the known gaps, which are exactly the exceptions.
WritesAreConfirmed ==
    pending /\ ~overwritten => (Verified <=> ~KnownGap)
=============================================================================
