----------------------------- MODULE KubeActions -----------------------------
(***************************************************************************)
(* One run of a Kubernetes action, call by call: KubeScope.Run             *)
(* (internal/executor/kube.go), the sessions it obtains from backplane or  *)
(* from a kubeconfig (internal/backplane), and the Execute methods of the  *)
(* Kubernetes actions (internal/actions). The managed cluster goes on      *)
(* changing between two calls of a run.                                    *)
(*                                                                         *)
(* The cluster is a set of facts: the objects it holds and the alerts and  *)
(* silences that Prometheus and Alertmanager would answer with. A fact has *)
(* a kind (the resource), a namespace and a name that identify it, and     *)
(* what the actions look at of the rest: the node or object it is about    *)
(* (on), its phase or state, and a label (app, severity, involved kind).   *)
(***************************************************************************)
EXTENDS Naturals

CONSTANTS
    Requests,       \* authorized requests: action, target and the params that matter
    Facts,          \* facts that may be true of the cluster
    FirstWorld,     \* the facts true when the run starts
    Providers,      \* "backplane", "kubeconfig" or both
    Hosts,          \* hosts, with their ports, that a URL may name
    Subdomains,     \* pairs of hosts, the first being a subdomain of the second
    Base,           \* the configured base URL of backplane
    MaxChanges      \* bound: changes of the cluster during the run

Empty == ""    \* Go's empty string: cluster-wide, unnamed, unbound, not given

FactType == [kind : STRING, ns : STRING, name : STRING, on : STRING, state : STRING, label : STRING]

Same(f, g) == f.kind = g.kind /\ f.ns = g.ns /\ f.name = g.name

KubeActionNames ==
    {"get", "patch", "delete", "describe-nodes", "list-alerts", "get-pull-secret-email"}

RequestType ==
    [action : KubeActionNames, ns : STRING, resource : STRING, name : STRING, patch : BOOLEAN,
     severity : STRING, state : STRING, silences : BOOLEAN]

\* What a patch makes of an object.
Patched(f) == [f EXCEPT !.state = "patched"]

\* What matters of a URL.
URLs == [scheme : {"http", "https"}, host : Hosts]

NoURL == [scheme |-> Empty, host |-> Empty]

\* Kubernetes identifies an object by kind, namespace and name, which is never empty;
\* an alert that Prometheus tells of is pending or firing; and what a request may
\* patch is, once patched, a fact as well. net/http sends nothing without a host.
ASSUME KubeAssumption ==
    /\ Facts \subseteq FactType /\ FirstWorld \subseteq Facts
    /\ \A f, g \in FirstWorld : Same(f, g) => f = g
    /\ \A f \in Facts : f.name # Empty
    /\ \A f \in Facts : f.kind = "alerts" => f.state \in {"firing", "pending"}
    /\ Requests \subseteq RequestType
    /\ \A q \in Requests, f \in Facts :
          q.action = "patch" /\ f.kind = q.resource /\ f.ns = q.ns /\ f.name = q.name
            => Patched(f) \in Facts
    /\ Providers \subseteq {"backplane", "kubeconfig"}
    /\ Empty \notin Hosts /\ Base \in URLs /\ Subdomains \subseteq Hosts \X Hosts
    /\ MaxChanges \in Nat

VARIABLES
    provider,   \* the ClientProvider the server was built with
    req,        \* the request
    pc,         \* the call that comes next, "done" or "failed"
    granted,    \* granted[s]: the declaration backplane accepted for session s
    proxy,      \* proxy[s]: the URL session s's calls go to; its host is trustedHost
    found,      \* what the calls so far answered
    pod,        \* the pod discoverPod chose
    report,     \* ActionResult.Resources
    world,      \* the facts true of the cluster now
    ever,       \* history: facts true at some moment of the run
    always,     \* history: facts true at every moment of the run
    calls,      \* history: the calls made
    bearer,     \* history: where the server's token went, by the session's POST or by a call
    noResult,   \* history: Prometheus answered without data.result
    changes     \* bound used up

runVars == <<granted, proxy, found, pod, report, noResult>>
historyVars == <<calls, bearer>>
worldVars == <<world, ever, always>>
vars == <<provider, req, pc, runVars, historyVars, worldVars, changes>>

Sessions == {"client", "exec"}

-----------------------------------------------------------------------------
(* RequiredRBAC of each action. A rule without namespace is cluster-wide,  *)
(* one without names covers all objects.                                   *)

Rule(ns, resource, names, verb) == [ns |-> ns, resource |-> resource, names |-> names, verb |-> verb]

defaultMonitoringNamespace == "openshift-monitoring"
kubeNodeLeaseNamespace == "kube-node-lease"
pullSecretNamespace == "openshift-config"
pullSecretName == "pull-secret"

GetRBAC(q) ==
    {IF q.name = Empty THEN Rule(q.ns, q.resource, {}, "list") ELSE Rule(q.ns, q.resource, {q.name}, "get")}

PatchRBAC(q) == {Rule(q.ns, q.resource, {q.name} \ {Empty}, "patch")}

DeleteRBAC(q) == {Rule(q.ns, q.resource, {q.name} \ {Empty}, "delete")}

\* Mutant: the nodes are asked for by get although they are listed without a name.
DescribeNodesRBACGetOnly(q) ==
    {Rule(Empty, "nodes", {q.name} \ {Empty}, "get"),
     Rule(Empty, "pods", {}, "list"), Rule(Empty, "events", {}, "list"), Rule(Empty, "leases", {}, "list")}

DescribeNodesRBAC(q) ==
    {IF q.name # Empty THEN Rule(Empty, "nodes", {q.name}, "get") ELSE Rule(Empty, "nodes", {}, "list"),
     Rule(Empty, "pods", {}, "list"), Rule(Empty, "events", {}, "list"), Rule(Empty, "leases", {}, "list")}

MonitoringNamespace(q) == IF q.ns = Empty THEN defaultMonitoringNamespace ELSE q.ns

ListAlertsRBAC(q) ==
    {Rule(MonitoringNamespace(q), "pods", {}, "list"),
     Rule(MonitoringNamespace(q), "pods/exec", {}, "create")}

PullSecretRBAC(q) == {Rule(pullSecretNamespace, "secrets", {pullSecretName}, "get")}

RequiredRBAC(q) ==
    CASE q.action = "get"            -> GetRBAC(q)
      [] q.action = "patch"          -> PatchRBAC(q)
      [] q.action = "delete"         -> DeleteRBAC(q)
      [] q.action = "describe-nodes" -> DescribeNodesRBAC(q)
      [] q.action = "list-alerts"    -> ListAlertsRBAC(q)
      [] OTHER                       -> PullSecretRBAC(q)

UsesPodExec(q) == q.action = "list-alerts"

-----------------------------------------------------------------------------
(* What each Execute checks before its first call.                         *)

\* resourceClient: a derived target is never cluster-scoped.
resourceClient(q) == q.ns # Empty

PatchChecks(q) == q.name # Empty /\ q.patch /\ resourceClient(q)

DeleteChecks(q) == q.name # Empty /\ resourceClient(q)

ListAlertsChecks(q) ==
    /\ q.severity \in {Empty, "critical", "warning"}
    /\ q.state \in {Empty, "firing", "pending", "all"}

Valid(q) ==
    CASE q.action = "get"         -> resourceClient(q)
      [] q.action = "patch"       -> PatchChecks(q)
      [] q.action = "delete"      -> DeleteChecks(q)
      [] q.action = "list-alerts" -> ListAlertsChecks(q)
      [] OTHER                    -> TRUE

\* The stage Execute starts with.
FirstStage(q) ==
    IF ~Valid(q) THEN "failed"
    ELSE CASE q.action = "describe-nodes" -> "nodes"
           [] q.action = "list-alerts"    -> "prometheus"
           [] OTHER                       -> "object"

-----------------------------------------------------------------------------
(* Sessions.                                                               *)

\* buildCreateRequest: rules without a namespace go to the cluster role, the others
\* to one role per namespace.
buildCreateRequest(rules) ==
    [cluster |-> {r \in rules : r.ns = Empty},
     roles   |-> [ns \in {r.ns : r \in rules} \ {Empty} |-> {r \in rules : r.ns = ns}]]

NoGrant == buildCreateRequest({})

\* Mutant: the proxy URI is used whatever it points to.
AnyOrigin(url) == TRUE

\* requestAccessAndConfig: the proxy URI, resolved against the base URL, must stay
\* at the base URL's scheme and host.
SameOrigin(url) == url.scheme = Base.scheme /\ url.host = Base.host

\* isDomainOrSubdomain of net/http.
Within(host, parent) == host = parent \/ <<host, parent>> \in Subdomains

SentBy(by, url) == [by |-> by, url |-> url]

\* CreateTrustedAction: the request editor sets the header on the POST, and net/http,
\* which follows redirects, takes it along to the host and its subdomains.
CreateTrustedAction ==
    \E hops \in SUBSET {u \in URLs : Within(u.host, Base.host)} :
        bearer' = bearer \cup {SentBy("session", u) : u \in hops \cup {Base}}

\* requestAccess and requestAccessAndConfig: the answer names a proxy. It need not be
\* backplane's: any page that a redirect led to and that answers 200 with a JSON
\* object passes, and then backplane has granted nothing. A kubeconfig gives a client
\* whatever the rules.
RequestAccess(s) ==
    IF provider = "kubeconfig"
    THEN UNCHANGED <<granted, proxy, bearer>>
    ELSE /\ CreateTrustedAction
         /\ \/ granted' = [granted EXCEPT ![s] = buildCreateRequest(RequiredRBAC(req))]
            \/ UNCHANGED granted
         /\ \E url \in URLs : SameOrigin(url) /\ proxy' = [proxy EXCEPT ![s] = url]

\* BackplaneProvider.GetClient, called by KubeScope.Run.
GetClient ==
    /\ pc = "session"
    /\ RequestAccess("client")
    /\ pc' = IF UsesPodExec(req) THEN "podExec" ELSE FirstStage(req)
    /\ UNCHANGED <<provider, req, found, pod, report, noResult, calls, worldVars, changes>>

\* BackplaneProvider.GetPodExecutor: a second session with the same rules.
GetPodExecutor ==
    /\ pc = "podExec"
    /\ RequestAccess("exec")
    /\ pc' = FirstStage(req)
    /\ UNCHANGED <<provider, req, found, pod, report, noResult, calls, worldVars, changes>>

\* No token, no answer, a status other than 200 and 201, an answer that cannot be
\* decoded or a proxy URI of another origin: the run fails.
AccessFails ==
    /\ pc \in {"session", "podExec"}
    /\ \/ UNCHANGED bearer
       \/ provider = "backplane" /\ CreateTrustedAction
    /\ pc' = "failed"
    /\ UNCHANGED <<provider, req, runVars, calls, worldVars, changes>>

-----------------------------------------------------------------------------
(* Calls to the cluster.                                                   *)

\* The call that each stage makes.
StageCall ==
    LET Call(s, verb, resource, ns, name) ==
            [session |-> s, verb |-> verb, resource |-> resource, ns |-> ns, name |-> name]
        verb == IF req.action \in {"patch", "delete"} THEN req.action
                ELSE IF req.name = Empty THEN "list" ELSE "get"
    IN  CASE pc = "nodes"  -> Call("client", verb, "nodes", Empty, req.name)
          [] pc = "pods"   -> Call("client", "list", "pods", Empty, Empty)
          [] pc = "events" -> Call("client", "list", "events", Empty, Empty)
          [] pc = "leases" -> Call("client", "list", "leases", kubeNodeLeaseNamespace, Empty)
          [] pc \in {"prometheus", "alertmanager"} ->
                Call("client", "list", "pods", MonitoringNamespace(req), Empty)
          [] pc \in {"query", "silences"} ->
                Call("exec", "create", "pods/exec", MonitoringNamespace(req), pod)
          [] req.action = "get-pull-secret-email" ->
                Call("client", "get", "secrets", pullSecretNamespace, pullSecretName)
          [] OTHER -> Call("client", verb, req.resource, req.ns, req.name)

\* bearerTransport.RoundTrip: whether a request of session s to the URL gets the token.
RoundTrip(s, url) ==
    LET trustedHost == proxy[s].host
    IN  trustedHost = Empty \/ url.host = Empty \/ url.host = trustedHost

\* A call goes to the session's proxy, and on to where redirects lead it. A
\* kubeconfig's client has no such transport.
MakeCall ==
    /\ calls' = calls \cup {StageCall}
    /\ IF provider = "kubeconfig"
       THEN UNCHANGED bearer
       ELSE LET s == StageCall.session
            IN  \E hops \in SUBSET {u \in URLs : RoundTrip(s, u)} :
                    bearer' = bearer \cup {SentBy("call", u) : u \in hops \cup {proxy[s]}}

\* What a rule says of a call, wherever it applies.
Matches(rule, call) ==
    /\ rule.resource = call.resource /\ rule.verb = call.verb
    /\ rule.names = {} \/ call.name \in rule.names

\* Kubernetes' RBAC: the cluster role covers every namespace, a role its own.
Covers(decl, call) ==
    \E r \in decl.cluster \cup (IF call.ns \in DOMAIN decl.roles THEN decl.roles[call.ns] ELSE {}) :
        Matches(r, call)

\* The cluster's RBAC, as backplane set it up for the session.
Permitted(call) == provider = "kubeconfig" \/ Covers(granted[call.session], call)

\* The stage's call is answered, and next comes the stage given.
Answered(next) ==
    /\ MakeCall
    /\ Permitted(StageCall)
    /\ pc' = next
    /\ UNCHANGED <<provider, req, granted, proxy, changes>>

\* A call is refused, finds nothing, is cut off or answered by what cannot be
\* parsed (another page's JSON is no Kubernetes object): Execute returns the error and no resources. A write may have happened.
CallFails ==
    /\ pc \in {"nodes", "pods", "events", "leases", "prometheus", "query", "alertmanager",
               "silences", "object"}
    /\ MakeCall
    /\ pc' = "failed"
    /\ UNCHANGED <<provider, req, runVars, worldVars, changes>>

All(kind) == {f \in world : f.kind = kind}

-----------------------------------------------------------------------------
(* describe-nodes: four lists, one after the other.                        *)

DescribeListNodes ==
    /\ pc = "nodes"
    /\ LET items == {f \in All("nodes") : req.name \in {Empty, f.name}}
       IN  /\ req.name # Empty => items # {}
           /\ found' = items
    /\ Answered("pods")
    /\ UNCHANGED <<pod, report, noResult, worldVars>>

\* Mutant: only running pods are asked for.
PodSelectorRunning(f) == f.state = "Running" /\ req.name \in {Empty, f.on}

PodSelector(f) == f.state \notin {"Succeeded", "Failed"} /\ req.name \in {Empty, f.on}

EventSelector(f) == f.label = "Node" /\ req.name \in {Empty, f.on}

DescribeListPods ==
    /\ pc = "pods"
    /\ found' = found \cup {f \in All("pods") : PodSelector(f)}
    /\ Answered("events")
    /\ UNCHANGED <<pod, report, noResult, worldVars>>

DescribeListEvents ==
    /\ pc = "events"
    /\ found' = found \cup {f \in All("events") : EventSelector(f)}
    /\ Answered("leases")
    /\ UNCHANGED <<pod, report, noResult, worldVars>>

\* groupPodsByNode skips pods that are not bound to a node.
groupPodsByNode(items, node) == {f \in items : f.kind = "pods" /\ f.on # Empty /\ f.on = node}

groupEventsByNode(items, node) ==
    {f \in items : f.kind = "events" /\ f.label = "Node" /\ f.on # Empty /\ f.on = node}

indexLeasesByNode(items, node) == {f \in items : f.kind = "leases" /\ f.name = node}

\* An entry of the report: a fact, and the node it is shown with.
Entry(under, f) == [under |-> under, fact |-> f]

\* Mutant: every pod that was listed is shown with the node.
reshapeNodeUngrouped(items, n) ==
    {Entry(n.name, f) : f \in {n} \cup {g \in items : g.kind = "pods"}
        \cup groupEventsByNode(items, n.name) \cup indexLeasesByNode(items, n.name)}

\* A node is shown with what was found of it.
reshapeNode(items, n) ==
    {Entry(n.name, f) : f \in {n} \cup groupPodsByNode(items, n.name)
        \cup groupEventsByNode(items, n.name) \cup indexLeasesByNode(items, n.name)}

DescribeListLeases ==
    /\ pc = "leases"
    /\ found' = found \cup {f \in All("leases") : f.ns = kubeNodeLeaseNamespace}
    /\ report' = UNION {reshapeNode(found', n) : n \in {f \in found : f.kind = "nodes"}}
    /\ Answered("done")
    /\ UNCHANGED <<pod, noResult, worldVars>>

-----------------------------------------------------------------------------
(* list-alerts: find a pod, query Prometheus in it, then Alertmanager.     *)

Plain(items) == {Entry(Empty, f) : f \in items}

App == IF pc = "prometheus" THEN "prometheus" ELSE "alertmanager"

\* discoverPod: the first of the pods with the label, whatever its phase.
discoverPod ==
    /\ pc \in {"prometheus", "alertmanager"}
    /\ \E f \in All("pods") :
            f.ns = MonitoringNamespace(req) /\ f.label = App /\ pod' = f.name
    /\ Answered(IF pc = "prometheus" THEN "query" ELSE "silences")
    /\ UNCHANGED <<found, report, noResult, worldVars>>

\* backplanePodExecutor.Exec works only while the chosen pod runs.
Exec == \E f \in All("pods") :
    f.ns = MonitoringNamespace(req) /\ f.name = pod /\ f.state = "Running" /\ f.on # Empty

\* buildAlertsQuery: what the query selects; without a state it asks for firing.
buildAlertsQuery(f) ==
    f.ns = "platform" /\ (IF req.state = Empty THEN "firing" ELSE req.state) \in {"all", f.state}

extractAlerts(answer) ==
    {f \in answer : f.label \in {"critical", "warning"} /\ req.severity \in {Empty, f.label}}

\* queryViaExec and extractAlerts; an answer without data.result counts as none.
QueryAlerts ==
    /\ pc = "query"
    /\ Exec
    /\ \/ found' = extractAlerts({f \in All("alerts") : buildAlertsQuery(f)}) /\ UNCHANGED noResult
       \/ found' = {} /\ noResult' = TRUE
    /\ \/ req.silences /\ Answered("alertmanager") /\ UNCHANGED report
       \/ ~req.silences /\ Answered("done") /\ report' = Plain(found')
    /\ UNCHANGED <<pod, worldVars>>

\* queryViaExecArray and extractSilences.
QuerySilences ==
    /\ pc = "silences"
    /\ Exec
    /\ report' = Plain(found \cup {f \in All("silences") : f.state = "active"})
    /\ Answered("done")
    /\ UNCHANGED <<found, pod, noResult, worldVars>>

-----------------------------------------------------------------------------
(* The actions that make one call.                                         *)

Targets(f) == f.kind = req.resource /\ f.ns = req.ns /\ req.name \in {Empty, f.name}

\* The history of the cluster goes on when it changes.
Becomes(now) ==
    /\ world' = now
    /\ ever' = ever \cup now
    /\ always' = always \cap now

GetObject ==
    /\ pc = "object" /\ req.action = "get"
    /\ report' = Plain({f \in world : Targets(f)})
    /\ req.name # Empty => report' # {}
    /\ Answered("done")
    /\ UNCHANGED <<found, pod, noResult, worldVars>>

\* extractEmail: a secret without the registry's entry or its email is an error.
GetPullSecretEmail ==
    /\ pc = "object" /\ req.action = "get-pull-secret-email"
    /\ report' = Plain({f \in All("secrets") :
                    f.ns = pullSecretNamespace /\ f.name = pullSecretName /\ f.state = "email"})
    /\ report' # {}
    /\ Answered("done")
    /\ UNCHANGED <<found, pod, noResult, worldVars>>

\* The patched object is what the server answers with.
PatchObject ==
    /\ pc = "object" /\ req.action = "patch"
    /\ \E f \in world :
        /\ Targets(f)
        /\ Becomes((world \ {f}) \cup {Patched(f)})
        /\ \/ Answered("done") /\ report' = Plain({Patched(f)})
           \/ Answered("failed") /\ UNCHANGED report
    /\ UNCHANGED <<found, pod, noResult>>

DeleteObject ==
    /\ pc = "object" /\ req.action = "delete"
    /\ \E f \in world : Targets(f) /\ Becomes(world \ {f})
    /\ \E end \in {"done", "failed"} : Answered(end)
    /\ UNCHANGED <<found, pod, report, noResult>>

\* The client's Delete decodes no answer: when a redirect led it to a page that answers
\* 200, the action says that it deleted the object.
DeleteAstray ==
    /\ pc = "object" /\ req.action = "delete"
    /\ MakeCall
    /\ pc' = "done"
    /\ UNCHANGED <<provider, req, runVars, worldVars, changes>>

-----------------------------------------------------------------------------
(* The cluster, and the specification.                                     *)

\* An object, alert or silence appears, goes or is replaced by another of its name.
ClusterChanges ==
    /\ pc \notin {"done", "failed"}
    /\ changes < MaxChanges
    /\ changes' = changes + 1
    /\ \/ \E f \in Facts \ world : Becomes({g \in world : ~Same(f, g)} \cup {f})
       \/ \E f \in world : Becomes(world \ {f})
    /\ UNCHANGED <<provider, req, pc, runVars, historyVars>>

Init ==
    /\ provider \in Providers
    /\ req \in Requests
    /\ pc = "session"
    /\ granted = [s \in Sessions |-> NoGrant]
    /\ proxy = [s \in Sessions |-> NoURL]
    /\ found = {} /\ report = {} /\ pod = Empty
    /\ world = FirstWorld /\ ever = FirstWorld /\ always = FirstWorld
    /\ calls = {} /\ bearer = {} /\ noResult = FALSE
    /\ changes = 0

Next ==
    \/ GetClient \/ GetPodExecutor \/ AccessFails \/ CallFails
    \/ DescribeListNodes \/ DescribeListPods \/ DescribeListEvents \/ DescribeListLeases
    \/ discoverPod \/ QueryAlerts \/ QuerySilences
    \/ GetObject \/ GetPullSecretEmail \/ PatchObject \/ DeleteObject
    \/ DeleteAstray
    \/ ClusterChanges

Spec == Init /\ [][Next]_vars

-----------------------------------------------------------------------------
(* Properties.                                                             *)

\* The type of every variable.
TypeOK ==
    /\ provider \in Providers /\ req \in Requests
    /\ pc \in {"session", "podExec", "nodes", "pods", "events", "leases", "prometheus", "query",
               "alertmanager", "silences", "object", "done", "failed"}
    /\ granted \in [Sessions -> {NoGrant, buildCreateRequest(RequiredRBAC(req))}]
    /\ proxy \in [Sessions -> URLs \cup {NoURL}]
    /\ world \subseteq Facts /\ always \subseteq world /\ world \subseteq ever
    /\ found \subseteq Facts /\ \A e \in report : e.fact \in Facts
    /\ pod \in {Empty} \cup {f.name : f \in Facts}
    /\ bearer \subseteq [by : {"session", "call"}, url : URLs] /\ noResult \in BOOLEAN
    /\ changes \in 0..MaxChanges

\* A call uses a rule where the rule applies: a cluster-wide rule is used by a call
\* across namespaces or for what has none, a namespace's rule in that namespace.
Uses(rule, call) == Matches(rule, call) /\ rule.ns = call.ns

\* describe-nodes may list leases everywhere and lists those of one namespace.
WiderThanUsed(rule) == req.action = "describe-nodes" /\ rule.resource = "leases"

\* RequiredRBAC declares what Execute goes on to do, for named and unnamed targets and
\* for the two sessions of list-alerts: every call is covered by the rules, and a run
\* that succeeded has used each of them where it applies. The one exception is the
\* rule for leases of describe-nodes, which it uses more narrowly.
RightsFitCalls ==
    /\ \A c \in calls : Covers(buildCreateRequest(RequiredRBAC(req)), c)
    /\ pc = "done" =>
          \A r \in RequiredRBAC(req) :
              \E c \in calls : Uses(r, c) \/ (WiderThanUsed(r) /\ Matches(r, c))

\* What KubeScope.Run's comment and the guide to adding actions say: a session has
\* exactly the rights its action needs, in no wider scope than it uses them. It does
\* not hold of describe-nodes.
RightsExact ==
    pc = "done" => \A r \in RequiredRBAC(req) : \E c \in calls : Uses(r, c)

\* Although the proxy's URI is part of an answer and calls are redirected, a call's
\* token goes to the configured host only; that of the request for a session, whose
\* redirects net/http follows, to that host or a subdomain of it. The scheme is not part
\* of it, though the documentation speaks of the verified origin: RoundTrip compares
\* hosts, so that a redirect to plain HTTP on the same host gets the token.
TokenStaysWithBackplane ==
    \A b \in bearer :
        IF b.by = "call" THEN b.url.host = Base.host ELSE Within(b.url.host, Base.host)

\* What a request asks for, as the catalog describes the actions.
Asked(q, f) ==
    CASE q.action = "describe-nodes" ->
            \/ f.kind = "nodes" /\ q.name \in {Empty, f.name}
            \/ /\ f.kind = "pods" /\ f.on # Empty /\ f.state \notin {"Succeeded", "Failed"}
               /\ q.name \in {Empty, f.on}
            \/ f.kind = "events" /\ f.label = "Node" /\ q.name \in {Empty, f.on}
            \/ f.kind = "leases" /\ f.ns = kubeNodeLeaseNamespace /\ q.name \in {Empty, f.name}
      [] q.action = "list-alerts" ->
            \/ /\ f.kind = "alerts" /\ f.ns = "platform"
               /\ f.label \in (IF q.severity = Empty THEN {"critical", "warning"} ELSE {q.severity})
               /\ f.state \in (CASE q.state = "all" -> {"firing", "pending"}
                                 [] q.state = "pending" -> {"pending"}
                                 [] OTHER -> {"firing"})
            \/ q.silences /\ f.kind = "silences" /\ f.state = "active"
      [] q.action = "get-pull-secret-email" ->
            f.kind = "secrets" /\ f.ns = pullSecretNamespace /\ f.name = pullSecretName
      [] q.action = "delete" -> FALSE
      [] OTHER -> f.kind = q.resource /\ f.ns = q.ns /\ q.name \in {Empty, f.name}

\* The node that a part of a description belongs to.
NodeOf(f) == IF f.kind \in {"pods", "events"} THEN f.on ELSE f.name

Place(f) == IF req.action = "describe-nodes" THEN NodeOf(f) ELSE Empty

\* A report shows only what was asked for and was true at some moment of the run,
\* and shows it with the node it belonged to, although its parts were read one
\* after the other.
ReportTruthful ==
    pc = "done" => \A e \in report : e.fact \in ever /\ Asked(req, e.fact) /\ e.under = Place(e.fact)

\* A report leaves out nothing that was asked for and true throughout the run: a
\* pod, event or lease is missing only if it or its node came or went meanwhile. An
\* answer of Prometheus without data.result is the one exception.
ReportComplete ==
    pc = "done" /\ ~noResult =>
        \A f \in always :
            /\ Asked(req, f)
            /\ req.action = "describe-nodes" =>
                \E n \in always : n.kind = "nodes" /\ n.name = NodeOf(f)
            => Entry(Place(f), f) \in report

-----------------------------------------------------------------------------
(* The inductive invariant behind the properties: what a run has behind it *)
(* at each call.                                                           *)

\* A run is at a call of its own action, past that action's checks, and has nothing
\* to show before it is done.
StageInv ==
    /\ pc = "podExec" => UsesPodExec(req)
    /\ pc \in {"nodes", "pods", "events", "leases"} => req.action = "describe-nodes"
    /\ pc \in {"prometheus", "query", "alertmanager", "silences"} => req.action = "list-alerts"
    /\ pc \in {"alertmanager", "silences"} => req.silences
    /\ pc = "object" => req.action \in {"get", "patch", "delete", "get-pull-secret-email"}
    /\ pc \notin {"session", "podExec", "failed"} => Valid(req)
    /\ pc \in {"session", "podExec"} => calls = {}
    /\ pc # "done" => report = {}

\* A session's client points at backplane before the first call that uses it.
SessionInv ==
    /\ provider # "kubeconfig" /\ pc \notin {"session", "failed"} => proxy["client"] = Base
    /\ provider # "kubeconfig" /\ pc \in {"prometheus", "query", "alertmanager", "silences"} =>
          proxy["exec"] = Base
    /\ TokenStaysWithBackplane

\* The resources whose calls the run has behind it.
ResourcesUsed ==
    CASE pc = "pods"   -> {"nodes"}
      [] pc = "events" -> {"nodes", "pods"}
      [] pc = "leases" -> {"nodes", "pods", "events"}
      [] pc = "query"  -> {"pods"}
      [] pc \in {"alertmanager", "silences"} -> {"pods", "pods/exec"}
      [] pc = "done"   -> {r.resource : r \in RequiredRBAC(req)}
      [] OTHER         -> {}

\* The calls made are covered by the rules, and have used those for their resources.
RightsInv ==
    /\ \A c \in calls : Covers(buildCreateRequest(RequiredRBAC(req)), c)
    /\ \A r \in RequiredRBAC(req) :
          r.resource \in ResourcesUsed =>
              \E c \in calls : Uses(r, c) \/ (WiderThanUsed(r) /\ Matches(r, c))

\* At any moment a name identifies one object of its kind and namespace.
WorldInv == \A f, g \in world : Same(f, g) => f = g

\* What was found so far was asked for and was true when it was read; and what was
\* asked for and true all along was found.
FoundInv ==
    /\ pc \in {"pods", "events", "leases"} =>
          /\ \A f \in found :
                /\ f \in ever
                /\ \/ f.kind = "nodes" /\ req.name \in {Empty, f.name}
                   \/ f.kind = "pods" /\ PodSelector(f)
                   \/ f.kind = "events" /\ EventSelector(f)
          /\ \A f \in always : f.kind = "nodes" /\ req.name \in {Empty, f.name} => f \in found
    /\ pc \in {"events", "leases"} =>
          \A f \in always : f.kind = "pods" /\ PodSelector(f) => f \in found
    /\ pc = "leases" =>
          \A f \in always : f.kind = "events" /\ EventSelector(f) => f \in found
    /\ pc \in {"alertmanager", "silences"} =>
          /\ \A f \in found : f \in ever /\ Asked(req, f)
          /\ ~noResult => \A f \in always : f.kind = "alerts" /\ Asked(req, f) => f \in found

IndInv ==
    /\ TypeOK /\ StageInv /\ SessionInv /\ RightsInv /\ WorldInv /\ FoundInv
    /\ ReportTruthful /\ ReportComplete
=============================================================================
