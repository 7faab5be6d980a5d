-------------------------- MODULE KubeActionsProofs --------------------------
(***************************************************************************)
(* For every set of requests, every cluster and any number of changes of   *)
(* it during a run: the rights a Kubernetes action asks for are the rights *)
(* its calls need, the server's token stays with backplane, and a report   *)
(* shows what was asked for and true, and all of that. All follow from     *)
(* IndInv.                                                                 *)
(***************************************************************************)
EXTENDS KubeActions, TLAPS

\* The stages at which Execute makes a call.
CallStages ==
    {"nodes", "pods", "events", "leases", "prometheus", "query", "alertmanager", "silences",
     "object"}

\* The values that a request or a fact may state are no empty strings.
LEMMA ValuesStated ==
  /\ "openshift-config" # Empty /\ "openshift-monitoring" # Empty
  /\ "all" # Empty /\ "firing" # Empty /\ "pending" # Empty
  /\ "critical" # Empty /\ "warning" # Empty
BY Zenon DEF Empty

-----------------------------------------------------------------------------
(* What the stages do, action by action.                                   *)

\* The call of each stage, and the rules of the action it belongs to.
LEMMA NodesCall ==
  ASSUME StageInv, pc = "nodes"
  PROVE /\ StageCall = [session |-> "client",
                        verb |-> IF req.name = Empty THEN "list" ELSE "get",
                        resource |-> "nodes", ns |-> Empty, name |-> req.name]
        /\ RequiredRBAC(req) = DescribeNodesRBAC(req)
BY DEF StageInv, StageCall, RequiredRBAC

LEMMA DescribeCall ==
  ASSUME StageInv, pc \in {"pods", "events", "leases"}
  PROVE /\ StageCall = [session |-> "client", verb |-> "list", resource |-> pc,
                        ns |-> IF pc = "leases" THEN kubeNodeLeaseNamespace ELSE Empty,
                        name |-> Empty]
        /\ RequiredRBAC(req) = DescribeNodesRBAC(req)
BY DEF StageInv, StageCall, RequiredRBAC

LEMMA DiscoverCall ==
  ASSUME StageInv, pc \in {"prometheus", "alertmanager"}
  PROVE /\ StageCall = [session |-> "client", verb |-> "list", resource |-> "pods",
                        ns |-> MonitoringNamespace(req), name |-> Empty]
        /\ RequiredRBAC(req) = ListAlertsRBAC(req)
BY DEF StageInv, StageCall, RequiredRBAC

LEMMA QueryCall ==
  ASSUME StageInv, pc \in {"query", "silences"}
  PROVE /\ StageCall = [session |-> "exec", verb |-> "create", resource |-> "pods/exec",
                        ns |-> MonitoringNamespace(req), name |-> pod]
        /\ RequiredRBAC(req) = ListAlertsRBAC(req)
BY DEF StageInv, StageCall, RequiredRBAC

LEMMA PullSecretCall ==
  ASSUME pc = "object", req.action = "get-pull-secret-email"
  PROVE /\ StageCall = [session |-> "client", verb |-> "get", resource |-> "secrets",
                        ns |-> pullSecretNamespace, name |-> pullSecretName]
        /\ RequiredRBAC(req) = PullSecretRBAC(req)
BY DEF StageCall, RequiredRBAC

LEMMA ObjectCall ==
  ASSUME StageInv, pc = "object", req.action \in {"get", "patch", "delete"}
  PROVE /\ StageCall = [session |-> "client",
                        verb |-> IF req.action \in {"patch", "delete"} THEN req.action
                                 ELSE IF req.name = Empty THEN "list" ELSE "get",
                        resource |-> req.resource, ns |-> req.ns, name |-> req.name]
        /\ RequiredRBAC(req) = (IF req.action = "get" THEN GetRBAC(req)
                                ELSE IF req.action = "patch" THEN PatchRBAC(req)
                                ELSE DeleteRBAC(req))
        /\ req.action \in {"patch", "delete"} => req.name # Empty
BY DEF StageInv, StageCall, RequiredRBAC, Valid, PatchChecks, DeleteChecks

\* How a rule may be used: where it applies, but for the leases of describe-nodes.
UsedBy(r, c) == Uses(r, c) \/ (WiderThanUsed(r) /\ Matches(r, c))

\* Every call is one that a rule of the request covers, cluster-wide or in the call's
\* namespace; and it uses every rule for its resource.
LEMMA StageRule ==
  ASSUME StageInv, pc \in CallStages
  PROVE /\ \E r \in RequiredRBAC(req) : Matches(r, StageCall) /\ r.ns \in {Empty, StageCall.ns}
        /\ \A r \in RequiredRBAC(req) :
              r.resource = StageCall.resource => UsedBy(r, StageCall)
        /\ StageCall.session = IF pc \in {"query", "silences"} THEN "exec" ELSE "client"
<1> USE DEF Rule, Matches, Uses, UsedBy, WiderThanUsed
<1>1. CASE pc = "nodes"
  <2> DEFINE rule == IF req.name # Empty THEN Rule(Empty, "nodes", {req.name}, "get")
                     ELSE Rule(Empty, "nodes", {}, "list")
  <2>1. /\ StageCall.session = IF pc \in {"query", "silences"} THEN "exec" ELSE "client"
        /\ \A r \in RequiredRBAC(req) : r.resource = StageCall.resource => UsedBy(r, StageCall)
    BY <1>1, NodesCall DEF DescribeNodesRBAC
  <2>2. rule \in RequiredRBAC(req)
    BY <1>1, NodesCall DEF DescribeNodesRBAC
  <2>3. Matches(rule, StageCall)
    BY <2>1, <2>2, <1>1, NodesCall
  <2> QED
    BY <2>1, <2>2, <2>3, <1>1, NodesCall
<1>2. CASE pc \in {"pods", "events", "leases"}
  <2> DEFINE rule == Rule(Empty, pc, {}, "list")
  <2>1. /\ StageCall.session = IF pc \in {"query", "silences"} THEN "exec" ELSE "client"
        /\ \A r \in RequiredRBAC(req) : r.resource = StageCall.resource => UsedBy(r, StageCall)
    BY <1>2, DescribeCall DEF DescribeNodesRBAC, StageInv
  <2>2. rule \in RequiredRBAC(req)
    BY <1>2, DescribeCall DEF DescribeNodesRBAC
  <2>3. Matches(rule, StageCall)
    BY <2>1, <2>2, <1>2, DescribeCall
  <2> QED
    BY <2>1, <2>2, <2>3, <1>2, DescribeCall
<1>3. CASE pc \in {"prometheus", "alertmanager"}
  <2> DEFINE rule == Rule(MonitoringNamespace(req), "pods", {}, "list")
  <2>1. /\ StageCall.session = IF pc \in {"query", "silences"} THEN "exec" ELSE "client"
        /\ \A r \in RequiredRBAC(req) : r.resource = StageCall.resource => UsedBy(r, StageCall)
    BY <1>3, DiscoverCall DEF ListAlertsRBAC
  <2>2. rule \in RequiredRBAC(req)
    BY <1>3, DiscoverCall DEF ListAlertsRBAC
  <2>3. Matches(rule, StageCall)
    BY <2>1, <2>2, <1>3, DiscoverCall
  <2> QED
    BY <2>1, <2>2, <2>3, <1>3, DiscoverCall
<1>4. CASE pc \in {"query", "silences"}
  <2> DEFINE rule == Rule(MonitoringNamespace(req), "pods/exec", {}, "create")
  <2>1. /\ StageCall.session = IF pc \in {"query", "silences"} THEN "exec" ELSE "client"
        /\ \A r \in RequiredRBAC(req) : r.resource = StageCall.resource => UsedBy(r, StageCall)
    BY <1>4, QueryCall DEF ListAlertsRBAC
  <2>2. rule \in RequiredRBAC(req)
    BY <1>4, QueryCall DEF ListAlertsRBAC
  <2>3. Matches(rule, StageCall)
    BY <2>1, <2>2, <1>4, QueryCall
  <2> QED
    BY <2>1, <2>2, <2>3, <1>4, QueryCall
<1>5. CASE pc = "object" /\ req.action = "get-pull-secret-email"
  <2> DEFINE rule == Rule(pullSecretNamespace, "secrets", {pullSecretName}, "get")
  <2>1. /\ StageCall.session = IF pc \in {"query", "silences"} THEN "exec" ELSE "client"
        /\ \A r \in RequiredRBAC(req) : r.resource = StageCall.resource => UsedBy(r, StageCall)
    BY <1>5, PullSecretCall DEF PullSecretRBAC
  <2>2. rule \in RequiredRBAC(req)
    BY <1>5, PullSecretCall DEF PullSecretRBAC
  <2>3. Matches(rule, StageCall)
    BY <2>1, <2>2, <1>5, PullSecretCall
  <2> QED
    BY <2>1, <2>2, <2>3, <1>5, PullSecretCall
<1>6. CASE pc = "object" /\ req.action = "get"
  <2> DEFINE rule == IF req.name = Empty THEN Rule(req.ns, req.resource, {}, "list")
                     ELSE Rule(req.ns, req.resource, {req.name}, "get")
  <2>1. /\ StageCall.session = IF pc \in {"query", "silences"} THEN "exec" ELSE "client"
        /\ \A r \in RequiredRBAC(req) : r.resource = StageCall.resource => UsedBy(r, StageCall)
    BY <1>6, ObjectCall DEF GetRBAC
  <2>2. rule \in RequiredRBAC(req)
    BY <1>6, ObjectCall DEF GetRBAC
  <2>3. Matches(rule, StageCall)
    BY <2>1, <2>2, <1>6, ObjectCall
  <2> QED
    BY <2>1, <2>2, <2>3, <1>6, ObjectCall
<1>7. CASE pc = "object" /\ req.action = "patch"
  <2> DEFINE rule == Rule(req.ns, req.resource, {req.name} \ {Empty}, "patch")
  <2>1. /\ StageCall.session = IF pc \in {"query", "silences"} THEN "exec" ELSE "client"
        /\ \A r \in RequiredRBAC(req) : r.resource = StageCall.resource => UsedBy(r, StageCall)
    BY <1>7, ObjectCall DEF PatchRBAC
  <2>2. rule \in RequiredRBAC(req)
    BY <1>7, ObjectCall DEF PatchRBAC
  <2>3. Matches(rule, StageCall)
    BY <2>1, <2>2, <1>7, ObjectCall
  <2> QED
    BY <2>1, <2>2, <2>3, <1>7, ObjectCall
<1>8. CASE pc = "object" /\ req.action = "delete"
  <2> DEFINE rule == Rule(req.ns, req.resource, {req.name} \ {Empty}, "delete")
  <2>1. /\ StageCall.session = IF pc \in {"query", "silences"} THEN "exec" ELSE "client"
        /\ \A r \in RequiredRBAC(req) : r.resource = StageCall.resource => UsedBy(r, StageCall)
    BY <1>8, ObjectCall DEF DeleteRBAC
  <2>2. rule \in RequiredRBAC(req)
    BY <1>8, ObjectCall DEF DeleteRBAC
  <2>3. Matches(rule, StageCall)
    BY <2>1, <2>2, <1>8, ObjectCall
  <2> QED
    BY <2>1, <2>2, <2>3, <1>8, ObjectCall
<1> QED
  BY <1>1, <1>2, <1>3, <1>4, <1>5, <1>6, <1>7, <1>8 DEF StageInv, CallStages

-----------------------------------------------------------------------------
(* Rights and the token.                                                   *)

\* A declaration covers what one of its rules covers, in all namespaces or its own.
LEMMA DeclarationCovers ==
  ASSUME NEW rules, NEW r \in rules, NEW call,
         Matches(r, call), r.ns \in {Empty, call.ns}
  PROVE Covers(buildCreateRequest(rules), call)
<1> DEFINE decl == buildCreateRequest(rules)
<1>1. CASE r.ns = Empty
  <2>1. r \in decl.cluster
    BY <1>1 DEF buildCreateRequest
  <2> QED
    BY <2>1 DEF Covers
<1>2. CASE r.ns # Empty /\ r.ns = call.ns
  <2>1. call.ns \in DOMAIN decl.roles /\ r \in decl.roles[call.ns]
    BY <1>2 DEF buildCreateRequest
  <2> QED
    BY <2>1 DEF Covers
<1> QED
  BY <1>1, <1>2

\* The call of a stage is covered by the rules, and its client points at backplane.
LEMMA StageCovered ==
  ASSUME StageInv, SessionInv, pc \in CallStages
  PROVE /\ Covers(buildCreateRequest(RequiredRBAC(req)), StageCall)
        /\ provider # "kubeconfig" => proxy[StageCall.session] = Base
<1>1. PICK r \in RequiredRBAC(req) : Matches(r, StageCall) /\ r.ns \in {Empty, StageCall.ns}
  BY StageRule
<1>2. Covers(buildCreateRequest(RequiredRBAC(req)), StageCall)
  BY <1>1, DeclarationCovers
<1>3. provider # "kubeconfig" => proxy[StageCall.session] = Base
  BY StageRule DEF SessionInv, CallStages
<1> QED
  BY <1>2, <1>3

\* What the type invariant says of the token's history.
BearerOK == bearer \subseteq [by : {"session", "call"}, url : URLs]

\* The base URL names a host.
LEMMA BaseHost == Base \in URLs /\ Base.host # Empty
BY KubeAssumption DEF URLs

\* A call, whatever comes of it, is covered by the rules, sends the token to backplane's
\* host only, and uses the rules for its resource.
LEMMA CallKeepsRights ==
  ASSUME TypeOK, StageInv, SessionInv, RightsInv, pc \in CallStages,
         MakeCall, UNCHANGED <<provider, req, granted, proxy>>,
         pc' \notin {"session", "podExec"},
         pc' \in {"prometheus", "query", "alertmanager", "silences"} =>
            pc \in {"prometheus", "query", "alertmanager", "silences"},
         ResourcesUsed' \subseteq ResourcesUsed \cup {StageCall.resource}
  PROVE SessionInv' /\ RightsInv' /\ BearerOK'
<1>1. BearerOK' /\ TokenStaysWithBackplane'
  <2>1. CASE provider = "kubeconfig"
    BY <2>1 DEF MakeCall, SessionInv, TypeOK, BearerOK, TokenStaysWithBackplane
  <2>2. CASE provider # "kubeconfig"
    <3>1. proxy[StageCall.session] = Base
      BY <2>2, StageCovered
    <3>2. \A u \in URLs : RoundTrip(StageCall.session, u) => u.host = Base.host
      BY <3>1, BaseHost, KubeAssumption DEF RoundTrip, URLs
    <3>3. PICK hops \in SUBSET {u \in URLs : RoundTrip(StageCall.session, u)} :
             bearer' = bearer \cup {SentBy("call", u) : u \in hops \cup {Base}}
      BY <2>2, <3>1 DEF MakeCall
    <3>4. \A b \in bearer' : b \in bearer \/ \E u \in hops \cup {Base} : b = SentBy("call", u)
      BY <3>3
    <3>5. \A u \in hops \cup {Base} :
             /\ u \in URLs /\ u.host = Base.host
             /\ SentBy("call", u).by = "call" /\ SentBy("call", u).url = u
             /\ SentBy("call", u) \in [by : {"session", "call"}, url : URLs]
      BY <3>2, BaseHost DEF SentBy
    <3>6. BearerOK'
      BY <3>4, <3>5 DEF TypeOK, BearerOK
    <3>7. TokenStaysWithBackplane'
      BY <3>4, <3>5 DEF SessionInv, TokenStaysWithBackplane
    <3> QED
      BY <3>6, <3>7
  <2> QED
    BY <2>1, <2>2
<1>2. SessionInv'
  BY <1>1 DEF SessionInv, CallStages
<1>3. calls' = calls \cup {StageCall}
  BY DEF MakeCall
<1>4. \A c \in calls' : Covers(buildCreateRequest(RequiredRBAC(req)), c)
  BY <1>3, StageCovered DEF RightsInv
<1>5. ASSUME NEW r \in RequiredRBAC(req), r.resource \in ResourcesUsed'
      PROVE \E c \in calls' : UsedBy(r, c)
  <2>1. CASE r.resource \in ResourcesUsed
    BY <1>3, <1>5, <2>1 DEF RightsInv, UsedBy
  <2>2. CASE r.resource = StageCall.resource
    BY <1>3, <1>5, <2>2, StageRule
  <2> QED
    BY <1>5, <2>1, <2>2
<1>6. RightsInv'
  <2>1. \A r : WiderThanUsed(r)' = WiderThanUsed(r)
    BY DEF WiderThanUsed
  <2> QED
    BY <1>4, <1>5, <2>1 DEF RightsInv, UsedBy
<1> QED
  BY <1>1, <1>2, <1>6

-----------------------------------------------------------------------------
(* The invariant, action by action.                                        *)

\* What a stage other than a report's last keeps of the world and the report.
LEMMA NothingToReport ==
  ASSUME pc' # "done"
  PROVE ReportTruthful' /\ ReportComplete'
BY DEF ReportTruthful, ReportComplete

\* The first world has one object under a name, and nothing is found or reported yet.
LEMMA InitEstablishes == Init => IndInv
<1> SUFFICES ASSUME Init PROVE IndInv
  OBVIOUS
<1>1. TypeOK
  <2>1. changes = 0
    BY DEF Init
  <2>2. changes \in 0..MaxChanges
    BY <2>1, KubeAssumption
  <2> QED
    BY <2>2, KubeAssumption DEF Init, TypeOK
<1>2. StageInv
  BY DEF Init, StageInv
<1>3. SessionInv
  BY DEF Init, SessionInv, TokenStaysWithBackplane
<1>4. RightsInv
  BY DEF Init, RightsInv, ResourcesUsed
<1>5. WorldInv
  BY KubeAssumption DEF Init, WorldInv
<1>6. FoundInv
  BY DEF Init, FoundInv
<1>7. ReportTruthful /\ ReportComplete
  BY DEF Init, ReportTruthful, ReportComplete
<1> QED
  BY <1>1, <1>2, <1>3, <1>4, <1>5, <1>6, <1>7 DEF IndInv

\* The request for a session takes the token no further than backplane's subdomains.
LEMMA CreateKeeps ==
  ASSUME TypeOK, SessionInv, CreateTrustedAction
  PROVE BearerOK' /\ TokenStaysWithBackplane'
<1>1. PICK hops \in SUBSET {u \in URLs : Within(u.host, Base.host)} :
         bearer' = bearer \cup {SentBy("session", u) : u \in hops \cup {Base}}
  BY DEF CreateTrustedAction
<1>2. \A b \in bearer' : b \in bearer \/ \E u \in hops \cup {Base} : b = SentBy("session", u)
  BY <1>1
<1>3. \A u \in hops \cup {Base} :
         /\ u \in URLs /\ Within(u.host, Base.host)
         /\ SentBy("session", u).by = "session" /\ SentBy("session", u).url = u
         /\ SentBy("session", u) \in [by : {"session", "call"}, url : URLs]
  BY BaseHost DEF SentBy, Within
<1>4. BearerOK'
  BY <1>2, <1>3 DEF TypeOK, BearerOK
<1>5. TokenStaysWithBackplane'
  BY <1>2, <1>3 DEF SessionInv, TokenStaysWithBackplane
<1> QED
  BY <1>4, <1>5

\* A client of backplane points at the base URL's scheme and host.
LEMMA AccessKeeps ==
  ASSUME TypeOK, SessionInv, NEW s \in Sessions, RequestAccess(s), UNCHANGED <<provider, req>>
  PROVE /\ granted' \in [Sessions -> {NoGrant, buildCreateRequest(RequiredRBAC(req))}]
        /\ proxy' \in [Sessions -> URLs \cup {NoURL}]
        /\ BearerOK' /\ TokenStaysWithBackplane'
        /\ provider # "kubeconfig" => proxy'[s] = Base
        /\ \A t \in Sessions : t # s => proxy'[t] = proxy[t]
<1>1. CASE provider = "kubeconfig"
  BY <1>1 DEF RequestAccess, TypeOK, SessionInv, BearerOK, TokenStaysWithBackplane
<1>2. CASE provider # "kubeconfig"
  <2>1. /\ CreateTrustedAction
        /\ \/ granted' = [granted EXCEPT ![s] = buildCreateRequest(RequiredRBAC(req))]
           \/ granted' = granted
    BY <1>2 DEF RequestAccess
  <2>2. \A u \in URLs : SameOrigin(u) => u = Base
    BY BaseHost DEF SameOrigin, URLs
  <2>3. proxy' = [proxy EXCEPT ![s] = Base]
    BY <1>2, <2>2 DEF RequestAccess
  <2>4. granted' \in [Sessions -> {NoGrant, buildCreateRequest(RequiredRBAC(req))}]
    BY <2>1 DEF TypeOK
  <2> QED
    BY <2>1, <2>3, <2>4, CreateKeeps, BaseHost DEF TypeOK
<1> QED
  BY <1>1, <1>2

\* The stage that Execute starts with, and what it has checked.
LEMMA FirstStageFits ==
  ASSUME req \in Requests
  PROVE /\ FirstStage(req) \in {"nodes", "prometheus", "object", "failed"}
        /\ FirstStage(req) # "failed" => Valid(req)
        /\ FirstStage(req) = "nodes" => req.action = "describe-nodes"
        /\ FirstStage(req) = "prometheus" => req.action = "list-alerts"
        /\ FirstStage(req) = "object" =>
              req.action \in {"get", "patch", "delete", "get-pull-secret-email"}
<1>1. req.action \in KubeActionNames
  BY KubeAssumption DEF RequestType
<1> QED
  BY <1>1 DEF FirstStage, KubeActionNames

\* GetClient: the session of the action's own calls.
LEMMA GetClientKeeps == IndInv /\ GetClient => IndInv'
<1> SUFFICES ASSUME IndInv, GetClient PROVE IndInv'
  OBVIOUS
<1> USE DEF worldVars
<1>0. /\ TypeOK /\ StageInv /\ SessionInv /\ RightsInv /\ WorldInv
      /\ pc = "session" /\ calls = {} /\ report = {}
      /\ RequestAccess("client") /\ "client" \in Sessions
      /\ pc' = IF UsesPodExec(req) THEN "podExec" ELSE FirstStage(req)
      /\ UNCHANGED <<provider, req, found, pod, report, noResult, calls, world, ever, always,
                     changes>>
  BY DEF IndInv, GetClient, StageInv, Sessions
<1>1. /\ pc' \in {"podExec", "nodes", "object", "failed"}
      /\ pc' = "podExec" => UsesPodExec(req)
      /\ pc' \notin {"podExec", "failed"} => Valid(req)
      /\ pc' = "nodes" => req.action = "describe-nodes"
      /\ pc' = "object" => req.action \in {"get", "patch", "delete", "get-pull-secret-email"}
  BY <1>0, FirstStageFits DEF TypeOK, UsesPodExec
<1>2. /\ granted' \in [Sessions -> {NoGrant, buildCreateRequest(RequiredRBAC(req))}]
      /\ proxy' \in [Sessions -> URLs \cup {NoURL}]
      /\ BearerOK' /\ TokenStaysWithBackplane'
      /\ provider # "kubeconfig" => proxy'["client"] = Base
  BY <1>0, AccessKeeps
<1>3. TypeOK'
  BY <1>0, <1>1, <1>2 DEF TypeOK, BearerOK
<1>4. StageInv'
  BY <1>0, <1>1 DEF StageInv
<1>5. SessionInv'
  BY <1>0, <1>1, <1>2 DEF SessionInv
<1>6. RightsInv'
  BY <1>0, <1>1 DEF RightsInv, ResourcesUsed
<1>7. WorldInv'
  BY <1>0 DEF WorldInv
<1>8. FoundInv'
  BY <1>1 DEF FoundInv
<1> QED
  BY <1>1, <1>3, <1>4, <1>5, <1>6, <1>7, <1>8, NothingToReport DEF IndInv

\* GetPodExecutor: the session of list-alerts' queries.
LEMMA GetPodExecutorKeeps == IndInv /\ GetPodExecutor => IndInv'
<1> SUFFICES ASSUME IndInv, GetPodExecutor PROVE IndInv'
  OBVIOUS
<1> USE DEF worldVars
<1>0. /\ TypeOK /\ StageInv /\ SessionInv /\ RightsInv /\ WorldInv
      /\ pc = "podExec" /\ calls = {} /\ report = {} /\ req.action = "list-alerts"
      /\ RequestAccess("exec") /\ Sessions = {"client", "exec"}
      /\ pc' = FirstStage(req)
      /\ UNCHANGED <<provider, req, found, pod, report, noResult, calls, world, ever, always,
                     changes>>
  BY DEF IndInv, GetPodExecutor, StageInv, Sessions, UsesPodExec
<1>1. pc' \in {"prometheus", "failed"} /\ (pc' = "prometheus" => Valid(req))
  BY <1>0, FirstStageFits DEF TypeOK
<1>2. /\ granted' \in [Sessions -> {NoGrant, buildCreateRequest(RequiredRBAC(req))}]
      /\ proxy' \in [Sessions -> URLs \cup {NoURL}]
      /\ BearerOK' /\ TokenStaysWithBackplane'
      /\ provider # "kubeconfig" => proxy'["exec"] = Base
      /\ proxy'["client"] = proxy["client"]
  BY <1>0, AccessKeeps
<1>3. TypeOK'
  BY <1>0, <1>1, <1>2 DEF TypeOK, BearerOK
<1>4. StageInv'
  BY <1>0, <1>1 DEF StageInv
<1>5. SessionInv'
  BY <1>0, <1>1, <1>2 DEF SessionInv
<1>6. RightsInv'
  BY <1>0, <1>1 DEF RightsInv, ResourcesUsed
<1>7. WorldInv'
  BY <1>0 DEF WorldInv
<1>8. FoundInv'
  BY <1>1 DEF FoundInv
<1> QED
  BY <1>1, <1>3, <1>4, <1>5, <1>6, <1>7, <1>8, NothingToReport DEF IndInv

\* Access that is not granted ends the run; backplane may have seen the token.
LEMMA AccessFailsKeeps == IndInv /\ AccessFails => IndInv'
<1> SUFFICES ASSUME IndInv, AccessFails PROVE IndInv'
  OBVIOUS
<1> USE DEF worldVars, runVars
<1>0. /\ TypeOK /\ StageInv /\ SessionInv /\ RightsInv /\ WorldInv
      /\ calls = {} /\ report = {} /\ pc' = "failed"
      /\ UNCHANGED bearer \/ CreateTrustedAction
      /\ UNCHANGED <<provider, req, granted, proxy, found, pod, report, noResult, calls,
                     world, ever, always, changes>>
  BY DEF IndInv, AccessFails, StageInv
<1>1. BearerOK' /\ TokenStaysWithBackplane'
  BY <1>0, CreateKeeps DEF TypeOK, BearerOK, SessionInv, TokenStaysWithBackplane
<1>2. TypeOK'
  BY <1>0, <1>1 DEF TypeOK, BearerOK
<1>3. StageInv' /\ SessionInv'
  BY <1>0, <1>1 DEF StageInv, SessionInv
<1>4. RightsInv'
  BY <1>0 DEF RightsInv, ResourcesUsed
<1>5. WorldInv' /\ FoundInv'
  BY <1>0 DEF WorldInv, FoundInv
<1> QED
  BY <1>0, <1>2, <1>3, <1>4, <1>5, NothingToReport DEF IndInv

\* A call that fails ends the run without a report.
LEMMA CallFailsKeeps == IndInv /\ CallFails => IndInv'
<1> SUFFICES ASSUME IndInv, CallFails PROVE IndInv'
  OBVIOUS
<1> USE DEF worldVars, runVars
<1>0. /\ TypeOK /\ StageInv /\ SessionInv /\ RightsInv /\ WorldInv
      /\ pc \in CallStages /\ MakeCall /\ report = {} /\ pc' = "failed"
      /\ UNCHANGED <<provider, req, granted, proxy, found, pod, report, noResult,
                     world, ever, always, changes>>
  BY DEF IndInv, CallFails, StageInv, CallStages
<1>1. ResourcesUsed' = {}
  BY <1>0 DEF ResourcesUsed
<1>2. SessionInv' /\ RightsInv' /\ BearerOK'
  BY <1>0, <1>1, CallKeepsRights
<1>3. TypeOK'
  BY <1>0, <1>2 DEF TypeOK, BearerOK
<1>4. StageInv'
  BY <1>0 DEF StageInv
<1>5. WorldInv' /\ FoundInv'
  BY <1>0 DEF WorldInv, FoundInv
<1> QED
  BY <1>0, <1>2, <1>3, <1>4, <1>5, NothingToReport DEF IndInv

\* describe-nodes lists the nodes: the one named, or all of them.
LEMMA ListNodesKeeps == IndInv /\ DescribeListNodes => IndInv'
<1> SUFFICES ASSUME IndInv, DescribeListNodes PROVE IndInv'
  OBVIOUS
<1> USE DEF worldVars
<1>0. /\ TypeOK /\ StageInv /\ SessionInv /\ RightsInv /\ WorldInv
      /\ pc = "nodes" /\ pc \in CallStages /\ MakeCall /\ report = {} /\ pc' = "pods"
      /\ req.action = "describe-nodes" /\ Valid(req)
      /\ found' = {f \in world : f.kind = "nodes" /\ req.name \in {Empty, f.name}}
      /\ UNCHANGED <<provider, req, granted, proxy, pod, report, noResult,
                     world, ever, always, changes>>
  BY DEF IndInv, DescribeListNodes, Answered, StageInv, CallStages, All
<1>1. ResourcesUsed' \subseteq ResourcesUsed \cup {StageCall.resource}
  BY <1>0, NodesCall DEF ResourcesUsed
<1>2. SessionInv' /\ RightsInv' /\ BearerOK'
  BY <1>0, <1>1, CallKeepsRights
<1>3. TypeOK'
  BY <1>0, <1>2 DEF TypeOK, BearerOK
<1>4. StageInv'
  BY <1>0 DEF StageInv
<1>5. WorldInv'
  BY <1>0 DEF WorldInv
<1>6. FoundInv'
  BY <1>0 DEF FoundInv, TypeOK
<1> QED
  BY <1>0, <1>2, <1>3, <1>4, <1>5, <1>6, NothingToReport DEF IndInv

\* describe-nodes lists the pods that have not ended.
LEMMA ListPodsKeeps == IndInv /\ DescribeListPods => IndInv'
<1> SUFFICES ASSUME IndInv, DescribeListPods PROVE IndInv'
  OBVIOUS
<1> USE DEF worldVars
<1>0. /\ TypeOK /\ StageInv /\ SessionInv /\ RightsInv /\ WorldInv /\ FoundInv
      /\ pc = "pods" /\ pc \in CallStages /\ MakeCall /\ report = {} /\ pc' = "events"
      /\ req.action = "describe-nodes" /\ Valid(req)
      /\ found' = found \cup {f \in world : f.kind = "pods" /\ PodSelector(f)}
      /\ UNCHANGED <<provider, req, granted, proxy, pod, report, noResult,
                     world, ever, always, changes>>
  BY DEF IndInv, DescribeListPods, Answered, StageInv, CallStages, All
<1>1. ResourcesUsed' \subseteq ResourcesUsed \cup {StageCall.resource}
  BY <1>0, DescribeCall DEF ResourcesUsed
<1>2. SessionInv' /\ RightsInv' /\ BearerOK'
  BY <1>0, <1>1, CallKeepsRights
<1>3. TypeOK'
  BY <1>0, <1>2 DEF TypeOK, BearerOK
<1>4. StageInv'
  BY <1>0 DEF StageInv
<1>5. WorldInv'
  BY <1>0 DEF WorldInv
<1>6. \A f : PodSelector(f)' = PodSelector(f) /\ EventSelector(f)' = EventSelector(f)
  BY <1>0 DEF PodSelector, EventSelector
<1>7. FoundInv'
  BY <1>0, <1>6 DEF FoundInv, TypeOK
<1> QED
  BY <1>0, <1>2, <1>3, <1>4, <1>5, <1>7, NothingToReport DEF IndInv

\* describe-nodes lists the events of nodes.
LEMMA ListEventsKeeps == IndInv /\ DescribeListEvents => IndInv'
<1> SUFFICES ASSUME IndInv, DescribeListEvents PROVE IndInv'
  OBVIOUS
<1> USE DEF worldVars
<1>0. /\ TypeOK /\ StageInv /\ SessionInv /\ RightsInv /\ WorldInv /\ FoundInv
      /\ pc = "events" /\ pc \in CallStages /\ MakeCall /\ report = {} /\ pc' = "leases"
      /\ req.action = "describe-nodes" /\ Valid(req)
      /\ found' = found \cup {f \in world : f.kind = "events" /\ EventSelector(f)}
      /\ UNCHANGED <<provider, req, granted, proxy, pod, report, noResult,
                     world, ever, always, changes>>
  BY DEF IndInv, DescribeListEvents, Answered, StageInv, CallStages, All
<1>1. ResourcesUsed' \subseteq ResourcesUsed \cup {StageCall.resource}
  BY <1>0, DescribeCall DEF ResourcesUsed
<1>2. SessionInv' /\ RightsInv' /\ BearerOK'
  BY <1>0, <1>1, CallKeepsRights
<1>3. TypeOK'
  BY <1>0, <1>2 DEF TypeOK, BearerOK
<1>4. StageInv'
  BY <1>0 DEF StageInv
<1>5. WorldInv'
  BY <1>0 DEF WorldInv
<1>6. \A f : PodSelector(f)' = PodSelector(f) /\ EventSelector(f)' = EventSelector(f)
  BY <1>0 DEF PodSelector, EventSelector
<1>7. FoundInv'
  BY <1>0, <1>6 DEF FoundInv, TypeOK
<1> QED
  BY <1>0, <1>2, <1>3, <1>4, <1>5, <1>7, NothingToReport DEF IndInv

\* What describe-nodes asks for.
LEMMA AskedDescribe ==
  ASSUME NEW q, NEW f, q.action = "describe-nodes"
  PROVE Asked(q, f) <=>
            \/ f.kind = "nodes" /\ q.name \in {Empty, f.name}
            \/ /\ f.kind = "pods" /\ f.on # Empty /\ f.state \notin {"Succeeded", "Failed"}
               /\ q.name \in {Empty, f.on}
            \/ f.kind = "events" /\ f.label = "Node" /\ q.name \in {Empty, f.on}
            \/ f.kind = "leases" /\ f.ns = kubeNodeLeaseNamespace /\ q.name \in {Empty, f.name}
BY DEF Asked

\* describe-nodes lists the leases and shows every node with what was found of it.
LEMMA ListLeasesKeeps == IndInv /\ DescribeListLeases => IndInv'
<1> SUFFICES ASSUME IndInv, DescribeListLeases PROVE IndInv'
  OBVIOUS
<1> USE DEF worldVars
<1> DEFINE nodes == {f \in found : f.kind = "nodes"}
<1>0. /\ TypeOK /\ StageInv /\ SessionInv /\ RightsInv /\ WorldInv /\ FoundInv
      /\ pc = "leases" /\ pc \in CallStages /\ MakeCall /\ pc' = "done"
      /\ req.action = "describe-nodes" /\ Valid(req)
      /\ found' = found \cup {f \in world : f.kind = "leases" /\ f.ns = kubeNodeLeaseNamespace}
      /\ report' = UNION {reshapeNode(found', n) : n \in nodes}
      /\ UNCHANGED <<provider, req, granted, proxy, pod, noResult, world, ever, always, changes>>
  BY DEF IndInv, DescribeListLeases, Answered, StageInv, CallStages, All
<1>1. ResourcesUsed' \subseteq ResourcesUsed \cup {StageCall.resource}
  <2>1. RequiredRBAC(req)' = DescribeNodesRBAC(req)
    BY <1>0, DescribeCall
  <2>2. \A r \in DescribeNodesRBAC(req) : r.resource \in {"nodes", "pods", "events", "leases"}
    BY DEF DescribeNodesRBAC, Rule
  <2> QED
    BY <1>0, <2>1, <2>2, DescribeCall DEF ResourcesUsed
<1>2. SessionInv' /\ RightsInv' /\ BearerOK'
  BY <1>0, <1>1, CallKeepsRights
<1>3. ASSUME NEW n \in nodes, NEW e \in reshapeNode(found', n)
      PROVE /\ e.fact \in found' /\ e.under = n.name
            /\ e.fact = n \/ (e.fact.kind = "pods" /\ e.fact.on # Empty /\ e.fact.on = n.name)
                 \/ (e.fact.kind = "events" /\ e.fact.label = "Node" /\ e.fact.on = n.name)
                 \/ (e.fact.kind = "leases" /\ e.fact.name = n.name)
  BY <1>0, <1>3 DEF reshapeNode, Entry, groupPodsByNode, groupEventsByNode, indexLeasesByNode
<1>4. TypeOK'
  <2>1. found' \subseteq Facts
    BY <1>0 DEF TypeOK
  <2>2. \A e \in report' : e.fact \in Facts
    BY <1>0, <1>3, <2>1
  <2> QED
    BY <1>0, <1>2, <2>1, <2>2 DEF TypeOK, BearerOK
<1>5. StageInv'
  BY <1>0 DEF StageInv
<1>6. WorldInv' /\ FoundInv'
  BY <1>0 DEF WorldInv, FoundInv
<1>7. ReportTruthful'
  <2> SUFFICES ASSUME NEW e \in report'
               PROVE e.fact \in ever /\ Asked(req, e.fact) /\ e.under = NodeOf(e.fact)
    BY <1>0 DEF ReportTruthful, Place, NodeOf
  <2>1. PICK n \in nodes : e \in reshapeNode(found', n)
    BY <1>0
  <2>2. \A f \in found' :
           /\ f \in ever
           /\ \/ f.kind = "nodes" /\ req.name \in {Empty, f.name}
              \/ f.kind = "pods" /\ PodSelector(f)
              \/ f.kind = "events" /\ EventSelector(f)
              \/ f.kind = "leases" /\ f.ns = kubeNodeLeaseNamespace
    BY <1>0 DEF FoundInv, TypeOK
  <2>3. req.name \in {Empty, n.name} /\ n.kind = "nodes" /\ n \in found'
    BY <1>0 DEF FoundInv
  <2>4. CASE e.fact = n
    BY <1>0, <1>3, <2>1, <2>2, <2>3, <2>4, AskedDescribe DEF NodeOf
  <2>5. CASE e.fact.kind = "pods" /\ e.fact.on # Empty /\ e.fact.on = n.name
    BY <1>0, <1>3, <2>1, <2>2, <2>3, <2>5, AskedDescribe DEF NodeOf, PodSelector
  <2>6. CASE e.fact.kind = "events" /\ e.fact.label = "Node" /\ e.fact.on = n.name
    BY <1>0, <1>3, <2>1, <2>2, <2>3, <2>6, AskedDescribe DEF NodeOf
  <2>7. CASE e.fact.kind = "leases" /\ e.fact.name = n.name
    BY <1>0, <1>3, <2>1, <2>2, <2>3, <2>7, AskedDescribe DEF NodeOf
  <2> QED
    BY <1>3, <2>1, <2>4, <2>5, <2>6, <2>7
<1>8. ReportComplete'
  <2> SUFFICES ASSUME NEW f \in always, Asked(req, f),
                      \E n \in always : n.kind = "nodes" /\ n.name = NodeOf(f)
               PROVE Entry(NodeOf(f), f) \in report'
    BY <1>0 DEF ReportComplete, Place, NodeOf, Asked
  <2>1. PICK n \in always : n.kind = "nodes" /\ n.name = NodeOf(f)
    OBVIOUS
  <2>2. n.name # Empty /\ f \in world
    BY <1>0, KubeAssumption DEF TypeOK
  <2>3. /\ \/ f.kind = "nodes" /\ f.name = n.name
           \/ f.kind = "pods" /\ f.on = n.name /\ PodSelector(f)
           \/ f.kind = "events" /\ f.on = n.name /\ EventSelector(f)
           \/ f.kind = "leases" /\ f.name = n.name /\ f.ns = kubeNodeLeaseNamespace
        /\ req.name \in {Empty, n.name}
    BY <1>0, <2>1, AskedDescribe DEF NodeOf, PodSelector, EventSelector
  <2>4. n \in nodes /\ f \in found'
    BY <1>0, <2>1, <2>2, <2>3 DEF FoundInv
  <2>5. CASE f.kind = "nodes"
    <3>1. f \in nodes
      BY <1>0, <2>3, <2>5 DEF FoundInv
    <3>2. Entry(f.name, f) \in reshapeNode(found', f)
      BY DEF reshapeNode
    <3> QED
      BY <1>0, <2>5, <3>1, <3>2 DEF NodeOf
  <2>6. CASE f.kind # "nodes"
    <3>1. \/ f \in groupPodsByNode(found', n.name)
          \/ f \in groupEventsByNode(found', n.name)
          \/ f \in indexLeasesByNode(found', n.name)
      BY <2>2, <2>3, <2>4, <2>6 DEF groupPodsByNode, groupEventsByNode, indexLeasesByNode,
         EventSelector
    <3>2. Entry(n.name, f) \in reshapeNode(found', n)
      BY <3>1 DEF reshapeNode
    <3> QED
      BY <1>0, <2>1, <2>4, <3>2
  <2> QED
    BY <2>5, <2>6
<1> QED
  BY <1>2, <1>4, <1>5, <1>6, <1>7, <1>8 DEF IndInv

\* list-alerts finds the pod of Prometheus or of Alertmanager.
LEMMA DiscoverKeeps == IndInv /\ discoverPod => IndInv'
<1> SUFFICES ASSUME IndInv, discoverPod PROVE IndInv'
  OBVIOUS
<1> USE DEF worldVars
<1>0. /\ TypeOK /\ StageInv /\ SessionInv /\ RightsInv /\ WorldInv /\ FoundInv
      /\ pc \in {"prometheus", "alertmanager"} /\ pc \in CallStages /\ MakeCall
      /\ pc' = (IF pc = "prometheus" THEN "query" ELSE "silences")
      /\ req.action = "list-alerts" /\ Valid(req) /\ report = {}
      /\ \E f \in world : pod' = f.name
      /\ UNCHANGED <<provider, req, granted, proxy, found, report, noResult,
                     world, ever, always, changes>>
  BY DEF IndInv, discoverPod, Answered, StageInv, CallStages, All
<1>1. ResourcesUsed' \subseteq ResourcesUsed \cup {StageCall.resource}
  BY <1>0, DiscoverCall DEF ResourcesUsed
<1>2. SessionInv' /\ RightsInv' /\ BearerOK'
  BY <1>0, <1>1, CallKeepsRights
<1>3. TypeOK'
  <2>1. (pod \in {Empty} \cup {f.name : f \in Facts})'
    BY <1>0 DEF TypeOK
  <2> QED
    BY <1>0, <1>2, <2>1 DEF TypeOK, BearerOK
<1>4. StageInv'
  BY <1>0 DEF StageInv
<1>5. WorldInv'
  BY <1>0 DEF WorldInv
<1>6. FoundInv'
  BY <1>0 DEF FoundInv
<1> QED
  BY <1>0, <1>2, <1>3, <1>4, <1>5, <1>6, NothingToReport DEF IndInv

\* What list-alerts asks for.
LEMMA AskedAlerts ==
  ASSUME NEW q, NEW f, q.action = "list-alerts", Valid(q)
  PROVE /\ f.kind = "alerts" =>
              (Asked(q, f) <=>
                 /\ f.ns = "platform" /\ f.label \in {"critical", "warning"}
                 /\ q.severity \in {Empty, f.label}
                 /\ f.state \in (CASE q.state = "all" -> {"firing", "pending"}
                                   [] q.state = "pending" -> {"pending"}
                                   [] OTHER -> {"firing"}))
        /\ f.kind = "silences" => (Asked(q, f) <=> q.silences /\ f.state = "active")
        /\ Asked(q, f) => f.kind \in {"alerts", "silences"}
<1>1. /\ q.severity \in {Empty, "critical", "warning"}
      /\ q.state \in {Empty, "firing", "pending", "all"}
  BY DEF Valid, ListAlertsChecks
<1> QED
  BY <1>1, ValuesStated DEF Asked

\* What the query selects and extractAlerts keeps is what was asked for.
LEMMA QuerySelects ==
  ASSUME req.action = "list-alerts", Valid(req), world \subseteq Facts, NEW f
  PROVE f \in extractAlerts({g \in All("alerts") : buildAlertsQuery(g)}) <=>
           f \in world /\ f.kind = "alerts" /\ Asked(req, f)
<1>1. req.state \in {Empty, "firing", "pending", "all"}
  BY DEF Valid, ListAlertsChecks
<1>2. ASSUME f \in world, f.kind = "alerts"
      PROVE buildAlertsQuery(f) <=>
               /\ f.ns = "platform"
               /\ f.state \in (CASE req.state = "all" -> {"firing", "pending"}
                                 [] req.state = "pending" -> {"pending"}
                                 [] OTHER -> {"firing"})
  <2>1. f.state \in {"firing", "pending"}
    BY <1>2, KubeAssumption
  <2> QED
    BY <1>1, <2>1, ValuesStated DEF buildAlertsQuery
<1> QED
  BY <1>2, AskedAlerts DEF extractAlerts, All

\* list-alerts queries Prometheus, and is done unless silences are asked for too.
LEMMA QueryAlertsKeeps == IndInv /\ QueryAlerts => IndInv'
<1> SUFFICES ASSUME IndInv, QueryAlerts PROVE IndInv'
  OBVIOUS
<1> USE DEF worldVars
<1>0. /\ TypeOK /\ StageInv /\ SessionInv /\ RightsInv /\ WorldInv
      /\ pc = "query" /\ pc \in CallStages /\ MakeCall
      /\ req.action = "list-alerts" /\ Valid(req) /\ report = {}
      /\ \/ pc' = "alertmanager" /\ req.silences /\ report' = {}
         \/ pc' = "done" /\ ~req.silences /\ report' = Plain(found')
      /\ UNCHANGED <<provider, req, granted, proxy, pod, world, ever, always, changes>>
  BY DEF IndInv, QueryAlerts, Answered, StageInv, CallStages
<1>1. /\ \A f \in found' : f \in world /\ f.kind = "alerts" /\ Asked(req, f)
      /\ noResult' \in BOOLEAN
      /\ ~noResult' => \A f \in world : f.kind = "alerts" /\ Asked(req, f) => f \in found'
  BY <1>0, QuerySelects DEF QueryAlerts, TypeOK
<1>2. ResourcesUsed' \subseteq ResourcesUsed \cup {StageCall.resource}
  <2>1. RequiredRBAC(req)' = ListAlertsRBAC(req)
    BY <1>0, QueryCall
  <2>2. \A r \in ListAlertsRBAC(req) : r.resource \in {"pods", "pods/exec"}
    BY DEF ListAlertsRBAC, Rule
  <2> QED
    BY <1>0, <2>1, <2>2, QueryCall DEF ResourcesUsed
<1>3. SessionInv' /\ RightsInv' /\ BearerOK'
  BY <1>0, <1>2, CallKeepsRights
<1>4. \A e \in report' : e.fact \in found' /\ e.under = Empty
  BY <1>0 DEF Plain, Entry
<1>5. TypeOK'
  <2>1. found' \subseteq Facts /\ \A e \in report' : e.fact \in Facts
    BY <1>0, <1>1, <1>4 DEF TypeOK
  <2> QED
    BY <1>0, <1>1, <1>3, <2>1 DEF TypeOK, BearerOK
<1>6. StageInv'
  BY <1>0 DEF StageInv
<1>7. WorldInv'
  BY <1>0 DEF WorldInv
<1>8. FoundInv'
  BY <1>0, <1>1 DEF FoundInv, TypeOK
<1>9. ReportTruthful'
  BY <1>0, <1>1, <1>4 DEF ReportTruthful, Place, TypeOK
<1>10. ReportComplete'
  <2> SUFFICES ASSUME pc' = "done", ~noResult', NEW f \in always, Asked(req, f)
               PROVE Entry(Empty, f) \in report'
    BY <1>0 DEF ReportComplete, Place
  <2>1. f.kind = "alerts" /\ f \in world
    BY <1>0, AskedAlerts DEF TypeOK
  <2> QED
    BY <1>0, <1>1, <2>1 DEF Plain
<1> QED
  BY <1>3, <1>5, <1>6, <1>7, <1>8, <1>9, <1>10 DEF IndInv

\* list-alerts queries Alertmanager, and shows alerts and active silences.
LEMMA QuerySilencesKeeps == IndInv /\ QuerySilences => IndInv'
<1> SUFFICES ASSUME IndInv, QuerySilences PROVE IndInv'
  OBVIOUS
<1> USE DEF worldVars
<1> DEFINE active == {f \in world : f.kind = "silences" /\ f.state = "active"}
<1>0. /\ TypeOK /\ StageInv /\ SessionInv /\ RightsInv /\ WorldInv /\ FoundInv
      /\ pc = "silences" /\ pc \in CallStages /\ MakeCall /\ pc' = "done"
      /\ req.action = "list-alerts" /\ Valid(req) /\ req.silences
      /\ report' = Plain(found \cup active)
      /\ UNCHANGED <<provider, req, granted, proxy, found, pod, noResult,
                     world, ever, always, changes>>
  BY DEF IndInv, QuerySilences, Answered, StageInv, CallStages, All
<1>1. ResourcesUsed' \subseteq ResourcesUsed \cup {StageCall.resource}
  <2>1. RequiredRBAC(req)' = ListAlertsRBAC(req)
    BY <1>0, QueryCall
  <2>2. \A r \in ListAlertsRBAC(req) : r.resource \in {"pods", "pods/exec"}
    BY DEF ListAlertsRBAC, Rule
  <2> QED
    BY <1>0, <2>1, <2>2, QueryCall DEF ResourcesUsed
<1>2. SessionInv' /\ RightsInv' /\ BearerOK'
  BY <1>0, <1>1, CallKeepsRights
<1>3. \A e \in report' : e.fact \in found \cup active /\ e.under = Empty
  BY <1>0 DEF Plain, Entry
<1>4. TypeOK'
  <2>1. \A e \in report' : e.fact \in Facts
    BY <1>0, <1>3 DEF TypeOK
  <2> QED
    BY <1>0, <1>2, <2>1 DEF TypeOK, BearerOK
<1>5. StageInv'
  BY <1>0 DEF StageInv
<1>6. WorldInv' /\ FoundInv'
  BY <1>0 DEF WorldInv, FoundInv
<1>7. ReportTruthful'
  <2>1. \A f \in found \cup active : f \in ever /\ Asked(req, f)
    BY <1>0, AskedAlerts DEF FoundInv, TypeOK
  <2> QED
    BY <1>0, <1>3, <2>1 DEF ReportTruthful, Place
<1>8. ReportComplete'
  <2> SUFFICES ASSUME ~noResult, NEW f \in always, Asked(req, f)
               PROVE Entry(Empty, f) \in report'
    BY <1>0 DEF ReportComplete, Place
  <2>1. f \in found \cup active
    BY <1>0, AskedAlerts DEF FoundInv, TypeOK
  <2> QED
    BY <1>0, <2>1 DEF Plain
<1> QED
  BY <1>2, <1>4, <1>5, <1>6, <1>7, <1>8 DEF IndInv

\* An action with one call has one rule, for that call.
LEMMA ObjectUsed ==
  ASSUME StageInv, pc = "object", UNCHANGED req, pc' \in {"done", "failed"}
  PROVE ResourcesUsed' \subseteq ResourcesUsed \cup {StageCall.resource}
<1>1. \A r \in RequiredRBAC(req) : r.resource = StageCall.resource
  <2>1. CASE req.action = "get-pull-secret-email"
    BY <2>1, PullSecretCall DEF PullSecretRBAC, Rule
  <2>2. CASE req.action = "get"
    BY <2>2, ObjectCall DEF GetRBAC, Rule
  <2>3. CASE req.action = "patch"
    BY <2>3, ObjectCall DEF PatchRBAC, Rule
  <2>4. CASE req.action = "delete"
    BY <2>4, ObjectCall DEF DeleteRBAC, Rule
  <2> QED
    BY <2>1, <2>2, <2>3, <2>4 DEF StageInv
<1> QED
  BY <1>1 DEF ResourcesUsed

\* What get and patch ask for is what they target, and delete asks for nothing.
LEMMA AskedObject ==
  ASSUME NEW f
  PROVE /\ req.action \in {"get", "patch"} => (Asked(req, f) <=> Targets(f))
        /\ req.action = "delete" => ~Asked(req, f)
        /\ req.action = "get-pull-secret-email" =>
              (Asked(req, f) <=>
                 f.kind = "secrets" /\ f.ns = pullSecretNamespace /\ f.name = pullSecretName)
BY DEF Asked, Targets

\* get reports what it targets.
LEMMA GetObjectKeeps == IndInv /\ GetObject => IndInv'
<1> SUFFICES ASSUME IndInv, GetObject PROVE IndInv'
  OBVIOUS
<1> USE DEF worldVars
<1>0. /\ TypeOK /\ StageInv /\ SessionInv /\ RightsInv /\ WorldInv
      /\ pc = "object" /\ pc \in CallStages /\ MakeCall /\ pc' = "done"
      /\ req.action = "get" /\ Valid(req)
      /\ report' = Plain({f \in world : Targets(f)})
      /\ UNCHANGED <<provider, req, granted, proxy, found, pod, noResult,
                     world, ever, always, changes>>
  BY DEF IndInv, GetObject, Answered, StageInv, CallStages
<1>1. SessionInv' /\ RightsInv' /\ BearerOK'
  BY <1>0, ObjectUsed, CallKeepsRights
<1>2. \A e \in report' : e.fact \in world /\ Targets(e.fact) /\ e.under = Empty
  BY <1>0 DEF Plain, Entry
<1>3. TypeOK'
  <2>1. \A e \in report' : e.fact \in Facts
    BY <1>0, <1>2 DEF TypeOK
  <2> QED
    BY <1>0, <1>1, <2>1 DEF TypeOK, BearerOK
<1>4. StageInv'
  BY <1>0 DEF StageInv
<1>5. WorldInv' /\ FoundInv'
  BY <1>0 DEF WorldInv, FoundInv
<1>6. ReportTruthful'
  BY <1>0, <1>2, AskedObject DEF ReportTruthful, Place, TypeOK
<1>7. ReportComplete'
  <2> SUFFICES ASSUME NEW f \in always, Asked(req, f)
               PROVE Entry(Empty, f) \in report'
    BY <1>0 DEF ReportComplete, Place
  <2>1. f \in world /\ Targets(f)
    BY <1>0, AskedObject DEF TypeOK
  <2> QED
    BY <1>0, <2>1 DEF Plain
<1> QED
  BY <1>1, <1>3, <1>4, <1>5, <1>6, <1>7 DEF IndInv

\* get-pull-secret-email reports the pull secret, if it holds an email.
LEMMA GetPullSecretEmailKeeps == IndInv /\ GetPullSecretEmail => IndInv'
<1> SUFFICES ASSUME IndInv, GetPullSecretEmail PROVE IndInv'
  OBVIOUS
<1> USE DEF worldVars
<1> DEFINE IsSecret(f) == /\ f.kind = "secrets"
                          /\ f.ns = pullSecretNamespace /\ f.name = pullSecretName
<1>0. /\ TypeOK /\ StageInv /\ SessionInv /\ RightsInv /\ WorldInv
      /\ pc = "object" /\ pc \in CallStages /\ MakeCall /\ pc' = "done"
      /\ req.action = "get-pull-secret-email" /\ Valid(req)
      /\ report' = Plain({f \in world : IsSecret(f) /\ f.state = "email"})
      /\ report' # {}
      /\ UNCHANGED <<provider, req, granted, proxy, found, pod, noResult,
                     world, ever, always, changes>>
  BY DEF IndInv, GetPullSecretEmail, Answered, StageInv, CallStages, All
<1>1. SessionInv' /\ RightsInv' /\ BearerOK'
  BY <1>0, ObjectUsed, CallKeepsRights
<1>2. \A e \in report' :
         e.fact \in world /\ IsSecret(e.fact) /\ e.under = Empty /\ e = Entry(Empty, e.fact)
  BY <1>0 DEF Plain, Entry
<1>3. TypeOK'
  <2>1. \A e \in report' : e.fact \in Facts
    BY <1>0, <1>2 DEF TypeOK
  <2> QED
    BY <1>0, <1>1, <2>1 DEF TypeOK, BearerOK
<1>4. StageInv'
  BY <1>0 DEF StageInv
<1>5. WorldInv' /\ FoundInv'
  BY <1>0 DEF WorldInv, FoundInv
<1>6. ReportTruthful'
  BY <1>0, <1>2, AskedObject DEF ReportTruthful, Place, TypeOK
<1>7. ReportComplete'
  <2> SUFFICES ASSUME NEW f \in always, Asked(req, f)
               PROVE Entry(Empty, f) \in report'
    BY <1>0 DEF ReportComplete, Place
  <2>1. f \in world /\ IsSecret(f)
    BY <1>0, AskedObject DEF TypeOK
  <2>2. PICK e \in report' : TRUE
    BY <1>0
  <2>3. e.fact = f
    BY <1>0, <1>2, <2>1 DEF WorldInv, Same
  <2> QED
    BY <1>2, <2>3
<1> QED
  BY <1>1, <1>3, <1>4, <1>5, <1>6, <1>7 DEF IndInv

\* A patched object keeps what identifies it.
LEMMA PatchedSame ==
  ASSUME NEW f \in FactType
  PROVE /\ Patched(f).kind = f.kind /\ Patched(f).ns = f.ns /\ Patched(f).name = f.name
        /\ \A g : Same(Patched(f), g) <=> Same(f, g)
        /\ \A g : Same(g, Patched(f)) <=> Same(g, f)
BY DEF Patched, FactType, Same

\* patch reports the object as it made it, or fails after it has made it so.
LEMMA PatchObjectKeeps == IndInv /\ PatchObject => IndInv'
<1> SUFFICES ASSUME IndInv, PatchObject PROVE IndInv'
  OBVIOUS
<1>0. /\ TypeOK /\ StageInv /\ SessionInv /\ RightsInv /\ WorldInv
      /\ pc = "object" /\ pc \in CallStages /\ report = {}
      /\ req.action = "patch" /\ Valid(req) /\ req.name # Empty
  BY DEF IndInv, PatchObject, StageInv, CallStages, Valid, PatchChecks
<1>1. PICK t \in world :
         /\ Targets(t)
         /\ Becomes((world \ {t}) \cup {Patched(t)})
         /\ \/ Answered("done") /\ report' = Plain({Patched(t)})
            \/ Answered("failed") /\ UNCHANGED report
  BY DEF PatchObject
<1>2. /\ MakeCall /\ pc' \in {"done", "failed"}
      /\ world' = (world \ {t}) \cup {Patched(t)}
      /\ ever' = ever \cup world' /\ always' = always \cap world'
      /\ IF pc' = "done" THEN report' = Plain({Patched(t)}) ELSE report' = {}
      /\ UNCHANGED <<provider, req, granted, proxy, found, pod, noResult, changes>>
  BY <1>0, <1>1 DEF Answered, Becomes, PatchObject
<1>3. /\ t \in Facts /\ t \in FactType /\ Patched(t) \in Facts
      /\ t.kind = req.resource /\ t.ns = req.ns /\ t.name = req.name
  BY <1>0, <1>1, KubeAssumption DEF Targets, TypeOK
<1>4. SessionInv' /\ RightsInv' /\ BearerOK'
  BY <1>0, <1>2, ObjectUsed, CallKeepsRights
<1>5. \A e \in report' : e.fact = Patched(t) /\ e.under = Empty
  BY <1>2 DEF Plain, Entry
<1>6. TypeOK'
  <2>1. /\ world' \subseteq Facts /\ always' \subseteq world' /\ world' \subseteq ever'
        /\ \A e \in report' : e.fact \in Facts
    BY <1>0, <1>2, <1>3, <1>5 DEF TypeOK
  <2> QED
    BY <1>0, <1>2, <1>4, <2>1 DEF TypeOK, BearerOK
<1>7. StageInv'
  BY <1>0, <1>2 DEF StageInv
<1>8. WorldInv'
  BY <1>0, <1>2, <1>3, PatchedSame DEF WorldInv
<1>9. FoundInv'
  BY <1>2 DEF FoundInv
<1>10. ReportTruthful'
  <2>1. Patched(t) \in ever' /\ Asked(req, Patched(t))
    BY <1>0, <1>2, <1>3, PatchedSame, AskedObject DEF Targets
  <2> QED
    BY <1>0, <1>2, <1>5, <2>1 DEF ReportTruthful, Place
<1>11. ReportComplete'
  <2> SUFFICES ASSUME pc' = "done", NEW f \in always', Asked(req, f)
               PROVE Entry(Empty, f) \in report'
    BY <1>0, <1>2 DEF ReportComplete, Place
  <2>1. f \in world' /\ Same(f, t)
    BY <1>0, <1>2, <1>3, AskedObject DEF Targets, Same
  <2>2. f = Patched(t)
    BY <1>0, <1>2, <2>1 DEF WorldInv
  <2> QED
    BY <1>2, <2>2 DEF Plain
<1> QED
  BY <1>4, <1>6, <1>7, <1>8, <1>9, <1>10, <1>11 DEF IndInv

\* delete removes one object, and reports nothing.
LEMMA DeleteObjectKeeps == IndInv /\ DeleteObject => IndInv'
<1> SUFFICES ASSUME IndInv, DeleteObject PROVE IndInv'
  OBVIOUS
<1>0. /\ TypeOK /\ StageInv /\ SessionInv /\ RightsInv /\ WorldInv
      /\ pc = "object" /\ pc \in CallStages /\ report = {}
      /\ req.action = "delete" /\ Valid(req)
  BY DEF IndInv, DeleteObject, StageInv, CallStages
<1>1. PICK t \in world : Becomes(world \ {t})
  BY DEF DeleteObject
<1>2. /\ MakeCall /\ pc' \in {"done", "failed"}
      /\ world' = world \ {t}
      /\ ever' = ever \cup world' /\ always' = always \cap world'
      /\ UNCHANGED <<provider, req, granted, proxy, found, pod, report, noResult, changes>>
  BY <1>1 DEF Answered, Becomes, DeleteObject
<1>3. SessionInv' /\ RightsInv' /\ BearerOK'
  BY <1>0, <1>2, ObjectUsed, CallKeepsRights
<1>4. TypeOK'
  BY <1>0, <1>2, <1>3 DEF TypeOK, BearerOK
<1>5. StageInv'
  BY <1>0, <1>2 DEF StageInv
<1>6. WorldInv' /\ FoundInv'
  BY <1>0, <1>2 DEF WorldInv, FoundInv
<1>7. ReportTruthful' /\ ReportComplete'
  BY <1>0, <1>2, AskedObject DEF ReportTruthful, ReportComplete
<1> QED
  BY <1>3, <1>4, <1>5, <1>6, <1>7 DEF IndInv

\* A delete that went astray changes nothing but the history of calls.
LEMMA DeleteAstrayKeeps == IndInv /\ DeleteAstray => IndInv'
<1> SUFFICES ASSUME IndInv, DeleteAstray PROVE IndInv'
  OBVIOUS
<1> USE DEF worldVars, runVars
<1>0. /\ TypeOK /\ StageInv /\ SessionInv /\ RightsInv /\ WorldInv
      /\ pc = "object" /\ pc \in CallStages /\ report = {} /\ MakeCall /\ pc' = "done"
      /\ req.action = "delete" /\ Valid(req)
      /\ UNCHANGED <<provider, req, granted, proxy, found, pod, report, noResult,
                     world, ever, always, changes>>
  BY DEF IndInv, DeleteAstray, StageInv, CallStages
<1>1. SessionInv' /\ RightsInv' /\ BearerOK'
  BY <1>0, ObjectUsed, CallKeepsRights
<1>2. TypeOK'
  BY <1>0, <1>1 DEF TypeOK, BearerOK
<1>3. StageInv'
  BY <1>0 DEF StageInv
<1>4. WorldInv' /\ FoundInv'
  BY <1>0 DEF WorldInv, FoundInv
<1>5. ReportTruthful' /\ ReportComplete'
  BY <1>0, AskedObject DEF ReportTruthful, ReportComplete
<1> QED
  BY <1>1, <1>2, <1>3, <1>4, <1>5 DEF IndInv

\* The cluster changes: what was true stays in the history, and what was true all
\* along is so no more only if it went.
LEMMA ClusterChangesKeeps == IndInv /\ ClusterChanges => IndInv'
<1> SUFFICES ASSUME IndInv, ClusterChanges PROVE IndInv'
  OBVIOUS
<1> USE DEF runVars, historyVars
<1>0. /\ TypeOK /\ StageInv /\ SessionInv /\ RightsInv /\ WorldInv /\ FoundInv
      /\ pc \notin {"done", "failed"} /\ changes < MaxChanges /\ changes' = changes + 1
      /\ UNCHANGED <<provider, req, pc, granted, proxy, found, pod, report, noResult, calls,
                     bearer>>
  BY DEF IndInv, ClusterChanges
<1>1. /\ world' \subseteq Facts /\ WorldInv'
      /\ ever' = ever \cup world' /\ always' = always \cap world'
  <2>1. CASE \E f \in Facts \ world : Becomes({g \in world : ~Same(f, g)} \cup {f})
    <3>1. PICK f \in Facts \ world : Becomes({g \in world : ~Same(f, g)} \cup {f})
      BY <2>1
    <3> QED
      BY <1>0, <3>1 DEF Becomes, TypeOK, WorldInv, Same
  <2>2. CASE \E f \in world : Becomes(world \ {f})
    BY <1>0, <2>2 DEF Becomes, TypeOK, WorldInv
  <2> QED
    BY <2>1, <2>2 DEF ClusterChanges
<1>2. TypeOK'
  <2>1. changes' \in 0..MaxChanges
    BY <1>0, KubeAssumption DEF TypeOK
  <2> QED
    BY <1>0, <1>1, <2>1 DEF TypeOK
<1>3. StageInv'
  BY <1>0 DEF StageInv
<1>4. SessionInv'
  BY <1>0 DEF SessionInv, TokenStaysWithBackplane
<1>5. RightsInv'
  <2>1. \A r : WiderThanUsed(r)' = WiderThanUsed(r)
    BY <1>0 DEF WiderThanUsed
  <2>2. ResourcesUsed' = ResourcesUsed
    BY <1>0 DEF ResourcesUsed
  <2> QED
    BY <1>0, <2>1, <2>2 DEF RightsInv
<1>6. FoundInv'
  <2>1. \A f : PodSelector(f)' = PodSelector(f) /\ EventSelector(f)' = EventSelector(f)
    BY <1>0 DEF PodSelector, EventSelector
  <2> QED
    BY <1>0, <1>1, <2>1 DEF FoundInv
<1> QED
  BY <1>0, <1>1, <1>2, <1>3, <1>4, <1>5, <1>6, NothingToReport DEF IndInv

\* A step that changes nothing.
LEMMA StutterKeeps == IndInv /\ UNCHANGED vars => IndInv'
<1> SUFFICES ASSUME IndInv, UNCHANGED vars PROVE IndInv'
  OBVIOUS
<1>0. UNCHANGED <<provider, req, pc, granted, proxy, found, pod, report, noResult, calls, bearer,
                  world, ever, always, changes>>
  BY DEF vars, runVars, historyVars, worldVars
<1>1. TypeOK' /\ StageInv' /\ WorldInv'
  BY <1>0 DEF IndInv, TypeOK, StageInv, WorldInv
<1>2. SessionInv'
  BY <1>0 DEF IndInv, SessionInv, TokenStaysWithBackplane
<1>3. RightsInv'
  BY <1>0 DEF IndInv, RightsInv, WiderThanUsed, ResourcesUsed
<1>4. FoundInv'
  BY <1>0 DEF IndInv, FoundInv, PodSelector, EventSelector
<1>5. ReportTruthful' /\ ReportComplete'
  BY <1>0 DEF IndInv, ReportTruthful, ReportComplete, Place
<1> QED
  BY <1>1, <1>2, <1>3, <1>4, <1>5 DEF IndInv

-----------------------------------------------------------------------------
(* The theorems.                                                           *)

\* IndInv holds in every state of a run: KubeScope.Run and the Execute methods keep it
\* at every call, and the cluster may change in between.
THEOREM Invariance == Spec => []IndInv
<1>1. IndInv /\ [Next]_vars => IndInv'
  BY GetClientKeeps, GetPodExecutorKeeps, AccessFailsKeeps, CallFailsKeeps, ListNodesKeeps,
     ListPodsKeeps, ListEventsKeeps, ListLeasesKeeps, DiscoverKeeps, QueryAlertsKeeps,
     QuerySilencesKeeps, GetObjectKeeps, GetPullSecretEmailKeeps, PatchObjectKeeps,
     DeleteObjectKeeps, DeleteAstrayKeeps, ClusterChangesKeeps, StutterKeeps DEF Next
<1> QED
  BY <1>1, InitEstablishes, PTL DEF Spec

\* Every variable keeps its type.
THEOREM TypeCorrect == Spec => []TypeOK
<1>1. IndInv => TypeOK
  BY DEF IndInv
<1> QED
  BY <1>1, Invariance, PTL

\* RequiredRBAC declares what Execute goes on to do, no less and, for a run that
\* succeeds, no more and in no wider scope, describe-nodes' rule for leases excepted.
THEOREM RightsFit == Spec => []RightsFitCalls
<1>1. IndInv => RightsFitCalls
  BY DEF IndInv, RightsInv, ResourcesUsed, RightsFitCalls
<1> QED
  BY <1>1, Invariance, PTL

\* requestAccessAndConfig and bearerTransport.RoundTrip keep the server's token at
\* backplane's host, whatever proxy an answer names and wherever calls are redirected,
\* and net/http keeps that of a session's POST at the host and its subdomains.
THEOREM TokenStays == Spec => []TokenStaysWithBackplane
<1>1. IndInv => TokenStaysWithBackplane
  BY DEF IndInv, SessionInv
<1> QED
  BY <1>1, Invariance, PTL

\* What Execute reports was asked for and true, and stands with its node.
THEOREM ReportsTruthful == Spec => []ReportTruthful
<1>1. IndInv => ReportTruthful
  BY DEF IndInv
<1> QED
  BY <1>1, Invariance, PTL

\* What was asked for and true throughout the run is in the report.
THEOREM ReportsComplete == Spec => []ReportComplete
<1>1. IndInv => ReportComplete
  BY DEF IndInv
<1> QED
  BY <1>1, Invariance, PTL
=============================================================================
