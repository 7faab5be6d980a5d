--------------------------- MODULE ActionExecution ---------------------------
(***************************************************************************)
(* What happens inside Runner.Run: ExecutorRunner (internal/worker), the   *)
(* Executor and its Kubernetes and AWS scopes (internal/executor), the     *)
(* authorizers (internal/authorization), the AWS credentials provider with *)
(* its cluster cache (internal/awsapi), the ownership check of the AWS     *)
(* write actions (internal/actions) and the audit logger (internal/audit). *)
(*                                                                         *)
(* Several workers run executions concurrently and share the cluster cache *)
(* and the audit logger. OCM's answers are external: a display name may    *)
(* come to denote another cluster between two lookups.                     *)
(***************************************************************************)
EXTENDS Naturals, FiniteSets

CONSTANTS
    Workers,            \* worker goroutines
    Requests,           \* the stored executions that workers may claim, see below
    Clusters,           \* clusters known to OCM
    Region, Account,    \* per cluster: its AWS region ("" if unrecorded) and account
    Unlabelled,         \* clusters without an infrastructure ID in OCM
    Instances,          \* EC2 instances
    Owner, Place,       \* per instance: the cluster whose tag it bears, <<account, region>>
    AllowedRegions, AllowedOperations,      \* ROSA_TA_AWS_ALLOWED_*
    AllowedNamespaces, AllowedSecrets,      \* ROSA_TA_ALLOWED_*
    FirstBinding,       \* the cluster that OCM finds for each identifier at first
    NoCluster, NoRequest,
    MaxRuns,            \* bound: executions started per worker
    MaxRebinds          \* bound: how often an identifier changes its meaning

\* The actions of the registry: their scope, whether they change anything, and
\* the operation an AWS write declares. "get" stands for every Kubernetes read, "delete"
\* for patch as well. "unregistered" stands for a stored action
\* name that no factory is registered for.
ActionTable ==
    [a \in {"get", "delete", "aws-get", "aws-reboot", "aws-terminate", "unregistered"} |->
        CASE a = "get"           -> [scope |-> "kube", write |-> FALSE, op |-> ""]
          [] a = "delete"        -> [scope |-> "kube", write |-> TRUE,  op |-> ""]
          [] a = "aws-get"       -> [scope |-> "aws",  write |-> FALSE, op |-> ""]
          [] a = "aws-reboot"    -> [scope |-> "aws",  write |-> TRUE,  op |-> "reboot"]
          [] a = "aws-terminate" -> [scope |-> "aws",  write |-> TRUE,  op |-> "terminate"]
          [] OTHER               -> [scope |-> "none", write |-> FALSE, op |-> ""]]

\* A stored execution: the caller's cluster identifier, the action, the params an
\* authorizer or a scope looks at, and the dry_run flag of the request.
RequestType ==
    [id : STRING, action : DOMAIN ActionTable, resource : STRING, name : STRING,
     namespace : STRING, instance : Instances, dryRun : BOOLEAN]

Identifiers == {q.id : q \in Requests}

ASSUME ExecutionAssumption ==
    /\ Region \in [Clusters -> STRING] /\ DOMAIN Account = Clusters
    /\ Owner \in [Instances -> Clusters] /\ DOMAIN Place = Instances
    /\ Unlabelled \subseteq Clusters
    /\ NoCluster \notin Clusters
    /\ Requests \subseteq RequestType
    /\ FirstBinding \in [Identifiers -> Clusters]
    /\ NoRequest \notin Requests
    /\ MaxRuns \in Nat /\ MaxRebinds \in Nat

VARIABLES
    pc,        \* pc[w]: the stage of Run that w is in
    req,       \* req[w]: the execution being run
    stage,     \* stage[w]: what a cluster lookup in progress is for
    got,       \* got[w]: the cluster OCM answered, not yet stored in the cache
    region,    \* region[w]: AWSTarget.Region
    infra,     \* infra[w]: AWSTarget.InfraID, as the cluster it belongs to
    creds,     \* creds[w]: the cluster whose AWS credentials were fetched
    decision, outcome,   \* audit.Record of the run
    effect,    \* history: the run changed the cluster or the instance
    touched,   \* history: the run asked for a session or for credentials
    bind,      \* bind[id]: the cluster OCM finds for id, NoCluster if none or several
    denoted,   \* history: denoted[id], all clusters bind[id] ever was
    cache,     \* clusterCache: cache[id] and whether it has not expired
    fresh,
    records,   \* len(MockLogger.Records)
    logged,    \* history: how many calls of Log have returned
    header,    \* header[w]: the length w read before its append
    runs, rebinds  \* bounds used up

runVars   == <<req, stage, got, region, infra, creds, effect, touched>>
recVars   == <<decision, outcome>>
cacheVars == <<cache, fresh>>
ocmVars   == <<bind, denoted, rebinds>>
logVars   == <<records, logged, header>>
vars == <<pc, runVars, recVars, cacheVars, ocmVars, logVars, runs>>

Action(w) == ActionTable[req[w].action]

Goto(w, where) == pc' = [pc EXCEPT ![w] = where]

\* The record a run leaves, and its way to the deferred auditor.Log.
Conclude(w, d, o) ==
    /\ decision' = [decision EXCEPT ![w] = d]
    /\ outcome' = [outcome EXCEPT ![w] = o]
    /\ Goto(w, "log")

-----------------------------------------------------------------------------
(* ExecutorRunner.Run and the head of Executor.Execute.                    *)

\* A claimed execution is run. Its dry_run flag is not looked at. An action that
\* is not registered fails before the executor, and so without an audit record.
Begin(w, q) ==
    /\ pc[w] = "idle"
    /\ runs[w] < MaxRuns
    /\ runs' = [runs EXCEPT ![w] = @ + 1]
    /\ IF ActionTable[q.action].scope = "none"
       THEN UNCHANGED <<pc, req, stage>>
       ELSE /\ req' = [req EXCEPT ![w] = q]
            /\ stage' = [stage EXCEPT ![w] = "region"]
            /\ Goto(w, IF ActionTable[q.action].scope = "aws" THEN "lookup" ELSE "authorize")
    /\ UNCHANGED <<got, region, infra, creds, effect, touched, recVars, cacheVars, ocmVars, logVars>>

-----------------------------------------------------------------------------
(* CloudCredentialsProvider.cluster, called for the region, for the        *)
(* infrastructure ID of a write, and for the credentials.                  *)

\* Mutant: clients are built for the region of the cluster just looked up, not for
\* the one the request was authorized against.
UseClusterRegion(w, c) ==
    \/ /\ stage[w] = "region" /\ Region[c] # ""
       /\ region' = [region EXCEPT ![w] = Region[c]]
       /\ IF ~Action(w).write
          THEN Goto(w, "authorize") /\ UNCHANGED <<stage, recVars>>
          ELSE IF req[w].resource \notin {"", "instances"}
          THEN Conclude(w, "none", "failure") /\ UNCHANGED stage
          ELSE Goto(w, "lookup") /\ stage' = [stage EXCEPT ![w] = "infra"] /\ UNCHANGED recVars
       /\ UNCHANGED <<infra, creds>>
    \/ /\ stage[w] = "region" /\ Region[c] = ""
       /\ Conclude(w, "none", "failure")
       /\ UNCHANGED <<stage, region, infra, creds>>
    \/ /\ stage[w] = "infra" /\ c \notin Unlabelled
       /\ infra' = [infra EXCEPT ![w] = c]
       /\ Goto(w, "authorize")
       /\ UNCHANGED <<stage, region, creds, recVars>>
    \/ /\ stage[w] = "infra" /\ c \in Unlabelled
       /\ Conclude(w, "none", "failure")
       /\ UNCHANGED <<stage, region, infra, creds>>
    \/ /\ stage[w] = "clients"
       /\ creds' = [creds EXCEPT ![w] = c]
       /\ region' = [region EXCEPT ![w] = Region[c]]
       /\ Goto(w, "credentials")
       /\ UNCHANGED <<stage, infra, recVars>>

\* What the caller of the lookup does with the cluster.
UseCluster(w, c) ==
    \* DefaultRegion; a write then refuses a resource param that is not its own.
    \/ /\ stage[w] = "region" /\ Region[c] # ""
       /\ region' = [region EXCEPT ![w] = Region[c]]
       /\ IF ~Action(w).write
          THEN Goto(w, "authorize") /\ UNCHANGED <<stage, recVars>>
          ELSE IF req[w].resource \notin {"", "instances"}
          THEN Conclude(w, "none", "failure") /\ UNCHANGED stage
          ELSE Goto(w, "lookup") /\ stage' = [stage EXCEPT ![w] = "infra"] /\ UNCHANGED recVars
       /\ UNCHANGED <<infra, creds>>
    \/ /\ stage[w] = "region" /\ Region[c] = ""
       /\ Conclude(w, "none", "failure")
       /\ UNCHANGED <<stage, region, infra, creds>>
    \* ClusterInfraID
    \/ /\ stage[w] = "infra" /\ c \notin Unlabelled
       /\ infra' = [infra EXCEPT ![w] = c]
       /\ Goto(w, "authorize")
       /\ UNCHANGED <<stage, region, creds, recVars>>
    \/ /\ stage[w] = "infra" /\ c \in Unlabelled
       /\ Conclude(w, "none", "failure")
       /\ UNCHANGED <<stage, region, infra, creds>>
    \* GetClients: the credentials are for this cluster, the region stays.
    \/ /\ stage[w] = "clients"
       /\ creds' = [creds EXCEPT ![w] = c]
       /\ Goto(w, "credentials")
       /\ UNCHANGED <<stage, region, infra, recVars>>

\* A cached cluster that has not expired is used without asking OCM.
LookupCached(w) ==
    /\ pc[w] = "lookup"
    /\ fresh[req[w].id]
    /\ UseCluster(w, cache[req[w].id])
    /\ UNCHANGED <<req, got, effect, touched, cacheVars, ocmVars, logVars, runs>>

\* Otherwise Clusters.Get asks OCM, with the lock not held; no cluster or several
\* is an error, and errors are not stored.
LookupFetch(w) ==
    /\ pc[w] = "lookup"
    /\ ~fresh[req[w].id]
    /\ bind[req[w].id] # NoCluster
    /\ got' = [got EXCEPT ![w] = bind[req[w].id]]
    /\ Goto(w, "store")
    /\ UNCHANGED <<req, stage, region, infra, creds, effect, touched, recVars, cacheVars, ocmVars, logVars, runs>>

\* The answer is stored with a full time to live, whatever was stored meanwhile.
LookupStore(w) ==
    /\ pc[w] = "store"
    /\ cache' = [cache EXCEPT ![req[w].id] = got[w]]
    /\ fresh' = [fresh EXCEPT ![req[w].id] = TRUE]
    /\ got' = [got EXCEPT ![w] = NoCluster]
    /\ UseCluster(w, got[w])
    /\ UNCHANGED <<req, effect, touched, ocmVars, logVars, runs>>

\* The entry's time to live is over.
CacheExpires(id) ==
    /\ fresh[id]
    /\ fresh' = [fresh EXCEPT ![id] = FALSE]
    /\ UNCHANGED <<pc, runVars, recVars, cache, ocmVars, logVars, runs>>

\* OCM: a cluster is deleted or created, and a display name now denotes c, or no
\* cluster, or several.
Rebind(id, c) ==
    /\ rebinds < MaxRebinds
    /\ bind[id] # c
    /\ rebinds' = rebinds + 1
    /\ bind' = [bind EXCEPT ![id] = c]
    /\ denoted' = [denoted EXCEPT ![id] = @ \cup ({c} \ {NoCluster})]
    /\ UNCHANGED <<pc, runVars, recVars, cacheVars, logVars, runs>>

-----------------------------------------------------------------------------
(* Scope.Authorize and Scope.Run.                                          *)

\* authorizer.Authorize of the Kubernetes scope; permissive without an allowlist.
KubeAuthorize(q) ==
    \/ AllowedNamespaces = {}
    \/ /\ q.namespace # "" /\ q.namespace \in AllowedNamespaces
       /\ q.resource = "secrets" => q.name # "" /\ <<q.namespace, q.name>> \in AllowedSecrets

\* awsAuthorizer.Authorize: no permissive mode; a write passes a second gate.
AWSAuthorize(resource, where, operation) ==
    /\ resource # ""
    /\ where # "" /\ where \in AllowedRegions
    /\ operation # "" => operation \in AllowedOperations

\* The target's resource: a write names its own.
TargetResource(w) == IF Action(w).write THEN "instances" ELSE req[w].resource

Allowed(w) ==
    IF Action(w).scope = "kube"
    THEN KubeAuthorize(req[w])
    ELSE AWSAuthorize(TargetResource(w), region[w], Action(w).op)

\* Mutant: the AWS clients are obtained before the authorizer is asked.
AuthorizeAfterClients(w) ==
    /\ pc[w] = "authorize"
    /\ touched' = [touched EXCEPT ![w] = TRUE]
    /\ IF Allowed(w)
       THEN /\ stage' = [stage EXCEPT ![w] = "clients"]
            /\ Goto(w, IF Action(w).scope = "aws" THEN "lookup" ELSE "session")
            /\ UNCHANGED recVars
       ELSE Conclude(w, "denied", "skipped") /\ UNCHANGED stage
    /\ UNCHANGED <<req, got, region, infra, creds, effect, cacheVars, ocmVars, logVars, runs>>

\* A denied request ends here, before any client is obtained for it.
Authorize(w) ==
    /\ pc[w] = "authorize"
    /\ IF Allowed(w)
       THEN /\ stage' = [stage EXCEPT ![w] = "clients"]
            /\ Goto(w, IF Action(w).scope = "aws" THEN "lookup" ELSE "session")
            /\ UNCHANGED recVars
       ELSE Conclude(w, "denied", "skipped") /\ UNCHANGED stage
    /\ UNCHANGED <<req, got, region, infra, creds, effect, touched, cacheVars, ocmVars, logVars, runs>>

\* KubeScope.Run: a backplane session with the action's RBAC.
GetSession(w) ==
    /\ pc[w] = "session"
    /\ touched' = [touched EXCEPT ![w] = TRUE]
    /\ Goto(w, "execute")
    /\ UNCHANGED <<req, stage, got, region, infra, creds, effect, recVars, cacheVars, ocmVars, logVars, runs>>

\* awaitCredentials: the call into backplane-cli answered in time.
CredentialsArrive(w) ==
    /\ pc[w] = "credentials"
    /\ touched' = [touched EXCEPT ![w] = TRUE]
    /\ Goto(w, "execute")
    /\ UNCHANGED <<req, stage, got, region, infra, creds, effect, recVars, cacheVars, ocmVars, logVars, runs>>

\* DescribeInstances with these credentials in this region finds the instance.
Found(w) == Place[req[w].instance] = <<Account[creds[w]], region[w]>>

\* Mutant: reaching an instance is taken as evidence of owning it.
OwnedIfFound(w) == Found(w)

\* requireClusterInstance: found, and tagged as owned by the cluster.
OwnedInstance(w) == Found(w) /\ Owner[req[w].instance] = infra[w]

\* What an action insists on before it changes anything: a Kubernetes write names an
\* object in a namespace, an AWS write an instance of the cluster.
Checked(w) ==
    IF Action(w).scope = "aws"
    THEN OwnedInstance(w)
    ELSE req[w].name # "" /\ req[w].namespace # ""

\* The action's Execute up to its first change: a read is done, an AWS write has
\* made its checks.
Execute(w) ==
    /\ pc[w] = "execute"
    /\ IF ~Action(w).write
       THEN Conclude(w, "allowed", "success")
       ELSE IF ~Checked(w)
       THEN Conclude(w, "allowed", "failure")
       ELSE Goto(w, "change") /\ UNCHANGED recVars
    /\ UNCHANGED <<runVars, cacheVars, ocmVars, logVars, runs>>

\* The delete, reboot or terminate call takes effect; its answer may be an error
\* all the same.
Change(w) ==
    /\ pc[w] = "change"
    /\ effect' = [effect EXCEPT ![w] = TRUE]
    /\ \E o \in {"success", "failure"} : Conclude(w, "allowed", o)
    /\ UNCHANGED <<req, stage, got, region, infra, creds, touched, cacheVars, ocmVars, logVars, runs>>

\* Mutant: the worker waits for backplane-cli however long it takes.
CallFailsExceptCredentials(w) ==
    /\ pc[w] \in {"lookup", "session", "execute", "change"}
    /\ pc[w] = "lookup" => ~fresh[req[w].id]
    /\ Conclude(w, IF pc[w] = "lookup" /\ stage[w] # "clients" THEN "none" ELSE "allowed", "failure")
    /\ touched' = [touched EXCEPT ![w] = @ \/ pc[w] = "session"]
    /\ UNCHANGED <<req, stage, got, region, infra, creds, effect, cacheVars, ocmVars, logVars, runs>>

\* A call out of the process fails or is cut off by the execution timeout. While
\* the target is derived there is no decision yet. awaitCredentials stops waiting
\* although the call itself goes on in its own goroutine.
CallFails(w) ==
    /\ pc[w] \in {"lookup", "session", "credentials", "execute", "change"}
    /\ pc[w] = "lookup" => ~fresh[req[w].id]
    /\ Conclude(w, IF pc[w] = "lookup" /\ stage[w] # "clients" THEN "none" ELSE "allowed", "failure")
    /\ touched' = [touched EXCEPT ![w] = @ \/ pc[w] \in {"session", "credentials"}]
    /\ UNCHANGED <<req, stage, got, region, infra, creds, effect, cacheVars, ocmVars, logVars, runs>>

-----------------------------------------------------------------------------
(* The deferred auditor.Log: append to a slice shared by all workers.      *)

\* append reads the slice header ...
LogRead(w) ==
    /\ pc[w] = "log"
    /\ header' = [header EXCEPT ![w] = records]
    /\ Goto(w, "append")
    /\ UNCHANGED <<runVars, recVars, cacheVars, ocmVars, records, logged, runs>>

\* ... and the result is assigned to Records; no lock covers the two. The run is
\* over and the worker has its RunResult.
LogWrite(w) ==
    /\ pc[w] = "append"
    /\ records' = header[w] + 1
    /\ logged' = logged + 1
    /\ header' = [header EXCEPT ![w] = 0]
    /\ Goto(w, "idle")
    /\ req' = [req EXCEPT ![w] = NoRequest]
    /\ stage' = [stage EXCEPT ![w] = "region"]
    /\ region' = [region EXCEPT ![w] = ""]
    /\ infra' = [infra EXCEPT ![w] = NoCluster]
    /\ creds' = [creds EXCEPT ![w] = NoCluster]
    /\ effect' = [effect EXCEPT ![w] = FALSE]
    /\ touched' = [touched EXCEPT ![w] = FALSE]
    /\ decision' = [decision EXCEPT ![w] = "none"]
    /\ outcome' = [outcome EXCEPT ![w] = "none"]
    /\ UNCHANGED <<got, cacheVars, ocmVars, runs>>

-----------------------------------------------------------------------------
Init ==
    /\ pc = [w \in Workers |-> "idle"]
    /\ req = [w \in Workers |-> NoRequest]
    /\ stage = [w \in Workers |-> "region"]
    /\ got = [w \in Workers |-> NoCluster]
    /\ region = [w \in Workers |-> ""]
    /\ infra = [w \in Workers |-> NoCluster]
    /\ creds = [w \in Workers |-> NoCluster]
    /\ decision = [w \in Workers |-> "none"]
    /\ outcome = [w \in Workers |-> "none"]
    /\ effect = [w \in Workers |-> FALSE]
    /\ touched = [w \in Workers |-> FALSE]
    /\ bind = FirstBinding
    /\ denoted = [id \in Identifiers |-> {bind[id]}]
    /\ cache = [id \in Identifiers |-> NoCluster]
    /\ fresh = [id \in Identifiers |-> FALSE]
    /\ records = 0
    /\ logged = 0
    /\ header = [w \in Workers |-> 0]
    /\ runs = [w \in Workers |-> 0]
    /\ rebinds = 0

WorkerStep(w) ==
    \/ LookupCached(w) \/ LookupFetch(w) \/ LookupStore(w)
    \/ Authorize(w) \/ GetSession(w) \/ CredentialsArrive(w)
    \/ Execute(w) \/ Change(w) \/ CallFails(w) \/ LogRead(w) \/ LogWrite(w)

Next ==
    \/ \E w \in Workers : WorkerStep(w) \/ \E q \in Requests : Begin(w, q)
    \/ \E id \in Identifiers : CacheExpires(id) \/ \E c \in Clusters \cup {NoCluster} : Rebind(id, c)

Spec == Init /\ [][Next]_vars

\* A worker keeps stepping, and the execution timeout ends every call that leaves
\* the process; no call has to be answered.
Fairness ==
    \A w \in Workers :
        WF_vars(\/ LookupCached(w) \/ LookupStore(w) \/ Authorize(w)
                \/ CallFails(w) \/ LogRead(w) \/ LogWrite(w))

FairSpec == Spec /\ Fairness

-----------------------------------------------------------------------------
(* Properties.                                                             *)

Stages == {"idle", "lookup", "store", "authorize", "session", "credentials",
           "execute", "change", "log", "append"}

KnownRegions == {Region[c] : c \in Clusters} \cup {""}

\* The type of every variable.
TypeOK ==
    /\ pc \in [Workers -> Stages]
    /\ req \in [Workers -> Requests \cup {NoRequest}]
    /\ stage \in [Workers -> {"region", "infra", "clients"}]
    /\ got \in [Workers -> Clusters \cup {NoCluster}]
    /\ infra \in [Workers -> Clusters \cup {NoCluster}]
    /\ creds \in [Workers -> Clusters \cup {NoCluster}]
    /\ region \in [Workers -> KnownRegions]
    /\ decision \in [Workers -> {"none", "allowed", "denied"}]
    /\ outcome \in [Workers -> {"none", "success", "failure", "skipped"}]
    /\ effect \in [Workers -> BOOLEAN] /\ touched \in [Workers -> BOOLEAN]
    /\ bind \in [Identifiers -> Clusters \cup {NoCluster}]
    /\ denoted \in [Identifiers -> SUBSET Clusters]
    /\ cache \in [Identifiers -> Clusters \cup {NoCluster}]
    /\ fresh \in [Identifiers -> BOOLEAN]
    /\ records \in Nat /\ logged \in Nat /\ header \in [Workers -> Nat]
    /\ runs \in [Workers -> 0..MaxRuns] /\ rebinds \in 0..MaxRebinds

\* An AWS write only ever changes an instance tagged for a cluster that the
\* caller's identifier denoted, although three lookups of one run may straddle a
\* cache expiry, a rebinding of the name and another worker's stale store:
\* requireClusterInstance compares with the infrastructure ID of the target.
EffectOnNamedCluster ==
    \A w \in Workers :
        effect[w] /\ Action(w).scope = "aws" => Owner[req[w].instance] \in denoted[req[w].id]

\* An AWS write only ever changes an instance in an allowed region, even when the
\* credentials are those of another cluster than the one authorized: GetClients
\* builds its clients for the region that DeriveTarget resolved.
EffectInAllowedRegion ==
    \A w \in Workers :
        effect[w] /\ Action(w).scope = "aws" => Place[req[w].instance][2] \in AllowedRegions

\* The audit record of a run tells what the run did: a change only under an allowed
\* decision, a denial only if no session and no credentials were asked for, no
\* decision at all only if the run stopped while its target was derived, and
\* success of a write only if the change took effect.
AuditMatchesEffect ==
    \A w \in Workers : pc[w] \in {"log", "append"} =>
        /\ effect[w] => decision[w] = "allowed" /\ outcome[w] # "skipped"
        /\ decision[w] = "denied" => outcome[w] = "skipped" /\ ~touched[w]
        /\ decision[w] = "none" => outcome[w] = "failure" /\ ~touched[w]
        /\ outcome[w] = "success" /\ Action(w).write => effect[w]

\* Every run gives its worker back: awaitCredentials and the execution timeout
\* keep a call that is never answered from holding the worker.
WorkerFreed == \A w \in Workers : (pc[w] # "idle") ~> (pc[w] = "idle")

\* The documentation of dry_run: a preview changes nothing. The code never reads
\* the flag of a claimed execution, so this does not hold.
DryRunHasNoEffect == \A w \in Workers : effect[w] => ~req[w].dryRun

\* The documentation of the executor: every run that reached it leaves exactly one
\* audit record. MockLogger.Log appends to a slice that all workers share without a
\* lock, and two appends that overlap may keep only one record, so this does not hold.
EveryRunRecorded ==
    (\A w \in Workers : pc[w] # "append") => records = logged

-----------------------------------------------------------------------------
(* The inductive invariant behind the safety properties: what a worker may *)
(* rely on at each stage of its run, whatever OCM and the others do.       *)

\* The authorizer has allowed the run, and nothing is recorded of it yet.
PastGate(w) ==
    \/ pc[w] \in {"session", "credentials", "execute", "change"}
    \/ (pc[w] \in {"lookup", "store"} /\ stage[w] = "clients")

\* What OCM answers, and what the cache hands out, was denoted by the identifier.
LookupInv ==
    \A id \in Identifiers :
        /\ bind[id] \in denoted[id] \cup {NoCluster}
        /\ fresh[id] => cache[id] \in denoted[id]

\* A busy worker has a request of a scope, and only AWS ones look clusters up; the
\* answer on its way to the cache and the owner that the ownership check compares
\* with were denoted by the identifier of the request.
TargetInv(w) ==
    /\ pc[w] = "idle" => infra[w] = NoCluster
    /\ pc[w] # "idle" => req[w] \in Requests /\ Action(w).scope # "none"
    /\ pc[w] \in {"lookup", "store", "credentials"} => Action(w).scope = "aws"
    /\ pc[w] = "store" => got[w] \in denoted[req[w].id]
    /\ infra[w] # NoCluster => infra[w] \in denoted[req[w].id]

\* Past the gate the decision still holds for the target as it is now, the region in
\* particular, and a session or credentials were asked for by nobody else.
GateInv(w) ==
    /\ PastGate(w) => Allowed(w)
    /\ touched[w] => PastGate(w) \/ (pc[w] \in {"log", "append"} /\ decision[w] = "allowed")
    /\ pc[w] = "authorize" => stage[w] # "clients"

\* A change is made by a write that was allowed and whose checks hold, and what
\* they were made of stays as it is until the record is written.
ChangeInv(w) ==
    /\ (pc[w] = "change" \/ effect[w]) => Action(w).write /\ Checked(w) /\ Allowed(w)
    /\ effect[w] => pc[w] \in {"log", "append"}

\* The record is empty until the run is over, and then matches what it did.
RecordInv(w) ==
    /\ pc[w] \notin {"log", "append"} => decision[w] = "none" /\ outcome[w] = "none"
    /\ effect[w] => decision[w] = "allowed" /\ outcome[w] # "skipped"
    /\ decision[w] = "denied" => outcome[w] = "skipped"
    /\ pc[w] \in {"log", "append"} /\ decision[w] = "none" => outcome[w] = "failure"
    /\ outcome[w] = "success" /\ Action(w).write => effect[w]

IndInv ==
    /\ TypeOK /\ LookupInv
    /\ \A w \in Workers : TargetInv(w) /\ GateInv(w) /\ ChangeInv(w) /\ RecordInv(w)
=============================================================================
