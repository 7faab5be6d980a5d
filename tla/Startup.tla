------------------------------- MODULE Startup -------------------------------
(***************************************************************************)
(* A server process from its settings to serving: config.Load              *)
(* (internal/config), the checks and constructors of runServer             *)
(* (cmd/server/main.go) in their order, the clamps of worker.New and       *)
(* NewExecutorRunner, ocm.NewClient and awsapi's StaticProvider. Workers   *)
(* start before the listener does, so executions that an earlier process   *)
(* left behind may be claimed and run by a process that never serves.      *)
(***************************************************************************)
EXTENDS Integers, FiniteSets

CONSTANTS
    Environments,   \* environments the deployment may have, see EnvType
    Files,          \* config files, see FileType
    Executions,     \* executions that may be submitted
    ClusterRegions, \* regions that OCM answers with for the clusters
    MaxRestarts     \* bound: restarts of the process

Empty == ""    \* Go's empty string: a setting that is not there

Unset == [set |-> FALSE, parses |-> FALSE, n |-> 0]
NumberType == [set : BOOLEAN, parses : BOOLEAN, n : Int]
ListType == [set : BOOLEAN, items : SUBSET STRING]

\* A variable that holds text is "" when unset. URLs are told apart by scheme, and
\* credentials by whether they are there.
EnvType ==
    [auth : STRING, enableAuth : {Empty, "true", "false", "junk"}, kubeconfig : STRING,
     endpoint : STRING, backplane : {Empty, "http", "https", "junk"}, awsRegion : STRING,
     ocmSecret : BOOLEAN, ocmToken : BOOLEAN, regions : ListType, operations : ListType,
     concurrency : NumberType, pollInterval : NumberType, timeout : NumberType]

\* given: a path was given; ok: the file can be read and parsed.
FileType ==
    [given : BOOLEAN, ok : BOOLEAN, endpoint : STRING, regions : SUBSET STRING,
     operations : SUBSET STRING, roles : SUBSET [id : STRING, amsResource : STRING],
     concurrency : NumberType, pollInterval : NumberType, timeout : NumberType]

ASSUME StartupAssumption ==
    /\ MaxRestarts \in Nat
    /\ Environments \subseteq EnvType /\ Files \subseteq FileType
    /\ \A e \in Environments : e.regions.set \/ e.regions.items = {}

VARIABLES
    env, file,  \* the deployment's settings
    cfg,        \* what Load returned
    pc,         \* the part of runServer that comes next, "serving" or "exited"
    exit,       \* what ended the process
    authn,      \* the middlewares: "real" or "mock"
    ocmClient,  \* whether ocmClient is not nil
    kube, aws,  \* the two ClientProviders
    pool,       \* the pool and its runner, once started
    jwks,       \* whether the handler verifies tokens
    row,        \* the stored executions
    reached,    \* history: what executions reached
    life        \* the number of this process

settings == <<env, file>>
built == <<authn, ocmClient, kube, aws, pool, jwks>>
stored == <<row, reached>>
vars == <<settings, cfg, pc, exit, built, stored, life>>

-----------------------------------------------------------------------------
(* config.Load.                                                            *)

getEnv(value, default) == IF value # Empty THEN value ELSE default

getBoolEnv(value, default) == IF value \in {"true", "false"} THEN value = "true" ELSE default

getIntEnv(value, default) == IF value.set /\ value.parses THEN value.n ELSE default

getDurationEnv(value, default) == IF value.set /\ value.parses THEN value.n ELSE default

getPositiveIntEnv(value, default) ==
    IF getIntEnv(value, default) > 0 THEN getIntEnv(value, default) ELSE default

getPositiveDurationEnv(value, default) ==
    IF getDurationEnv(value, default) > 0 THEN getDurationEnv(value, default) ELSE default

\* Mutant: the environment adds to the config file's list.
getStringSliceEnvAdding(value, default) == value.items \cup default

\* A variable of separators only is set, to an empty list.
getStringSliceEnv(value, default) == IF value.set THEN value.items ELSE default

defaultConcurrency == 4
defaultPollInterval == 5
defaultExecutionTimeout == 120

\* The file's numbers, over the defaults seeded before it is parsed. A number that
\* does not parse makes the file an error.
readConfigFile(f) ==
    LET Over(seed, number) == IF f.given /\ number.set THEN number.n ELSE seed
    IN  [concurrency  |-> Over(defaultConcurrency, f.concurrency),
         pollInterval |-> Over(defaultPollInterval, f.pollInterval),
         timeout      |-> Over(defaultExecutionTimeout, f.timeout),
         endpoint     |-> IF f.given THEN f.endpoint ELSE Empty,
         regions      |-> IF f.given THEN f.regions ELSE {},
         operations   |-> IF f.given THEN f.operations ELSE {},
         roles        |-> IF f.given THEN f.roles ELSE {}]

AuthPolicies == {"enabled", "disabled", "ocmconfig"}

authPolicy(e) ==
    IF e.auth # Empty THEN e.auth
    ELSE IF getBoolEnv(e.enableAuth, TRUE) THEN "enabled" ELSE "disabled"

DefaultAllowedRegions == {}

LoadFails(e, f) == (f.given /\ ~f.ok) \/ authPolicy(e) \notin AuthPolicies

Load(e, f) ==
    LET c == readConfigFile(f)
        awsAllowedRegions == IF c.regions = {} THEN DefaultAllowedRegions ELSE c.regions
    IN  [AuthPolicy             |-> authPolicy(e),
         Kubeconfig             |-> getEnv(e.kubeconfig, Empty),
         AWSEndpointURL         |-> getEnv(e.endpoint, c.endpoint),
         BackplaneURL           |-> getEnv(e.backplane, Empty),
         AWSRegion              |-> getEnv(e.awsRegion, Empty),
         OCM                    |-> [secret |-> e.ocmSecret, token |-> e.ocmToken],
         Roles                  |-> c.roles,
         AWSAllowedRegions      |-> getStringSliceEnv(e.regions, awsAllowedRegions),
         AWSAllowedOperations   |-> getStringSliceEnv(e.operations, c.operations),
         WorkerConcurrency      |-> getPositiveIntEnv(e.concurrency, c.concurrency),
         WorkerPollInterval     |-> getPositiveDurationEnv(e.pollInterval, c.pollInterval),
         WorkerExecutionTimeout |-> getPositiveDurationEnv(e.timeout, c.timeout)]

NoConfig == [AuthPolicy |-> Empty]

-----------------------------------------------------------------------------
(* runServer up to the worker pool.                                        *)

\* logger.Fatal, or an error returned: the process ends, and what it built is gone.
Fatal(reason) ==
    /\ pc' = "exited" /\ exit' = reason
    /\ UNCHANGED <<settings, cfg, built, stored, life>>

\* The part is done, and the next one comes.
Continue(next) == pc' = next /\ UNCHANGED <<settings, exit, stored, life>>

LoadConfig ==
    /\ pc = "load"
    /\ \/ LoadFails(env, file) /\ Fatal("load")
       \/ /\ ~LoadFails(env, file)
          /\ cfg' = Load(env, file)
          /\ Continue("store")
          /\ UNCHANGED built

InitializeStore ==
    /\ pc = "store"
    /\ \/ Continue("auth") /\ UNCHANGED <<cfg, built>>
       \/ Fatal("store")

rolesValid(roles) == roles # {} /\ \A r \in roles : r.id # Empty /\ r.amsResource # Empty

\* buildDefaultConnection: a connection needs tokens or a client secret. That the
\* first token cannot be fetched is no error (newConnection).
buildDefaultConnection(credentials) == credentials.token \/ credentials.secret

\* What ocm.NewClient is given: the settings', or those of the local OCM config.
clientConfigs ==
    IF cfg.AuthPolicy = "enabled" THEN {cfg.OCM} ELSE [secret : BOOLEAN, token : BOOLEAN]

SetupAuth ==
    /\ pc = "auth" /\ cfg.AuthPolicy \in {"enabled", "ocmconfig"}
    /\ \/ ~rolesValid(cfg.Roles) /\ Fatal("roles")
       \/ /\ rolesValid(cfg.Roles)
          /\ \E c \in clientConfigs : buildDefaultConnection(c)
          /\ authn' = "real" /\ ocmClient' = TRUE
          /\ Continue("kube")
          /\ UNCHANGED <<cfg, kube, aws, pool, jwks>>
       \/ rolesValid(cfg.Roles) /\ Fatal("ocm")

\* What mock auth is refused for, "" for nothing.
mockGuard ==
    IF cfg.Kubeconfig = Empty THEN "kubeconfig"
    ELSE IF cfg.AWSEndpointURL = Empty THEN "endpoint" ELSE Empty

SetupMockAuth ==
    /\ pc = "auth" /\ cfg.AuthPolicy = "disabled"
    /\ \/ mockGuard # Empty /\ Fatal(mockGuard)
       \/ /\ mockGuard = Empty
          /\ authn' = "mock"
          /\ Continue("kube")
          /\ UNCHANGED <<cfg, ocmClient, kube, aws, pool, jwks>>

\* Mutant: a backplane URL is preferred to the kubeconfig.
kubeChoicePreferringURL == IF cfg.BackplaneURL = "https" \/ cfg.Kubeconfig = Empty THEN "backplane" ELSE "kubeconfig"

kubeChoice == IF cfg.Kubeconfig # Empty THEN "kubeconfig" ELSE "backplane"

\* The token connection and the backplane client are built without a call.
SetupKube ==
    /\ pc = "kube"
    /\ \/ /\ kubeChoice = "kubeconfig" \/ cfg.BackplaneURL = "https"
          /\ kube' = kubeChoice
          /\ Continue("regions")
          /\ UNCHANGED <<cfg, authn, ocmClient, aws, pool, jwks>>
       \/ kubeChoice = "backplane" /\ cfg.BackplaneURL # "https" /\ Fatal("https")
       \/ kubeChoice = "backplane" /\ cfg.BackplaneURL = "https" /\ Fatal("backplane")

CheckRegions ==
    /\ pc = "regions"
    /\ \/ cfg.AWSAllowedRegions = {} /\ Fatal("regions")
       \/ cfg.AWSAllowedRegions # {} /\ Continue("aws") /\ UNCHANGED <<cfg, built>>

\* ocmClient.Connection fails only for a connection that is not the SDK's, which
\* buildDefaultConnection never returns.
SetupAWS ==
    /\ pc = "aws"
    /\ \/ cfg.AWSEndpointURL = Empty /\ ~ocmClient /\ Fatal("nilOCM")
       \/ /\ cfg.AWSEndpointURL # Empty \/ ocmClient
          /\ aws' = IF cfg.AWSEndpointURL # Empty THEN "static" ELSE "cloud"
          /\ Continue("workers")
          /\ UNCHANGED <<cfg, authn, ocmClient, kube, pool, jwks>>

-----------------------------------------------------------------------------
(* The worker pool, the handler and the listener.                          *)

NoPool == [concurrency |-> 0, pollInterval |-> 0, timeout |-> 0]

NewExecutorRunner(timeout) == IF timeout <= 0 THEN defaultExecutionTimeout ELSE timeout

\* Mutant: the pool takes its settings as they are.
NewUnclamped(concurrency, pollInterval) == <<concurrency, pollInterval>>

\* worker.New: the clamps on concurrency and poll interval.
New(concurrency, pollInterval) ==
    <<IF concurrency < 1 THEN 1 ELSE concurrency,
      IF pollInterval <= 0 THEN defaultPollInterval ELSE pollInterval>>

StartWorkers ==
    /\ pc = "workers"
    /\ LET n == New(cfg.WorkerConcurrency, cfg.WorkerPollInterval)
       IN  pool' = [concurrency |-> n[1], pollInterval |-> n[2],
                    timeout |-> NewExecutorRunner(cfg.WorkerExecutionTimeout)]
    /\ Continue("handler")
    /\ UNCHANGED <<cfg, authn, ocmClient, kube, aws, jwks>>

verifiesTokens == cfg.AuthPolicy # "disabled"

\* Building the JWKS handler may fail, with the workers already running.
BuildHandler ==
    /\ pc = "handler"
    /\ \/ /\ jwks' = verifiesTokens
          /\ Continue("listen")
          /\ UNCHANGED <<cfg, authn, ocmClient, kube, aws, pool>>
       \/ verifiesTokens /\ Fatal("jwks")

ListenAndServe ==
    /\ pc = "listen"
    /\ \/ Continue("serving") /\ UNCHANGED <<cfg, built>>
       \/ Fatal("listen")

-----------------------------------------------------------------------------
(* Executions.                                                             *)

NoRow == [status |-> "none", identity |-> Empty, owner |-> 0]

\* Who a request comes from: the real middleware finds no token in the context
\* unless the JWKS handler put it there.
callerIdentity == IF authn = "mock" THEN "dev-user" ELSE IF jwks THEN "caller" ELSE Empty

Submit(e) ==
    /\ pc = "serving"
    /\ row[e].status = "none" /\ callerIdentity # Empty
    /\ row' = [row EXCEPT ![e].status = "pending", ![e].identity = callerIdentity]
    /\ UNCHANGED <<settings, cfg, pc, exit, built, reached, life>>

\* Mutant: workers claim from the moment the store is there.
workersRunningEarly == pc \in {"auth", "kube", "regions", "aws", "workers", "handler", "listen", "serving"}

workersRunning == pc \in {"handler", "listen", "serving"}

\* How many executions a pool runs at once is the matter of ExecutionQueue.
Claim(e) ==
    /\ workersRunning
    /\ row[e].status = "pending"
    /\ row' = [row EXCEPT ![e].status = "running", ![e].owner = life]
    /\ UNCHANGED <<settings, cfg, pc, exit, built, reached, life>>

\* DefaultRegion of the provider: StaticProvider's is configured, once for all.
regionsOf == IF aws = "static" THEN {cfg.AWSRegion} ELSE ClusterRegions

\* ClusterInfraID: runServer gives StaticProvider none.
infraID == IF aws = "static" THEN Empty ELSE "cluster"

\* requireClusterInstance refuses a write without an infrastructure ID.
ownership(op) == op # Empty => infraID # Empty

\* awsAuthorizer: the region and, for a write, its operation are allowed.
awsAllowed(region, op) ==
    region \in cfg.AWSAllowedRegions /\ op \in cfg.AWSAllowedOperations \cup {Empty}

\* What an execution of this process reaches: the cluster through one provider, or
\* AWS through the other, in a region and with an operation ("" for a read).
Effects ==
    {[provider |-> kube, region |-> Empty, op |-> Empty]} \cup
    {[provider |-> aws, region |-> r, op |-> op] :
        r \in {s \in regionsOf : s # Empty}, op \in {Empty, "reboot"}}

Permitted(f) ==
    f.provider \in {"static", "cloud"} => awsAllowed(f.region, f.op) /\ ownership(f.op)

\* A worker of this process runs an execution, which reaches something or fails.
Run(e) ==
    /\ workersRunning
    /\ row[e].status = "running" /\ row[e].owner = life
    /\ row' = [row EXCEPT ![e].status = "done"]
    /\ \/ UNCHANGED reached
       \/ \E f \in {g \in Effects : Permitted(g)} :
            reached' = reached \cup {[identity |-> row[e].identity, effect |-> f]}
    /\ UNCHANGED <<settings, cfg, pc, exit, built, life>>

-----------------------------------------------------------------------------
(* The process ends, and a new one starts with the same settings.          *)

Crash ==
    /\ pc # "exited"
    /\ Fatal("crash")

Restart ==
    /\ pc = "exited" /\ life <= MaxRestarts
    /\ pc' = "load" /\ exit' = Empty /\ life' = life + 1
    /\ cfg' = NoConfig
    /\ authn' = Empty /\ ocmClient' = FALSE /\ kube' = Empty /\ aws' = Empty
    /\ pool' = NoPool /\ jwks' = FALSE
    /\ UNCHANGED <<settings, stored>>

Init ==
    /\ env \in Environments /\ file \in Files
    /\ cfg = NoConfig
    /\ pc = "load" /\ exit = Empty /\ life = 1
    /\ authn = Empty /\ ocmClient = FALSE /\ kube = Empty /\ aws = Empty
    /\ pool = NoPool /\ jwks = FALSE
    /\ row = [e \in Executions |-> NoRow]
    /\ reached = {}

Next ==
    \/ LoadConfig \/ InitializeStore \/ SetupAuth \/ SetupMockAuth \/ SetupKube
    \/ CheckRegions \/ SetupAWS \/ StartWorkers \/ BuildHandler \/ ListenAndServe
    \/ \E e \in Executions : Submit(e) \/ Claim(e) \/ Run(e)
    \/ Crash \/ Restart

Spec == Init /\ [][Next]_vars

-----------------------------------------------------------------------------
(* Properties.                                                             *)

\* The type of every variable.
TypeOK ==
    /\ env \in Environments /\ file \in Files
    /\ cfg \in {NoConfig, Load(env, file)}
    /\ pc \in {"load", "store", "auth", "kube", "regions", "aws", "workers", "handler", "listen",
               "serving", "exited"}
    /\ exit = Empty <=> pc # "exited"
    /\ authn \in {Empty, "real", "mock"}
    /\ kube \in {Empty, "kubeconfig", "backplane"} /\ aws \in {Empty, "static", "cloud"}
    /\ ocmClient \in BOOLEAN /\ jwks \in BOOLEAN
    /\ pool # NoPool => pool \in [concurrency : Nat \ {0}, pollInterval : Nat, timeout : Nat]
    /\ row \in [Executions -> [status : {"none", "pending", "running", "done"},
                               identity : {Empty, "caller", "dev-user"}, owner : 0..(MaxRestarts + 1)]]
    /\ life \in 1..(MaxRestarts + 1)

\* Running workers have a positive poll interval (time.NewTicker panics otherwise),
\* at least one goroutine and a time limit, whatever the environment and the file
\* say: a value that getPositive... refuses falls back to the file's, which may be
\* zero or negative itself.
WorkersCanRun ==
    workersRunning => pool.concurrency > 0 /\ pool.pollInterval > 0 /\ pool.timeout > 0

\* An execution accepted without authentication reaches the kubeconfig's cluster and
\* the emulator only, also when another process of the deployment runs it.
MockIdentityStaysLocal ==
    \A r \in reached : r.identity = "dev-user" => r.effect.provider \in {"kubeconfig", "static"}

\* AWS is reached only in regions the deployment named, those of the variable alone
\* if it is set; and a process that would have none runs nothing.
RegionsStated ==
    /\ \A r \in reached : r.effect.provider \in {"static", "cloud"} =>
        r.effect.region \in (IF env.regions.set THEN env.regions.items ELSE file.regions)
    /\ workersRunning => cfg.AWSAllowedRegions # {}

\* A process that one of runServer's checks refuses has claimed no execution: what it
\* would leave behind in status running, nothing picks up again.
RefusedClaimsNothing ==
    exit \in {"load", "store", "roles", "ocm", "kubeconfig", "endpoint", "https", "backplane",
              "regions", "nilOCM"}
        => \A e \in Executions : row[e].owner # life

-----------------------------------------------------------------------------
(* The inductive invariant behind the properties: what runServer has       *)
(* established when it gets to a part, and what outlives the process.      *)

\* The settings of the deployment as any of its processes loads them.
Loaded == Load(env, file)

\* runServer has got past the part, and the process still runs.
PastAuth    == pc \in {"kube", "regions", "aws", "workers", "handler", "listen", "serving"}
PastKube    == pc \in {"regions", "aws", "workers", "handler", "listen", "serving"}
PastRegions == pc \in {"aws", "workers", "handler", "listen", "serving"}
PastAWS     == pc \in {"workers", "handler", "listen", "serving"}

\* A deployment whose executions reach nothing but a kubeconfig's cluster and an
\* emulator, in every one of its processes.
LocalDeployment == Loaded.Kubeconfig # Empty /\ Loaded.AWSEndpointURL # Empty

\* What was built is what the settings say, and mock auth only for a local deployment.
BuiltInv ==
    /\ pc \notin {"load", "exited"} => cfg = Loaded
    /\ PastAuth /\ authn = "mock" => LocalDeployment
    /\ PastKube => kube = kubeChoice
    /\ PastRegions => cfg.AWSAllowedRegions # {}
    /\ PastAWS => aws = IF cfg.AWSEndpointURL # Empty THEN "static" ELSE "cloud"
    /\ workersRunning => pool.concurrency > 0 /\ pool.pollInterval > 0 /\ pool.timeout > 0

\* An execution without an authenticated caller belongs to a local deployment; one that
\* this process claimed was claimed by its workers, which no later check refuses.
RowInv ==
    \A e \in Executions :
        /\ row[e].identity = "dev-user" => LocalDeployment
        /\ row[e].owner <= life
        /\ row[e].owner = life => workersRunning \/ exit \in {"jwks", "listen", "crash"}

\* What was reached, by this process or an earlier one, was reached as Loaded says.
ReachedInv ==
    \A r \in reached :
        /\ r.identity = "dev-user" => r.effect.provider \in {"kubeconfig", "static"}
        /\ r.effect.provider \in {"static", "cloud"} => r.effect.region \in Loaded.AWSAllowedRegions

IndInv == TypeOK /\ BuiltInv /\ RowInv /\ ReachedInv
=============================================================================
