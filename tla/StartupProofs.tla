---------------------------- MODULE StartupProofs ----------------------------
(***************************************************************************)
(* For every environment, config file and set of regions, any number of    *)
(* executions and any number of restarts: running workers have settings    *)
(* that they can run with, unauthenticated executions stay local, AWS is   *)
(* reached in the stated regions only, and a process that a check refuses  *)
(* has claimed nothing. All follow from IndInv.                            *)
(***************************************************************************)
EXTENDS Startup, TLAPS

\* The reasons for which a process ends are no empty strings.
LEMMA ReasonsStated ==
  /\ "load" # Empty /\ "store" # Empty /\ "roles" # Empty /\ "ocm" # Empty
  /\ "kubeconfig" # Empty /\ "endpoint" # Empty /\ "https" # Empty /\ "backplane" # Empty
  /\ "regions" # Empty /\ "nilOCM" # Empty /\ "jwks" # Empty /\ "listen" # Empty
  /\ "crash" # Empty
BY Zenon DEF Empty

\* Load keeps numbers numbers: those of the environment, of the file, or the defaults.
LEMMA LoadNumbers ==
  ASSUME NEW e \in Environments, NEW f \in Files
  PROVE /\ Load(e, f).WorkerConcurrency \in Int
        /\ Load(e, f).WorkerPollInterval \in Int
        /\ Load(e, f).WorkerExecutionTimeout \in Int
<1>1. e.concurrency \in NumberType /\ e.pollInterval \in NumberType /\ e.timeout \in NumberType
  BY StartupAssumption DEF EnvType
<1>2. f.concurrency \in NumberType /\ f.pollInterval \in NumberType /\ f.timeout \in NumberType
  BY StartupAssumption DEF FileType
<1>3. /\ readConfigFile(f).concurrency \in Int
      /\ readConfigFile(f).pollInterval \in Int
      /\ readConfigFile(f).timeout \in Int
  BY <1>2 DEF readConfigFile, NumberType, defaultConcurrency, defaultPollInterval,
     defaultExecutionTimeout
<1>4. /\ getPositiveIntEnv(e.concurrency, readConfigFile(f).concurrency) \in Int
      /\ getPositiveDurationEnv(e.pollInterval, readConfigFile(f).pollInterval) \in Int
      /\ getPositiveDurationEnv(e.timeout, readConfigFile(f).timeout) \in Int
  BY <1>1, <1>3 DEF NumberType, getPositiveIntEnv, getPositiveDurationEnv, getIntEnv,
     getDurationEnv
<1> QED
  BY <1>4 DEF Load

\* The allowed regions are the variable's if it is set, and otherwise some of the file's.
LEMMA LoadRegions ==
  ASSUME NEW e, NEW f
  PROVE Load(e, f).AWSAllowedRegions \subseteq (IF e.regions.set THEN e.regions.items ELSE f.regions)
<1>1. readConfigFile(f).regions \subseteq f.regions
  BY DEF readConfigFile
<1>2. Load(e, f).AWSAllowedRegions =
         getStringSliceEnv(e.regions, IF readConfigFile(f).regions = {} THEN DefaultAllowedRegions
                                      ELSE readConfigFile(f).regions)
  BY DEF Load
<1> QED
  BY <1>1, <1>2 DEF getStringSliceEnv, DefaultAllowedRegions

\* The settings stay, and so does what any process makes of them.
LEMMA SettingsStay == UNCHANGED settings => Loaded' = Loaded /\ LocalDeployment' = LocalDeployment
BY DEF settings, Loaded, LocalDeployment

\* The invariant holds when the first process starts.
LEMMA InitEstablishes == Init => IndInv
<1> SUFFICES ASSUME Init PROVE IndInv
  OBVIOUS
<1>1. TypeOK
  <2>1. row \in [Executions -> [status : {"none", "pending", "running", "done"},
                                identity : {Empty, "caller", "dev-user"},
                                owner : 0..(MaxRestarts + 1)]]
    <3>1. row = [e \in Executions |-> NoRow]
      BY DEF Init
    <3>2. 0 \in 0..(MaxRestarts + 1)
      BY StartupAssumption
    <3> QED
      BY <3>1, <3>2 DEF NoRow
  <2>2. life = 1
    BY DEF Init
  <2>3. life \in 1..(MaxRestarts + 1)
    BY <2>2, StartupAssumption
  <2> QED
    BY <2>1, <2>3 DEF Init, TypeOK
<1>2. BuiltInv
  BY DEF Init, BuiltInv, PastAuth, PastKube, PastRegions, PastAWS, workersRunning
<1>3. RowInv
  <2>1. life = 1 /\ \A e \in Executions : row[e].owner = 0 /\ row[e].identity = Empty
    BY DEF Init, NoRow
  <2>2. Empty # "dev-user"
    BY Zenon DEF Empty
  <2> QED
    BY <2>1, <2>2 DEF RowInv
<1>4. ReachedInv
  BY DEF Init, ReachedInv
<1> QED
  BY <1>1, <1>2, <1>3, <1>4 DEF IndInv

\* A step of runServer to a part that is not yet, or still, one of running workers
\* leaves what is stored as it should be.
LEMMA StoredKept ==
  ASSUME IndInv, UNCHANGED settings, UNCHANGED stored, life' = life, exit' = exit,
         workersRunning => workersRunning'
  PROVE RowInv' /\ ReachedInv'
<1>1. Loaded' = Loaded /\ LocalDeployment' = LocalDeployment
  BY SettingsStay
<1> QED
  BY <1>1 DEF IndInv, RowInv, ReachedInv, stored

\* The process ends: on a refusal before the workers, or for a reason that may find
\* them running.
LEMMA FatalKeeps ==
  ASSUME IndInv, NEW reason, reason # Empty, pc # "exited", Fatal(reason),
         ~workersRunning \/ reason \in {"jwks", "listen", "crash"}
  PROVE IndInv'
<1> USE DEF settings, built, stored
<1>0. Loaded' = Loaded /\ LocalDeployment' = LocalDeployment
  BY SettingsStay DEF Fatal
<1>1. TypeOK'
  BY DEF IndInv, TypeOK, Fatal
<1>2. BuiltInv'
  BY DEF Fatal, BuiltInv, PastAuth, PastKube, PastRegions, PastAWS, workersRunning
<1>3. exit = Empty /\ Empty \notin {"jwks", "listen", "crash"}
  BY ReasonsStated DEF IndInv, TypeOK
<1>4. RowInv'
  BY <1>0, <1>3 DEF IndInv, RowInv, Fatal
<1>5. ReachedInv'
  BY <1>0 DEF IndInv, ReachedInv, Fatal
<1> QED
  BY <1>1, <1>2, <1>4, <1>5 DEF IndInv

\* The settings are loaded, or cannot be.
LEMMA LoadKeeps == IndInv /\ LoadConfig => IndInv'
<1> SUFFICES ASSUME IndInv, LoadConfig PROVE IndInv'
  OBVIOUS
<1> USE DEF settings, built
<1>0. TypeOK /\ BuiltInv /\ pc = "load"
  BY DEF IndInv, LoadConfig
<1>1. CASE Fatal("load")
  BY <1>0, <1>1, FatalKeeps, ReasonsStated DEF workersRunning
<1>2. CASE /\ ~LoadFails(env, file)
           /\ cfg' = Load(env, file)
           /\ Continue("store")
           /\ UNCHANGED built
  <2>1. Loaded' = Loaded /\ LocalDeployment' = LocalDeployment
    BY <1>2, SettingsStay DEF Continue
  <2>2. TypeOK'
    BY <1>0, <1>2, <2>1 DEF TypeOK, Continue, stored, Loaded, Loaded
  <2>3. BuiltInv'
    BY <1>0, <1>2, <2>1 DEF BuiltInv, PastAuth, PastKube, PastRegions, PastAWS, workersRunning,
       Continue, kubeChoice, Loaded
  <2>4. RowInv' /\ ReachedInv'
    BY <1>0, <1>2, StoredKept DEF Continue, workersRunning
  <2> QED
    BY <2>2, <2>3, <2>4 DEF IndInv
<1> QED
  BY <1>1, <1>2 DEF LoadConfig

\* The store is opened, or cannot be.
LEMMA StoreKeeps == IndInv /\ InitializeStore => IndInv'
<1> SUFFICES ASSUME IndInv, InitializeStore PROVE IndInv'
  OBVIOUS
<1> USE DEF settings, built
<1>0. TypeOK /\ BuiltInv /\ pc = "store"
  BY DEF IndInv, InitializeStore
<1>1. CASE Fatal("store")
  BY <1>0, <1>1, FatalKeeps, ReasonsStated DEF workersRunning
<1>2. CASE Continue("auth") /\ UNCHANGED <<cfg, built>>
  <2>1. Loaded' = Loaded /\ LocalDeployment' = LocalDeployment
    BY <1>2, SettingsStay DEF Continue
  <2>2. TypeOK'
    BY <1>0, <1>2, <2>1 DEF TypeOK, Continue, stored, Loaded
  <2>3. BuiltInv'
    BY <1>0, <1>2, <2>1 DEF BuiltInv, PastAuth, PastKube, PastRegions, PastAWS, workersRunning,
       Continue, kubeChoice
  <2>4. RowInv' /\ ReachedInv'
    BY <1>0, <1>2, StoredKept DEF Continue, workersRunning
  <2> QED
    BY <2>2, <2>3, <2>4 DEF IndInv
<1> QED
  BY <1>1, <1>2 DEF InitializeStore

\* The middlewares that authenticate are built, or the settings do not do.
LEMMA AuthKeeps == IndInv /\ SetupAuth => IndInv'
<1> SUFFICES ASSUME IndInv, SetupAuth PROVE IndInv'
  OBVIOUS
<1> USE DEF settings, built
<1>0. TypeOK /\ BuiltInv /\ pc = "auth"
  BY DEF IndInv, SetupAuth
<1>1. CASE Fatal("roles")
  BY <1>0, <1>1, FatalKeeps, ReasonsStated DEF workersRunning
<1>2. CASE Fatal("ocm")
  BY <1>0, <1>2, FatalKeeps, ReasonsStated DEF workersRunning
<1>3. CASE /\ authn' = "real"
           /\ ocmClient' = TRUE
           /\ Continue("kube")
           /\ UNCHANGED <<cfg, kube, aws, pool, jwks>>
  <2>1. Loaded' = Loaded /\ LocalDeployment' = LocalDeployment
    BY <1>3, SettingsStay DEF Continue
  <2>2. TypeOK'
    BY <1>0, <1>3, <2>1 DEF TypeOK, Continue, stored, Loaded
  <2>3. BuiltInv'
    BY <1>0, <1>3, <2>1 DEF BuiltInv, PastAuth, PastKube, PastRegions, PastAWS, workersRunning,
       Continue, kubeChoice
  <2>4. RowInv' /\ ReachedInv'
    BY <1>0, <1>3, StoredKept DEF Continue, workersRunning
  <2> QED
    BY <2>2, <2>3, <2>4 DEF IndInv
<1> QED
  BY <1>1, <1>2, <1>3 DEF SetupAuth

\* Mock auth is set up, for a local deployment only.
LEMMA MockAuthKeeps == IndInv /\ SetupMockAuth => IndInv'
<1> SUFFICES ASSUME IndInv, SetupMockAuth PROVE IndInv'
  OBVIOUS
<1> USE DEF settings, built
<1>0. TypeOK /\ BuiltInv /\ pc = "auth"
  BY DEF IndInv, SetupMockAuth
<1>1. CASE Fatal(mockGuard) /\ (mockGuard # Empty)
  BY <1>0, <1>1, FatalKeeps, ReasonsStated DEF workersRunning, mockGuard
<1>2. CASE /\ mockGuard = Empty /\ authn' = "mock" /\ Continue("kube")
           /\ UNCHANGED <<cfg, ocmClient, kube, aws, pool, jwks>>
  <2>1. Loaded' = Loaded /\ LocalDeployment' = LocalDeployment
    BY <1>2, SettingsStay DEF Continue
  <2>2. TypeOK'
    BY <1>0, <1>2, <2>1 DEF TypeOK, Continue, stored, Loaded
  <2>b. LocalDeployment
    BY <1>0, <1>2, ReasonsStated DEF BuiltInv, mockGuard, LocalDeployment
  <2>3. BuiltInv'
    BY <1>0, <1>2, <2>1, <2>b DEF BuiltInv, PastAuth, PastKube, PastRegions, PastAWS,
       workersRunning, Continue, kubeChoice
  <2>4. RowInv' /\ ReachedInv'
    BY <1>0, <1>2, StoredKept DEF Continue, workersRunning
  <2> QED
    BY <2>2, <2>3, <2>4 DEF IndInv
<1> QED
  BY <1>1, <1>2 DEF SetupMockAuth

\* The provider of Kubernetes clients is chosen.
LEMMA KubeKeeps == IndInv /\ SetupKube => IndInv'
<1> SUFFICES ASSUME IndInv, SetupKube PROVE IndInv'
  OBVIOUS
<1> USE DEF settings, built
<1>0. TypeOK /\ BuiltInv /\ pc = "kube"
  BY DEF IndInv, SetupKube
<1>1. CASE Fatal("https")
  BY <1>0, <1>1, FatalKeeps, ReasonsStated DEF workersRunning
<1>2. CASE Fatal("backplane")
  BY <1>0, <1>2, FatalKeeps, ReasonsStated DEF workersRunning
<1>3. CASE /\ kube' = kubeChoice
           /\ Continue("regions")
           /\ UNCHANGED <<cfg, authn, ocmClient, aws, pool, jwks>>
  <2>1. Loaded' = Loaded /\ LocalDeployment' = LocalDeployment
    BY <1>3, SettingsStay DEF Continue
  <2>t. kubeChoice \in {Empty, "kubeconfig", "backplane"}
    BY DEF kubeChoice
  <2>2. TypeOK'
    BY <1>0, <1>3, <2>1, <2>t DEF TypeOK, Continue, stored, Loaded
  <2>3. BuiltInv'
    BY <1>0, <1>3, <2>1 DEF BuiltInv, PastAuth, PastKube, PastRegions, PastAWS, workersRunning,
       Continue, kubeChoice
  <2>4. RowInv' /\ ReachedInv'
    BY <1>0, <1>3, StoredKept DEF Continue, workersRunning
  <2> QED
    BY <2>2, <2>3, <2>4 DEF IndInv
<1> QED
  BY <1>1, <1>2, <1>3 DEF SetupKube

\* The allowed regions are looked at.
LEMMA RegionsKeep == IndInv /\ CheckRegions => IndInv'
<1> SUFFICES ASSUME IndInv, CheckRegions PROVE IndInv'
  OBVIOUS
<1> USE DEF settings, built
<1>0. TypeOK /\ BuiltInv /\ pc = "regions"
  BY DEF IndInv, CheckRegions
<1>1. CASE Fatal("regions")
  BY <1>0, <1>1, FatalKeeps, ReasonsStated DEF workersRunning
<1>2. CASE cfg.AWSAllowedRegions # {} /\ Continue("aws") /\ UNCHANGED <<cfg, built>>
  <2>1. Loaded' = Loaded /\ LocalDeployment' = LocalDeployment
    BY <1>2, SettingsStay DEF Continue
  <2>2. TypeOK'
    BY <1>0, <1>2, <2>1 DEF TypeOK, Continue, stored, Loaded
  <2>3. BuiltInv'
    BY <1>0, <1>2, <2>1 DEF BuiltInv, PastAuth, PastKube, PastRegions, PastAWS, workersRunning,
       Continue, kubeChoice
  <2>4. RowInv' /\ ReachedInv'
    BY <1>0, <1>2, StoredKept DEF Continue, workersRunning
  <2> QED
    BY <2>2, <2>3, <2>4 DEF IndInv
<1> QED
  BY <1>1, <1>2 DEF CheckRegions

\* The provider of AWS clients is chosen.
LEMMA AWSKeeps == IndInv /\ SetupAWS => IndInv'
<1> SUFFICES ASSUME IndInv, SetupAWS PROVE IndInv'
  OBVIOUS
<1> USE DEF settings, built
<1>0. TypeOK /\ BuiltInv /\ pc = "aws"
  BY DEF IndInv, SetupAWS
<1>1. CASE Fatal("nilOCM")
  BY <1>0, <1>1, FatalKeeps, ReasonsStated DEF workersRunning
<1>2. CASE /\ aws' = IF cfg.AWSEndpointURL # Empty THEN "static" ELSE "cloud"
           /\ Continue("workers") /\ UNCHANGED <<cfg, authn, ocmClient, kube, pool, jwks>>
  <2>1. Loaded' = Loaded /\ LocalDeployment' = LocalDeployment
    BY <1>2, SettingsStay DEF Continue
  <2>2. TypeOK'
    BY <1>0, <1>2, <2>1 DEF TypeOK, Continue, stored, Loaded
  <2>3. BuiltInv'
    BY <1>0, <1>2, <2>1 DEF BuiltInv, PastAuth, PastKube, PastRegions, PastAWS, workersRunning,
       Continue, kubeChoice
  <2>4. RowInv' /\ ReachedInv'
    BY <1>0, <1>2, StoredKept DEF Continue, workersRunning
  <2> QED
    BY <2>2, <2>3, <2>4 DEF IndInv
<1> QED
  BY <1>1, <1>2 DEF SetupAWS

\* The workers start with clamped settings.
LEMMA WorkersKeep == IndInv /\ StartWorkers => IndInv'
<1> SUFFICES ASSUME IndInv, StartWorkers PROVE IndInv'
  OBVIOUS
<1> USE DEF settings, built
<1>0. TypeOK /\ BuiltInv /\ pc = "workers" /\ cfg = Loaded
  BY DEF IndInv, StartWorkers, BuiltInv
<1>1. /\ cfg.WorkerConcurrency \in Int /\ cfg.WorkerPollInterval \in Int
      /\ cfg.WorkerExecutionTimeout \in Int
  BY <1>0, LoadNumbers DEF Loaded, TypeOK
<1>2. PICK n : n = New(cfg.WorkerConcurrency, cfg.WorkerPollInterval)
  OBVIOUS
<1>3. pool' = [concurrency |-> n[1], pollInterval |-> n[2],
               timeout |-> NewExecutorRunner(cfg.WorkerExecutionTimeout)]
  BY <1>2 DEF StartWorkers
<1>4. n[1] \in Nat /\ n[1] > 0 /\ n[2] \in Nat /\ n[2] > 0
  BY <1>1, <1>2 DEF New, defaultPollInterval
<1>5. /\ NewExecutorRunner(cfg.WorkerExecutionTimeout) \in Nat
      /\ NewExecutorRunner(cfg.WorkerExecutionTimeout) > 0
  BY <1>1 DEF NewExecutorRunner, defaultExecutionTimeout
<1>6. /\ pool' \in [concurrency : Nat \ {0}, pollInterval : Nat, timeout : Nat]
      /\ pool'.concurrency > 0 /\ pool'.pollInterval > 0 /\ pool'.timeout > 0
  BY <1>3, <1>4, <1>5
<1>7. /\ pc' = "handler"
      /\ UNCHANGED <<settings, exit, stored, life, cfg, authn, ocmClient, kube, aws, jwks>>
  BY DEF StartWorkers, Continue
<1>8. Loaded' = Loaded /\ LocalDeployment' = LocalDeployment
  BY <1>7, SettingsStay
<1>9. TypeOK'
  BY <1>0, <1>6, <1>7, <1>8 DEF TypeOK, stored, Loaded
<1>10. BuiltInv'
  BY <1>0, <1>6, <1>7, <1>8 DEF BuiltInv, PastAuth, PastKube, PastRegions, PastAWS, kubeChoice
<1>11. RowInv' /\ ReachedInv'
  BY <1>0, <1>7, StoredKept DEF workersRunning
<1> QED
  BY <1>9, <1>10, <1>11 DEF IndInv

\* The handler is built, or the keys it needs cannot be fetched.
LEMMA HandlerKeeps == IndInv /\ BuildHandler => IndInv'
<1> SUFFICES ASSUME IndInv, BuildHandler PROVE IndInv'
  OBVIOUS
<1> USE DEF settings, built
<1>0. TypeOK /\ BuiltInv /\ pc = "handler"
  BY DEF IndInv, BuildHandler
<1>1. CASE Fatal("jwks")
  BY <1>0, <1>1, FatalKeeps, ReasonsStated DEF workersRunning
<1>2. CASE /\ jwks' = verifiesTokens
           /\ Continue("listen")
           /\ UNCHANGED <<cfg, authn, ocmClient, kube, aws, pool>>
  <2>1. Loaded' = Loaded /\ LocalDeployment' = LocalDeployment
    BY <1>2, SettingsStay DEF Continue
  <2>2. TypeOK'
    BY <1>0, <1>2, <2>1 DEF TypeOK, Continue, stored, Loaded, verifiesTokens
  <2>3. BuiltInv'
    BY <1>0, <1>2, <2>1 DEF BuiltInv, PastAuth, PastKube, PastRegions, PastAWS, workersRunning,
       Continue, kubeChoice, verifiesTokens
  <2>4. RowInv' /\ ReachedInv'
    BY <1>0, <1>2, StoredKept DEF Continue, workersRunning
  <2> QED
    BY <2>2, <2>3, <2>4 DEF IndInv
<1> QED
  BY <1>1, <1>2 DEF BuildHandler

\* The listener serves, or cannot.
LEMMA ListenKeeps == IndInv /\ ListenAndServe => IndInv'
<1> SUFFICES ASSUME IndInv, ListenAndServe PROVE IndInv'
  OBVIOUS
<1> USE DEF settings, built
<1>0. TypeOK /\ BuiltInv /\ pc = "listen"
  BY DEF IndInv, ListenAndServe
<1>1. CASE Fatal("listen")
  BY <1>0, <1>1, FatalKeeps, ReasonsStated DEF workersRunning
<1>2. CASE Continue("serving") /\ UNCHANGED <<cfg, built>>
  <2>1. Loaded' = Loaded /\ LocalDeployment' = LocalDeployment
    BY <1>2, SettingsStay DEF Continue
  <2>2. TypeOK'
    BY <1>0, <1>2, <2>1 DEF TypeOK, Continue, stored, Loaded
  <2>3. BuiltInv'
    BY <1>0, <1>2, <2>1 DEF BuiltInv, PastAuth, PastKube, PastRegions, PastAWS, workersRunning,
       Continue, kubeChoice
  <2>4. RowInv' /\ ReachedInv'
    BY <1>0, <1>2, StoredKept DEF Continue, workersRunning
  <2> QED
    BY <2>2, <2>3, <2>4 DEF IndInv
<1> QED
  BY <1>1, <1>2 DEF ListenAndServe

\* An execution is submitted by a caller, or by the development user of mock auth.
LEMMA SubmitKeeps ==
  ASSUME IndInv, NEW e \in Executions, Submit(e)
  PROVE IndInv'
<1> USE DEF settings, built
<1>0. TypeOK /\ BuiltInv /\ RowInv /\ pc = "serving"
  BY DEF IndInv, Submit
<1>1. UNCHANGED <<settings, cfg, pc, exit, built, reached, life>>
  BY DEF Submit
<1>2. Loaded' = Loaded /\ LocalDeployment' = LocalDeployment
  BY <1>1, SettingsStay
<1>3. callerIdentity \in {Empty, "caller", "dev-user"}
  BY DEF callerIdentity
<1>4. callerIdentity = "dev-user" => LocalDeployment
  <2>1. Empty # "dev-user"
    BY Zenon DEF Empty
  <2> QED
    BY <1>0, <2>1 DEF callerIdentity, BuiltInv, PastAuth
<1>5. /\ \A x \in Executions \ {e} : row'[x] = row[x]
      /\ row'[e].identity = callerIdentity /\ row'[e].owner = row[e].owner
  BY <1>0 DEF Submit, TypeOK
<1>r. row' \in [Executions -> [status : {"none", "pending", "running", "done"},
                                 identity : {Empty, "caller", "dev-user"},
                                 owner : 0..(MaxRestarts + 1)]]
  BY <1>0, <1>3 DEF Submit, TypeOK
<1>6. TypeOK'
  BY <1>0, <1>1, <1>2, <1>r DEF TypeOK, Loaded
<1>7. BuiltInv'
  BY <1>0, <1>1, <1>2 DEF BuiltInv, PastAuth, PastKube, PastRegions, PastAWS, workersRunning,
     kubeChoice
<1>8. RowInv'
  BY <1>0, <1>1, <1>2, <1>4, <1>5 DEF TypeOK, RowInv, workersRunning
<1>9. ReachedInv'
  BY <1>1, <1>2 DEF IndInv, ReachedInv
<1> QED
  BY <1>6, <1>7, <1>8, <1>9 DEF IndInv

\* A worker of this process claims an execution.
LEMMA ClaimKeeps ==
  ASSUME IndInv, NEW e \in Executions, Claim(e)
  PROVE IndInv'
<1> USE DEF settings, built
<1>0. TypeOK /\ BuiltInv /\ RowInv /\ workersRunning
  BY DEF IndInv, Claim
<1>1. UNCHANGED <<settings, cfg, pc, exit, built, reached, life>>
  BY DEF Claim
<1>2. Loaded' = Loaded /\ LocalDeployment' = LocalDeployment
  BY <1>1, SettingsStay
<1>4. life \in 0..(MaxRestarts + 1)
  BY <1>0, StartupAssumption DEF TypeOK
<1>3. /\ \A x \in Executions \ {e} : row'[x] = row[x]
      /\ row'[e].identity = row[e].identity /\ row'[e].owner = life
  BY <1>0 DEF Claim, TypeOK
<1>r. row' \in [Executions -> [status : {"none", "pending", "running", "done"},
                                 identity : {Empty, "caller", "dev-user"},
                                 owner : 0..(MaxRestarts + 1)]]
  BY <1>0, <1>4 DEF Claim, TypeOK
<1>5. TypeOK'
  BY <1>0, <1>1, <1>2, <1>r DEF TypeOK, Loaded
<1>6. BuiltInv'
  BY <1>0, <1>1, <1>2 DEF BuiltInv, PastAuth, PastKube, PastRegions, PastAWS, workersRunning,
     kubeChoice
<1>7. RowInv'
  BY <1>0, <1>1, <1>2, <1>3, <1>4 DEF TypeOK, RowInv, workersRunning
<1>8. ReachedInv'
  BY <1>1, <1>2 DEF IndInv, ReachedInv
<1> QED
  BY <1>5, <1>6, <1>7, <1>8 DEF IndInv

\* What an execution of a running worker may reach: through the providers that the
\* settings chose, AWS in an allowed region.
LEMMA EffectsStated ==
  ASSUME IndInv, workersRunning, NEW f \in Effects, Permitted(f)
  PROVE /\ LocalDeployment => f.provider \in {"kubeconfig", "static"}
        /\ f.provider \in {"static", "cloud"} => f.region \in Loaded.AWSAllowedRegions
<1>1. /\ cfg = Loaded /\ kube = kubeChoice
      /\ aws = IF cfg.AWSEndpointURL # Empty THEN "static" ELSE "cloud"
  BY DEF IndInv, BuiltInv, PastKube, PastAWS, workersRunning
<1>2. f.provider = kube \/ f.provider = aws
  BY DEF Effects
<1>3. LocalDeployment => f.provider \in {"kubeconfig", "static"}
  BY <1>1, <1>2 DEF LocalDeployment, kubeChoice
<1>4. f.provider \in {"static", "cloud"} => f.region \in Loaded.AWSAllowedRegions
  BY <1>1 DEF Permitted, awsAllowed
<1> QED
  BY <1>3, <1>4

\* A worker of this process runs what it claimed.
LEMMA RunKeeps ==
  ASSUME IndInv, NEW e \in Executions, Run(e)
  PROVE IndInv'
<1> USE DEF settings, built
<1>0. TypeOK /\ BuiltInv /\ RowInv /\ ReachedInv /\ workersRunning
  BY DEF IndInv, Run
<1>1. UNCHANGED <<settings, cfg, pc, exit, built, life>>
  BY DEF Run
<1>2. Loaded' = Loaded /\ LocalDeployment' = LocalDeployment
  BY <1>1, SettingsStay
<1>3. /\ \A x \in Executions \ {e} : row'[x] = row[x]
      /\ row'[e].identity = row[e].identity /\ row'[e].owner = row[e].owner
  BY <1>0 DEF Run, TypeOK
<1>r. row' \in [Executions -> [status : {"none", "pending", "running", "done"},
                                 identity : {Empty, "caller", "dev-user"},
                                 owner : 0..(MaxRestarts + 1)]]
  BY <1>0 DEF Run, TypeOK
<1>4. TypeOK'
  BY <1>0, <1>1, <1>2, <1>r DEF TypeOK, Loaded
<1>5. BuiltInv'
  BY <1>0, <1>1, <1>2 DEF BuiltInv, PastAuth, PastKube, PastRegions, PastAWS, workersRunning,
     kubeChoice
<1>6. RowInv'
  BY <1>0, <1>1, <1>2, <1>3 DEF TypeOK, RowInv, workersRunning
<1>7. ReachedInv'
  <2>1. CASE UNCHANGED reached
    BY <1>0, <1>2, <2>1 DEF ReachedInv
  <2>2. ASSUME NEW f \in Effects, Permitted(f),
               reached' = reached \cup {[identity |-> row[e].identity, effect |-> f]}
        PROVE ReachedInv'
    <3>1. /\ row[e].identity = "dev-user" => f.provider \in {"kubeconfig", "static"}
          /\ f.provider \in {"static", "cloud"} => f.region \in Loaded.AWSAllowedRegions
      BY <1>0, <2>2, EffectsStated DEF RowInv
    <3> QED
      BY <1>0, <1>2, <2>2, <3>1 DEF ReachedInv
  <2> QED
    BY <2>1, <2>2 DEF Run
<1> QED
  BY <1>4, <1>5, <1>6, <1>7 DEF IndInv

\* A new process starts: it has claimed nothing yet, and the settings are the same.
LEMMA RestartKeeps == IndInv /\ Restart => IndInv'
<1> SUFFICES ASSUME IndInv, Restart PROVE IndInv'
  OBVIOUS
<1> USE DEF settings, stored
<1>0. TypeOK /\ RowInv /\ ReachedInv
  BY DEF IndInv
<1>1. Loaded' = Loaded /\ LocalDeployment' = LocalDeployment
  BY SettingsStay DEF Restart
<1>2. life' \in 1..(MaxRestarts + 1)
  BY <1>0, StartupAssumption DEF Restart, TypeOK
<1>3. TypeOK'
  BY <1>0, <1>1, <1>2 DEF Restart, TypeOK
<1>4. BuiltInv'
  BY DEF Restart, BuiltInv, PastAuth, PastKube, PastRegions, PastAWS, workersRunning
<1>5. \A e \in Executions : row'[e] = row[e] /\ row[e].owner \in Nat
  BY <1>0, StartupAssumption DEF Restart, TypeOK
<1>6. life \in Nat /\ life' = life + 1
  BY <1>0, StartupAssumption DEF Restart, TypeOK
<1>7. RowInv'
  BY <1>0, <1>1, <1>5, <1>6 DEF RowInv
<1>8. ReachedInv'
  BY <1>0, <1>1 DEF Restart, ReachedInv
<1> QED
  BY <1>3, <1>4, <1>7, <1>8 DEF IndInv

\* Every step keeps the invariant.
LEMMA StepPreserves == IndInv /\ [Next]_vars => IndInv'
<1> SUFFICES ASSUME IndInv, [Next]_vars PROVE IndInv'
  OBVIOUS
<1>1. CASE UNCHANGED vars
  <2>1. UNCHANGED <<settings, cfg, pc, exit, built, stored, life>>
    BY <1>1 DEF vars
  <2>2. Loaded' = Loaded /\ LocalDeployment' = LocalDeployment
    BY <2>1, SettingsStay
  <2>3. TypeOK' /\ BuiltInv'
    BY <2>1, <2>2 DEF IndInv, TypeOK, BuiltInv, PastAuth, PastKube, PastRegions, PastAWS,
       workersRunning, kubeChoice, settings, built, stored, Loaded
  <2>4. RowInv' /\ ReachedInv'
    BY <2>1, StoredKept DEF workersRunning
  <2> QED
    BY <2>3, <2>4 DEF IndInv
<1>2. CASE Crash
  BY <1>2, FatalKeeps, ReasonsStated DEF Crash
<1> QED
  BY <1>1, <1>2, LoadKeeps, StoreKeeps, AuthKeeps, MockAuthKeeps, KubeKeeps, RegionsKeep,
     AWSKeeps,
     WorkersKeep, HandlerKeeps, ListenKeeps, SubmitKeeps, ClaimKeeps, RunKeeps, RestartKeeps DEF Next

\* IndInv is an invariant of a deployment's processes.
THEOREM Invariance == Spec => []IndInv
BY InitEstablishes, StepPreserves, PTL DEF Spec

\* The type invariant, for every instance.
THEOREM TypeCorrect == Spec => []TypeOK
<1>1. IndInv => TypeOK
  BY DEF IndInv
<1> QED
  BY <1>1, Invariance, PTL

\* Whatever numbers the environment and the file hold, running workers can run.
THEOREM WorkersAlwaysRunnable == Spec => []WorkersCanRun
<1>1. IndInv => WorkersCanRun
  BY DEF IndInv, BuiltInv, WorkersCanRun
<1> QED
  BY <1>1, Invariance, PTL

\* What was accepted without authentication never leaves the kubeconfig's cluster and
\* the emulator, whichever process of the deployment runs it.
THEOREM MockStaysLocal == Spec => []MockIdentityStaysLocal
<1>1. IndInv => MockIdentityStaysLocal
  BY DEF IndInv, ReachedInv, MockIdentityStaysLocal
<1> QED
  BY <1>1, Invariance, PTL

\* AWS is reached only in the regions that the deployment stated.
THEOREM OnlyStatedRegions == Spec => []RegionsStated
<1>1. IndInv => RegionsStated
  <2> SUFFICES ASSUME IndInv PROVE RegionsStated
    OBVIOUS
  <2>1. Loaded.AWSAllowedRegions \subseteq
           (IF env.regions.set THEN env.regions.items ELSE file.regions)
    BY LoadRegions DEF Loaded
  <2>2. workersRunning => cfg.AWSAllowedRegions # {}
    BY DEF IndInv, BuiltInv, PastRegions, workersRunning
  <2> QED
    BY <2>1, <2>2 DEF IndInv, ReachedInv, RegionsStated
<1> QED
  BY <1>1, Invariance, PTL

\* A process that one of runServer's checks refuses has claimed no execution.
THEOREM RefusalsClaimNothing == Spec => []RefusedClaimsNothing
<1>1. IndInv => RefusedClaimsNothing
  <2> SUFFICES ASSUME IndInv,
                      exit \in {"load", "store", "roles", "ocm", "kubeconfig", "endpoint", "https",
                                "backplane", "regions", "nilOCM"},
                      NEW e \in Executions, row[e].owner = life
               PROVE FALSE
    BY DEF RefusedClaimsNothing
  <2>1. exit # Empty
    BY ReasonsStated
  <2>2. pc = "exited"
    BY <2>1 DEF IndInv, TypeOK
  <2> QED
    BY <2>2 DEF IndInv, RowInv, workersRunning
<1> QED
  BY <1>1, Invariance, PTL
=============================================================================
