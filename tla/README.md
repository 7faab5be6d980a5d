# A TLA+ model of rosa-trusted-actions

The server accepts requests to run *trusted actions* on managed OpenShift
clusters, stores each as an execution, and lets a pool of workers carry it out
with the authorization and the audit records the action calls for. This directory
holds TLA+ modules that describe how it does that, TLC configurations that check
them on small instances, and proofs that TLAPS checks for all instances.

`PROJECT.json` maps every definition to the source lines it stands for and lists
the runs, the hazards each property is aimed at, the findings, the theorems, and
for every property a mutation of the model that violates it.

To repeat the work, in this directory: `tlc -config QueuePostgres.cfg
MCExecutionQueue` (module and configuration of each run are in `PROJECT.json`),
and `tlapm ExecutionQueueProofs.tla`.

## 1. Inventory

| Component | State it keeps | Operations | Talks to |
|---|---|---|---|
| Execution store, `internal/store` | tables `executions`, `executions_output`, `audit_entries` | create, get, list, claim, update with result, create and list audit entries | PostgreSQL, or one SQLite file |
| Migrations, `internal/store/migrations.go` | `schema_migrations`, an advisory lock | run at startup; roll back by hand | PostgreSQL, SQLite |
| Worker pool, `internal/worker/pool.go` | goroutines, a notify channel of capacity 1 | Notify, Start, Wait, the worker loop | store, runner |
| Runner and executor, `internal/worker/executor_runner.go`, `internal/executor` | none, but each run has a target and an audit record | derive target, authorize, run, in two scopes | authorizers, providers, action audit logger |
| Authorizers, `internal/authorization` | allowlists | Authorize | - |
| AWS provider, `internal/awsapi` | cluster cache with expiry | DefaultRegion, ClusterInfraID, GetClients | OCM, backplane, STS |
| Actions, `internal/actions` | none | Execute | Kubernetes API, AWS API |
| Action audit logger, `internal/audit` | slice `Records` | Log | all workers |
| Request pipeline, `internal/auth`, `internal/middleware`, `internal/handlers` | the request's context and audit context | authenticate, resolve role, check action, handle, audit | AMS, catalog, store, pool |
| Backplane client, `internal/backplane` | a session's proxy and token | open a session, send calls through it | backplane, or a kubeconfig's cluster |
| Configuration, `internal/config` | the merged settings | Load | environment, file |
| Server process, `cmd/server` | phase of life | check, construct, start, serve, shut down | everything above |
| `rta` command, `internal/rta` | token, last answer, deadline | run, list, show | the HTTP API, the OCM configuration |

What is hard about it:

- replicas share a table as a queue; there are no leases and no recovery, so the
  claim's transaction is all that keeps an action from running twice, and whatever
  is lost after it is lost for good;
- cancellation at shutdown meets claims, runs and updates in every state;
- one run looks its cluster up to three times through a cache that can expire or be
  overwritten in between, while its name may come to denote another cluster;
- role resolution asks AMS several times, and each answer may be an error;
- a caller sees the row and its output through two queries, and lists through two
  queries per page, while rows change;
- replicas of different releases migrate one database at the same time;
- an action makes several calls to a cluster or an account that goes on changing, with
  rights that were asked for before the first call;
- a process is put together from settings that interact over hundreds of lines, and its
  workers start before it serves;
- the command's POST may take effect without an answer, and its requests may be redirected and answered by
  others than the API;
- tokens travel with requests that a server may redirect, and locks with sessions that the
  database may end.

The correctness of each component: the queue runs an execution at most once and
decides it unless a listed loss happens; runs stay within what was authorized for
the cluster that was named, tell the truth in their audit record, and give their
worker back; requests create executions only with a confirmed role; callers are
told the truth; walks over pages are complete; migrations happen once and in order;
actions use the rights they declared and report what was there; a process whose settings
do not fit runs nothing; the command creates one execution, keeps its token to hosts it
trusts, and ends.

## 2. Modules

| Module | What it models |
|---|---|
| `Executions` | abstract: the life of an execution, and that its action starts once |
| `ExecutionQueue` | create handler, worker pool, claim and update transactions, shutdown, crashes |
| `ExecutionQueueProofs` | its invariants and the refinement of `Executions` |
| `ActionExecution` | one `Runner.Run` after another on several workers: scopes, authorizers, cluster cache, credentials, ownership check, change, audit record |
| `ActionExecutionProofs` | its invariants |
| `ClientPolling` | `rta action run` and the two GET handlers, on top of `Executions` |
| `RequestPipeline` | authentication, role resolution, routing and parameter binding, action access, handler, request audit |
| `RequestPipelineProofs` | its invariants |
| `Listing` | filters, `since`, page arithmetic, clamping, the two queries, a caller who walks the pages |
| `KubeActions` | one run of each Kubernetes action, call by call: sessions, rights, token transport, report |
| `KubeActionsProofs` | its invariants |
| `AWSReads` | one run of `aws-get`: clients, validation, the pages of each service |
| `PagingProofs` | the invariants of `Listing` and `AWSReads` |
| `Startup` | `config.Load`, the checks and constructors of `runServer`, crashes and restarts |
| `StartupProofs` | its invariants |
| `RtaCommand` | one invocation of `rta`: command line, token, redirects, deadline, polling |
| `RtaCommandProofs` | its invariants, and those of `ClientPolling` |
| `Migrations` | `runMigrations` on several replicas |
| `MigrationsProofs` | its invariants |
| `MC*` | the instances that TLC checks |

`ClientPolling` composes the command with `Executions` by EXTENDS; that this is sound
is what `RefinesExecutions` says: every step of the real queue is a step of
`Executions` or leaves it alone.

### ExecutionQueue

`row`, `output`, `created` are the tables; `req`, `via` follow the create handler
of each execution; `pc`, `job`, `result` are the workers; `notify`, `phase` belong
to the replicas. `lost`, `ran` are history. The actions follow the code's
sequence: `StampRequest` (ExecutionFromRequest), `InsertRow`, `Acknowledge` (Notify and
202); `CheckContext`, `ClaimSelect`, `ClaimNothing`, `ClaimCommit`, `Process`,
`RunFinish`, `Update`, `Wake` for a worker; `Signal`, `HandlersDrained`,
`PoolDrained`, `Deadline` for shutdown; `Crash`, `Restart`.

Failures: `InsertError`, `ClaimError`, `ClaimAnswerLost` and `UpdateError` are the
error returns. A COMMIT whose answer is lost is the commit followed by
`ClaimAnswerLost`; an update that took effect although its call failed looks to
everyone like `Update`. A claim transaction of a dead client keeps its row locked until
`AbortDeadTx`. A COMMIT that reaches the database after its client died is not an
action of its own: nobody else touches the locked row meanwhile, so it might as well
have arrived before.

`Backend` selects the store. On PostgreSQL, `Claimable` leaves out locked rows (SKIP
LOCKED); on SQLite, `ConnFree` models the single connection. That a SQLite file
belongs to one process is an assumption (`SqliteAssumption`).

### ActionExecution

`pc[w]` is the point of `Executor.Execute` that worker `w` is at. A lookup is
`LookupCached`, or `LookupFetch` and `LookupStore` with other workers' steps in
between; `UseCluster` is what DefaultRegion, ClusterInfraID and GetClients do with
the result. `Rebind` (external) changes what OCM finds for an identifier, and
`CacheExpires` lets the entry's time to live pass. `Change` is the call that has an effect; its
answer may be an error. `CallFails` stands for every failing or timed-out call.
`LogRead` and `LogWrite` are the two halves of the unguarded append, between which another
worker's may come. The static AWS
provider for emulators is in `Startup`; what a read does call by call is in `KubeActions`
and `AWSReads`.

### ClientPolling, RequestPipeline, Listing, Migrations

In `ClientPolling`, `ReadRow` and `Answer` are the handler's two queries; `Fetch` is the
output request and the exit status in text or JSON form.

In `RequestPipeline`, `Review` and `ReviewError` are rounds of AuthorizeAPI's loop,
one role each; `ChangeGrant` (external) lets AMS change its mind between rounds.
`Panic` unwinds past the audit middleware. `Bind` is the generated router and the
parameter binding of the route, which run before `CheckActionAccess`. Disabled
authentication, a development setting, is in `Startup`.

In `Listing`, `Parse` is the head of the handler with its overflow check and the
division that panics for `limit=0`; `Count` and `Select` are the two queries, under a
filter on status (which `Progress` changes), on `dry_run` (which stands for the columns
that never change) and on `since`, a fixed time or a duration whose cut-off moves with
`Tick`. `parseDuration` has the wrapping product of the code and its check.

In `Migrations`, `Dedicated` and `FreeConnection` account for the connection that
holds the lock while the loop needs others. The lock belongs to that connection's
session, which may end while its replica goes on in the loop (`LoseSession`; `lost` keeps
who went on without it). A COMMIT whose client is gone may take
effect later, even after the advisory lock, which another session held, went to
another replica (`Abandon`, `Arrive`). `unguarded` is history: the versions for which a
transaction ran without the lock, in either of these ways.

### KubeActions, AWSReads

A cluster is a set of facts, an account a set of objects, which `ClusterChanges` and
`AccountChanges` (external) change between two calls of a run; `ever` and `always`
remember what was true at some moment and throughout. In `KubeActions` a session is opened with the rules of
`RequiredRBAC`; every call is recorded with its verb, resource and namespace; the proxy
URI of a session comes from backplane's answer, and requests are redirected: the POST for
a session by the default `http.Client`, which takes its header along within the domain, a
call through `bearerTransport`, which decides by the host of each request. Any JSON object
that answers the POST passes for a session, though backplane then granted nothing; a
redirected DELETE may be answered by anything (`DeleteAstray`), while other calls need an
answer that is a Kubernetes object, which is taken to be the cluster's. `bearer` keeps where the token
went, and by which request. `Asked` is
the reference: what the catalog says an action answers. In `AWSReads`, `Resume` is where
the next page starts, by the service's token or, for Route 53, by name, type and
identifier, and `AskedFor` is the reference.

### Startup

`env` and `file` are what a deployment gives its processes; they stay the same across
restarts. `LoadConfig` to `ListenAndServe` follow `runServer`; `Claim` and `Run` are what
started workers do with executions that this or an earlier process accepted, so that a
process which never comes to serve may run them. Settings that no check looks at are
left out. A process that fails after its workers started (the token handler's keys
cannot be fetched, the port is taken) may strand rows like any crash.

### RtaCommand

One invocation. `Parse`, `newClient` and `NewClient` are the checks before the first
request; `Send`, `Redirect`, `Created`, `Polled`, `Output`, `ReadAnswered`, `Refused`,
`Stray` and `NoAnswer` a request and its ends; `Wait` the select of the poll loop; `Deadline` the end
of `requestContext`, which one command shares among all its requests. `Stray` is a 2xx answer
of somebody else, of which `Client.do` makes an execution; `foreign` says that the one the
command knows is of that kind. What `net/http` does
on a redirect is external: the header goes along to the first host and its subdomains, until
the chain has left them. `ClientPolling` looks at the same command from the store's
side, with the queries of the handlers.

## 3. Runs

| Run | Shows | Instance |
|---|---|---|
| `queue_postgres` | `IndInv`, `RunAtMostOnce`, `StuckExactlyWhenLost`, `RefinesExecutions`, `AcceptedIsDecided` | 2 executions, 2 replicas with a worker each, 1 fault, 1 signal with restart |
| `queue_sqlite` | `RunAtMostOnce`, `EarlyResultPersisted`, `ShutdownCompletes` | 2 executions with 2 time stamps, 1 replica with 2 workers, 1 crash, 1 signal, actions that may hang |
| `executor` | `EffectOnNamedCluster`, `EffectInAllowedRegion`, `AuditMatchesEffect`, `WorkerFreed` | 2 workers with one run each of 11 kinds of request, 4 clusters, 1 rebinding |
| `executor_dry_run` | violation of `DryRunHasNoEffect` | 1 worker |
| `executor_records` | violation of `EveryRunRecorded` | as `executor` |
| `pipeline` | `ServedOnlyIfConfirmed`, `DenialIsDefinite`, `AuditTellsExecution` | 2 requests of 13 kinds over all routes, 2 roles, 2 faults, 1 change of grants, 1 crash |
| `paging` | `WalkIsExact`, `DocumentedPagesAnswered`, `LongerSinceReachesFurther` of `Listing`; `AnswersTheQuestion`, `ListedExactlyOnce`, `ReadEnds` of `AWSReads` | up to 3 rows, 7 limits from below 1 to above the maximum of 3, 7 filters, durations around a maximum of 15; each kind of AWS resource, pages of 1 object, 2 changes during a run |
| `migrations` | `SchemaMatchesRecord`, `NoStartupConflict`, `ServesMigratedSchema`, `StartupCompletes` | 3 replicas of 2 releases, 2 migrations, 1 fault or lost session, 1 crash |
| `kube_actions` | `RightsFitCalls`, `TokenStaysWithBackplane`, `ReportTruthful`, `ReportComplete` | each of the 6 actions, 2 nodes, 2 changes during a run, 3 hosts of which one is a subdomain of backplane's, both schemes |
| `kube_rights` | violation of `RightsExact` | as `kube_actions` |
| `startup` | `WorkersCanRun`, `MockIdentityStaysLocal`, `RegionsStated`, `RefusedClaimsNothing` | deployments that differ in authentication, targets, lists and numbers, 1 execution, 1 restart |
| `commands` | `TokenStaysSecure`, `RunsAtMostOnce`, `ReportedRunExists`, `CommandEnds` of `RtaCommand`; `ExitMatchesRow`, `SucceededHasOutput` of `ClientPolling` | every kind of command and source of a token, 4 hosts of which one is a subdomain of `localhost`, chains of 3 requests; 2 commands that wait for their executions |

`paging` and `commands` check two modules each, which share no variable: `MCPaging` and
`MCCommands` put the specifications side by side, with the fairness of each. Since neither
part reads what the other writes, one stands still while the other moves, and the state
spaces add up instead of multiplying; each is explored as it would be alone.

Why the bounds are enough to meet the interesting cases: the claim's races are
between two workers over one row, and a second row makes them choose; one fault,
signal or crash at any step covers each loss, and the proofs cover any number, on both
stores. On PostgreSQL the end of a process is a shutdown whose deadline passed, which
leaves locks and rows behind as a crash does; all time stamps are equal there, so the
order of claims is by id, and the SQLite run has two. A run makes
three lookups, so one rebinding and a second worker reach every mixture of old and
new cluster. Two roles give a failing review before and after a granted one. Three
rows with a limit of 1 to 3 give walks of several pages with a short last one. Pages
around `2^31/2` meet the overflow check, and a maximal duration of 15 with units of
different lengths meets the products that wrap. Two changes during a run can replace an
object, move one from behind a page's position to before it, or take away a node and a
pod of it. One restart lets a process run what another one accepted. Three requests
make a chain that leaves the server, and returns to it or goes on.

The inductive invariants of the proofs (`IndInv`, in `ClientPolling` `PollInv`, in
`Listing` `WalkInv`, in `AWSReads` `ReadInv`), of which the type invariant is the first
part, hold in the same instances; `queue_postgres` lists its own, the other
configurations leave theirs to the reader, who can add it.

Deadlock is checked in the queue's runs, where a replica always has a step to take.
The other instances end: their requests, walks and runs are used up.

### What the properties say

- `RunAtMostOnce`: no interleaving, fault, crash or restart starts an action twice.
- `StuckExactlyWhenLost`: rows strand in `running` by a lost claim answer, a failed
  update or the end of a process, and by nothing else; and nothing recovers them.
- `RefinesExecutions`: a terminal status is final and comes with its output at once.
- `AcceptedIsDecided`: lost or stolen notifications, locks of dead clients and
  restarts delay an execution but never keep it pending.
- `EarlyResultPersisted`, `ShutdownCompletes`: the detached update context saves
  results in flight, and a hung action cannot stop the shutdown.
- `EffectOnNamedCluster`, `EffectInAllowedRegion`: whatever mixture of lookups a run
  acts on, its write hits an instance of a cluster that the caller's identifier denoted, in an
  allowed region.
- `AuditMatchesEffect`: the record of a run fits what it did, at every exit.
- `WorkerFreed`: no unanswered call keeps a worker.
- `ServedOnlyIfConfirmed`, `DenialIsDefinite`: failing reviews neither grant access
  nor turn into a definite denial; the routes that `CheckActionAccess` does not stop, and
  the errors of parameter binding that come before it, are behind a confirmed role too, the
  catalog and describe included.
- `AuditTellsExecution`: an audit entry names an execution exactly when one was accepted,
  and exactly the requests that authentication refused or whose handler panicked have
  none, if no store call fails and the process lives.
- `ExitMatchesRow`, `SucceededHasOutput`: what a caller was told stays true.
- `WalkIsExact`: a walk shows nothing its parameters exclude, and inserts between pages
  and a sliding `since` lose no row. The two
  exceptions, which the property spells out, are an insert between COUNT and SELECT of
  the last page, and a row on an earlier page that leaves a filter on status.
- `LongerSinceReachesFurther`: durations grow with their numbers up to the overflow.
- `DocumentedPagesAnswered`: documented parameters are answered with the page asked for.
- `SchemaMatchesRecord`, `ServesMigratedSchema`, `StartupCompletes`: concurrent startups, of
  different releases, with failures and lost locks: the transactions and the primary key
  keep schema and record together whatever becomes of the lock.
- `NoStartupConflict`: a replica fails over a migration that another one applied only if one
  of the two transactions ran without the lock.
- `RightsFitCalls`: what an action declares and what it does agree both ways: every call is
  covered, and every rule is used in the scope it was asked for. The one exception, which
  the property spells out, is the rule for leases of `describe-nodes`.
- `TokenStaysWithBackplane`: whatever proxy an answer names and wherever requests are
  redirected, a call's token stays at backplane's host, and the token of a session's POST at
  that host and its subdomains.
- `ReportTruthful`, `ReportComplete`, `ListedExactlyOnce`, `AnswersTheQuestion`: reports put
  together from several calls show only what was there and leave out nothing that was
  there throughout.
- `ReadEnds`: the pages of a read end.
- `WorkersCanRun`: no combination of settings stops the ticker or the pool.
- `MockIdentityStaysLocal`: branches of `runServer` that lie far apart fit together, across
  processes of one deployment: what was accepted without authentication stays local.
- `RegionsStated`: what executions reach in AWS was named by the settings.
- `RefusedClaimsNothing`: workers start only after every check that may refuse the process.
- `TokenStaysSecure`: the command's token stays within the server's domain, and goes over
  plain HTTP only if the server was given as a loopback address.
- `RunsAtMostOnce`, `CommandEnds`: a lost answer or a redirect never makes a second
  execution, and the command ends though nobody answers.
- `ReportedRunExists`: what the command reports was created and has the status that is
  reported, unless the last answer it took for an execution was not the API's.

### Findings

Each of these has a run that shows it and a property that states what the documents say.

- `dry_run` is stored and never read: a preview changes the cluster, and `rta` prints
  that no changes were made (`executor_dry_run`).
- `MockLogger.Log` appends without a lock: of two runs that end together one may leave no
  record, although `openwiki/concepts/execution-pipeline.md` says "always writing exactly
  one" (`executor_records`).
- `describe-nodes` asks for leases in every namespace and reads those of one, where
  `docs/adding-a-trusted-action.md` says that rules are scoped to a namespace
  (`kube_rights`).

Also met while modelling, without a run of their own; the first five are cases that the
properties named here spell out, and the models contain them:

- The catalog and describe need a token and a role (`ServedOnlyIfConfirmed`), although
  `openapi/paths/catalog.yaml:10` and `openapi/paths/{action}.yaml:10` say `security: []`, and
  the TODO at `cmd/server/main.go:378-381` that the CLI needs them without credentials: the
  whole sub-tree is behind AuthenticateAccountJWT and AuthorizeAPI.
- A request that authentication refuses or whose handler panics leaves no audit entry, and
  catalog and describe leave one (`AuditTellsExecution`), although
  `openapi/paths/audit.yaml:6-7` says "Every API call (except catalog and describe) is
  recorded", and the middleware's comment (`middleware/audit.go:39`) "for every API request".
- The migration lock's session may end while its replica goes on, so that two replicas are
  in the loop (`NoStartupConflict`), although the comment at `migrations.go:28-30` says that
  they are serialised. One of them may fail to start; the schema stays right.
- `bearerTransport` compares hosts, not origins (`TokenStaysWithBackplane`): a redirect to plain
  HTTP on backplane's host gets the token, although `openwiki/integrations/backplane.md:163-165`
  says that none can carry it off the verified origin.
- `rta` takes too much on trust from redirects and answers. With a token and a server at
  `http://localhost` it sends the token over plain HTTP to a subdomain of `localhost`
  (`TokenStaysSecure`), although the error at `rta/client.go:50` asks for HTTPS or a loopback
  address. And `--no-wait` prints "submitted" (`rta/action.go:183`) after any 2xx answer, an
  empty one included (`ReportedRunExists`).
- `limit=0&page=2` panics with a division by zero; a `limit` above the maximum gives an
  offset computed from the unclamped limit, so that pages skip rows;
- with `ROSA_TA_DB_MAX_OPEN_CONNS=1` the startup on PostgreSQL waits for itself for
  ever, holding the migration lock;
- the scheme of the backplane URL is checked only without a kubeconfig, where
  `openwiki/operations/configuration.md` says that the server fails to start;
- `timed_out` is a documented status that nothing ever stores.

### Fairness

- Queue: goroutines are scheduled and the poll ticker fires, so every enabled
  worker, handler and shutdown step is taken in the end; the 30 s context ends; the
  database finds out about dead clients; a stopped replica is started again by its
  deployment. `RunFairness`, that runs return, is what the execution timeout gives
  for actions that honour their context; `queue_sqlite` does without it. Nobody
  has to submit, signal or crash.
- Executor: a worker continues, and the execution timeout ends each call. No call
  has to be answered.
- AWS reads: AWS answers, with a page or an error; that the pages end is then a matter of
  the positions alone, and not of the execution timeout.
- The command: it continues, its deadline passes, and a request whose deadline has
  passed ends. The server owes no answer.
- Migrations: replicas continue and are restarted; PostgreSQL serves lock waiters in
  turn (strong fairness of `Lock`), ends sessions nobody uses any more (the code
  sets ConnMaxLifetime) and resolves transactions of clients that are gone.

## 4. Proofs

For every value of the constants:

| Theorem | Statement |
|---|---|
| `QueueInvariant` | `Spec => []IndInv` of the queue |
| `AtMostOnce` | `Spec => []RunAtMostOnce` |
| `StuckCauses` | `Spec => []StuckExactlyWhenLost` |
| `Refinement` | `Spec => RefinesExecutions` |
| `DecidedIsFinal` | no step changes the status or the output of an execution that is decided |
| `MigrationsInvariant`, `RecordIsTrue`, `StartupsDoNotConflict`, `ServingIsMigrated` | the invariants of the migrations |
| `ClientInvariant`, `ExitIsTrue`, `OutputIsThere` | `PollInv`, `ExitMatchesRow`, `SucceededHasOutput` of the client |
| `CallersKeepToExecutions` | `PollSpec => AbsSpec`: the client, too, implements `Executions` |
| `IndInvHolds`, `TypeCorrect`, `TokenSecure`, `AtMostOneRun`, `ReportsExistingRun` | the invariants of the command |
| `ActionExecutionProofs`: `Invariance`, `TypeCorrect` | `Spec => []IndInv`, `Spec => []TypeOK` of the executor |
| `WritesStayOnNamedCluster`, `WritesStayInRegion` | `EffectOnNamedCluster`, `EffectInAllowedRegion` |
| `AuditIsTruthful` | `AuditMatchesEffect` |
| `RequestPipelineProofs`: `Invariance`, `TypeCorrect` | `Spec => []IndInv`, `Spec => []TypeOK` of the pipeline |
| `OnlyConfirmedServed`, `DenialsDefinite`, `AuditComplete` | `ServedOnlyIfConfirmed`, `DenialIsDefinite`, `AuditTellsExecution` |
| `StartupProofs`: `Invariance`, `TypeCorrect` | `Spec => []IndInv`, `Spec => []TypeOK` of the server process |
| `WorkersAlwaysRunnable`, `MockStaysLocal`, `OnlyStatedRegions`, `RefusalsClaimNothing` | `WorkersCanRun`, `MockIdentityStaysLocal`, `RegionsStated`, `RefusedClaimsNothing` |
| `KubeActionsProofs`: `Invariance`, `TypeCorrect` | `Spec => []IndInv`, `Spec => []TypeOK` of a Kubernetes action |
| `PagingProofs`: `WalkInvariant`, `ReadsInvariant` | `Spec => []WalkInv` of the lists, `ReadSpec => []ReadInv` of an AWS read |
| `WalkShowsWhatMatched`, `EveryPageAnswered`, `SinceIsMonotonic` | `WalkIsExact`, `DocumentedPagesAnswered`, `LongerSinceReachesFurther` |
| `ReadAnswersTheQuestion`, `EveryObjectOnce` | `AnswersTheQuestion`, `ListedExactlyOnce` |
| `PagesAdvance` | a page that is not the last one moves the position forward |
| `RightsFit`, `TokenStays`, `ReportsTruthful`, `ReportsComplete` | `RightsFitCalls`, `TokenStaysWithBackplane`, `ReportTruthful`, `ReportComplete` |

The queue. `RunAtMostOnce` is not inductive: one has to know that a claimed row has
never run and belongs to one worker. `IndInv` says so in named parts: a worker holds
a job exactly while it has a row selected or owns it (`JobInv`); a selected row is
pending and selected by one worker, because of its lock or because SQLite's one
connection admits one transaction (`SelectInv`); an owned row is running, owned by one
worker, and was run exactly if its worker is past the claim (`OwnerInv`); the status
determines how often the action ran and whether there is an output (`RowInv`); a
replica that is down has no goroutines (`DownInv`). One lemma per group of actions
shows that each part is preserved. The refinement maps `row` to `status`: `InsertRow`,
`ClaimCommit`, `Process` and `Update` are the abstract steps, all others stutter.
`DecidedIsFinal` follows from it: no abstract step changes a decided execution.

The migrations. `LockInv` says that a replica in the loop holds the lock or has lost its
session since it got it; `ProgressInv` that everything below its current migration is
applied, and that what it is about to apply is missing, or was committed without the lock,
or it has lost the lock itself; `LateInv` says that a late COMMIT, too, comes right after
what is applied. `CommitStep` is the heart: a transaction that is due extends the prefix.
`OthersLostLock` and `CommitSeen` then say what the others see of it: beside the holder,
everyone in the loop has lost the lock, so only an unguarded transaction can come between
another replica's check and its INSERT.

The client. What was read or told of a terminal row is still true (`ReadInv`),
because terminal rows never change (`RowsMoveForward`) and carry their output
(`RowInv`). `CallersKeepToExecutions` is the other side of `Refinement`: a POST is one
abstract step, and polling and fetching change no row.

The command, for every set of hosts and command lines and chains of any length.
`TokenStaysSecure` needs that a chain which began over HTTPS stays there, that one which left
the server's domain has dropped the header for good, and that a client with a token
passed NewClient's check (`ChainInv`). `RunsAtMostOnce` and `ReportedRunExists` need that the
only POST is the first request, that nothing was created before it is answered or given
up, and that what the last answer said of a decided run is what its row says, unless that
answer was a stray one (`RunInv`).

The executor, for any number of workers, runs and rebindings. `EffectOnNamedCluster` says
nothing of the lookups, but a write is only as good as they were: OCM's current answer, a
fresh cache entry (`LookupInv`), an answer on its way to the cache and the owner that the
ownership check compares with (`TargetInv`) were all denoted by the identifier at some
time, and what was denoted once stays in the history. `GateInv` carries the decision of
Authorize to the change: past it, the target is still the one that was allowed, because
only the lookups before it assign the region. `ChangeInv` keeps the checks true until the
record is written, and `RecordInv` is about the record.

The pipeline, for any number of requests, roles and grants that change between reviews.
`StageInv` says what a request has behind it: past role resolution the role in the context
is one that AMS confirmed during this request, and past `CheckActionAccess` it is one of
the action's. `ReviewInv` says that, as long as no review failed, all roles before the one
under review were refused, which makes the 403 definite. `AuditInv` relates what the audit
middleware sees to what was created and answered.

The server process, for every environment and file and any number of restarts. What a
check establishes must be known far from it: `BuiltInv` says, for the part of `runServer`
that comes next, what the parts before it built from the settings. As the settings stay
and `Load` depends on them alone (`Loaded`), each process builds the same, so that an
execution accepted without authentication belongs to a deployment all of whose processes
are local (`RowInv`), and all that was ever reached was reached as `Loaded` says
(`ReachedInv`).

The Kubernetes actions, for every cluster and any number of changes of it during a run.
`StageRule` is the heart of `RightsFitCalls`: of each call of each action it shows that a
rule of `RequiredRBAC` covers it, cluster-wide or in its namespace, and that it uses every
rule for its resource where that rule applies, leases excepted; `RightsInv` counts the
resources whose calls a run has behind it. `SessionInv` says that a session's client points
at backplane before the first call that uses it, so that `RoundTrip` compares with
backplane's host, and that the token went nowhere else. For the reports, `FoundInv` says what the lists
read so far have established: all that was found was true and asked for, and all that was
asked for and true throughout was found. The pull secret and the patched object also need
that a name identifies one object at any moment (`WorldInv`).

The lists, for any table, filters and parameters, and any insert, update and passing of
time between the queries. `WalkIsExact` speaks of the end of a walk; what carries it there
is a rank. A row that matched throughout was shown, or at least as many matching rows lie
before it as the pages behind the walk hold (`CoverInv`): inserts come first in the order
and only raise the rank, a cut-off that slides (`SinceInv`) takes rows from the other end,
and a page shows exactly the rows whose rank is below its end (`PlaceGrows`, `SliceFits`).
The walk ends when the total is no more than the end of the page, and the total is no less
than the rows there are, unless one came between COUNT and SELECT (`CountInv`); so no rank
is left. Of a filter on status the rank may fall, which is the second exception.
`EveryPageAnswered` is arithmetic: a product below `MaxInt32` divides back to the page
(`OffsetOfPage`). `SinceIsMonotonic` is, too: the check of `parseDuration` lets a product
pass only if it did not wrap (`DurationExact`).

An AWS read, for every account, requests, page size and number of changes between pages.
Everything that was returned lies before the position of the next page (`ListedInv`), and
everything before it that was there throughout was returned (`CoveredInv`): a page ends
before all that it leaves out (`PageComesFirst`), and the next one starts with the first of
these. `SelectsWhatIsAskedFor` connects the inputs of the describe functions with the
request, resource by resource: what a service selects is what was asked for, no more and no
less, given that the request was accepted (`AcceptInv`); `FilterMeaning` does so for the
parsed filters. `PagesAdvance` says that every page holds something, so that positions
grow; with finitely many objects this is the variant behind `ReadEnds`.

The proofs rest on `QueueAssumption`, `SqliteAssumption`, `MigrationsAssumption`,
`RtaAssumption`, `ExecutionAssumption`, `PipelineAssumption`, `StartupAssumption`,
`KubeAssumption`, `ListingAssumption` and `ReadsAssumption`, which TLC evaluates in the runs. Most of them type the constants. The
others are facts of the code or of the systems it calls:

- the binding of a path refuses an empty `{action}`, and `main` does not start without
  roles or with one that has no name (`PipelineAssumption`);
- an environment variable that is not set has no items (`StartupAssumption`);
- `net/http` sends no request to a URL without a host, and a proxy URI is compared with a base
  URL that has one (`KubeAssumption`);
- Kubernetes identifies an object by kind, namespace and a name that is not empty, and
  an alert that Prometheus tells of is pending or firing (`KubeAssumption`);
- a table has finitely many rows, a limit that is not given is not a number, and the
  default limit is no more than the maximum (`ListingAssumption`);
- an account has finitely many objects, and an ARN is not empty (`ReadsAssumption`).

Liveness under fairness is model-checked only, as it is out of the prover's reach:
`AcceptedIsDecided`, `EarlyResultPersisted`, `ShutdownCompletes`, `WorkerFreed`,
`StartupCompletes`, `ReadEnds`, `CommandEnds`. Every invariant that a
passing run checks is also proved; the theorems speak of the specifications without fairness,
which the fair ones imply.

## 5. Not modelled

- Logging, printing, the texts of the catalog, `rta version`, and the generated data types
  with their embedded description: data without state of its own.
- Conversions between rows, models and API types that copy one field to another, and the
  layout of reported objects.
- Settings that no check looks at: logging, S3, proxies, lifetimes of caches and connections.
- Token verification, OCM's token refresh, the SDK's credential chain, Kubernetes and
  AWS themselves: external; they appear as answers, errors and missing answers.
- `RollbackLastMigration`: the server does not call it, and it takes no lock, so it is not
  meant to run beside a starting replica.
- `cmd/action-cli`, `cmd/test-client`: they call one of the modelled parts once and print.
- `tests/proxy-backplane`: a stand-in for backplane in local tests, a map behind a mutex.

## 6. Plan

The order was: the queue and its abstract specification, its proofs, then the
executor, the client, the pipeline, lists and migrations; then the actions' own calls,
startup and configuration, routing and filters, and the whole of the command; then the
proofs of the executor, the pipeline, the server process, the Kubernetes actions, the lists
and the AWS reads. Left is a composition of pipeline, queue and executor: from an accepted
request to an effect and its two audit trails.
