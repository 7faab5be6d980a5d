--------------------------- MODULE ExecutionQueue ---------------------------
(***************************************************************************)
(* The asynchronous execution queue of the trusted-actions server:         *)
(*   - the CreateExecution handler (internal/handlers/api.go), which       *)
(*     inserts a pending row and notifies its own replica's pool;          *)
(*   - the worker pool (internal/worker/pool.go) of every replica, whose   *)
(*     workers claim rows, run the action and persist the result;          *)
(*   - the claim and update transactions of the store                      *)
(*     (internal/store/postgres.go and sqlite.go);                         *)
(*   - the shutdown sequence of cmd/server/main.go, and process crashes.   *)
(*                                                                         *)
(* A row is created once, under a fresh uuid, so an execution id stands    *)
(* for the one request that creates it.                                    *)
(***************************************************************************)
EXTENDS Naturals

CONSTANTS
    Execs,       \* execution ids; numbers, because ClaimNextExecution orders by id
    Stamps,      \* values of created_at, the submitting replica's clock
    Replicas,    \* server processes sharing one database
    Workers,     \* worker goroutines of all the pools
    Host,        \* Host[w] is the replica whose pool w belongs to
    Backend,     \* "postgres" or "sqlite": which Store is configured
    NoExec,      \* the job of a worker that has none
    MaxFaults,   \* bound: database calls that fail
    MaxCrashes,  \* bound: processes that die without warning
    MaxSignals   \* bound: SIGINT/SIGTERM deliveries

ASSUME QueueAssumption ==
    /\ Execs \subseteq Nat
    /\ Stamps \subseteq Nat
    /\ Replicas # {}
    /\ Host \in [Workers -> Replicas]
    /\ Backend \in {"postgres", "sqlite"}
    /\ NoExec \notin Execs
    /\ MaxFaults \in Nat /\ MaxCrashes \in Nat /\ MaxSignals \in Nat

\* A SQLite database file belongs to one server process.
ASSUME SqliteAssumption ==
    Backend = "sqlite" => \A w, v \in Workers : Host[w] = Host[v]

VARIABLES
    row,       \* row[e]: status column of executions, "absent" before the insert
    output,    \* output[e]: executions_output holds a row for e
    created,   \* created[e]: created_at, meaningful once the request is stamped
    req,       \* req[e]: progress of the CreateExecution handler for e
    via,       \* via[e]: the replica serving that handler
    pc,        \* pc[w]: where workerLoop / process of w stands
    job,       \* job[w]: the execution w selected, claimed or runs
    result,    \* result[w]: RunResult.Status waiting to be persisted
    notify,    \* notify[r]: the capacity-1 channel of r's pool holds a token
    phase,     \* phase[r]: where runServer of r stands
    grace,     \* workers whose update was in flight when their replica was signalled
    deadTx,    \* rows locked by claim transactions of processes that are gone
    ran,       \* history: ran[e] counts the calls of Runner.Run for e
    lost,      \* history: running executions whose worker is gone
    faults, crashes, signals   \* how much of each bound is used up

rowVars  == <<row, output, created>>
httpVars == <<req, via>>
poolVars == <<pc, job, result>>
procVars == <<phase, grace, deadTx>>
failVars == <<faults, crashes, signals>>
vars == <<rowVars, httpVars, poolVars, notify, procVars, ran, lost, failVars>>

Terminal == {"succeeded", "failed"}
Statuses == {"absent", "pending", "running"} \cup Terminal

\* none: not submitted; stamped: ExecutionFromRequest done; stored: INSERT
\* committed; acked: notified and answered 202; error: answered 500, or cut off.
ReqStates == {"none", "stamped", "stored", "acked", "error"}

\* check: head of workerLoop; claim: in ClaimNextExecution, no row selected yet;
\* selected: claim transaction open on job; claimed: its COMMIT took effect, the
\* answer is on its way; run: in Runner.Run; update: in UpdateExecutionWithResult;
\* wait: in the select on ctx.Done, notify and ticker; exited: goroutine is gone.
WorkerStates ==
    {"check", "claim", "selected", "claimed", "run", "update", "wait", "exited"}

\* draining: cancelWorkers called, in srv.Shutdown; waiting: in the select on
\* workersDone and the 30 s context; down: no process.
Phases == {"up", "draining", "waiting", "down"}

Pool(r) == {w \in Workers : Host[w] = r}

\* workerCtx of w's pool is cancelled.
Cancelled(w) == phase[Host[w]] # "up"

\* w is the worker in charge of a row that its claim turned to running.
Owning == {"claimed", "run", "update"}
Owned(e) == \E w \in Workers : pc[w] \in Owning /\ job[w] = e

-----------------------------------------------------------------------------
(* What a claim can see of the table.                                      *)

\* FOR UPDATE: the selected row is locked until its transaction ends, also when
\* the process that opened it died and the database has not noticed yet.
Locked(e) ==
    \/ e \in deadTx
    \/ \E w \in Workers : pc[w] = "selected" /\ job[w] = e

\* Mutant: FOR UPDATE SKIP LOCKED forgotten.
ClaimableWithoutSkipLocked == {e \in Execs : row[e] = "pending"}

\* Rows that the claim's SELECT considers. SQLite has no SKIP LOCKED.
Claimable ==
    {e \in Execs : row[e] = "pending" /\ (Backend = "postgres" => ~Locked(e))}

\* ORDER BY created_at ASC, id ASC LIMIT 1
Oldest(e) ==
    /\ e \in Claimable
    /\ \A f \in Claimable :
          \/ created[e] < created[f]
          \/ created[e] = created[f] /\ e <= f

\* Mutant: the pool of SQLite connections is not limited to one.
ConnFreeUnlimited(r) == TRUE

\* SetMaxOpenConns(1): a statement waits until no transaction of this process is
\* open. PostgreSQL connections are pooled and do not exclude each other.
ConnFree(r) == Backend = "sqlite" => \A w \in Pool(r) : pc[w] # "selected"

\* A database call of this process fails: connection lost, statement timeout,
\* serialization or I/O error.
Fault ==
    /\ faults < MaxFaults
    /\ faults' = faults + 1
    /\ UNCHANGED <<crashes, signals>>

-----------------------------------------------------------------------------
(* The CreateExecution handler.                                            *)

\* Catalog lookup and body decoding succeeded; ExecutionFromRequest reads the
\* clock before the row is inserted. A replica that shuts down accepts nothing.
StampRequest(e, r, t) ==
    /\ req[e] = "none"
    /\ phase[r] = "up"
    /\ req' = [req EXCEPT ![e] = "stamped"]
    /\ via' = [via EXCEPT ![e] = r]
    /\ created' = [created EXCEPT ![e] = t]
    /\ UNCHANGED <<row, output, poolVars, notify, procVars, ran, lost, failVars>>

\* store.CreateExecution: the INSERT takes effect in the database.
InsertRow(e) ==
    /\ req[e] = "stamped"
    /\ ConnFree(via[e])
    /\ req' = [req EXCEPT ![e] = "stored"]
    /\ row' = [row EXCEPT ![e] = "pending"]
    /\ UNCHANGED <<output, created, via, poolVars, notify, procVars, ran, lost, failVars>>

\* store.CreateExecution returned nil: Notify fills the channel if it is empty,
\* and the caller is answered 202.
Acknowledge(e) ==
    /\ req[e] = "stored"
    /\ req' = [req EXCEPT ![e] = "acked"]
    /\ notify' = [notify EXCEPT ![via[e]] = TRUE]
    /\ UNCHANGED <<rowVars, via, poolVars, procVars, ran, lost, failVars>>

\* store.CreateExecution returned an error: the caller is answered 500 and nobody
\* is notified. The INSERT may have taken effect all the same.
InsertError(e) ==
    /\ req[e] \in {"stamped", "stored"}
    /\ Fault
    /\ req' = [req EXCEPT ![e] = "error"]
    /\ UNCHANGED <<rowVars, via, poolVars, notify, procVars, ran, lost>>

-----------------------------------------------------------------------------
(* workerLoop and the claim transaction.                                   *)

Goto(w, state) == pc' = [pc EXCEPT ![w] = state]

\* if ctx.Err() != nil { return }
CheckContext(w) ==
    /\ pc[w] = "check"
    /\ Goto(w, IF Cancelled(w) THEN "exited" ELSE "claim")
    /\ UNCHANGED <<rowVars, httpVars, job, result, notify, procVars, ran, lost, failVars>>

\* BEGIN and SELECT found the oldest claimable row.
ClaimSelect(w) ==
    /\ pc[w] = "claim"
    /\ ConnFree(Host[w])
    /\ \E e \in Execs : Oldest(e) /\ job' = [job EXCEPT ![w] = e]
    /\ Goto(w, "selected")
    /\ UNCHANGED <<rowVars, httpVars, result, notify, procVars, ran, lost, failVars>>

\* The SELECT found no row: ErrNotFound, whatever the context says.
ClaimNothing(w) ==
    /\ pc[w] = "claim"
    /\ ConnFree(Host[w])
    /\ Claimable = {}
    /\ Goto(w, "wait")
    /\ UNCHANGED <<rowVars, httpVars, job, result, notify, procVars, ran, lost, failVars>>

\* The claim returned any other error: a worker whose context is cancelled
\* returns, another logs the error and waits.
AfterClaimError(w) ==
    /\ Goto(w, IF Cancelled(w) THEN "exited" ELSE "wait")
    /\ job' = [job EXCEPT ![w] = NoExec]

\* A statement of the claim transaction failed, or its context was cancelled:
\* the deferred Rollback leaves the row pending and unlocked.
ClaimError(w) ==
    /\ pc[w] \in {"claim", "selected"}
    /\ \/ Fault
       \/ Cancelled(w) /\ UNCHANGED failVars
    /\ AfterClaimError(w)
    /\ UNCHANGED <<rowVars, httpVars, result, notify, procVars, ran, lost>>

\* UPDATE ... SET status = 'running', re-read and COMMIT take effect. A COMMIT
\* that was sent before the context was cancelled may arrive after it.
ClaimCommit(w) ==
    /\ pc[w] = "selected"
    /\ row' = [row EXCEPT ![job[w]] = "running"]
    /\ Goto(w, "claimed")
    /\ UNCHANGED <<output, created, httpVars, job, result, notify, procVars, ran, lost, failVars>>

\* The COMMIT took effect but ClaimNextExecution returns an error: the answer was
\* lost, the row could not be converted, or the context that the PostgreSQL
\* driver runs the COMMIT under was cancelled meanwhile.
ClaimAnswerLost(w) ==
    /\ pc[w] = "claimed"
    /\ \/ Fault
       \/ Cancelled(w) /\ Backend = "postgres" /\ UNCHANGED failVars
    /\ AfterClaimError(w)
    /\ lost' = lost \cup {job[w]}
    /\ UNCHANGED <<rowVars, httpVars, result, notify, procVars, ran>>

\* case err == nil: process calls Runner.Run, also when the context is cancelled.
Process(w) ==
    /\ pc[w] = "claimed"
    /\ Goto(w, "run")
    /\ ran' = [ran EXCEPT ![job[w]] = @ + 1]
    /\ UNCHANGED <<rowVars, httpVars, job, result, notify, procVars, lost, failVars>>

\* Runner.Run returns succeeded with an output, or failed without one.
RunFinish(w) ==
    /\ pc[w] = "run"
    /\ \E s \in Terminal : result' = [result EXCEPT ![w] = s]
    /\ Goto(w, "update")
    /\ UNCHANGED <<rowVars, httpVars, job, notify, procVars, ran, lost, failVars>>

\* process is done with its job, whether or not the row was updated.
AfterUpdate(w) ==
    /\ Goto(w, "check")
    /\ job' = [job EXCEPT ![w] = NoExec]
    /\ result' = [result EXCEPT ![w] = "none"]
    /\ grace' = grace \ {w}

\* UpdateExecutionWithResult committed: status and output change together.
Update(w) ==
    /\ pc[w] = "update"
    /\ ConnFree(Host[w])
    /\ row' = [row EXCEPT ![job[w]] = result[w]]
    /\ output' = [output EXCEPT ![job[w]] = (result[w] = "succeeded")]
    /\ AfterUpdate(w)
    /\ UNCHANGED <<created, httpVars, notify, phase, deadTx, ran, lost, failVars>>

\* Mutant: the update runs under the worker's context instead of a detached one.
UpdateErrorWhenCancelled(w) ==
    /\ pc[w] = "update"
    /\ \/ Fault
       \/ Cancelled(w) /\ UNCHANGED failVars
    /\ AfterUpdate(w)
    /\ lost' = lost \cup {job[w]}
    /\ UNCHANGED <<rowVars, httpVars, notify, phase, deadTx, ran>>

\* UpdateExecutionWithResult failed or took longer than 5 s: the error is logged
\* and the row stays running. The context is detached from cancellation.
UpdateError(w) ==
    /\ pc[w] = "update"
    /\ Fault
    /\ AfterUpdate(w)
    /\ lost' = lost \cup {job[w]}
    /\ UNCHANGED <<rowVars, httpVars, notify, phase, deadTx, ran>>

\* Mutant: only Notify wakes a worker.
WakeOnNotifyOnly(w) ==
    /\ pc[w] = "wait"
    /\ \/ Cancelled(w) /\ Goto(w, "exited") /\ UNCHANGED notify
       \/ /\ notify[Host[w]]
          /\ notify' = [notify EXCEPT ![Host[w]] = FALSE]
          /\ Goto(w, "check")
    /\ UNCHANGED <<rowVars, httpVars, job, result, procVars, ran, lost, failVars>>

\* select: ctx.Done, the notify token, or the poll ticker.
Wake(w) ==
    /\ pc[w] = "wait"
    /\ \/ Cancelled(w) /\ Goto(w, "exited") /\ UNCHANGED notify
       \/ /\ notify[Host[w]]
          /\ notify' = [notify EXCEPT ![Host[w]] = FALSE]
          /\ Goto(w, "check")
       \/ Goto(w, "check") /\ UNCHANGED notify
    /\ UNCHANGED <<rowVars, httpVars, job, result, procVars, ran, lost, failVars>>

-----------------------------------------------------------------------------
(* runServer: shutdown, exit, crash and restart.                           *)

\* SIGINT or SIGTERM: cancelWorkers, then srv.Shutdown under a 30 s context.
\* Updates in flight now end within their own 5 s, so before that context does.
Signal(r) ==
    /\ phase[r] = "up"
    /\ signals < MaxSignals
    /\ signals' = signals + 1
    /\ phase' = [phase EXCEPT ![r] = "draining"]
    /\ grace' = grace \cup {w \in Pool(r) : pc[w] = "update"}
    /\ UNCHANGED <<rowVars, httpVars, poolVars, notify, deadTx, ran, lost, faults, crashes>>

\* Handlers of r that have not answered yet.
InFlight(r) == {e \in Execs : via[e] = r /\ req[e] \in {"stamped", "stored"}}

\* srv.Shutdown returned nil: every handler has answered.
HandlersDrained(r) ==
    /\ phase[r] = "draining"
    /\ InFlight(r) = {}
    /\ phase' = [phase EXCEPT ![r] = "waiting"]
    /\ UNCHANGED <<rowVars, httpVars, poolVars, notify, grace, deadTx, ran, lost, failVars>>

\* The process ends: the store is closed, the goroutines vanish, requests are cut
\* off. The database rolls an open claim transaction back later.
Exit(r) ==
    /\ phase' = [phase EXCEPT ![r] = "down"]
    /\ lost' = lost \cup {job[w] : w \in {v \in Pool(r) : pc[v] \in Owning}}
    /\ deadTx' = IF Backend = "postgres"
                 THEN deadTx \cup {job[w] : w \in {v \in Pool(r) : pc[v] = "selected"}}
                 ELSE deadTx
    /\ pc' = [w \in Workers |-> IF w \in Pool(r) THEN "exited" ELSE pc[w]]
    /\ job' = [w \in Workers |-> IF w \in Pool(r) THEN NoExec ELSE job[w]]
    /\ result' = [w \in Workers |-> IF w \in Pool(r) THEN "none" ELSE result[w]]
    /\ req' = [e \in Execs |-> IF e \in InFlight(r) THEN "error" ELSE req[e]]
    /\ notify' = [notify EXCEPT ![r] = FALSE]
    /\ grace' = grace \ Pool(r)
    /\ UNCHANGED <<rowVars, via, ran>>

\* workersDone: every worker returned before the 30 s were over.
PoolDrained(r) ==
    /\ phase[r] = "waiting"
    /\ \A w \in Pool(r) : pc[w] = "exited"
    /\ Exit(r)
    /\ UNCHANGED failVars

\* Mutant: the pool is awaited without a deadline.
DeadlineForHandlersOnly(r) ==
    /\ phase[r] = "draining"
    /\ \A w \in Pool(r) : w \notin grace
    /\ Exit(r)
    /\ UNCHANGED failVars

\* The 30 s context ended: srv.Shutdown returns its error and runServer leaves
\* without waiting for the pool, or the wait for workersDone is given up.
Deadline(r) ==
    /\ phase[r] \in {"draining", "waiting"}
    /\ \A w \in Pool(r) : w \notin grace
    /\ Exit(r)
    /\ UNCHANGED failVars

\* The process dies: killed, out of memory, or a panic in a worker goroutine,
\* which nothing recovers.
Crash(r) ==
    /\ phase[r] # "down"
    /\ crashes < MaxCrashes
    /\ crashes' = crashes + 1
    /\ Exit(r)
    /\ UNCHANGED <<faults, signals>>

\* The database notices that a client is gone and aborts its claim transaction.
AbortDeadTx(e) ==
    /\ e \in deadTx
    /\ deadTx' = deadTx \ {e}
    /\ UNCHANGED <<rowVars, httpVars, poolVars, notify, phase, grace, ran, lost, failVars>>

\* A new process: worker.New and Start. Rows left running are not looked at.
Restart(r) ==
    /\ phase[r] = "down"
    /\ phase' = [phase EXCEPT ![r] = "up"]
    /\ pc' = [w \in Workers |-> IF w \in Pool(r) THEN "check" ELSE pc[w]]
    /\ UNCHANGED <<rowVars, httpVars, job, result, notify, grace, deadTx, ran, lost, failVars>>

-----------------------------------------------------------------------------
Init ==
    /\ row = [e \in Execs |-> "absent"]
    /\ output = [e \in Execs |-> FALSE]
    /\ created = [e \in Execs |-> 0]
    /\ req = [e \in Execs |-> "none"]
    /\ via = [e \in Execs |-> CHOOSE r \in Replicas : TRUE]
    /\ pc = [w \in Workers |-> "check"]
    /\ job = [w \in Workers |-> NoExec]
    /\ result = [w \in Workers |-> "none"]
    /\ notify = [r \in Replicas |-> FALSE]
    /\ phase = [r \in Replicas |-> "up"]
    /\ grace = {}
    /\ deadTx = {}
    /\ ran = [e \in Execs |-> 0]
    /\ lost = {}
    /\ faults = 0 /\ crashes = 0 /\ signals = 0

Handler(e) == InsertRow(e) \/ Acknowledge(e)

\* What a worker does of its own accord; RunFinish is the action's return.
WorkerStep(w) ==
    \/ CheckContext(w) \/ ClaimSelect(w) \/ ClaimNothing(w) \/ ClaimCommit(w)
    \/ Process(w) \/ Update(w) \/ Wake(w)

ServerStep(r) == HandlersDrained(r) \/ PoolDrained(r) \/ Deadline(r) \/ Restart(r)

Next ==
    \/ \E e \in Execs :
          \/ \E r \in Replicas, t \in Stamps : StampRequest(e, r, t)
          \/ Handler(e)
          \/ InsertError(e)
          \/ AbortDeadTx(e)
    \/ \E w \in Workers :
          \/ WorkerStep(w) \/ RunFinish(w)
          \/ ClaimError(w) \/ ClaimAnswerLost(w) \/ UpdateError(w)
    \/ \E r \in Replicas : ServerStep(r) \/ Signal(r) \/ Crash(r)

Spec == Init /\ [][Next]_vars

\* Goroutines are scheduled, the poll ticker fires, transactions of dead clients
\* are aborted, the shutdown context expires, and a stopped replica is started
\* again by its deployment. Nobody has to submit, signal or crash.
StepFairness ==
    /\ \A e \in Execs : WF_vars(Handler(e)) /\ WF_vars(AbortDeadTx(e))
    /\ \A w \in Workers : WF_vars(WorkerStep(w))
    /\ \A r \in Replicas : WF_vars(ServerStep(r))

\* The execution timeout of ExecutorRunner ends every run whose action honours
\* its context.
RunFairness == \A w \in Workers : WF_vars(RunFinish(w))

FairSpec == Spec /\ StepFairness /\ RunFairness

\* Actions that ignore their context may hang for ever.
HungSpec == Spec /\ StepFairness

-----------------------------------------------------------------------------
(* Properties.                                                             *)

\* The type of every variable.
TypeOK ==
    /\ row \in [Execs -> Statuses]
    /\ output \in [Execs -> BOOLEAN]
    /\ created \in [Execs -> Nat]
    /\ req \in [Execs -> ReqStates]
    /\ via \in [Execs -> Replicas]
    /\ pc \in [Workers -> WorkerStates]
    /\ job \in [Workers -> Execs \cup {NoExec}]
    /\ result \in [Workers -> Terminal \cup {"none"}]
    /\ notify \in [Replicas -> BOOLEAN]
    /\ phase \in [Replicas -> Phases]
    /\ grace \in SUBSET Workers
    /\ deadTx \in SUBSET Execs
    /\ ran \in [Execs -> Nat]
    /\ lost \in SUBSET Execs
    /\ faults \in Nat /\ crashes \in Nat /\ signals \in Nat

\* A trusted action is started at most once per execution, however many workers
\* and replicas poll the table and whatever fails or restarts between the claim
\* and the update: ClaimNextExecution hands a row to one caller only.
RunAtMostOnce == \A e \in Execs : ran[e] <= 1

\* A row is stuck in running, with no worker that will ever update it, exactly
\* when its claim's answer was lost, its update failed, or its worker's process
\* ended in between. No other interleaving strands a row, and nothing recovers
\* one that is stranded: startup does not look at running rows.
StuckExactlyWhenLost ==
    \A e \in Execs : e \in lost <=> (row[e] = "running" /\ ~Owned(e))

\* The queue implements the life of an execution that Executions describes.
Abs == INSTANCE Executions WITH status <- row
RefinesExecutions == Abs!AbsSpec

\* The inductive strengthening of RunAtMostOnce and StuckExactlyWhenLost. A job is
\* held exactly while a row is selected or owned; a selected row is pending and
\* selected by one worker (row lock, or SQLite's only connection); an owned row
\* is running and owned by one worker; ran counts what the status implies.
JobInv ==
    \A w \in Workers :
        /\ job[w] # NoExec <=> pc[w] \in Owning \cup {"selected"}
        /\ result[w] # "none" <=> pc[w] = "update"

SelectInv ==
    /\ \A w \in Workers : pc[w] = "selected" => row[job[w]] = "pending" /\ job[w] \notin deadTx
    /\ \A w, v \in Workers :
          pc[w] = "selected" /\ pc[v] = "selected" /\ job[w] = job[v] => w = v
    /\ \A e \in deadTx : row[e] = "pending"
    /\ Backend = "sqlite" =>
          /\ \A w, v \in Workers : pc[w] = "selected" /\ pc[v] = "selected" => w = v
          /\ deadTx = {}

OwnerInv ==
    /\ \A w \in Workers : pc[w] \in Owning =>
          /\ row[job[w]] = "running"
          /\ ran[job[w]] = IF pc[w] = "claimed" THEN 0 ELSE 1
    /\ \A w, v \in Workers :
          pc[w] \in Owning /\ pc[v] \in Owning /\ job[w] = job[v] => w = v

RowInv ==
    \A e \in Execs :
        /\ req[e] \in {"none", "stamped"} => row[e] = "absent"
        /\ req[e] \in {"stored", "acked"} => row[e] # "absent"
        /\ row[e] \in {"absent", "pending"} => ran[e] = 0
        /\ row[e] = "running" => ran[e] <= 1
        /\ row[e] \in Terminal => ran[e] = 1
        /\ output[e] <=> row[e] = "succeeded"

\* A replica that is down has no goroutines.
DownInv == \A w \in Workers : phase[Host[w]] = "down" => pc[w] = "exited"

IndInv ==
    /\ TypeOK
    /\ DownInv
    /\ JobInv
    /\ SelectInv
    /\ OwnerInv
    /\ RowInv
    /\ StuckExactlyWhenLost

\* Once accepted, an execution is decided: it reaches a terminal status, unless
\* one of the failures StuckExactlyWhenLost lists strands it. Neither a lost
\* notification nor restarts nor locks of dead clients keep it pending for ever.
AcceptedIsDecided ==
    \A e \in Execs : (row[e] = "pending") ~> (row[e] \in Terminal \/ e \in lost)

\* A result whose update was in flight when the replica was signalled is
\* persisted, unless the database fails or the process crashes: the detached
\* update context outlives the cancellation.
EarlyResultPersisted ==
    \A w \in Workers, e \in Execs :
        (w \in grace /\ job[w] = e) ~> (row[e] \in Terminal \/ faults + crashes > 0)

\* Shutdown ends within its deadline even if an action ignores its context.
ShutdownCompletes ==
    \A r \in Replicas : (phase[r] \in {"draining", "waiting"}) ~> (phase[r] = "down")
=============================================================================
