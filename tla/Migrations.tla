------------------------------ MODULE Migrations ------------------------------
(***************************************************************************)
(* runMigrations (internal/store/migrations.go) as every replica calls it  *)
(* at startup from NewPostgresStore: an advisory lock on a dedicated       *)
(* connection, and one transaction per migration on other connections of   *)
(* the same pool. Replicas of different releases start at the same time.   *)
(* The lock ends with its session, and the loop does not notice.           *)
(***************************************************************************)
EXTENDS Naturals

CONSTANTS
    Replicas,
    Known,       \* Known[r]: how many migrations r's release has, a prefix of all
    PoolSize,    \* ROSA_TA_DB_MAX_OPEN_CONNS
    Nobody, Orphan,   \* the lock is free; held by a session nobody will unlock
    MaxFaults,   \* bound: database calls that fail
    MaxCrashes   \* bound: processes that die

ASSUME MigrationsAssumption ==
    /\ Known \in [Replicas -> Nat]
    /\ PoolSize \in Nat \ {0}
    /\ {Nobody, Orphan} \cap Replicas = {}
    /\ MaxFaults \in Nat /\ MaxCrashes \in Nat

VARIABLES
    pc,        \* pc[r]: where the startup of r stands
    next,      \* next[r]: the migration r looks at
    err,       \* err[r]: what runMigrations will return
    holder,    \* who holds the advisory lock
    recorded,  \* schema_migrations: the versions in it
    schema,    \* schema[v]: how often the content of v was committed
    late,      \* versions whose COMMIT is on its way from a client that is gone
    lost,      \* replicas whose lock session ended since they were given the lock
    unguarded, \* history: versions whose transaction ran without the lock of its client
    faults, crashes

dbVars == <<recorded, schema, late, unguarded>>
vars == <<pc, next, err, holder, lost, dbVars, faults, crashes>>

Versions == UNION {1..Known[r] : r \in Replicas}

\* start: process started; locking: waits in pg_advisory_lock; check, apply: head
\* and body of the loop; unlock: the deferred unlock; serving; down: no process.
States == {"start", "locking", "check", "apply", "unlock", "serving", "down"}
InMigrations == {"check", "apply", "unlock"}

Goto(r, state) == pc' = [pc EXCEPT ![r] = state]
Return(r, e) == Goto(r, "unlock") /\ err' = [err EXCEPT ![r] = e]

\* The dedicated connection is taken from the pool until runMigrations returns, and
\* every statement of the loop needs another one. With a pool of one connection,
\* which getPositiveIntEnv admits, the loop waits for itself for ever.
Dedicated(r) == IF pc[r] \in {"locking"} \cup InMigrations THEN 1 ELSE 0
FreeConnection(r) == Dedicated(r) < PoolSize

Fault == faults < MaxFaults /\ faults' = faults + 1

\* db.Conn
Connect(r) ==
    /\ pc[r] = "start"
    /\ FreeConnection(r)
    /\ Goto(r, "locking")
    /\ UNCHANGED <<next, err, holder, lost, dbVars, faults, crashes>>

\* The connection or the lock cannot be had: the server exits. The lock may have
\* been granted all the same, to a session that is about to end.
ConnectError(r) ==
    /\ pc[r] \in {"start", "locking"}
    /\ Fault
    /\ \/ UNCHANGED holder
       \/ pc[r] = "locking" /\ holder = Nobody /\ holder' = Orphan
    /\ Goto(r, "down")
    /\ err' = [err EXCEPT ![r] = "error"]
    /\ UNCHANGED <<next, lost, dbVars, crashes>>

\* Mutant: there is no advisory lock.
LockAtOnce(r) ==
    /\ pc[r] = "locking"
    /\ holder' = r
    /\ lost' = lost \ {r}
    /\ next' = [next EXCEPT ![r] = 1]
    /\ Goto(r, "check")
    /\ UNCHANGED <<err, dbVars, faults, crashes>>

\* SELECT pg_advisory_lock returns.
Lock(r) ==
    /\ pc[r] = "locking"
    /\ holder = Nobody
    /\ holder' = r
    /\ lost' = lost \ {r}
    /\ next' = [next EXCEPT ![r] = 1]
    /\ Goto(r, "check")
    /\ UNCHANGED <<err, dbVars, faults, crashes>>

\* PostgreSQL: the session that holds the lock ends, by a broken connection, a
\* failover or an administrator. The loop runs on other connections and goes on.
LoseSession(r) ==
    /\ holder = r
    /\ Fault
    /\ holder' = Nobody
    /\ lost' = lost \cup {r}
    /\ UNCHANGED <<pc, next, err, dbVars, crashes>>

\* Mutant: the loop ends at the first migration that is applied already.
CheckBreaks(r) ==
    /\ pc[r] = "check"
    /\ IF next[r] > Known[r] \/ next[r] \in recorded
       THEN Return(r, "nil") /\ UNCHANGED next
       ELSE Goto(r, "apply") /\ UNCHANGED <<next, err>>
    /\ UNCHANGED <<holder, lost, dbVars, faults, crashes>>

\* CREATE TABLE IF NOT EXISTS before the first round. SELECT COUNT: an applied migration is skipped; after the last, return nil.
Check(r) ==
    /\ pc[r] = "check"
    /\ FreeConnection(r)
    /\ IF next[r] > Known[r]
       THEN Return(r, "nil") /\ UNCHANGED next
       ELSE IF next[r] \in recorded
       THEN next' = [next EXCEPT ![r] = @ + 1] /\ UNCHANGED <<pc, err>>
       ELSE Goto(r, "apply") /\ UNCHANGED <<next, err>>
    /\ UNCHANGED <<holder, lost, dbVars, faults, crashes>>

\* The transaction of version v, content and record, is committed. If v was recorded
\* meanwhile, the primary key rolls it back.
Commit(v) ==
    IF v \in recorded
    THEN UNCHANGED <<recorded, schema>>
    ELSE /\ recorded' = recorded \cup {v}
         /\ schema' = [schema EXCEPT ![v] = @ + 1]

\* A transaction of r runs without the lock if r has lost it.
NoteUnguarded(r) == unguarded' = unguarded \cup (IF r \in lost THEN {next[r]} ELSE {})

\* The transaction waits for an open one that inserted the same version.
Apply(r) ==
    /\ pc[r] = "apply"
    /\ FreeConnection(r)
    /\ next[r] \notin late
    /\ Commit(next[r])
    /\ NoteUnguarded(r)
    /\ IF next[r] \in recorded
       THEN Return(r, "conflict") /\ UNCHANGED next
       ELSE Goto(r, "check") /\ next' = [next EXCEPT ![r] = @ + 1] /\ UNCHANGED err
    /\ UNCHANGED <<holder, lost, late, faults, crashes>>

\* Mutant: the content is executed outside the transaction of its record.
StatementErrorAfterContent(r) ==
    /\ pc[r] \in {"check", "apply"}
    /\ Fault
    /\ pc[r] = "apply" /\ schema' = [schema EXCEPT ![next[r]] = @ + 1]
    /\ Return(r, "error")
    /\ UNCHANGED <<next, holder, lost, recorded, late, unguarded, crashes>>

\* The client of a transaction is gone: it is rolled back, or its COMMIT takes
\* effect, at once or after a while.
Abandon(r) ==
    \/ UNCHANGED dbVars
    \/ pc[r] = "apply" /\ next[r] \notin late /\ Commit(next[r]) /\ NoteUnguarded(r) /\ UNCHANGED late
    \/ /\ pc[r] = "apply"
       /\ late' = late \cup {next[r]}
       /\ unguarded' = unguarded \cup {next[r]}
       /\ UNCHANGED <<recorded, schema>>

\* A statement of the loop fails, or its answer does not arrive.
StatementError(r) ==
    /\ pc[r] \in {"check", "apply"}
    /\ Fault
    /\ Abandon(r)
    /\ Return(r, "error")
    /\ UNCHANGED <<next, holder, lost, crashes>>

\* PostgreSQL: a COMMIT that was on its way arrives, or is given up.
Arrive(v) ==
    /\ v \in late
    /\ late' = late \ {v}
    /\ Commit(v) \/ UNCHANGED <<recorded, schema>>
    /\ UNCHANGED <<pc, next, err, holder, lost, unguarded, faults, crashes>>

\* runMigrations returns: NewPostgresStore goes on, or the server exits.
AfterUnlock(r) == Goto(r, IF err[r] = "nil" THEN "serving" ELSE "down")

\* Mutant: the unlock is forgotten.
UnlockForgotten(r) ==
    /\ pc[r] = "unlock"
    /\ AfterUnlock(r)
    /\ UNCHANGED <<next, err, holder, lost, dbVars, faults, crashes>>

\* The deferred pg_advisory_unlock, under a context nobody cancels. If the session is
\* gone the call fails, which is logged, and the lock may be another's by now.
Unlock(r) ==
    /\ pc[r] = "unlock"
    /\ holder' = IF holder = r THEN Nobody ELSE holder
    /\ AfterUnlock(r)
    /\ UNCHANGED <<next, err, lost, dbVars, faults, crashes>>

\* The unlock fails: it is logged, and the session keeps the lock.
UnlockError(r) ==
    /\ pc[r] = "unlock"
    /\ holder = r
    /\ Fault
    /\ holder' = Orphan
    /\ AfterUnlock(r)
    /\ UNCHANGED <<next, err, lost, dbVars, crashes>>

\* ConnMaxLifetime closes the session, or the database finds its client gone.
ReleaseOrphan ==
    /\ holder = Orphan
    /\ holder' = Nobody
    /\ UNCHANGED <<pc, next, err, lost, dbVars, faults, crashes>>

\* The process dies; the database has yet to find out.
Crash(r) ==
    /\ pc[r] # "down"
    /\ crashes < MaxCrashes
    /\ crashes' = crashes + 1
    /\ Goto(r, "down")
    /\ holder' = IF holder = r THEN Orphan ELSE holder
    /\ Abandon(r)
    /\ UNCHANGED <<next, err, lost, faults>>

\* The deployment starts the server again.
Restart(r) ==
    /\ pc[r] = "down"
    /\ Goto(r, "start")
    /\ err' = [err EXCEPT ![r] = "nil"]
    /\ UNCHANGED <<next, holder, lost, dbVars, faults, crashes>>

Init ==
    /\ pc = [r \in Replicas |-> "start"]
    /\ next = [r \in Replicas |-> 1]
    /\ err = [r \in Replicas |-> "nil"]
    /\ holder = Nobody
    /\ recorded = {}
    /\ schema = [v \in Versions |-> 0]
    /\ lost = {} /\ late = {} /\ unguarded = {}
    /\ faults = 0 /\ crashes = 0

Step(r) == Connect(r) \/ Lock(r) \/ Check(r) \/ Apply(r) \/ Unlock(r) \/ Restart(r)

Next ==
    \/ \E r \in Replicas :
          \/ Step(r) \/ ConnectError(r) \/ StatementError(r) \/ UnlockError(r)
          \/ LoseSession(r) \/ Crash(r)
    \/ \E v \in Versions : Arrive(v)
    \/ ReleaseOrphan

Spec == Init /\ [][Next]_vars

\* PostgreSQL grants an advisory lock to its waiters in turn and finds out about
\* clients that are gone; a replica that is down
\* is started again.
FairSpec ==
    /\ Spec
    /\ \A r \in Replicas : WF_vars(Step(r)) /\ SF_vars(Lock(r))
    /\ WF_vars(ReleaseOrphan)
    /\ \A v \in Versions : WF_vars(Arrive(v))

-----------------------------------------------------------------------------
(* Properties.                                                             *)

\* The type of every variable.
TypeOK ==
    /\ pc \in [Replicas -> States]
    /\ next \in [Replicas -> Nat \ {0}]
    /\ err \in [Replicas -> {"nil", "error", "conflict"}]
    /\ holder \in Replicas \cup {Nobody, Orphan}
    /\ recorded \in SUBSET Versions
    /\ schema \in [Versions -> Nat]
    /\ lost \in SUBSET Replicas
    /\ late \in SUBSET Versions /\ unguarded \in SUBSET Versions
    /\ faults \in 0..MaxFaults /\ crashes \in 0..MaxCrashes

\* The schema is what schema_migrations says, at every moment and whatever fails or
\* dies: a recorded migration was applied exactly once, an unrecorded one never, and
\* none before its predecessors.
SchemaMatchesRecord ==
    \A v \in Versions :
        /\ schema[v] = IF v \in recorded THEN 1 ELSE 0
        /\ v \in recorded => 1..v \subseteq recorded

\* The lock keeps the checks and applications of replicas apart: a migration is
\* recorded between a replica's check and its own INSERT only if one of the two
\* transactions ran without the lock. Its COMMIT outlived the client that sent it, or
\* the client's lock session had ended in the middle of the loop, in which case the two
\* were not serialised as the comment of runMigrations says.
NoStartupConflict == \A r \in Replicas : err[r] = "conflict" => next[r] \in unguarded

\* A replica serves only with all the migrations of its release applied.
ServesMigratedSchema ==
    \A r \in Replicas : pc[r] = "serving" => 1..Known[r] \subseteq recorded

\* The inductive strengthening of the three. The lock holder is the one replica in
\* the loop that has not lost its session. Whoever is in the loop has everything below
\* the migration it looks at applied; what it decided to apply is still missing, or was
\* committed without the lock, or it has lost the lock itself; a nil result means
\* nothing is missing; and a late COMMIT extends the prefix that is applied.
LockInv ==
    \A r \in Replicas :
        /\ pc[r] \in InMigrations => holder = r \/ r \in lost
        /\ holder = r => pc[r] \in InMigrations /\ r \notin lost

ProgressInv ==
    \A r \in Replicas :
        /\ pc[r] \notin {"unlock", "down"} => err[r] = "nil"
        /\ pc[r] \in {"check", "apply"} => 1 .. next[r] - 1 \subseteq recorded
        /\ pc[r] = "apply" => next[r] \in 1..Known[r]
        /\ pc[r] = "apply" /\ next[r] \in recorded => next[r] \in unguarded \/ r \in lost
        /\ pc[r] = "unlock" /\ err[r] = "nil" => 1..Known[r] \subseteq recorded

LateInv ==
    /\ late \subseteq unguarded
    /\ \A v \in late : 1 .. v - 1 \subseteq recorded

IndInv ==
    /\ TypeOK
    /\ LockInv
    /\ ProgressInv
    /\ LateInv
    /\ SchemaMatchesRecord
    /\ NoStartupConflict
    /\ ServesMigratedSchema

\* Every replica comes to serve in the end, although a lock may be left behind by a
\* failed unlock or a process that died.
StartupCompletes == \A r \in Replicas : (pc[r] # "serving") ~> (pc[r] = "serving")
=============================================================================
