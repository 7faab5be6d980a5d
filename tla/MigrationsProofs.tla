--------------------------- MODULE MigrationsProofs ---------------------------
(***************************************************************************)
(* Proofs about Migrations, for any number of replicas of any releases, any *)
(* pool size, and any number of failing calls, lost sessions and crashes.  *)
(***************************************************************************)
EXTENDS Migrations, TLAPS

\* Nobody and Orphan are no replicas.
LEMMA NoReplica == Nobody \notin Replicas /\ Orphan \notin Replicas
  BY MigrationsAssumption

\* The migrations of a release are among all versions.
LEMMA KnownVersions == \A r \in Replicas : Known[r] \in Nat /\ 1..Known[r] \subseteq Versions
  BY MigrationsAssumption DEF Versions

\* The database starts empty and nobody holds the lock.
LEMMA InitIndInv == Init => IndInv
  <1> SUFFICES ASSUME Init PROVE IndInv
    OBVIOUS
  <1>1. TypeOK
    BY MigrationsAssumption DEF Init, TypeOK, States
  <1>2. LockInv /\ ProgressInv /\ LateInv /\ SchemaMatchesRecord /\ NoStartupConflict
        /\ ServesMigratedSchema
    BY NoReplica DEF Init, LockInv, InMigrations, ProgressInv, LateInv, SchemaMatchesRecord,
                     NoStartupConflict, ServesMigratedSchema
  <1>3. QED
    BY <1>1, <1>2 DEF IndInv

-----------------------------------------------------------------------------
\* Steps that leave the migrations alone: connecting, waiting, failing to connect, the
\* end of the lock session or of runMigrations, restarts, and the release of an orphaned
\* lock.
LEMMA QuietStep ==
  ASSUME IndInv, NEW r \in Replicas,
         \/ Connect(r) \/ ConnectError(r) \/ Lock(r) \/ Unlock(r) \/ UnlockError(r)
         \/ Restart(r) \/ LoseSession(r) \/ ReleaseOrphan
  PROVE  IndInv'
  <1> USE DEF IndInv, Goto, AfterUnlock, Fault
  <1>1. TypeOK'
    <2> USE DEF TypeOK, States, dbVars
    <2>1. CASE Connect(r)        BY <2>1 DEF Connect
    <2>2. CASE ConnectError(r)   BY <2>2, MigrationsAssumption DEF ConnectError
    <2>3. CASE Lock(r)           BY <2>3 DEF Lock
    <2>4. CASE Unlock(r)         BY <2>4 DEF Unlock
    <2>5. CASE UnlockError(r)    BY <2>5, MigrationsAssumption DEF UnlockError
    <2>6. CASE Restart(r)        BY <2>6 DEF Restart
    <2>7. CASE ReleaseOrphan     BY <2>7 DEF ReleaseOrphan
    <2>8. CASE LoseSession(r)    BY <2>8, MigrationsAssumption DEF LoseSession
    <2>9. QED
      BY <2>1, <2>2, <2>3, <2>4, <2>5, <2>6, <2>7, <2>8
  <1>2. UNCHANGED <<recorded, schema, late, unguarded>>
    BY DEF Connect, ConnectError, Lock, Unlock, UnlockError, Restart, LoseSession, ReleaseOrphan, dbVars
  <1>3. LockInv'
    <2> USE NoReplica DEF TypeOK, LockInv, InMigrations
    <2>1. CASE Connect(r)        BY <2>1 DEF Connect
    <2>2. CASE ConnectError(r)   BY <2>2 DEF ConnectError
    <2>3. CASE Lock(r)           BY <2>3 DEF Lock
    <2>4. CASE Unlock(r)         BY <2>4 DEF Unlock
    <2>5. CASE UnlockError(r)    BY <2>5 DEF UnlockError
    <2>6. CASE Restart(r)        BY <2>6 DEF Restart
    <2>7. CASE ReleaseOrphan     BY <2>7 DEF ReleaseOrphan
    <2>8. CASE LoseSession(r)    BY <2>8, MigrationsAssumption DEF LoseSession
    <2>9. QED
      BY <2>1, <2>2, <2>3, <2>4, <2>5, <2>6, <2>7, <2>8
  <1>4. ProgressInv'
    <2> USE <1>2 DEF TypeOK, ProgressInv
    <2>1. CASE Connect(r)        BY <2>1 DEF Connect
    <2>2. CASE ConnectError(r)   BY <2>2 DEF ConnectError
    <2>3. CASE Lock(r)           BY <2>3 DEF Lock
    <2>4. CASE Unlock(r)         BY <2>4 DEF Unlock
    <2>5. CASE UnlockError(r)    BY <2>5 DEF UnlockError
    <2>6. CASE Restart(r)        BY <2>6 DEF Restart
    <2>7. CASE ReleaseOrphan     BY <2>7 DEF ReleaseOrphan
    <2>8. CASE LoseSession(r)    BY <2>8, MigrationsAssumption DEF LoseSession
    <2>9. QED
      BY <2>1, <2>2, <2>3, <2>4, <2>5, <2>6, <2>7, <2>8
  <1>5. SchemaMatchesRecord' /\ LateInv'
    BY <1>2 DEF SchemaMatchesRecord, LateInv
  <1>6. NoStartupConflict'
    <2> USE <1>2 DEF NoStartupConflict, ProgressInv, TypeOK
    <2>1. CASE Connect(r)        BY <2>1 DEF Connect
    <2>2. CASE ConnectError(r)   BY <2>2 DEF ConnectError
    <2>3. CASE Lock(r)           BY <2>3 DEF Lock
    <2>4. CASE Unlock(r)         BY <2>4 DEF Unlock
    <2>5. CASE UnlockError(r)    BY <2>5 DEF UnlockError
    <2>6. CASE Restart(r)        BY <2>6 DEF Restart
    <2>7. CASE ReleaseOrphan     BY <2>7 DEF ReleaseOrphan
    <2>8. CASE LoseSession(r)    BY <2>8, MigrationsAssumption DEF LoseSession
    <2>9. QED
      BY <2>1, <2>2, <2>3, <2>4, <2>5, <2>6, <2>7, <2>8
  <1>7. ServesMigratedSchema'
    <2>1. \A s \in Replicas : pc'[s] = "serving" =>
             pc[s] = "serving" \/ (pc[s] = "unlock" /\ err[s] = "nil")
      BY DEF TypeOK, Connect, ConnectError, Lock, Unlock, UnlockError, Restart, LoseSession, ReleaseOrphan
    <2>2. QED
      BY <1>2, <2>1 DEF ServesMigratedSchema, ProgressInv
  <1>8. QED
    BY <1>1, <1>3, <1>4, <1>5, <1>6, <1>7

\* The head of the loop: what is recorded is skipped, what is not is to be applied,
\* and the loop ends when nothing of the release is left.
LEMMA CheckStep ==
  ASSUME IndInv, NEW r \in Replicas, Check(r)
  PROVE  IndInv'
  <1> USE DEF IndInv, Goto, Return
  <1>1. TypeOK'
    BY DEF TypeOK, States, Check, dbVars
  <1>2. UNCHANGED <<recorded, schema, late, unguarded, holder, lost>>
    BY DEF Check, dbVars
  <1>3. LockInv'
    BY <1>2 DEF LockInv, InMigrations, TypeOK, Check
  <1>4. ProgressInv'
    <2>1. \A s \in Replicas \ {r} : UNCHANGED <<pc[s], next[s], err[s]>>
      BY DEF Check, TypeOK
    <2>2. /\ next[r] \in Nat \ {0} /\ Known[r] \in Nat
          /\ 1 .. next[r] - 1 \subseteq recorded /\ err[r] = "nil"
      BY KnownVersions DEF Check, TypeOK, ProgressInv
    <2>3. CASE next[r] > Known[r]
      BY <1>2, <2>1, <2>2, <2>3 DEF Check, TypeOK, ProgressInv
    <2>4. CASE next[r] \in recorded /\ ~(next[r] > Known[r])
      <3>1. next'[r] = next[r] + 1 /\ pc'[r] = "check" /\ err'[r] = "nil"
        BY <2>2, <2>4 DEF Check, TypeOK
      <3>2. 1 .. next'[r] - 1 \subseteq recorded
        BY <2>2, <2>4, <3>1
      <3>3. QED
        BY <1>2, <2>1, <3>1, <3>2 DEF ProgressInv
    <2>5. CASE next[r] \notin recorded /\ ~(next[r] > Known[r])
      BY <1>2, <2>1, <2>2, <2>5 DEF Check, TypeOK, ProgressInv
    <2>6. QED
      BY <2>3, <2>4, <2>5
  <1>5. SchemaMatchesRecord' /\ LateInv' /\ ServesMigratedSchema'
    BY <1>2 DEF SchemaMatchesRecord, LateInv, ServesMigratedSchema, Check, TypeOK
  <1>6. NoStartupConflict'
    <2>1. \A s \in Replicas : err'[s] = "conflict" => err[s] = "conflict" /\ s # r
      BY DEF ProgressInv, Check, TypeOK
    <2>2. \A s \in Replicas : s # r => next'[s] = next[s]
      BY DEF Check, TypeOK
    <2>3. QED
      BY <1>2, <2>1, <2>2 DEF NoStartupConflict
  <1>7. QED
    BY <1>1, <1>3, <1>4, <1>5, <1>6

\* Of two replicas in the loop, the one that does not hold the lock has lost it.
LEMMA OthersLostLock ==
  ASSUME IndInv, NEW r \in Replicas, pc[r] = "apply", r \notin lost
  PROVE  \A s \in Replicas \ {r} : pc[s] = "apply" => s \in lost
  BY DEF IndInv, LockInv, InMigrations

\* A transaction that commits extends the prefix of applied migrations, or finds its
\* version recorded and changes nothing.
LEMMA CommitStep ==
  ASSUME IndInv, NEW v \in Versions, 1 .. v - 1 \subseteq recorded, Commit(v)
  PROVE  /\ recorded' = recorded \cup {v}
         /\ recorded' \in SUBSET Versions
         /\ schema' \in [Versions -> Nat]
         /\ SchemaMatchesRecord'
  <1> USE DEF IndInv
  <1>1. v \in Nat
    BY MigrationsAssumption DEF Versions
  <1>2. CASE v \in recorded
    BY <1>2 DEF Commit, TypeOK, SchemaMatchesRecord
  <1>3. CASE v \notin recorded
    <2>1. recorded' = recorded \cup {v} /\ schema' = [schema EXCEPT ![v] = @ + 1]
      BY <1>3 DEF Commit
    <2>2. schema' \in [Versions -> Nat] /\ recorded' \in SUBSET Versions
      BY <2>1 DEF TypeOK
    <2>3. \A u \in Versions : schema'[u] = IF u \in recorded' THEN 1 ELSE 0
      BY <1>3, <2>1 DEF TypeOK, SchemaMatchesRecord
    <2>4. 1..v \subseteq recorded'
      BY <1>1, <2>1
    <2>5. \A u \in Versions : u \in recorded' => 1..u \subseteq recorded'
      BY <2>1, <2>4 DEF SchemaMatchesRecord
    <2>6. QED
      BY <2>1, <2>2, <2>3, <2>5 DEF SchemaMatchesRecord
  <1>4. QED
    BY <1>2, <1>3

\* What is about to be applied comes right after what is applied.
LEMMA NextIsDue ==
  ASSUME IndInv, NEW r \in Replicas, pc[r] = "apply"
  PROVE  next[r] \in Versions /\ 1 .. next[r] - 1 \subseteq recorded
  BY KnownVersions DEF IndInv, ProgressInv

\* What a commit of r makes of the others' plans: what they are about to apply is
\* missing, or was committed without the lock, or they have lost it.
LEMMA CommitSeen ==
  ASSUME IndInv, NEW r \in Replicas, pc[r] = "apply",
         recorded' = recorded \cup {next[r]}, NoteUnguarded(r)
  PROVE  /\ unguarded \subseteq unguarded'
         /\ \A s \in Replicas \ {r} :
               pc[s] = "apply" /\ next[s] \in recorded' => next[s] \in unguarded' \/ s \in lost
  <1>1. CASE r \in lost
    BY <1>1 DEF IndInv, ProgressInv, NoteUnguarded
  <1>2. CASE r \notin lost
    BY <1>2, OthersLostLock DEF IndInv, ProgressInv, NoteUnguarded
  <1>3. QED
    BY <1>1, <1>2

\* The transaction of one migration commits, or fails because another one, of a client
\* without the lock, was faster.
LEMMA ApplyStep ==
  ASSUME IndInv, NEW r \in Replicas, Apply(r)
  PROVE  IndInv'
  <1> USE DEF IndInv, Goto, Return
  <1>1. /\ pc[r] = "apply" /\ Commit(next[r]) /\ NoteUnguarded(r)
        /\ UNCHANGED <<holder, lost, late, faults, crashes>>
    BY DEF Apply
  <1>2. /\ recorded' = recorded \cup {next[r]} /\ recorded' \in SUBSET Versions
        /\ schema' \in [Versions -> Nat]
        /\ SchemaMatchesRecord'
    BY <1>1, NextIsDue, CommitStep
  <1>3. /\ unguarded \subseteq unguarded'
        /\ \A s \in Replicas \ {r} :
              pc[s] = "apply" /\ next[s] \in recorded' => next[s] \in unguarded' \/ s \in lost
    BY <1>1, <1>2, CommitSeen
  <1>4. TypeOK'
    <2>1. unguarded' \in SUBSET Versions
      BY <1>1, NextIsDue DEF TypeOK, NoteUnguarded
    <2>2. QED
      BY <1>1, <1>2, <2>1 DEF Apply, TypeOK, States
  <1>5. LockInv'
    BY <1>1 DEF Apply, LockInv, InMigrations, TypeOK
  <1>6. \A s \in Replicas \ {r} : UNCHANGED <<pc[s], next[s], err[s]>>
    BY <1>1 DEF Apply, TypeOK
  <1>7. next[r] \in Nat \ {0} /\ 1 .. next[r] - 1 \subseteq recorded /\ err[r] = "nil"
    BY <1>1 DEF TypeOK, ProgressInv
  <1>8. ProgressInv'
    <2>1. CASE next[r] \in recorded
      <3>1. pc'[r] = "unlock" /\ err'[r] = "conflict"
        BY <1>1, <2>1 DEF Apply, TypeOK
      <3>2. QED
        BY <1>1, <1>2, <1>3, <1>6, <3>1 DEF ProgressInv
    <2>2. CASE next[r] \notin recorded
      <3>1. next'[r] = next[r] + 1 /\ pc'[r] = "check" /\ err'[r] = "nil"
        BY <1>7, <2>2 DEF Apply, TypeOK
      <3>2. 1 .. next'[r] - 1 \subseteq recorded'
        BY <1>2, <1>7, <3>1
      <3>3. QED
        BY <1>1, <1>2, <1>3, <1>6, <3>1, <3>2 DEF ProgressInv
    <2>3. QED
      BY <2>1, <2>2
  <1>9. LateInv'
    BY <1>1, <1>2, <1>3 DEF LateInv
  <1>10. NoStartupConflict'
    <2>1. CASE next[r] \in recorded
      <3>1. next[r] \in unguarded' /\ next'[r] = next[r]
        BY <1>1, <2>1 DEF Apply, ProgressInv, NoteUnguarded
      <3>2. QED
        BY <1>1, <1>3, <1>6, <3>1 DEF NoStartupConflict
    <2>2. CASE next[r] \notin recorded
      BY <1>1, <1>3, <1>6, <1>7, <2>2 DEF Apply, NoStartupConflict
    <2>3. QED
      BY <2>1, <2>2
  <1>11. ServesMigratedSchema'
    BY <1>2 DEF Apply, ServesMigratedSchema, TypeOK
  <1>12. QED
    BY <1>2, <1>4, <1>5, <1>8, <1>9, <1>10, <1>11

\* An abandoned transaction took effect as a whole, or did not, or will.
LEMMA AbandonStep ==
  ASSUME IndInv, NEW r \in Replicas, Abandon(r)
  PROVE  /\ recorded \subseteq recorded' /\ recorded' \in SUBSET Versions
         /\ unguarded \subseteq unguarded' /\ unguarded' \in SUBSET Versions
         /\ late' \in SUBSET Versions /\ schema' \in [Versions -> Nat]
         /\ SchemaMatchesRecord' /\ LateInv'
         /\ \A s \in Replicas \ {r} :
               pc[s] = "apply" /\ next[s] \in recorded' => next[s] \in unguarded' \/ s \in lost
  <1> USE DEF IndInv
  <1>1. CASE UNCHANGED dbVars
    BY <1>1 DEF dbVars, TypeOK, SchemaMatchesRecord, LateInv, ProgressInv
  <1>2. CASE pc[r] = "apply" /\ Commit(next[r]) /\ NoteUnguarded(r) /\ UNCHANGED late
    <2>1. /\ recorded' = recorded \cup {next[r]} /\ recorded' \in SUBSET Versions
          /\ schema' \in [Versions -> Nat]
          /\ SchemaMatchesRecord'
      BY <1>2, NextIsDue, CommitStep
    <2>2. unguarded' \in SUBSET Versions
      BY <1>2, NextIsDue DEF TypeOK, NoteUnguarded
    <2>3. /\ unguarded \subseteq unguarded'
          /\ \A s \in Replicas \ {r} :
                pc[s] = "apply" /\ next[s] \in recorded' => next[s] \in unguarded' \/ s \in lost
      BY <1>2, <2>1, CommitSeen
    <2>4. QED
      BY <1>2, <2>1, <2>2, <2>3 DEF TypeOK, LateInv
  <1>3. CASE /\ pc[r] = "apply"
             /\ late' = late \cup {next[r]}
             /\ unguarded' = unguarded \cup {next[r]}
             /\ UNCHANGED <<recorded, schema>>
    BY <1>3, NextIsDue DEF TypeOK, LateInv, SchemaMatchesRecord, ProgressInv
  <1>4. QED
    BY <1>1, <1>2, <1>3 DEF Abandon

\* A replica leaves the loop by a failing statement, or the process by a crash.
LEMMA FailureStep ==
  ASSUME IndInv, NEW r \in Replicas, StatementError(r) \/ Crash(r)
  PROVE  IndInv'
  <1> USE DEF IndInv, Goto, Return, Fault
  <1>1. /\ recorded \subseteq recorded' /\ recorded' \in SUBSET Versions
        /\ unguarded \subseteq unguarded' /\ unguarded' \in SUBSET Versions
        /\ late' \in SUBSET Versions /\ schema' \in [Versions -> Nat]
        /\ SchemaMatchesRecord' /\ LateInv'
        /\ \A s \in Replicas \ {r} :
              pc[s] = "apply" /\ next[s] \in recorded' => next[s] \in unguarded' \/ s \in lost
    BY AbandonStep DEF StatementError, Crash
  <1>2. UNCHANGED <<next, lost>>
    BY DEF StatementError, Crash
  <1>3. TypeOK'
    <2>1. CASE StatementError(r)
      BY <1>1, <2>1, MigrationsAssumption DEF StatementError, TypeOK, States
    <2>2. CASE Crash(r)
      BY <1>1, <2>2, MigrationsAssumption DEF Crash, TypeOK, States
    <2>3. QED
      BY <2>1, <2>2
  <1>4. LockInv'
    BY NoReplica DEF StatementError, Crash, LockInv, InMigrations, TypeOK
  <1>5. ProgressInv'
    <2>1. \A s \in Replicas \ {r} : UNCHANGED <<pc[s], err[s]>>
      BY DEF StatementError, Crash, TypeOK
    <2>2. pc'[r] = "down" \/ (pc'[r] = "unlock" /\ err'[r] = "error")
      BY DEF StatementError, Crash, TypeOK
    <2>3. QED
      BY <1>1, <1>2, <2>1, <2>2 DEF ProgressInv
  <1>6. NoStartupConflict'
    BY <1>1, <1>2 DEF StatementError, Crash, NoStartupConflict, TypeOK
  <1>7. ServesMigratedSchema'
    BY <1>1 DEF StatementError, Crash, ServesMigratedSchema, TypeOK
  <1>8. QED
    BY <1>1, <1>3, <1>4, <1>5, <1>6, <1>7

\* A late COMMIT arrives or is given up.
LEMMA ArriveStep ==
  ASSUME IndInv, NEW v \in Versions, Arrive(v)
  PROVE  IndInv'
  <1> USE DEF IndInv
  <1>1. /\ v \in late /\ late' = late \ {v}
        /\ UNCHANGED <<pc, next, err, holder, lost, unguarded, faults, crashes>>
    BY DEF Arrive
  <1>2. /\ recorded' \subseteq recorded \cup {v} /\ recorded \subseteq recorded'
        /\ recorded' \in SUBSET Versions
        /\ schema' \in [Versions -> Nat]
        /\ SchemaMatchesRecord'
    <2>1. CASE Commit(v)
      <3>1. 1 .. v - 1 \subseteq recorded
        BY <1>1 DEF LateInv
      <3>2. QED
        BY <2>1, <3>1, CommitStep
    <2>2. CASE UNCHANGED <<recorded, schema>>
      BY <2>2 DEF TypeOK, SchemaMatchesRecord
    <2>3. QED
      BY <2>1, <2>2 DEF Arrive
  <1>3. v \in unguarded
    BY <1>1 DEF LateInv
  <1>4. TypeOK' /\ LockInv' /\ LateInv' /\ NoStartupConflict' /\ ServesMigratedSchema'
    BY <1>1, <1>2 DEF TypeOK, LockInv, LateInv, NoStartupConflict, ServesMigratedSchema
  <1>5. ProgressInv'
    BY <1>1, <1>2, <1>3 DEF ProgressInv
  <1>6. QED
    BY <1>2, <1>4, <1>5

-----------------------------------------------------------------------------
\* The strengthening is an invariant: of the replicas between pg_advisory_lock and
\* pg_advisory_unlock all but the holder have lost their lock session, and each one,
\* with the lock or without, finds and leaves a prefix of the migrations applied.
THEOREM MigrationsInvariant == Spec => []IndInv
  <1>1. IndInv /\ [Next]_vars => IndInv'
    <2> SUFFICES ASSUME IndInv, [Next]_vars PROVE IndInv'
      OBVIOUS
    <2>1. CASE UNCHANGED vars
      BY <2>1 DEF vars, dbVars, IndInv, TypeOK, LockInv, ProgressInv, LateInv,
                  SchemaMatchesRecord, NoStartupConflict, ServesMigratedSchema
    <2>2. CASE Next
      <3>1. CASE ReleaseOrphan
        <4>1. CASE Replicas = {}
          BY <3>1, <4>1 DEF ReleaseOrphan, dbVars, IndInv, TypeOK, LockInv, ProgressInv,
                            LateInv, SchemaMatchesRecord, NoStartupConflict, ServesMigratedSchema
        <4>2. CASE Replicas # {}
          BY <3>1, <4>2, QuietStep
        <4>3. QED
          BY <4>1, <4>2
      <3>2. CASE \E r \in Replicas : \/ Step(r) \/ ConnectError(r) \/ StatementError(r)
                                     \/ UnlockError(r) \/ LoseSession(r) \/ Crash(r)
        BY <3>2, QuietStep, CheckStep, ApplyStep, FailureStep DEF Step
      <3>3. CASE \E v \in Versions : Arrive(v)
        BY <3>3, ArriveStep
      <3>4. QED
        BY <2>2, <3>1, <3>2, <3>3 DEF Next
    <2>3. QED
      BY <2>1, <2>2
  <1>2. QED
    BY <1>1, InitIndInv, PTL DEF Spec

\* schema_migrations never lies, whatever call of runMigrations fails or process
\* dies: recorded migrations were applied once, in order, and no others.
THEOREM RecordIsTrue == Spec => []SchemaMatchesRecord
  <1>1. IndInv => SchemaMatchesRecord
    BY DEF IndInv
  <1>2. QED
    BY <1>1, MigrationsInvariant, PTL

\* Replicas that start together do not make each other's startup fail, unless a
\* transaction outlived its client or the lock session of its client.
THEOREM StartupsDoNotConflict == Spec => []NoStartupConflict
  <1>1. IndInv => NoStartupConflict
    BY DEF IndInv
  <1>2. QED
    BY <1>1, MigrationsInvariant, PTL

\* NewPostgresStore returns a store only when every migration of its release is
\* applied.
THEOREM ServingIsMigrated == Spec => []ServesMigratedSchema
  <1>1. IndInv => ServesMigratedSchema
    BY DEF IndInv
  <1>2. QED
    BY <1>1, MigrationsInvariant, PTL
=============================================================================
