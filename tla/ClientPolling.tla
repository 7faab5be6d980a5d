---------------------------- MODULE ClientPolling ----------------------------
(***************************************************************************)
(* What a caller observes of an execution: `rta run` (internal/rta) posts  *)
(* it, polls GET /runs/{id} until the status is terminal or its context    *)
(* ends, and fetches GET /runs/{id}/output. The handlers                   *)
(* (internal/handlers/api.go) read the executions row and its output in    *)
(* two queries, while the workers go on.                                   *)
(*                                                                         *)
(* The store and the workers are those of Executions, which the queue is   *)
(* shown to implement.                                                     *)
(***************************************************************************)
EXTENDS Executions

VARIABLES
    cli,     \* cli[e]: where the command that posts e stands
    seen,    \* seen[e]: the status that GetExecution read, not yet answered
    told,    \* told[e]: the status in the last answer the command received
    link,    \* link[e]: the output link of that answer: "yes", "no", or "unchecked"
             \* when the handler's second query failed
    ended    \* ended[e]: how the command ended

cliVars == <<cli, seen, told, link, ended>>
pollVars == <<absVars, cliVars>>

CliStates == {"idle", "wait", "reading", "fetch", "done"}

\* submitted: --no-wait; missing: 404 for the output of a succeeded execution.
Exits == {"none", "submitted", "ok", "failed", "missing", "error"}

Done(e, how) ==
    /\ cli' = [cli EXCEPT ![e] = "done"]
    /\ ended' = [ended EXCEPT ![e] = how]

\* POST /{action}/run is answered 202 with status pending; --no-wait ends here.
Post(e) ==
    /\ cli[e] = "idle"
    /\ Submit(e)
    /\ told' = [told EXCEPT ![e] = "pending"]
    /\ \/ cli' = [cli EXCEPT ![e] = "wait"] /\ UNCHANGED ended
       \/ Done(e, "submitted")
    /\ UNCHANGED <<seen, link>>

\* The POST fails for the command, whether or not the row was inserted. It is not
\* tried again.
PostError(e) ==
    /\ cli[e] = "idle"
    /\ Submit(e) \/ UNCHANGED absVars
    /\ Done(e, "error")
    /\ UNCHANGED <<seen, told, link>>

\* The ticker fires; the GetExecution handler reads the executions row.
ReadRow(e) ==
    /\ cli[e] = "wait"
    /\ seen' = [seen EXCEPT ![e] = status[e]]
    /\ cli' = [cli EXCEPT ![e] = "reading"]
    /\ UNCHANGED <<absVars, told, link, ended>>

\* Mutant: any status but pending ends the wait.
FinishedUnlessPending(s) == s # "pending"

\* The statuses that end waitForCompletion; timed_out is never stored.
Finished(s) == s \in Terminal

\* The handler looks for an output and answers; a failing query only leaves the
\* link out. The command stops polling at a terminal status.
Answer(e) ==
    /\ cli[e] = "reading"
    /\ told' = [told EXCEPT ![e] = seen[e]]
    /\ \E l \in {IF output[e] THEN "yes" ELSE "no", "unchecked"} : link' = [link EXCEPT ![e] = l]
    /\ seen' = [seen EXCEPT ![e] = "absent"]
    /\ cli' = [cli EXCEPT ![e] = IF Finished(seen[e]) THEN "fetch" ELSE "wait"]
    /\ UNCHANGED <<absVars, ended>>

\* The command's context ends, or a poll fails: there is no retry.
GiveUp(e) ==
    /\ cli[e] \in {"wait", "reading"}
    /\ Done(e, "error")
    /\ UNCHANGED <<absVars, seen, told, link>>

\* What GET /runs/{id}/output and the exit status can come to. The text form of a
\* succeeded execution ends with the fetch's error, the JSON form only reports it.
FetchOutcomes(e) ==
    CASE told[e] = "failed"                     -> {"failed"}
      [] told[e] = "succeeded" /\ ~output[e]    -> {"missing"}
      [] OTHER                                   -> {"ok", "error"}

Fetch(e) ==
    /\ cli[e] = "fetch"
    /\ \E how \in FetchOutcomes(e) : Done(e, how)
    /\ UNCHANGED <<absVars, seen, told, link>>

\* Mutant: the status and the output are committed one after the other.
StoreStepTorn(e) ==
    \/ Claim(e)
    \/ Start(e)
    \/ /\ status[e] = "running" /\ ran[e] = 1
       /\ \E s \in Terminal : status' = [status EXCEPT ![e] = s]
       /\ UNCHANGED <<output, ran>>
    \/ /\ status[e] = "succeeded" /\ ~output[e]
       /\ output' = [output EXCEPT ![e] = TRUE]
       /\ UNCHANGED <<status, ran>>

\* The workers: claim, run, and one transaction for status and output.
StoreStep(e) == Claim(e) \/ Start(e) \/ Complete(e)

PollInit ==
    /\ AbsInit
    /\ cli = [e \in Execs |-> "idle"]
    /\ seen = [e \in Execs |-> "absent"]
    /\ told = [e \in Execs |-> "absent"]
    /\ link = [e \in Execs |-> "unchecked"]
    /\ ended = [e \in Execs |-> "none"]

PollNext ==
    \E e \in Execs :
        \/ Post(e) \/ PostError(e) \/ ReadRow(e) \/ Answer(e) \/ GiveUp(e) \/ Fetch(e)
        \/ StoreStep(e) /\ UNCHANGED cliVars

PollSpec == PollInit /\ [][PollNext]_pollVars

-----------------------------------------------------------------------------
(* Properties.                                                             *)

\* The type of every variable.
PollTypeOK ==
    /\ status \in [Execs -> Statuses]
    /\ output \in [Execs -> BOOLEAN]
    /\ ran \in [Execs -> {0, 1}]
    /\ cli \in [Execs -> CliStates]
    /\ seen \in [Execs -> Statuses]
    /\ told \in [Execs -> Statuses]
    /\ link \in [Execs -> {"yes", "no", "unchecked"}]
    /\ ended \in [Execs -> Exits]

\* The exit status of `rta run` is the truth for ever: zero only for an execution
\* that succeeded, "failed" only for one that failed, although the status it acts
\* on was read some steps ago.
ExitMatchesRow ==
    \A e \in Execs :
        /\ ended[e] = "ok" => status[e] = "succeeded"
        /\ ended[e] = "failed" => status[e] = "failed"

\* An answer that says succeeded carries the link to the output, unless the
\* handler could not look, and following it never ends in a 404: the row is read
\* before the output, and UpdateExecutionWithResult commits both at once.
SucceededHasOutput ==
    \A e \in Execs :
        /\ told[e] = "succeeded" => link[e] # "no"
        /\ ended[e] # "missing"

\* The inductive strengthening of the two. A terminal status never changes and
\* comes with its output, so whatever a handler read or a command was told of it
\* is still true; and a command fetches only what it was told is over.
RowInv == \A e \in Execs : output[e] <=> status[e] = "succeeded"

ReadInv ==
    \A e \in Execs :
        /\ seen[e] \in Terminal => status[e] = seen[e]
        /\ told[e] \in Terminal => status[e] = told[e]

CliInv ==
    \A e \in Execs :
        /\ cli[e] = "fetch" => told[e] \in Terminal
        /\ told[e] = "succeeded" => link[e] # "no"
        /\ ended[e] = "ok" => told[e] = "succeeded"
        /\ ended[e] = "failed" => told[e] = "failed"
        /\ ended[e] # "none" <=> cli[e] = "done"
        /\ ended[e] # "missing"

PollInv == PollTypeOK /\ RowInv /\ ReadInv /\ CliInv
=============================================================================
