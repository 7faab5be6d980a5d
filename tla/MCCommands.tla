------------------------------ MODULE MCCommands ------------------------------
(***************************************************************************)
(* Both models of the command line tool in one instance for TLC: one       *)
(* invocation and its requests (RtaCommand), and commands that wait for    *)
(* their executions while workers go on (ClientPolling).                   *)
(*                                                                         *)
(* For RtaCommand, a server, a loopback address with a subdomain and a     *)
(* third host, chains of up to three requests, and the command lines that  *)
(* the checks tell apart. For ClientPolling, two commands, each with its   *)
(* own execution.                                                          *)
(***************************************************************************)
EXTENDS RtaCommand, ClientPolling

URL(scheme, host) == [scheme |-> scheme, host |-> host]

MCSubdomains == {<<"x.localhost", "localhost">>}

MCServers == {URL("https", "api"), URL("http", "api"), URL("http", "localhost"), NoServer}

\* Every source of a token for the three kinds of command, with each server; a run that
\* waits or does not, in text and JSON; and a command line that is not valid.
MCInvocations ==
    {i \in InvocationType :
        /\ i.command \in {"actionList", "executionGet", "actionRun"}
        /\ i.server \in MCServers
        /\ i.command # "actionRun" => ~i.noWait /\ ~i.json
        /\ i.flag => i.config = "none"
        /\ ~i.usable => i.flag /\ i.server = URL("https", "api")}

TwoExecs == {1, 2}

(***************************************************************************)
(* The two models side by side. They are of different processes and share  *)
(* no state, so it is enough to see each of them move while the other one  *)
(* stands still: the two commands begin once one invocation has ended with *)
(* a usage error, and all others run before them.                          *)
(***************************************************************************)
UsageError == stage = "done" /\ exit = "usage" /\ inv.command = "actionList"

CommandsInit == Init /\ PollInit

CommandsNext ==
    \/ Next /\ UNCHANGED pollVars
    \/ UsageError /\ PollNext /\ UNCHANGED vars

\* The process goes on and its deadline passes, as in FairSpec.
CommandsSpec ==
    /\ CommandsInit
    /\ [][CommandsNext]_<<vars, pollVars>>
    /\ WF_vars((Parse \/ newClient \/ NewClient \/ Send \/ Wait) /\ UNCHANGED pollVars)
    /\ WF_vars(Deadline /\ UNCHANGED pollVars)
    /\ WF_vars(expired /\ NoAnswer /\ UNCHANGED pollVars)
=============================================================================
