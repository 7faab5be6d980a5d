------------------------------ MODULE RtaCommand ------------------------------
(***************************************************************************)
(* One invocation of the rta command (internal/rta): the checks of its     *)
(* command line, the token it uses, the HTTP client with its redirects,    *)
(* the one request of most subcommands, and the polling of `rta action     *)
(* run`, all under one deadline.                                           *)
(*                                                                         *)
(* The host of --server is the API or a gateway in front of it, which may  *)
(* redirect; whoever is reached in the end may be the API, or may answer   *)
(* for itself. What Go's net/http does on a redirect is external: the      *)
(* Authorization header is copied as long as the chain stays on the host   *)
(* of the first request and its subdomains, whatever the scheme, and a     *)
(* POST becomes a GET unless the redirect preserves the method.            *)
(***************************************************************************)
EXTENDS Naturals

CONSTANTS
    Hosts,
    Subdomains,    \* pairs of hosts, the first being a subdomain of the second
    Loopback,      \* localhost, 127.0.0.1 and ::1
    Invocations,   \* command lines and environments, see InvocationType
    MaxRequests    \* requests in one redirect chain: 10

Schemes == {"http", "https"}
URLs == [scheme : Schemes, host : Hosts]
NoServer == [scheme |-> "", host |-> ""]

\* The commands that ask one question and print the answer: without a token of the OCM
\* configuration, or with one.
catalogCommands == {"actionList", "actionDescribe"}
auditCommands == {"auditList"}
executionCommands == {"executionList", "executionGet", "executionOutput"}

\* usable: arguments, flags, --output and --param are valid. flag: --token is given.
\* config: what the OCM configuration holds.
InvocationType ==
    [command : catalogCommands \cup auditCommands \cup executionCommands \cup {"actionRun"},
     usable : BOOLEAN, flag : BOOLEAN,
     config : {"unreadable", "none", "noToken", "expired", "armed"},
     server : URLs \cup {NoServer}, noWait : BOOLEAN, json : BOOLEAN]

ASSUME RtaAssumption ==
    /\ Loopback \subseteq Hosts
    /\ Subdomains \subseteq Hosts \X Hosts
    /\ Invocations \subseteq InvocationType
    /\ MaxRequests \in Nat \ {0}

VARIABLES
    inv,      \* the invocation
    stage,    \* where it stands
    token,    \* the client has a token
    req,      \* what the request under way is for: first, poll or output
    url, method,  \* the request of the redirect chain that is next or under way
    via,      \* the requests of the chain already made
    stripped, \* net/http no longer copies the Authorization header
    expired,  \* the deadline of requestContext has passed
    known,    \* exec.Status: the status in the last answer
    foreign,  \* history: exec was decoded from an answer that is not the API's
    exit,     \* how the command ended
    row,      \* the server: the status of the execution, "absent" if there is none
    created,  \* the server: executions created for this command
    sent      \* history: the URLs that requests with the token went to

reqVars == <<req, url, method, via, stripped>>
execVars == <<known, foreign>>
srvVars == <<row, created>>
vars == <<inv, stage, token, reqVars, expired, execVars, exit, srvVars, sent>>

Runs == inv.command = "actionRun"

Exit(how) ==
    /\ stage' = "done"
    /\ exit' = how

\* Args validators, required flags, validateFormat and parseParams, before anything else.
Parse ==
    /\ stage = "parse"
    /\ IF inv.usable THEN stage' = "token" /\ UNCHANGED exit ELSE Exit("usage")
    /\ UNCHANGED <<inv, token, reqVars, expired, execVars, srvVars, sent>>

\* resolveToken succeeds: --token, or an OCM configuration that is readable, present,
\* has a token, and one that is not expired.
resolveToken == inv.flag \/ inv.config = "armed"

\* newClient: the catalog commands use --token only.
newClient ==
    LET requireAuth == inv.command \notin catalogCommands IN
    /\ stage = "token"
    /\ token' = IF requireAuth THEN resolveToken ELSE inv.flag
    /\ IF requireAuth /\ ~resolveToken THEN Exit("error") ELSE stage' = "client" /\ UNCHANGED exit
    /\ UNCHANGED <<inv, reqVars, expired, execVars, srvVars, sent>>

isSecureOrLoopback(u) == u.scheme = "https" \/ u.host \in Loopback

\* A request to the server, the first of its redirect chain.
Ask(what, m) ==
    /\ stage' = "send"
    /\ req' = what
    /\ url' = inv.server
    /\ method' = m
    /\ via' = 0
    /\ stripped' = FALSE

\* NewClient, and the context that everything after it runs under.
NewClient ==
    /\ stage = "client"
    /\ IF inv.server = NoServer \/ (token /\ ~isSecureOrLoopback(inv.server))
       THEN Exit("error") /\ UNCHANGED reqVars
       ELSE Ask("first", IF Runs THEN "POST" ELSE "GET") /\ UNCHANGED exit
    /\ UNCHANGED <<inv, token, expired, execVars, srvVars, sent>>

\* isDomainOrSubdomain of net/http
Within(host, parent) == host = parent \/ <<host, parent>> \in Subdomains

\* Client.do sets the header on the first request; net/http copies it to the others.
Send ==
    /\ stage = "send"
    /\ ~expired
    /\ sent' = sent \cup (IF token /\ ~stripped THEN {url} ELSE {})
    /\ via' = via + 1
    /\ stage' = "sent"
    /\ UNCHANGED <<inv, token, req, url, method, stripped, expired, execVars, exit, srvVars>>

\* Mutant: any redirect is followed, as long as there are not too many.
refuseRedirectIfMany(from, to) == via >= MaxRequests

\* rejectHTTPSDowngrade
refuseRedirect(from, to) ==
    via >= MaxRequests \/ (from.scheme = "https" /\ to.scheme # "https")

\* An answer 3xx with a Location. A hop out of the first host's domain strips the
\* header for the rest of the chain.
Redirect(to, preserves) ==
    /\ stage = "sent"
    /\ IF refuseRedirect(url, to)
       THEN Exit("error") /\ UNCHANGED <<url, method, stripped>>
       ELSE /\ url' = to
            /\ method' = IF preserves THEN method ELSE "GET"
            /\ stripped' = (stripped \/ ~Within(to.host, inv.server.host))
            /\ stage' = "send"
            /\ UNCHANGED exit
    /\ UNCHANGED <<inv, token, req, via, expired, execVars, srvVars, sent>>

\* Client.do fails: no answer, a status outside 200..299 (parseAPIError), or a body that
\* is not what was asked for. A failed fetch of the output is only reported in JSON, or
\* when the execution failed.
Fail ==
    IF req = "output"
    THEN Exit(IF known = "failed" THEN "failed" ELSE IF inv.json THEN "ok" ELSE "error")
    ELSE Exit("error")

\* The API accepts the execution, when it is asked by a POST.
Accept ==
    /\ method = "POST"
    /\ row' = "pending"
    /\ created' = created + 1

\* Mutant: a POST without an answer is sent again.
NoAnswerRetried ==
    /\ stage \in {"send", "sent"}
    /\ stage = "send" => expired
    /\ UNCHANGED srvVars \/ (stage = "sent" /\ Accept)
    /\ IF method = "POST" /\ ~expired THEN stage' = "send" /\ UNCHANGED exit ELSE Fail
    /\ UNCHANGED <<inv, token, reqVars, expired, execVars, sent>>

\* The connection fails, the answer does not arrive or is replaced by a gateway's
\* error, or the deadline passes first. A POST may have taken effect.
NoAnswer ==
    /\ stage \in {"send", "sent"}
    /\ stage = "send" => expired
    /\ UNCHANGED srvVars \/ (stage = "sent" /\ Accept)
    /\ Fail
    /\ UNCHANGED <<inv, token, reqVars, expired, execVars, sent>>

\* The API, or whoever answers in its place, refuses: a status outside 200..299, or a
\* body that cannot be decoded into what was asked for.
Refused ==
    /\ stage = "sent"
    /\ Fail
    /\ UNCHANGED <<inv, token, reqVars, expired, execVars, srvVars, sent>>

\* A command that only reads is answered 2xx with a body that can be decoded, or with
\* none: what it says is printed.
ReadAnswered ==
    /\ stage = "sent" /\ ~Runs
    /\ Exit("ok")
    /\ UNCHANGED <<inv, token, reqVars, expired, execVars, srvVars, sent>>

\* The API accepts the execution.
Created ==
    /\ stage = "sent" /\ Runs /\ req = "first"
    /\ Accept
    /\ known' = "pending" /\ foreign' = FALSE
    /\ IF inv.noWait THEN Exit("submitted") ELSE stage' = "wait" /\ UNCHANGED exit
    /\ UNCHANGED <<inv, token, reqVars, expired, sent>>

FinalStatuses == {"succeeded", "failed"}

\* Mutant: every status but pending ends the wait.
PolledOnce ==
    /\ stage = "sent" /\ req = "poll"
    /\ created = 1
    /\ known' = row /\ foreign' = FALSE
    /\ IF row # "pending" THEN Ask("output", "GET") ELSE stage' = "wait" /\ UNCHANGED reqVars
    /\ UNCHANGED <<inv, token, expired, exit, srvVars, sent>>

\* The API answers a poll for the execution that was created.
Polled ==
    /\ stage = "sent" /\ req = "poll"
    /\ created = 1
    /\ known' = row /\ foreign' = FALSE
    /\ IF row \in FinalStatuses THEN Ask("output", "GET") ELSE stage' = "wait" /\ UNCHANGED reqVars
    /\ UNCHANGED <<inv, token, expired, exit, srvVars, sent>>

\* Something else answers 2xx where an execution is asked for: a gateway, the host that
\* a redirect leads to, or the API for the GET that a redirect made of the POST. Client.do
\* takes an empty body, and json.Unmarshal any object, for an execution: its ID and its
\* status, "absent" if it has none, replace what was known. A POST may have taken effect.
Stray(said) ==
    /\ stage = "sent" /\ Runs /\ req \in {"first", "poll"}
    /\ UNCHANGED srvVars \/ Accept
    /\ known' = said /\ foreign' = TRUE
    /\ IF req = "first" /\ inv.noWait THEN Exit("submitted") /\ UNCHANGED reqVars
       ELSE IF said \in FinalStatuses THEN Ask("output", "GET") /\ UNCHANGED exit
       ELSE stage' = "wait" /\ UNCHANGED <<reqVars, exit>>
    /\ UNCHANGED <<inv, token, expired, sent>>

\* The output, or anything that can be decoded in its place, arrives; the exit status
\* is that of the execution.
Output ==
    /\ stage = "sent" /\ req = "output"
    /\ Exit(IF known = "failed" THEN "failed" ELSE "ok")
    /\ UNCHANGED <<inv, token, reqVars, expired, execVars, srvVars, sent>>

\* Mutant: the loop waits for the ticker only.
WaitForTicker ==
    /\ stage = "wait"
    /\ ~expired
    /\ Ask("poll", "GET") /\ UNCHANGED exit
    /\ UNCHANGED <<inv, token, expired, execVars, srvVars, sent>>

\* waitForCompletion: the ticker fires, or the deadline has passed.
Wait ==
    /\ stage = "wait"
    /\ \/ Ask("poll", "GET") /\ UNCHANGED exit
       \/ expired /\ Exit("error") /\ UNCHANGED reqVars
    /\ UNCHANGED <<inv, token, expired, execVars, srvVars, sent>>

\* The deadline of requestContext passes.
Deadline ==
    /\ stage \in {"send", "sent", "wait"}
    /\ ~expired
    /\ expired' = TRUE
    /\ UNCHANGED <<inv, stage, token, reqVars, execVars, exit, srvVars, sent>>

\* The server's workers: see Executions.
Work ==
    /\ row \in {"pending", "running"}
    /\ row' \in (IF row = "pending" THEN {"running"} ELSE {"succeeded", "failed"})
    /\ UNCHANGED <<inv, stage, token, reqVars, expired, execVars, exit, created, sent>>

RowStatuses == {"absent", "pending", "running"} \cup FinalStatuses

Init ==
    /\ inv \in Invocations
    /\ stage = "parse"
    /\ token = FALSE
    /\ req = "first"
    /\ url = inv.server
    /\ method = "GET"
    /\ via = 0
    /\ stripped = FALSE
    /\ expired = FALSE
    /\ known = "absent" /\ foreign = FALSE
    /\ exit = "none"
    /\ row = "absent"
    /\ created = 0
    /\ sent = {}

Next ==
    \/ Parse \/ newClient \/ NewClient \/ Send \/ NoAnswer \/ Refused
    \/ ReadAnswered \/ Created \/ Polled \/ Output \/ Wait \/ Deadline \/ Work
    \/ \E to \in URLs, preserves \in BOOLEAN : Redirect(to, preserves)
    \/ \E said \in RowStatuses : Stray(said)

Spec == Init /\ [][Next]_vars

\* The process goes on, and its deadline passes: net/http gives up a request whose
\* context is done. The server owes no answer, and a worker no result.
FairSpec ==
    /\ Spec
    /\ WF_vars(Parse \/ newClient \/ NewClient \/ Send \/ Wait)
    /\ WF_vars(Deadline)
    /\ WF_vars(expired /\ NoAnswer)

-----------------------------------------------------------------------------
(* Properties.                                                             *)

\* The type of every variable.
TypeOK ==
    /\ inv \in Invocations
    /\ stage \in {"parse", "token", "client", "send", "sent", "wait", "done"}
    /\ token \in BOOLEAN /\ expired \in BOOLEAN
    /\ req \in {"first", "poll", "output"}
    /\ url \in URLs \cup {NoServer} /\ method \in {"GET", "POST"}
    /\ via \in 0..MaxRequests
    /\ stripped \in BOOLEAN /\ foreign \in BOOLEAN
    /\ known \in RowStatuses
    /\ exit \in {"none", "usage", "error", "submitted", "failed", "ok"}
    /\ row \in RowStatuses
    /\ created \in Nat
    /\ sent \subseteq URLs

\* What NewClient, rejectHTTPSDowngrade and net/http give together, wherever redirects
\* lead: a token goes to the host of --server and its subdomains only, and over plain
\* HTTP only if --server names a loopback address. NewClient's error promises more, a
\* loopback address for every plain HTTP request; a subdomain of localhost that a
\* redirect leads to is the case in between.
TokenStaysSecure ==
    \A u \in sent :
        /\ Within(u.host, inv.server.host)
        /\ u.scheme = "https" \/ inv.server.host \in Loopback

\* One `rta action run` creates at most one execution, although its POST may be
\* redirected, refused or left without an answer after it took effect.
RunsAtMostOnce == created <= 1

\* A run that is reported as submitted, succeeded or failed was created, and a wait
\* that ends with a result ends with what the row says, unless the execution that is
\* reported was decoded from an answer that is not the API's: Client.do takes an empty
\* 2xx answer, and any JSON object, for an execution.
ReportedRunExists ==
    Runs /\ exit \in {"submitted", "ok", "failed"} =>
        \/ foreign
        \/ /\ created = 1
           /\ exit = "ok" => row = "succeeded"
           /\ exit = "failed" => row = "failed"

\* The inductive strengthening of the three. A chain that began over HTTPS stays there,
\* and one that keeps the header stays in its domain; a client with a token has a server
\* it may send it to; the POST is the first request of a run, and what follows it is about
\* an execution that exists, or one that a stray answer told of.
ChainInv ==
    /\ stage \in {"send", "sent", "wait"} =>
          inv.server \in URLs /\ (token => isSecureOrLoopback(inv.server))
    /\ stage \in {"send", "sent"} =>
          /\ url \in URLs /\ (inv.server.scheme = "https" => url.scheme = "https")
          /\ stripped \/ Within(url.host, inv.server.host)
    /\ stage = "send" => via < MaxRequests

RunInv ==
    /\ exit # "none" <=> stage = "done"
    /\ stage \in {"parse", "token", "client"} \/ (stage \in {"send", "sent"} /\ req = "first") =>
          req = "first" /\ created = 0 /\ known = "absent" /\ ~foreign
    /\ stage = "wait" \/ req # "first" => Runs /\ (foreign \/ created = 1)
    /\ stage \in {"send", "sent"} /\ (req # "first" \/ ~Runs) => method = "GET"
    /\ created = 0 => row = "absent"
    /\ req = "output" => known \in FinalStatuses
    /\ known \in FinalStatuses => foreign \/ row = known

IndInv ==
    /\ TypeOK
    /\ ChainInv
    /\ RunInv
    /\ TokenStaysSecure
    /\ RunsAtMostOnce
    /\ ReportedRunExists

\* Every command ends, although a server may redirect in circles, hang, or leave the
\* execution running for ever.
CommandEnds == <>(stage = "done")
=============================================================================
