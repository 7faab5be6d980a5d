--------------------------- MODULE RequestPipeline ---------------------------
(***************************************************************************)
(* A request on its way through the router of cmd/server/main.go:          *)
(* authentication, the audit middleware around the rest, role resolution   *)
(* by AMS access reviews (internal/auth), the generated routing and        *)
(* parameter binding (internal/openapi), the action's allowed roles, and   *)
(* the handler. Recoverer stands outside the audit middleware.             *)
(*                                                                         *)
(* AMS is external: grants change between two reviews of one request, and  *)
(* a review may fail.                                                      *)
(***************************************************************************)
EXTENDS Naturals, Sequences

CONSTANTS
    Requests,      \* the requests in flight
    Kinds,         \* what callers may ask for, see KindType
    Users,
    RoleOrder,     \* cfg.Roles: the roles in the order AuthorizeAPI asks for them
    Catalog,       \* Catalog[a]: the allowed roles of each action in the catalog
    NoEntry,
    MaxFaults,     \* bound: failing store calls and access reviews
    MaxChanges,    \* bound: changes of the grants
    MaxCrashes     \* bound: processes that die

Empty == ""    \* Go's empty string: no user, no route, no action, no role

NumRoles == Len(RoleOrder)

Roles == {RoleOrder[i] : i \in 1..NumRoles}

\* The query parameters of the two lists. None is required; page and limit must be
\* integers, and none may be given twice.
listAuditEntriesParams ==
    {"page", "limit", "action", "target", "operator", "method", "approval_state", "since"}

listExecutionsParams ==
    {"page", "limit", "status", "action", "target", "operator", "scope", "type",
     "approval_state", "dry_run", "force", "since"}

\* The routes of HandlerWithOptions and the parameters that each one's wrapper binds.
boundParams ==
    [Catalog |-> {}, Describe |-> {"action"}, CreateExecution |-> {"action"},
     GetExecution |-> {"id"}, GetExecutionOutput |-> {"exec_id"},
     ListExecutions |-> listExecutionsParams, ListAuditEntries |-> listAuditEntriesParams]

\* user "" is a request without a usable token; route "" a path or a method that the
\* router does not know; action "" a path without an {action} parameter; bad holds the
\* parameters whose values cannot be bound; json tells whether the body of a
\* CreateExecution can be decoded; panics is a request whose handler panics, such as
\* a list with limit=0&page=2.
KindType ==
    [user : Users \cup {Empty}, route : DOMAIN boundParams \cup {Empty}, action : STRING,
     bad : SUBSET UNION {boundParams[r] : r \in DOMAIN boundParams},
     json : BOOLEAN, panics : BOOLEAN]

ASSUME PipelineAssumption ==
    /\ Kinds \subseteq KindType
    /\ \A k \in Kinds : k.bad \subseteq (IF k.route = Empty THEN {} ELSE boundParams[k.route])
    \* an empty {action} in the path is a parameter that cannot be bound
    /\ \A k \in Kinds :
          k.route \in {"Describe", "CreateExecution"} /\ k.action = Empty => "action" \in k.bad
    /\ \A k \in Kinds : k.panics => k.route \in {"ListExecutions", "ListAuditEntries"}
    \* main does not start with no roles, or with one that has no name
    /\ NumRoles \in Nat \ {0} /\ Empty \notin Roles
    /\ \A a \in DOMAIN Catalog : Catalog[a] \subseteq Roles
    /\ Empty \notin DOMAIN Catalog
    /\ NoEntry \notin [code : Nat, exec : BOOLEAN]
    /\ MaxFaults \in Nat /\ MaxChanges \in Nat /\ MaxCrashes \in Nat

VARIABLES
    kind,       \* kind[q]: what q asks for
    stage,      \* stage[q]: the middleware or handler that q is in
    turn,       \* turn[q]: index of the role under review
    hadErr,     \* hadErr[q]: a review failed
    role,       \* role[q]: the role in the request's context, "" if none
    code,       \* code[q]: the response status, 0 before there is one
    ac,         \* ac[q]: AuditContext.ExecutionID is set
    created,    \* created[q]: the executions row exists
    entry,      \* entry[q]: the audit_entries row of q
    grants,     \* grants[u]: the roles that AMS would confirm for u now
    answers,    \* history: answers[q], the roles AMS confirmed and refused for q
    faulty,     \* history: requests that met a failing store or a dying process
    faults, changes, crashes

authVars == <<turn, hadErr, role, answers>>
dataVars == <<ac, created, entry>>
failVars == <<faulty, faults, changes, crashes>>
vars == <<kind, stage, authVars, code, dataVars, grants, failVars>>

\* The response is written and the handler chain returns to stage s.
Respond(q, status, s) ==
    /\ code' = [code EXCEPT ![q] = status]
    /\ stage' = [stage EXCEPT ![q] = s]

Goto(q, s) == stage' = [stage EXCEPT ![q] = s] /\ UNCHANGED code

\* AuthenticateAccountJWT, and the JWKS handler in front of the router. A request
\* refused here never enters the audit middleware.
Authenticate(q) ==
    /\ stage[q] = "authn"
    /\ IF kind[q].user = Empty THEN Respond(q, 401, "done") ELSE Goto(q, "review")
    /\ UNCHANGED <<authVars, dataVars, grants, failVars>>

\* One round of AuthorizeAPI: the first role that AMS confirms is the caller's.
Review(q) ==
    LET r == RoleOrder[turn[q]] IN
    /\ stage[q] = "review"
    /\ turn[q] <= NumRoles
    /\ IF r \in grants[kind[q].user]
       THEN /\ role' = [role EXCEPT ![q] = r]
            /\ answers' = [answers EXCEPT ![q].yes = @ \cup {r}]
            /\ Goto(q, "bind")
            /\ UNCHANGED turn
       ELSE /\ turn' = [turn EXCEPT ![q] = @ + 1]
            /\ answers' = [answers EXCEPT ![q].no = @ \cup {r}]
            /\ UNCHANGED <<role, stage, code>>
    /\ UNCHANGED <<hadErr, dataVars, grants, failVars>>

ReviewFault ==
    /\ faults < MaxFaults
    /\ faults' = faults + 1

\* Mutant: a review that fails lets the request pass.
ReviewErrorGrants(q) ==
    /\ stage[q] = "review"
    /\ turn[q] <= NumRoles
    /\ ReviewFault
    /\ role' = [role EXCEPT ![q] = RoleOrder[turn[q]]]
    /\ Goto(q, "bind")
    /\ UNCHANGED <<turn, hadErr, answers, dataVars, grants, faulty, changes, crashes>>

\* Mutant: a review that fails counts as a refusal.
ReviewErrorForgotten(q) ==
    /\ stage[q] = "review"
    /\ turn[q] <= NumRoles
    /\ ReviewFault
    /\ turn' = [turn EXCEPT ![q] = @ + 1]
    /\ UNCHANGED <<stage, hadErr, role, code, answers, dataVars, grants, faulty, changes, crashes>>

\* AccessReview returned an error: remember it and ask for the next role.
ReviewError(q) ==
    /\ stage[q] = "review"
    /\ turn[q] <= NumRoles
    /\ ReviewFault
    /\ hadErr' = [hadErr EXCEPT ![q] = TRUE]
    /\ turn' = [turn EXCEPT ![q] = @ + 1]
    /\ UNCHANGED <<stage, role, code, answers, dataVars, grants, faulty, changes, crashes>>

\* No role was confirmed.
NoRole(q) ==
    /\ stage[q] = "review"
    /\ turn[q] > NumRoles
    /\ Respond(q, IF hadErr[q] THEN 500 ELSE 403, "audit")
    /\ UNCHANGED <<authVars, dataVars, grants, failVars>>

\* The router and the wrapper of the route: parameters are bound first, and one that
\* cannot be is answered 400 by the ErrorHandlerFunc; only then CheckActionAccess runs.
Bind(q) ==
    /\ stage[q] = "bind"
    /\ IF kind[q].route = Empty THEN Respond(q, 404, "audit")
       ELSE IF kind[q].bad # {} THEN Respond(q, 400, "audit")
       ELSE Goto(q, "action")
    /\ UNCHANGED <<authVars, dataVars, grants, failVars>>

\* CheckActionAccess
CheckActionAccess(q) ==
    /\ stage[q] = "action"
    /\ IF kind[q].action = Empty THEN Goto(q, "handler")
       ELSE IF kind[q].action \notin DOMAIN Catalog THEN Respond(q, 404, "audit")
       ELSE IF role[q] = Empty \/ role[q] \notin Catalog[kind[q].action] THEN Respond(q, 403, "audit")
       ELSE Goto(q, "handler")
    /\ UNCHANGED <<authVars, dataVars, grants, failVars>>

\* What a handler that creates nothing may answer: a list refuses pages and times
\* that make no sense (see Listing), and an execution or its output may be unknown.
Answers(k) ==
    CASE k.route \in {"Catalog", "Describe"} -> {200}
      [] k.route \in {"ListExecutions", "ListAuditEntries"} -> {200, 400}
      [] k.route \in {"GetExecution", "GetExecutionOutput"} -> {200, 404}
      [] k.route = "CreateExecution" -> IF k.json THEN {} ELSE {400}

\* A handler that does not create an execution, or refuses the body.
Answer(q) ==
    /\ stage[q] = "handler"
    /\ ~kind[q].panics
    /\ \E status \in Answers(kind[q]) : Respond(q, status, "audit")
    /\ UNCHANGED <<authVars, dataVars, grants, failVars>>

\* Mutant: the audit context is filled in before the row is inserted.
CreateExecutionNotedEarly(q) ==
    /\ stage[q] = "handler"
    /\ kind[q].route = "CreateExecution" /\ kind[q].json
    /\ ac' = [ac EXCEPT ![q] = TRUE]
    /\ \/ /\ created' = [created EXCEPT ![q] = TRUE]
          /\ Respond(q, 202, "audit")
       \/ /\ UNCHANGED created
          /\ Respond(q, 500, "audit")
    /\ UNCHANGED <<authVars, entry, grants, failVars>>

\* CreateExecution: the row is inserted and the audit context names it.
CreateExecution(q) ==
    /\ stage[q] = "handler"
    /\ kind[q].route = "CreateExecution" /\ kind[q].json
    /\ created' = [created EXCEPT ![q] = TRUE]
    /\ ac' = [ac EXCEPT ![q] = TRUE]
    /\ Respond(q, 202, "audit")
    /\ UNCHANGED <<authVars, entry, grants, failVars>>

StoreFault(q) ==
    /\ faults < MaxFaults
    /\ faults' = faults + 1
    /\ faulty' = faulty \cup {q}
    /\ UNCHANGED <<changes, crashes>>

\* The handler's store call fails: 500. An INSERT may have taken effect.
HandlerError(q) ==
    /\ stage[q] = "handler"
    /\ ~kind[q].panics
    /\ kind[q].route \notin {"Catalog", "Describe"}
    /\ kind[q].route = "CreateExecution" => kind[q].json
    /\ StoreFault(q)
    /\ \/ UNCHANGED created
       \/ kind[q].route = "CreateExecution" /\ created' = [created EXCEPT ![q] = TRUE]
    /\ Respond(q, 500, "audit")
    /\ UNCHANGED <<authVars, ac, entry, grants>>

\* A panic unwinds through the audit middleware, which defers nothing, to Recoverer.
Panic(q) ==
    /\ stage[q] = "handler"
    /\ kind[q].panics
    /\ Respond(q, 500, "done")
    /\ UNCHANGED <<authVars, dataVars, grants, failVars>>

\* CreateAuditEntry after next.ServeHTTP, under a context of its own.
WriteAudit(q) ==
    /\ stage[q] = "audit"
    /\ entry' = [entry EXCEPT ![q] = [code |-> code[q], exec |-> ac[q]]]
    /\ Goto(q, "done")
    /\ UNCHANGED <<authVars, ac, created, grants, failVars>>

\* The entry cannot be written: the error is logged.
AuditError(q) ==
    /\ stage[q] = "audit"
    /\ StoreFault(q)
    /\ Goto(q, "done")
    /\ UNCHANGED <<authVars, dataVars, grants>>

\* The process dies with its requests. A response may have been sent by then.
Crash ==
    /\ crashes < MaxCrashes
    /\ crashes' = crashes + 1
    /\ faulty' = faulty \cup {q \in Requests : stage[q] \notin {"authn", "done"}}
    /\ stage' = [q \in Requests |-> IF stage[q] = "authn" THEN "authn" ELSE "done"]
    /\ UNCHANGED <<authVars, code, dataVars, grants, faults, changes>>

\* AMS: a role is granted or revoked.
ChangeGrant(u, r) ==
    /\ changes < MaxChanges
    /\ changes' = changes + 1
    /\ grants' = [grants EXCEPT ![u] = (@ \ {r}) \cup ({r} \ @)]
    /\ UNCHANGED <<stage, authVars, code, dataVars, faulty, faults, crashes>>

Init ==
    /\ kind \in [Requests -> Kinds]
    /\ stage = [q \in Requests |-> "authn"]
    /\ turn = [q \in Requests |-> 1]
    /\ hadErr = [q \in Requests |-> FALSE]
    /\ role = [q \in Requests |-> Empty]
    /\ code = [q \in Requests |-> 0]
    /\ ac = [q \in Requests |-> FALSE]
    /\ created = [q \in Requests |-> FALSE]
    /\ entry = [q \in Requests |-> NoEntry]
    /\ grants \in [Users -> SUBSET Roles]
    /\ answers = [q \in Requests |-> [yes |-> {}, no |-> {}]]
    /\ faulty = {}
    /\ faults = 0 /\ changes = 0 /\ crashes = 0

Step(q) ==
    \/ Authenticate(q) \/ Review(q) \/ ReviewError(q) \/ NoRole(q)
    \/ Bind(q) \/ CheckActionAccess(q)
    \/ Answer(q) \/ CreateExecution(q) \/ HandlerError(q) \/ Panic(q)
    \/ WriteAudit(q) \/ AuditError(q)

Next ==
    /\ \/ \E q \in Requests : Step(q)
       \/ \E u \in Users, r \in Roles : ChangeGrant(u, r)
       \/ Crash
    /\ UNCHANGED kind

Spec == Init /\ [][Next]_vars

-----------------------------------------------------------------------------
(* Properties.                                                             *)

Statuses == {0, 200, 202, 400, 401, 403, 404, 500}

\* The type of every variable.
TypeOK ==
    /\ kind \in [Requests -> Kinds]
    /\ stage \in [Requests -> {"authn", "review", "bind", "action", "handler", "audit", "done"}]
    /\ turn \in [Requests -> 1 .. NumRoles + 1]
    /\ hadErr \in [Requests -> BOOLEAN]
    /\ role \in [Requests -> Roles \cup {Empty}]
    /\ code \in [Requests -> Statuses]
    /\ ac \in [Requests -> BOOLEAN] /\ created \in [Requests -> BOOLEAN]
    /\ entry \in [Requests -> [code : Nat, exec : BOOLEAN] \cup {NoEntry}]
    /\ grants \in [Users -> SUBSET Roles]
    /\ answers \in [Requests -> [yes : SUBSET Roles, no : SUBSET Roles]]
    /\ faulty \subseteq Requests
    /\ faults \in 0..MaxFaults /\ changes \in 0..MaxChanges /\ crashes \in 0..MaxCrashes

\* Only callers for whom AMS confirmed a role during this very request are served,
\* whatever other reviews failed and however grants changed meanwhile. An execution is
\* created only if the action's catalog entry admits that role; and an answer that
\* depends on the parameters, the catalog or the store needs one on the routes without
\* an {action} too, which CheckActionAccess lets through. Catalog and Describe are no
\* exception: they are behind the same middlewares, although their API description
\* says `security: []`.
ServedOnlyIfConfirmed ==
    \A q \in Requests :
        /\ created[q] => role[q] \in answers[q].yes \cap Catalog[kind[q].action]
        /\ code[q] \in {200, 202, 400, 404} => role[q] \in answers[q].yes

\* "Access denied" is definite: a caller without a role is told 403 only if AMS
\* refused every role; if a review failed, the answer is 500.
DenialIsDefinite ==
    \A q \in Requests : code[q] = 403 /\ role[q] = Empty => answers[q].no = Roles

\* The audit entry of a request tells what happened: it carries the status that was
\* answered, and names an execution exactly when one was created and accepted. Every
\* request has its entry but for those that authentication refused or whose handler
\* panicked, unless a store call failed or the process died. This is not what the API
\* description of the audit log says, every call but Catalog and Describe: these two
\* are recorded as well, and a refused or panicking call of any route is not.
AuditTellsExecution ==
    \A q \in Requests :
        /\ entry[q] # NoEntry =>
              /\ entry[q].code = code[q]
              /\ entry[q].exec <=> (created[q] /\ code[q] = 202)
        /\ stage[q] = "done" /\ q \notin faulty =>
              (entry[q] = NoEntry <=> code[q] = 401 \/ (kind[q].panics /\ code[q] = 500 /\ role[q] # Empty))

-----------------------------------------------------------------------------
(* The inductive invariant behind the properties: what a request has       *)
(* behind it at each stage.                                                *)

\* Nothing is answered, created or recorded before its stage. A request past role
\* resolution, and whatever came of it, has a confirmed role in its context; past
\* CheckActionAccess that role is one of the action's.
StageInv(q) ==
    /\ stage[q] \in {"authn", "review"} => role[q] = Empty
    /\ stage[q] \notin {"audit", "done"} => code[q] = 0 /\ ~created[q]
    /\ stage[q] \in {"bind", "action", "handler"} \/ created[q] \/ code[q] \in {200, 202, 400, 404}
          => role[q] \in answers[q].yes
    /\ stage[q] \in {"action", "handler"} => kind[q].route # Empty /\ kind[q].bad = {}
    /\ (stage[q] = "handler" /\ kind[q].action # Empty) \/ created[q]
          => role[q] \in Catalog[kind[q].action]

\* As long as no review failed, every role before the one under review was refused;
\* a caller without a role is denied when all of them were asked for.
ReviewInv(q) ==
    /\ ~hadErr[q] => \A i \in 1 .. turn[q] - 1 : RoleOrder[i] \in answers[q].no
    /\ code[q] = 403 /\ role[q] = Empty => ~hadErr[q] /\ turn[q] > NumRoles

\* The audit middleware sees no request that authentication refused or whose handler
\* panicked. What it sees of the execution is what was created and accepted, and
\* what it writes, last of all, is what it sees.
AuditInv(q) ==
    /\ stage[q] = "audit" => code[q] # 401 /\ ~(kind[q].panics /\ code[q] = 500 /\ role[q] # Empty)
    /\ ac[q] <=> created[q] /\ code[q] = 202
    /\ entry[q] # NoEntry => stage[q] = "done" /\ entry[q].code = code[q] /\ entry[q].exec = ac[q]
    /\ stage[q] = "done" /\ q \notin faulty =>
          (entry[q] = NoEntry <=> code[q] = 401 \/ (kind[q].panics /\ code[q] = 500 /\ role[q] # Empty))

IndInv == TypeOK /\ \A q \in Requests : StageInv(q) /\ ReviewInv(q) /\ AuditInv(q)
=============================================================================
