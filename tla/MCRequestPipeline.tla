-------------------------- MODULE MCRequestPipeline --------------------------
(***************************************************************************)
(* Two roles, an action for each of them, and requests of every kind.      *)
(***************************************************************************)
EXTENDS RequestPipeline, TLC

Kind(user, route, action, bad, json, panics) ==
    [user |-> user, route |-> route, action |-> action, bad |-> bad, json |-> json,
     panics |-> panics]

MCRoleOrder == <<"SREP", "CSE">>
MCCatalog == ("get" :> {"SREP", "CSE"}) @@ ("aws-reboot" :> {"SREP"})
MCUsers == {"ann"}

\* Running an action for both roles or for one, and a list that panics.
MCRunOrPanic ==
    {Kind("ann", "CreateExecution", "get", {}, TRUE, FALSE),
     Kind("ann", "CreateExecution", "aws-reboot", {}, TRUE, FALSE),
     Kind("ann", "ListExecutions", "", {}, TRUE, TRUE)}

\* Also an unknown action, an empty one, a body that is no JSON, a page that is no number, a run
\* whose ID is no UUID, a run that may be unknown, the catalog, a path that no route
\* has, and no token, for a run and for the catalog.
MCKinds ==
    MCRunOrPanic \cup
    {Kind("ann", "Describe", "nothing", {}, TRUE, FALSE),
     Kind("ann", "CreateExecution", "", {"action"}, TRUE, FALSE),
     Kind("ann", "CreateExecution", "get", {}, FALSE, FALSE),
     Kind("ann", "ListAuditEntries", "", {"page"}, TRUE, FALSE),
     Kind("ann", "GetExecutionOutput", "", {"exec_id"}, TRUE, FALSE),
     Kind("ann", "GetExecution", "", {}, TRUE, FALSE),
     Kind("ann", "Catalog", "", {}, TRUE, FALSE),
     Kind("ann", "", "", {}, TRUE, FALSE),
     Kind("", "CreateExecution", "get", {}, TRUE, FALSE),
     Kind("", "Catalog", "", {}, TRUE, FALSE)}
=============================================================================
