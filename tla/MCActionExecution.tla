-------------------------- MODULE MCActionExecution --------------------------
(***************************************************************************)
(* Instances of ActionExecution for TLC: clusters of one AWS account in an *)
(* allowed and in a forbidden region, an instance of each, and requests    *)
(* that take every path through the scopes and the authorizers.            *)
(***************************************************************************)
EXTENDS ActionExecution, TLC

CONSTANTS c1, c2, c3, c4, i1, i2, i3

\* c2 lives in a region that is not allowed; c3 shares c1's region and account but
\* has no infrastructure ID in OCM, and c4 no region.
MCRegion == (c1 :> "near") @@ (c2 :> "far") @@ (c3 :> "near") @@ (c4 :> "")
MCAccount == [c \in {c1, c2, c3, c4} |-> "account"]
MCOwner == (i1 :> c1) @@ (i2 :> c2) @@ (i3 :> c3)
MCPlace == [i \in {i1, i2, i3} |-> <<"account", MCRegion[MCOwner[i]]>>]
MCSecrets == {<<"ns", "pull-secret">>}

Kube(action, resource, name, namespace, dryRun) ==
    [id |-> "name", action |-> action, resource |-> resource, name |-> name,
     namespace |-> namespace, instance |-> i1, dryRun |-> dryRun]

AWS(action, resource, instance, dryRun) ==
    [id |-> "name", action |-> action, resource |-> resource, name |-> "",
     namespace |-> "", instance |-> instance, dryRun |-> dryRun]

\* Reads and writes of both scopes, allowed and denied, refused writes, previews,
\* and a write aimed at the instance of another cluster.
MCRequests ==
    {Kube("get", "secrets", "pull-secret", "ns", FALSE), Kube("get", "secrets", "other", "ns", FALSE),
     Kube("delete", "pods", "p", "ns", TRUE), Kube("unregistered", "", "", "", FALSE),
     AWS("aws-get", "instances", i1, FALSE), AWS("aws-get", "", i1, FALSE),
     AWS("aws-reboot", "", i1, TRUE), AWS("aws-reboot", "instances", i2, FALSE),
     AWS("aws-reboot", "", i3, FALSE), AWS("aws-reboot", "volumes", i1, FALSE),
     AWS("aws-terminate", "", i1, FALSE)}

MCBinding == [id \in {"name"} |-> c1]
=============================================================================
