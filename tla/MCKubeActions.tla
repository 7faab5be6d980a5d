---------------------------- MODULE MCKubeActions ----------------------------
(***************************************************************************)
(* Instances of KubeActions for TLC: two nodes, a Prometheus pod that may  *)
(* be recreated on the other node, one pod that another node or no node    *)
(* may come to hold, an event, a lease, alerts and a silence.              *)
(***************************************************************************)
EXTENDS KubeActions

F(kind, ns, name, on, state, label) ==
    [kind |-> kind, ns |-> ns, name |-> name, on |-> on, state |-> state, label |-> label]

Monitoring == "openshift-monitoring"

\* Backplane, a subdomain of it and another host.
MCBase == [scheme |-> "https", host |-> "backplane.example"]

MCSubdomains == {<<"x.backplane.example", "backplane.example">>}

MCFirstWorld ==
    {F("nodes", "", "n1", "", "Ready", ""),
     F("pods", Monitoring, "prom", "n1", "Running", "prometheus"),
     F("pods", Monitoring, "am", "n1", "Running", "alertmanager"),
     F("pods", "ns", "p", "n2", "Running", ""), F("pods", "ns", "q", "n1", "Pending", ""),
     F("events", "default", "e", "n1", "Warning", "Node"),
     F("leases", "kube-node-lease", "n1", "", "held", ""),
     F("secrets", "openshift-config", "pull-secret", "", "email", ""),
     F("alerts", "platform", "a", "", "firing", "critical"),
     F("silences", "", "s", "", "active", "")}

MCFacts ==
    MCFirstWorld \cup
    {F("nodes", "", "n2", "", "Ready", ""),
     F("pods", Monitoring, "prom", "n2", "Running", "prometheus"),
     F("pods", "ns", "p", "", "Pending", ""),
     F("pods", "ns", "p", "n1", "Running", ""),
     F("pods", "ns", "p", "n1", "Succeeded", ""),
     F("pods", "ns", "p", "n2", "patched", ""), F("pods", "ns", "p", "", "patched", ""),
     F("pods", "ns", "p", "n1", "patched", ""),
     F("events", "default", "e", "n1", "Warning", "Pod"),
     F("leases", "kube-node-lease", "n2", "", "held", ""),
     F("secrets", "openshift-config", "pull-secret", "", "bare", ""),
     F("alerts", "platform", "a", "", "pending", "critical"),
     F("alerts", "platform", "b", "", "firing", "warning"),
     F("alerts", "user", "c", "", "firing", "critical"),
     F("silences", "", "s", "", "expired", "")}

Q(action, ns, resource, name) ==
    [action |-> action, ns |-> ns, resource |-> resource, name |-> name, patch |-> FALSE,
     severity |-> "", state |-> "", silences |-> FALSE]

\* Named and unnamed targets, and requests that Execute refuses.
MCRequests ==
    {Q("describe-nodes", "", "", ""), Q("describe-nodes", "", "", "n1"),
     Q("list-alerts", "", "", ""),
     [Q("list-alerts", Monitoring, "", "") EXCEPT !.silences = TRUE, !.severity = "critical", !.state = "all"],
     [Q("list-alerts", "", "", "") EXCEPT !.state = "resolved"],
     Q("get", "ns", "pods", ""), Q("get", "ns", "pods", "p"), Q("get", "", "nodes", "n1"),
     [Q("patch", "ns", "pods", "p") EXCEPT !.patch = TRUE], Q("patch", "ns", "pods", "p"),
     Q("delete", "ns", "pods", "p"), Q("delete", "ns", "pods", ""),
     Q("get-pull-secret-email", "", "", "")}
=============================================================================
