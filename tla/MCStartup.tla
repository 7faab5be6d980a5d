------------------------------ MODULE MCStartup ------------------------------
(***************************************************************************)
(* Deployments that differ in who authenticates and what they reach, and   *)
(* deployments that differ in their numbers.                               *)
(***************************************************************************)
EXTENDS Startup

Number(n) == [set |-> TRUE, parses |-> TRUE, n |-> n]
Junk == [set |-> TRUE, parses |-> FALSE, n |-> 0]

NoList == [set |-> FALSE, items |-> {}]
List(items) == [set |-> TRUE, items |-> items]

PlainEnv ==
    [auth |-> "", enableAuth |-> "", kubeconfig |-> "", endpoint |-> "", backplane |-> "https",
     awsRegion |-> "us", ocmSecret |-> TRUE, ocmToken |-> FALSE, regions |-> List({"us"}),
     operations |-> List({"reboot"}),
     concurrency |-> Unset, pollInterval |-> Unset, timeout |-> Unset]

Role == [id |-> "SREP", amsResource |-> "srep"]

PlainFile ==
    [given |-> TRUE, ok |-> TRUE, endpoint |-> "", regions |-> {}, operations |-> {},
     roles |-> {Role}, concurrency |-> Unset, pollInterval |-> Unset, timeout |-> Unset]

\* Who authenticates, and which providers are used.
PolicyEnvs ==
    {[PlainEnv EXCEPT !.auth = a, !.enableAuth = b, !.kubeconfig = k, !.endpoint = u,
                      !.backplane = s, !.ocmSecret = c] :
        a \in {"", "enabled", "disabled", "ocmconfig", "none"}, b \in {"", "false", "junk"},
        k \in {"", "kc"}, u \in {"", "emu"}, s \in {"", "http", "https"}, c \in BOOLEAN}

\* The lists, with a variable of separators only.
ListEnvs ==
    {[PlainEnv EXCEPT !.regions = r, !.operations = o, !.endpoint = u, !.awsRegion = w] :
        r \in {NoList, List({}), List({"us"})}, o \in {NoList, List({}), List({"reboot"})},
        u \in {"", "emu"}, w \in {"", "us", "eu"}}

NumberEnvs ==
    {[PlainEnv EXCEPT !.concurrency = c, !.pollInterval = c, !.timeout = t] :
        c \in {Unset, Junk, Number(0), Number(2)}, t \in {Unset, Number(-1)}}

MCEnvironments == PolicyEnvs \cup ListEnvs \cup NumberEnvs

MCFiles ==
    {PlainFile, [PlainFile EXCEPT !.given = FALSE], [PlainFile EXCEPT !.ok = FALSE],
     [PlainFile EXCEPT !.roles = {}], [PlainFile EXCEPT !.roles = {[Role EXCEPT !.amsResource = ""]}],
     [PlainFile EXCEPT !.endpoint = "emu", !.regions = {"eu"}, !.operations = {"reboot"}],
     [PlainFile EXCEPT !.concurrency = Number(0), !.pollInterval = Number(-5), !.timeout = Number(0)]}

MCClusterRegions == {"us", "eu"}
=============================================================================
