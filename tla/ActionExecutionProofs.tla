------------------------ MODULE ActionExecutionProofs ------------------------
(***************************************************************************)
(* For every set of workers, requests, clusters, instances and allowlists, *)
(* and however often a name changes its meaning: an AWS write changes only *)
(* an instance of a cluster that its identifier denoted, in an allowed     *)
(* region; and the audit record tells what the run did. All follow from    *)
(* IndInv.                                                                 *)
(***************************************************************************)
EXTENDS ActionExecution, TLAPS

\* What the invariant says of one worker's run.
Local(w) == TargetInv(w) /\ GateInv(w) /\ ChangeInv(w) /\ RecordInv(w)

\* The variables that make up a run have their types.
RunTyped ==
    /\ pc \in [Workers -> Stages]
    /\ req \in [Workers -> Requests \cup {NoRequest}]
    /\ stage \in [Workers -> {"region", "infra", "clients"}]
    /\ got \in [Workers -> Clusters \cup {NoCluster}]
    /\ infra \in [Workers -> Clusters \cup {NoCluster}]
    /\ creds \in [Workers -> Clusters \cup {NoCluster}]
    /\ region \in [Workers -> KnownRegions]
    /\ decision \in [Workers -> {"none", "allowed", "denied"}]
    /\ outcome \in [Workers -> {"none", "success", "failure", "skipped"}]
    /\ effect \in [Workers -> BOOLEAN] /\ touched \in [Workers -> BOOLEAN]

\* A step of w leaves the runs of the others, and what names denoted, alone.
Frame(w) ==
    /\ denoted' = denoted
    /\ \A v \in Workers \ {w} :
          /\ pc'[v] = pc[v] /\ req'[v] = req[v] /\ stage'[v] = stage[v] /\ got'[v] = got[v]
          /\ region'[v] = region[v] /\ infra'[v] = infra[v] /\ creds'[v] = creds[v]
          /\ decision'[v] = decision[v] /\ outcome'[v] = outcome[v]
          /\ effect'[v] = effect[v] /\ touched'[v] = touched[v]

\* The actions of the registry have a scope, and every request names one of them.
LEMMA TableTyped ==
  ASSUME NEW q \in Requests
  PROVE /\ ActionTable[q.action].scope \in {"kube", "aws", "none"}
        /\ ActionTable[q.action].write \in BOOLEAN
        /\ q.id \in Identifiers /\ q.instance \in Instances
<1>1. q \in RequestType
  BY ExecutionAssumption
<1>2. q.action \in {"get", "delete", "aws-get", "aws-reboot", "aws-terminate", "unregistered"}
  BY <1>1 DEF RequestType, ActionTable
<1>3. \A a \in {"get", "delete", "aws-get", "aws-reboot", "aws-terminate", "unregistered"} :
         /\ ActionTable[a].scope \in {"kube", "aws", "none"}
         /\ ActionTable[a].write \in BOOLEAN
  BY DEF ActionTable
<1>4. q.instance \in Instances
  BY <1>1 DEF RequestType
<1> QED
  BY <1>2, <1>3, <1>4 DEF Identifiers

\* The authorizer's answer depends on the request and on the region only, and the
\* checks before a change on the target and the credentials besides.
LEMMA DecisionsKept ==
  ASSUME NEW w \in Workers, req'[w] = req[w], region'[w] = region[w]
  PROVE /\ Action(w)' = Action(w) /\ Allowed(w)' = Allowed(w)
        /\ infra'[w] = infra[w] /\ creds'[w] = creds[w] => Checked(w)' = Checked(w)
<1>1. Action(w)' = Action(w)
  BY DEF Action
<1>2. Allowed(w)' = Allowed(w)
  BY <1>1 DEF Allowed, KubeAuthorize, AWSAuthorize, TargetResource
<1>3. infra'[w] = infra[w] /\ creds'[w] = creds[w] => Checked(w)' = Checked(w)
  BY <1>1 DEF Checked, OwnedInstance, Found
<1> QED
  BY <1>1, <1>2, <1>3

\* A run that another worker's step leaves alone keeps its part of the invariant.
LEMMA OthersKeep ==
  ASSUME IndInv, NEW w \in Workers, Frame(w), Local(w)'
  PROVE \A v \in Workers : Local(v)'
<1> SUFFICES ASSUME NEW v \in Workers, v # w PROVE Local(v)'
  OBVIOUS
<1>1. /\ pc'[v] = pc[v] /\ req'[v] = req[v] /\ stage'[v] = stage[v] /\ got'[v] = got[v]
      /\ region'[v] = region[v] /\ infra'[v] = infra[v] /\ creds'[v] = creds[v]
      /\ decision'[v] = decision[v] /\ outcome'[v] = outcome[v]
      /\ effect'[v] = effect[v] /\ touched'[v] = touched[v] /\ denoted' = denoted
  BY DEF Frame
<1>2. Action(v)' = Action(v) /\ Allowed(v)' = Allowed(v) /\ Checked(v)' = Checked(v)
  BY <1>1, DecisionsKept
<1>3. Local(v)
  BY DEF IndInv, Local
<1>4. TargetInv(v)'
  BY <1>1, <1>2, <1>3 DEF Local, TargetInv
<1>5. GateInv(v)'
  BY <1>1, <1>2, <1>3 DEF Local, GateInv, PastGate
<1>6. ChangeInv(v)' /\ RecordInv(v)'
  BY <1>1, <1>2, <1>3 DEF Local, ChangeInv, RecordInv
<1> QED
  BY <1>4, <1>5, <1>6 DEF Local

\* The invariant holds when the server starts.
LEMMA InitEstablishes == Init => IndInv
<1> SUFFICES ASSUME Init PROVE IndInv
  OBVIOUS
<1>1. TypeOK
  <2>1. bind \in [Identifiers -> Clusters]
    BY ExecutionAssumption DEF Init
  <2>2. denoted \in [Identifiers -> SUBSET Clusters]
    BY <2>1 DEF Init
  <2>3. MaxRuns \in Nat /\ MaxRebinds \in Nat
    BY ExecutionAssumption
  <2>4. RunTyped
    BY DEF Init, RunTyped, Stages, KnownRegions
  <2>5. /\ cache \in [Identifiers -> Clusters \cup {NoCluster}]
        /\ fresh \in [Identifiers -> BOOLEAN]
        /\ records \in Nat /\ logged \in Nat /\ header \in [Workers -> Nat]
    BY DEF Init
  <2>6. runs = [w \in Workers |-> 0] /\ rebinds = 0
    BY DEF Init
  <2>7. runs \in [Workers -> 0..MaxRuns] /\ rebinds \in 0..MaxRebinds
    BY <2>3, <2>6
  <2> QED
    BY <2>1, <2>2, <2>4, <2>5, <2>7 DEF TypeOK, RunTyped
<1>2. LookupInv
  BY DEF Init, LookupInv
<1>3. ASSUME NEW w \in Workers PROVE TargetInv(w) /\ GateInv(w) /\ ChangeInv(w) /\ RecordInv(w)
  BY <1>3 DEF Init, TargetInv, GateInv, PastGate, ChangeInv, RecordInv
<1> QED
  BY <1>1, <1>2, <1>3 DEF IndInv

\* A claimed execution enters the executor.
LEMMA BeginKeeps ==
  ASSUME IndInv, NEW w \in Workers, NEW q \in Requests, Begin(w, q)
  PROVE IndInv'
<1> USE DEF runVars, recVars, cacheVars, ocmVars, logVars
<1>0. TypeOK /\ LookupInv /\ Local(w)
  BY DEF IndInv, Local
<1>a. pc[w] = "idle" /\ ActionTable[q.action].scope \in {"kube", "aws", "none"}
  BY TableTyped DEF Begin
<1>1. RunTyped' /\ Frame(w) /\ Local(w)'
  <2>1. CASE ActionTable[q.action].scope = "none"
    <3>1. /\ pc'[w] = pc[w] /\ req'[w] = req[w] /\ stage'[w] = stage[w] /\ got'[w] = got[w]
          /\ region'[w] = region[w] /\ infra'[w] = infra[w] /\ creds'[w] = creds[w]
          /\ decision'[w] = decision[w] /\ outcome'[w] = outcome[w]
          /\ effect'[w] = effect[w] /\ touched'[w] = touched[w]
      BY <1>0, <1>a, <2>1 DEF TypeOK, Begin, Goto
    <3>2. RunTyped'
      BY <1>0, <1>a, <2>1 DEF TypeOK, Stages, RunTyped, Begin, Goto
    <3>3. Frame(w)
      BY <1>0, <1>a, <2>1 DEF TypeOK, Frame, Begin, Goto
    <3>4. Action(w)' = Action(w) /\ Allowed(w)' = Allowed(w) /\ Checked(w)' = Checked(w)
      BY <3>1, DecisionsKept
    <3>5. TargetInv(w)'
      BY <1>0, <1>a, <2>1, <3>1, <3>3, <3>4 DEF LookupInv, Local, Frame, TargetInv, RecordInv
    <3>6. GateInv(w)'
      BY <1>0, <1>a, <2>1, <3>1, <3>4 DEF Local, TargetInv, GateInv, RecordInv, PastGate
    <3>7. ChangeInv(w)'
      BY <1>0, <1>a, <2>1, <3>1, <3>4 DEF Local, GateInv, PastGate, ChangeInv
    <3>8. RecordInv(w)'
      BY <1>0, <1>a, <2>1, <3>1, <3>4 DEF Local, RecordInv, ChangeInv
    <3> QED
      BY <1>0, <1>a, <2>1, <3>1, <3>2, <3>3, <3>5, <3>6, <3>7, <3>8 DEF Local
  <2>2. CASE ActionTable[q.action].scope = "aws"
    <3>1. /\ pc'[w] = "lookup" /\ req'[w] = q /\ stage'[w] = "region" /\ got'[w] = got[w]
          /\ region'[w] = region[w] /\ infra'[w] = infra[w] /\ creds'[w] = creds[w]
          /\ decision'[w] = decision[w] /\ outcome'[w] = outcome[w]
          /\ effect'[w] = effect[w] /\ touched'[w] = touched[w]
      BY <1>0, <1>a, <2>2 DEF TypeOK, Begin, Goto
    <3>2. RunTyped'
      BY <1>0, <1>a, <2>2 DEF TypeOK, Stages, RunTyped, Begin, Goto
    <3>3. Frame(w)
      BY <1>0, <1>a, <2>2 DEF TypeOK, Frame, Begin, Goto
    <3>4. Action(w)' = ActionTable[req'[w].action]
      BY DEF Action
    <3>5. TargetInv(w)'
      BY <1>0, <1>a, <2>2, <3>1, <3>3, <3>4 DEF LookupInv, Local, Frame, TargetInv, RecordInv
    <3>6. GateInv(w)'
      BY <1>0, <1>a, <2>2, <3>1, <3>4 DEF Local, TargetInv, GateInv, RecordInv, PastGate
    <3>7. ChangeInv(w)'
      BY <1>0, <1>a, <2>2, <3>1, <3>4 DEF Local, GateInv, PastGate, ChangeInv
    <3>8. RecordInv(w)'
      BY <1>0, <1>a, <2>2, <3>1, <3>4 DEF Local, RecordInv, ChangeInv
    <3> QED
      BY <1>0, <1>a, <2>2, <3>1, <3>2, <3>3, <3>5, <3>6, <3>7, <3>8 DEF Local
  <2>3. CASE ActionTable[q.action].scope = "kube"
    <3>1. /\ pc'[w] = "authorize" /\ req'[w] = q /\ stage'[w] = "region" /\ got'[w] = got[w]
          /\ region'[w] = region[w] /\ infra'[w] = infra[w] /\ creds'[w] = creds[w]
          /\ decision'[w] = decision[w] /\ outcome'[w] = outcome[w]
          /\ effect'[w] = effect[w] /\ touched'[w] = touched[w]
      BY <1>0, <1>a, <2>3 DEF TypeOK, Begin, Goto
    <3>2. RunTyped'
      BY <1>0, <1>a, <2>3 DEF TypeOK, Stages, RunTyped, Begin, Goto
    <3>3. Frame(w)
      BY <1>0, <1>a, <2>3 DEF TypeOK, Frame, Begin, Goto
    <3>4. Action(w)' = ActionTable[req'[w].action]
      BY DEF Action
    <3>5. TargetInv(w)'
      BY <1>0, <1>a, <2>3, <3>1, <3>3, <3>4 DEF LookupInv, Local, Frame, TargetInv, RecordInv
    <3>6. GateInv(w)'
      BY <1>0, <1>a, <2>3, <3>1, <3>4 DEF Local, TargetInv, GateInv, RecordInv, PastGate
    <3>7. ChangeInv(w)'
      BY <1>0, <1>a, <2>3, <3>1, <3>4 DEF Local, GateInv, PastGate, ChangeInv
    <3>8. RecordInv(w)'
      BY <1>0, <1>a, <2>3, <3>1, <3>4 DEF Local, RecordInv, ChangeInv
    <3> QED
      BY <1>0, <1>a, <2>3, <3>1, <3>2, <3>3, <3>5, <3>6, <3>7, <3>8 DEF Local
  <2> QED
    BY <1>0, <2>1, <2>2, <2>3, <1>a DEF TypeOK, Begin, Goto
<1>2. TypeOK'
  BY <1>0, <1>1, <1>a, ExecutionAssumption DEF TypeOK, RunTyped, Begin, Goto
<1>3. LookupInv'
  BY <1>0, <1>a DEF TypeOK, LookupInv, Local, TargetInv, Begin, Goto
<1> QED
  BY <1>1, <1>2, <1>3, OthersKeep DEF IndInv, Local

\* OCM answers a lookup, and the answer is not stored yet.
LEMMA FetchKeeps ==
  ASSUME IndInv, NEW w \in Workers, LookupFetch(w)
  PROVE IndInv'
<1> USE DEF runVars, recVars, cacheVars, ocmVars, logVars
<1>0. TypeOK /\ LookupInv /\ Local(w)
  BY DEF IndInv, Local
<1>a. pc[w] = "lookup" /\ req[w] \in Requests /\ req[w].id \in Identifiers
  BY <1>0, TableTyped DEF LookupFetch, Local, TargetInv
<1>b. bind[req[w].id] \in denoted[req[w].id] /\ bind[req[w].id] \in Clusters
  BY <1>0, <1>a DEF TypeOK, LookupInv, LookupFetch
<1>1. RunTyped' /\ Frame(w) /\ Local(w)'
  <2>1. /\ pc'[w] = "store" /\ req'[w] = req[w] /\ stage'[w] = stage[w] /\ got'[w] = bind[req[w].id]
        /\ region'[w] = region[w] /\ infra'[w] = infra[w] /\ creds'[w] = creds[w]
        /\ decision'[w] = decision[w] /\ outcome'[w] = outcome[w]
        /\ effect'[w] = effect[w] /\ touched'[w] = touched[w]
    BY <1>0, <1>a, <1>b DEF TypeOK, LookupFetch, Goto
  <2>2. RunTyped'
    BY <1>0, <1>a, <1>b DEF TypeOK, Stages, RunTyped, LookupFetch, Goto
  <2>3. Frame(w)
    BY <1>0, <1>a, <1>b DEF TypeOK, Frame, LookupFetch, Goto
  <2>4. Action(w)' = Action(w) /\ Allowed(w)' = Allowed(w) /\ Checked(w)' = Checked(w)
    BY <2>1, DecisionsKept
  <2>5. TargetInv(w)'
    BY <1>0, <1>a, <1>b, <2>1, <2>3, <2>4 DEF LookupInv, Local, Frame, TargetInv, RecordInv
  <2>6. GateInv(w)'
    BY <1>0, <1>a, <1>b, <2>1, <2>4 DEF Local, TargetInv, GateInv, RecordInv, PastGate
  <2>7. ChangeInv(w)'
    BY <1>0, <1>a, <1>b, <2>1, <2>4 DEF Local, GateInv, PastGate, ChangeInv
  <2>8. RecordInv(w)'
    BY <1>0, <1>a, <1>b, <2>1, <2>4 DEF Local, RecordInv, ChangeInv
  <2> QED
    BY <1>0, <1>a, <1>b, <2>1, <2>2, <2>3, <2>5, <2>6, <2>7, <2>8 DEF Local
<1>2. TypeOK'
  BY <1>0, <1>1, <1>a, <1>b DEF TypeOK, RunTyped, LookupFetch, Goto
<1>3. LookupInv'
  BY <1>0, <1>a, <1>b DEF TypeOK, LookupInv, Local, TargetInv, LookupFetch, Goto
<1> QED
  BY <1>1, <1>2, <1>3, OthersKeep DEF IndInv, Local

\* What a run does with the cluster that its lookup found, cached or fetched, keeps
\* its part of the invariant.
LEMMA UseClusterKeeps ==
  ASSUME IndInv, NEW w \in Workers, NEW c \in Clusters,
         pc[w] \in {"lookup", "store"}, c \in denoted[req[w].id], UseCluster(w, c),
         got' = got \/ got' = [got EXCEPT ![w] = NoCluster],
         UNCHANGED <<req, effect, touched, denoted>>
  PROVE RunTyped' /\ Frame(w) /\ Local(w)'
<1> USE DEF recVars
<1>0. TypeOK /\ LookupInv /\ Local(w)
  BY DEF IndInv, Local
<1>a. c # NoCluster /\ Region[c] \in KnownRegions
  BY ExecutionAssumption DEF KnownRegions
<1>1. CASE stage[w] = "region" /\ Region[c] # "" /\ ~Action(w).write
  <2>1. /\ pc'[w] = "authorize" /\ req'[w] = req[w] /\ stage'[w] = stage[w]
        /\ region'[w] = Region[c] /\ infra'[w] = infra[w] /\ creds'[w] = creds[w]
        /\ decision'[w] = decision[w] /\ outcome'[w] = outcome[w]
        /\ effect'[w] = effect[w] /\ touched'[w] = touched[w]
    BY <1>0, <1>a, <1>1 DEF TypeOK, UseCluster, Goto, Conclude
  <2>2. RunTyped'
    BY <1>0, <1>a, <1>1 DEF TypeOK, Stages, RunTyped, UseCluster, Goto, Conclude
  <2>3. Frame(w)
    BY <1>0, <1>a, <1>1 DEF TypeOK, Frame, UseCluster, Goto, Conclude
  <2>4. Action(w)' = Action(w)
    BY <2>1 DEF Action
  <2>5. TargetInv(w)'
    BY <1>0, <1>a, <1>1, <2>1, <2>3, <2>4 DEF LookupInv, Local, Frame, TargetInv, RecordInv
  <2>6. GateInv(w)'
    BY <1>0, <1>a, <1>1, <2>1, <2>4 DEF Local, TargetInv, GateInv, RecordInv, PastGate
  <2>7. ChangeInv(w)'
    BY <1>0, <1>a, <1>1, <2>1, <2>4 DEF Local, GateInv, PastGate, ChangeInv
  <2>8. RecordInv(w)'
    BY <1>0, <1>a, <1>1, <2>1, <2>4 DEF Local, RecordInv, ChangeInv
  <2> QED
    BY <1>0, <1>a, <1>1, <2>1, <2>2, <2>3, <2>5, <2>6, <2>7, <2>8 DEF Local
<1>2. CASE /\ stage[w] = "region"
           /\ Region[c] # ""
           /\ Action(w).write
           /\ req[w].resource \notin {"", "instances"}
  <2>0. /\ region' = [region EXCEPT ![w] = Region[c]]
        /\ UNCHANGED <<infra, creds>>
        /\ Conclude(w, "none", "failure")
        /\ UNCHANGED stage
    BY <1>2 DEF UseCluster
  <2>1. /\ pc'[w] = "log" /\ req'[w] = req[w] /\ stage'[w] = stage[w]
        /\ region'[w] = Region[c] /\ infra'[w] = infra[w] /\ creds'[w] = creds[w]
        /\ decision'[w] = "none" /\ outcome'[w] = "failure"
        /\ effect'[w] = effect[w] /\ touched'[w] = touched[w]
    BY <1>0, <1>a, <1>2, <2>0 DEF TypeOK, Goto, Conclude
  <2>2. RunTyped'
    BY <1>0, <1>a, <1>2, <2>0 DEF TypeOK, Stages, RunTyped, Goto, Conclude
  <2>3. Frame(w)
    BY <1>0, <1>a, <1>2, <2>0 DEF TypeOK, Frame, Goto, Conclude
  <2>4. Action(w)' = Action(w)
    BY <2>1 DEF Action
  <2>5. TargetInv(w)'
    BY <1>0, <1>a, <1>2, <2>0, <2>1, <2>3, <2>4 DEF LookupInv, Local, Frame, TargetInv,
       RecordInv
  <2>6. GateInv(w)'
    BY <1>0, <1>a, <1>2, <2>0, <2>1, <2>4 DEF Local, TargetInv, GateInv, RecordInv, PastGate
  <2>7. ChangeInv(w)'
    BY <1>0, <1>a, <1>2, <2>0, <2>1, <2>4 DEF Local, GateInv, PastGate, ChangeInv
  <2>8. RecordInv(w)'
    BY <1>0, <1>a, <1>2, <2>0, <2>1, <2>4 DEF Local, RecordInv, ChangeInv
  <2> QED
    BY <1>0, <1>a, <1>2, <2>0, <2>1, <2>2, <2>3, <2>5, <2>6, <2>7, <2>8 DEF Local
<1>3. CASE /\ stage[w] = "region"
           /\ Region[c] # ""
           /\ Action(w).write
           /\ req[w].resource \in {"", "instances"}
  <2>0. /\ region' = [region EXCEPT ![w] = Region[c]]
        /\ UNCHANGED <<infra, creds>>
        /\ Goto(w, "lookup")
        /\ stage' = [stage EXCEPT ![w] = "infra"]
        /\ UNCHANGED recVars
    BY <1>3 DEF UseCluster
  <2>1. /\ pc'[w] = "lookup" /\ req'[w] = req[w] /\ stage'[w] = "infra"
        /\ region'[w] = Region[c] /\ infra'[w] = infra[w] /\ creds'[w] = creds[w]
        /\ decision'[w] = decision[w] /\ outcome'[w] = outcome[w]
        /\ effect'[w] = effect[w] /\ touched'[w] = touched[w]
    BY <1>0, <1>a, <1>3, <2>0 DEF TypeOK, Goto, Conclude
  <2>2. RunTyped'
    BY <1>0, <1>a, <1>3, <2>0 DEF TypeOK, Stages, RunTyped, Goto, Conclude
  <2>3. Frame(w)
    BY <1>0, <1>a, <1>3, <2>0 DEF TypeOK, Frame, Goto, Conclude
  <2>4. Action(w)' = Action(w)
    BY <2>1 DEF Action
  <2>5. TargetInv(w)'
    BY <1>0, <1>a, <1>3, <2>0, <2>1, <2>3, <2>4 DEF LookupInv, Local, Frame, TargetInv,
       RecordInv
  <2>6. GateInv(w)'
    BY <1>0, <1>a, <1>3, <2>0, <2>1, <2>4 DEF Local, TargetInv, GateInv, RecordInv, PastGate
  <2>7. ChangeInv(w)'
    BY <1>0, <1>a, <1>3, <2>0, <2>1, <2>4 DEF Local, GateInv, PastGate, ChangeInv
  <2>8. RecordInv(w)'
    BY <1>0, <1>a, <1>3, <2>0, <2>1, <2>4 DEF Local, RecordInv, ChangeInv
  <2> QED
    BY <1>0, <1>a, <1>3, <2>0, <2>1, <2>2, <2>3, <2>5, <2>6, <2>7, <2>8 DEF Local
<1>4. CASE stage[w] = "region" /\ Region[c] = ""
  <2>1. /\ pc'[w] = "log" /\ req'[w] = req[w] /\ stage'[w] = stage[w]
        /\ region'[w] = region[w] /\ infra'[w] = infra[w] /\ creds'[w] = creds[w]
        /\ decision'[w] = "none" /\ outcome'[w] = "failure"
        /\ effect'[w] = effect[w] /\ touched'[w] = touched[w]
    BY <1>0, <1>a, <1>4 DEF TypeOK, UseCluster, Goto, Conclude
  <2>2. RunTyped'
    BY <1>0, <1>a, <1>4 DEF TypeOK, Stages, RunTyped, UseCluster, Goto, Conclude
  <2>3. Frame(w)
    BY <1>0, <1>a, <1>4 DEF TypeOK, Frame, UseCluster, Goto, Conclude
  <2>4. Action(w)' = Action(w) /\ Allowed(w)' = Allowed(w) /\ Checked(w)' = Checked(w)
    BY <2>1, DecisionsKept
  <2>5. TargetInv(w)'
    BY <1>0, <1>a, <1>4, <2>1, <2>3, <2>4 DEF LookupInv, Local, Frame, TargetInv, RecordInv
  <2>6. GateInv(w)'
    BY <1>0, <1>a, <1>4, <2>1, <2>4 DEF Local, TargetInv, GateInv, RecordInv, PastGate
  <2>7. ChangeInv(w)'
    BY <1>0, <1>a, <1>4, <2>1, <2>4 DEF Local, GateInv, PastGate, ChangeInv
  <2>8. RecordInv(w)'
    BY <1>0, <1>a, <1>4, <2>1, <2>4 DEF Local, RecordInv, ChangeInv
  <2> QED
    BY <1>0, <1>a, <1>4, <2>1, <2>2, <2>3, <2>5, <2>6, <2>7, <2>8 DEF Local
<1>5. CASE stage[w] = "infra" /\ c \notin Unlabelled
  <2>1. /\ pc'[w] = "authorize" /\ req'[w] = req[w] /\ stage'[w] = stage[w]
        /\ region'[w] = region[w] /\ infra'[w] = c /\ creds'[w] = creds[w]
        /\ decision'[w] = decision[w] /\ outcome'[w] = outcome[w]
        /\ effect'[w] = effect[w] /\ touched'[w] = touched[w]
    BY <1>0, <1>a, <1>5 DEF TypeOK, UseCluster, Goto, Conclude
  <2>2. RunTyped'
    BY <1>0, <1>a, <1>5 DEF TypeOK, Stages, RunTyped, UseCluster, Goto, Conclude
  <2>3. Frame(w)
    BY <1>0, <1>a, <1>5 DEF TypeOK, Frame, UseCluster, Goto, Conclude
  <2>4. Action(w)' = Action(w) /\ Allowed(w)' = Allowed(w)
    BY <2>1, DecisionsKept
  <2>5. TargetInv(w)'
    BY <1>0, <1>a, <1>5, <2>1, <2>3, <2>4 DEF LookupInv, Local, Frame, TargetInv, RecordInv
  <2>6. GateInv(w)'
    BY <1>0, <1>a, <1>5, <2>1, <2>4 DEF Local, TargetInv, GateInv, RecordInv, PastGate
  <2>7. ChangeInv(w)'
    BY <1>0, <1>a, <1>5, <2>1, <2>4 DEF Local, GateInv, PastGate, ChangeInv
  <2>8. RecordInv(w)'
    BY <1>0, <1>a, <1>5, <2>1, <2>4 DEF Local, RecordInv, ChangeInv
  <2> QED
    BY <1>0, <1>a, <1>5, <2>1, <2>2, <2>3, <2>5, <2>6, <2>7, <2>8 DEF Local
<1>6. CASE stage[w] = "infra" /\ c \in Unlabelled
  <2>1. /\ pc'[w] = "log" /\ req'[w] = req[w] /\ stage'[w] = stage[w]
        /\ region'[w] = region[w] /\ infra'[w] = infra[w] /\ creds'[w] = creds[w]
        /\ decision'[w] = "none" /\ outcome'[w] = "failure"
        /\ effect'[w] = effect[w] /\ touched'[w] = touched[w]
    BY <1>0, <1>a, <1>6 DEF TypeOK, UseCluster, Goto, Conclude
  <2>2. RunTyped'
    BY <1>0, <1>a, <1>6 DEF TypeOK, Stages, RunTyped, UseCluster, Goto, Conclude
  <2>3. Frame(w)
    BY <1>0, <1>a, <1>6 DEF TypeOK, Frame, UseCluster, Goto, Conclude
  <2>4. Action(w)' = Action(w) /\ Allowed(w)' = Allowed(w) /\ Checked(w)' = Checked(w)
    BY <2>1, DecisionsKept
  <2>5. TargetInv(w)'
    BY <1>0, <1>a, <1>6, <2>1, <2>3, <2>4 DEF LookupInv, Local, Frame, TargetInv, RecordInv
  <2>6. GateInv(w)'
    BY <1>0, <1>a, <1>6, <2>1, <2>4 DEF Local, TargetInv, GateInv, RecordInv, PastGate
  <2>7. ChangeInv(w)'
    BY <1>0, <1>a, <1>6, <2>1, <2>4 DEF Local, GateInv, PastGate, ChangeInv
  <2>8. RecordInv(w)'
    BY <1>0, <1>a, <1>6, <2>1, <2>4 DEF Local, RecordInv, ChangeInv
  <2> QED
    BY <1>0, <1>a, <1>6, <2>1, <2>2, <2>3, <2>5, <2>6, <2>7, <2>8 DEF Local
<1>7. CASE stage[w] = "clients"
  <2>1. /\ pc'[w] = "credentials" /\ req'[w] = req[w] /\ stage'[w] = stage[w]
        /\ region'[w] = region[w] /\ infra'[w] = infra[w] /\ creds'[w] = c
        /\ decision'[w] = decision[w] /\ outcome'[w] = outcome[w]
        /\ effect'[w] = effect[w] /\ touched'[w] = touched[w]
    BY <1>0, <1>a, <1>7 DEF TypeOK, UseCluster, Goto, Conclude
  <2>2. RunTyped'
    BY <1>0, <1>a, <1>7 DEF TypeOK, Stages, RunTyped, UseCluster, Goto, Conclude
  <2>3. Frame(w)
    BY <1>0, <1>a, <1>7 DEF TypeOK, Frame, UseCluster, Goto, Conclude
  <2>4. Action(w)' = Action(w) /\ Allowed(w)' = Allowed(w)
    BY <2>1, DecisionsKept
  <2>5. TargetInv(w)'
    BY <1>0, <1>a, <1>7, <2>1, <2>3, <2>4 DEF LookupInv, Local, Frame, TargetInv, RecordInv
  <2>6. GateInv(w)'
    BY <1>0, <1>a, <1>7, <2>1, <2>4 DEF Local, TargetInv, GateInv, RecordInv, PastGate
  <2>7. ChangeInv(w)'
    BY <1>0, <1>a, <1>7, <2>1, <2>4 DEF Local, GateInv, PastGate, ChangeInv
  <2>8. RecordInv(w)'
    BY <1>0, <1>a, <1>7, <2>1, <2>4 DEF Local, RecordInv, ChangeInv
  <2> QED
    BY <1>0, <1>a, <1>7, <2>1, <2>2, <2>3, <2>5, <2>6, <2>7, <2>8 DEF Local
<1> QED
  BY <1>0, <1>1, <1>2, <1>3, <1>4, <1>5, <1>6, <1>7 DEF TypeOK, UseCluster

\* A lookup is answered by the cache.
LEMMA CachedKeeps ==
  ASSUME IndInv, NEW w \in Workers, LookupCached(w)
  PROVE IndInv'
<1> USE DEF runVars, recVars, cacheVars, ocmVars, logVars
<1>0. TypeOK /\ LookupInv /\ Local(w)
  BY DEF IndInv, Local
<1>a. pc[w] = "lookup" /\ req[w] \in Requests /\ req[w].id \in Identifiers
  BY <1>0, TableTyped DEF LookupCached, Local, TargetInv
<1>c. PICK c : c = cache[req[w].id]
  OBVIOUS
<1>b. c \in Clusters /\ c \in denoted[req[w].id]
  BY <1>0, <1>a, <1>c, ExecutionAssumption DEF TypeOK, LookupInv, Local, TargetInv, LookupCached
<1>1. RunTyped' /\ Frame(w) /\ Local(w)'
  BY <1>a, <1>b, <1>c, UseClusterKeeps DEF LookupCached
<1>2. TypeOK'
  BY <1>0, <1>1, <1>a, <1>b, <1>c DEF TypeOK, RunTyped, LookupCached
<1>3. LookupInv'
  BY <1>0, <1>a, <1>b, <1>c DEF TypeOK, LookupInv, LookupCached
<1> QED
  BY <1>1, <1>2, <1>3, OthersKeep DEF IndInv, Local

\* The answer of OCM is stored and used.
LEMMA StoreKeeps ==
  ASSUME IndInv, NEW w \in Workers, LookupStore(w)
  PROVE IndInv'
<1> USE DEF runVars, recVars, cacheVars, ocmVars, logVars
<1>0. TypeOK /\ LookupInv /\ Local(w)
  BY DEF IndInv, Local
<1>a. pc[w] = "store" /\ req[w] \in Requests /\ req[w].id \in Identifiers
  BY <1>0, TableTyped DEF LookupStore, Local, TargetInv
<1>c. PICK c : c = got[w]
  OBVIOUS
<1>b. c \in Clusters /\ c \in denoted[req[w].id]
  BY <1>0, <1>a, <1>c, ExecutionAssumption DEF TypeOK, Local, TargetInv, LookupStore
<1>1. RunTyped' /\ Frame(w) /\ Local(w)'
  BY <1>a, <1>b, <1>c, UseClusterKeeps DEF LookupStore
<1>2. TypeOK'
  BY <1>0, <1>1, <1>a, <1>b, <1>c DEF TypeOK, RunTyped, LookupStore
<1>3. LookupInv'
  BY <1>0, <1>a, <1>b, <1>c DEF TypeOK, LookupInv, LookupStore
<1> QED
  BY <1>1, <1>2, <1>3, OthersKeep DEF IndInv, Local

\* The authorizer allows or denies the run.
LEMMA AuthorizeKeeps ==
  ASSUME IndInv, NEW w \in Workers, Authorize(w)
  PROVE IndInv'
<1> USE DEF runVars, recVars, cacheVars, ocmVars, logVars
<1>0. TypeOK /\ LookupInv /\ Local(w)
  BY DEF IndInv, Local
<1>a. /\ pc[w] = "authorize"
      /\ req[w] \in Requests
      /\ Action(w).scope \in {"kube", "aws"}
      /\ ~effect[w]
      /\ req[w].id \in Identifiers
  BY <1>0, TableTyped DEF Authorize, Local, TargetInv, ChangeInv, Action
<1>1. RunTyped' /\ Frame(w) /\ Local(w)'
  <2>1. CASE Allowed(w) /\ Action(w).scope = "aws"
    <3>1. /\ pc'[w] = "lookup" /\ req'[w] = req[w] /\ stage'[w] = "clients" /\ got'[w] = got[w]
          /\ region'[w] = region[w] /\ infra'[w] = infra[w] /\ creds'[w] = creds[w]
          /\ decision'[w] = decision[w] /\ outcome'[w] = outcome[w]
          /\ effect'[w] = effect[w] /\ touched'[w] = touched[w]
      BY <1>0, <1>a, <2>1 DEF TypeOK, Authorize, Goto, Conclude
    <3>2. RunTyped'
      BY <1>0, <1>a, <2>1 DEF TypeOK, Stages, RunTyped, Authorize, Goto, Conclude
    <3>3. Frame(w)
      BY <1>0, <1>a, <2>1 DEF TypeOK, Frame, Authorize, Goto, Conclude
    <3>4. Action(w)' = Action(w) /\ Allowed(w)' = Allowed(w) /\ Checked(w)' = Checked(w)
      BY <3>1, DecisionsKept
    <3>5. TargetInv(w)'
      BY <1>0, <1>a, <2>1, <3>1, <3>3, <3>4 DEF LookupInv, Local, Frame, TargetInv, RecordInv
    <3>6. GateInv(w)'
      BY <1>0, <1>a, <2>1, <3>1, <3>4 DEF Local, TargetInv, GateInv, RecordInv, PastGate
    <3>7. ChangeInv(w)'
      BY <1>0, <1>a, <2>1, <3>1, <3>4 DEF Local, GateInv, PastGate, ChangeInv
    <3>8. RecordInv(w)'
      BY <1>0, <1>a, <2>1, <3>1, <3>4 DEF Local, RecordInv, ChangeInv
    <3> QED
      BY <1>0, <1>a, <2>1, <3>1, <3>2, <3>3, <3>5, <3>6, <3>7, <3>8 DEF Local
  <2>2. CASE Allowed(w) /\ Action(w).scope = "kube"
    <3>1. /\ pc'[w] = "session" /\ req'[w] = req[w] /\ stage'[w] = "clients" /\ got'[w] = got[w]
          /\ region'[w] = region[w] /\ infra'[w] = infra[w] /\ creds'[w] = creds[w]
          /\ decision'[w] = decision[w] /\ outcome'[w] = outcome[w]
          /\ effect'[w] = effect[w] /\ touched'[w] = touched[w]
      BY <1>0, <1>a, <2>2 DEF TypeOK, Authorize, Goto, Conclude
    <3>2. RunTyped'
      BY <1>0, <1>a, <2>2 DEF TypeOK, Stages, RunTyped, Authorize, Goto, Conclude
    <3>3. Frame(w)
      BY <1>0, <1>a, <2>2 DEF TypeOK, Frame, Authorize, Goto, Conclude
    <3>4. Action(w)' = Action(w) /\ Allowed(w)' = Allowed(w) /\ Checked(w)' = Checked(w)
      BY <3>1, DecisionsKept
    <3>5. TargetInv(w)'
      BY <1>0, <1>a, <2>2, <3>1, <3>3, <3>4 DEF LookupInv, Local, Frame, TargetInv, RecordInv
    <3>6. GateInv(w)'
      BY <1>0, <1>a, <2>2, <3>1, <3>4 DEF Local, TargetInv, GateInv, RecordInv, PastGate
    <3>7. ChangeInv(w)'
      BY <1>0, <1>a, <2>2, <3>1, <3>4 DEF Local, GateInv, PastGate, ChangeInv
    <3>8. RecordInv(w)'
      BY <1>0, <1>a, <2>2, <3>1, <3>4 DEF Local, RecordInv, ChangeInv
    <3> QED
      BY <1>0, <1>a, <2>2, <3>1, <3>2, <3>3, <3>5, <3>6, <3>7, <3>8 DEF Local
  <2>3. CASE ~Allowed(w)
    <3>1. /\ pc'[w] = "log" /\ req'[w] = req[w] /\ stage'[w] = stage[w] /\ got'[w] = got[w]
          /\ region'[w] = region[w] /\ infra'[w] = infra[w] /\ creds'[w] = creds[w]
          /\ decision'[w] = "denied" /\ outcome'[w] = "skipped"
          /\ effect'[w] = effect[w] /\ touched'[w] = touched[w]
      BY <1>0, <1>a, <2>3 DEF TypeOK, Authorize, Goto, Conclude
    <3>2. RunTyped'
      BY <1>0, <1>a, <2>3 DEF TypeOK, Stages, RunTyped, Authorize, Goto, Conclude
    <3>3. Frame(w)
      BY <1>0, <1>a, <2>3 DEF TypeOK, Frame, Authorize, Goto, Conclude
    <3>4. Action(w)' = Action(w) /\ Allowed(w)' = Allowed(w) /\ Checked(w)' = Checked(w)
      BY <3>1, DecisionsKept
    <3>5. TargetInv(w)'
      BY <1>0, <1>a, <2>3, <3>1, <3>3, <3>4 DEF LookupInv, Local, Frame, TargetInv, RecordInv
    <3>6. GateInv(w)'
      BY <1>0, <1>a, <2>3, <3>1, <3>4 DEF Local, TargetInv, GateInv, RecordInv, PastGate
    <3>7. ChangeInv(w)'
      BY <1>0, <1>a, <2>3, <3>1, <3>4 DEF Local, GateInv, PastGate, ChangeInv
    <3>8. RecordInv(w)'
      BY <1>0, <1>a, <2>3, <3>1, <3>4 DEF Local, RecordInv, ChangeInv
    <3> QED
      BY <1>0, <1>a, <2>3, <3>1, <3>2, <3>3, <3>5, <3>6, <3>7, <3>8 DEF Local
  <2> QED
    BY <1>0, <2>1, <2>2, <2>3, <1>a DEF TypeOK, Authorize, Goto, Conclude
<1>2. TypeOK'
  BY <1>0, <1>1, <1>a DEF TypeOK, RunTyped, Authorize, Goto, Conclude
<1>3. LookupInv'
  BY <1>0, <1>a DEF TypeOK, LookupInv, Local, TargetInv, Authorize, Goto, Conclude
<1> QED
  BY <1>1, <1>2, <1>3, OthersKeep DEF IndInv, Local

\* A backplane session is granted.
LEMMA SessionKeeps ==
  ASSUME IndInv, NEW w \in Workers, GetSession(w)
  PROVE IndInv'
<1> USE DEF runVars, recVars, cacheVars, ocmVars, logVars
<1>0. TypeOK /\ LookupInv /\ Local(w)
  BY DEF IndInv, Local
<1>a. /\ pc[w] = "session"
      /\ req[w] \in Requests
      /\ Action(w).scope \in {"kube", "aws"}
      /\ ~effect[w]
      /\ req[w].id \in Identifiers
  BY <1>0, TableTyped DEF GetSession, Local, TargetInv, ChangeInv, Action
<1>1. RunTyped' /\ Frame(w) /\ Local(w)'
  <2>1. /\ pc'[w] = "execute" /\ req'[w] = req[w] /\ stage'[w] = stage[w] /\ got'[w] = got[w]
        /\ region'[w] = region[w] /\ infra'[w] = infra[w] /\ creds'[w] = creds[w]
        /\ decision'[w] = decision[w] /\ outcome'[w] = outcome[w]
        /\ effect'[w] = effect[w] /\ touched'[w] = TRUE
    BY <1>0, <1>a DEF TypeOK, GetSession, Goto
  <2>2. RunTyped'
    BY <1>0, <1>a DEF TypeOK, Stages, RunTyped, GetSession, Goto
  <2>3. Frame(w)
    BY <1>0, <1>a DEF TypeOK, Frame, GetSession, Goto
  <2>4. Action(w)' = Action(w) /\ Allowed(w)' = Allowed(w) /\ Checked(w)' = Checked(w)
    BY <2>1, DecisionsKept
  <2>5. TargetInv(w)'
    BY <1>0, <1>a, <2>1, <2>3, <2>4 DEF LookupInv, Local, Frame, TargetInv, RecordInv
  <2>6. GateInv(w)'
    BY <1>0, <1>a, <2>1, <2>4 DEF Local, TargetInv, GateInv, RecordInv, PastGate
  <2>7. ChangeInv(w)'
    BY <1>0, <1>a, <2>1, <2>4 DEF Local, GateInv, PastGate, ChangeInv
  <2>8. RecordInv(w)'
    BY <1>0, <1>a, <2>1, <2>4 DEF Local, RecordInv, ChangeInv
  <2> QED
    BY <1>0, <1>a, <2>1, <2>2, <2>3, <2>5, <2>6, <2>7, <2>8 DEF Local
<1>2. TypeOK'
  BY <1>0, <1>1, <1>a DEF TypeOK, RunTyped, GetSession, Goto
<1>3. LookupInv'
  BY <1>0, <1>a DEF TypeOK, LookupInv, Local, TargetInv, GetSession, Goto
<1> QED
  BY <1>1, <1>2, <1>3, OthersKeep DEF IndInv, Local

\* The credentials of the cluster arrive.
LEMMA CredentialsKeeps ==
  ASSUME IndInv, NEW w \in Workers, CredentialsArrive(w)
  PROVE IndInv'
<1> USE DEF runVars, recVars, cacheVars, ocmVars, logVars
<1>0. TypeOK /\ LookupInv /\ Local(w)
  BY DEF IndInv, Local
<1>a. /\ pc[w] = "credentials"
      /\ req[w] \in Requests
      /\ Action(w).scope \in {"kube", "aws"}
      /\ ~effect[w]
      /\ req[w].id \in Identifiers
  BY <1>0, TableTyped DEF CredentialsArrive, Local, TargetInv, ChangeInv, Action
<1>1. RunTyped' /\ Frame(w) /\ Local(w)'
  <2>1. /\ pc'[w] = "execute" /\ req'[w] = req[w] /\ stage'[w] = stage[w] /\ got'[w] = got[w]
        /\ region'[w] = region[w] /\ infra'[w] = infra[w] /\ creds'[w] = creds[w]
        /\ decision'[w] = decision[w] /\ outcome'[w] = outcome[w]
        /\ effect'[w] = effect[w] /\ touched'[w] = TRUE
    BY <1>0, <1>a DEF TypeOK, CredentialsArrive, Goto
  <2>2. RunTyped'
    BY <1>0, <1>a DEF TypeOK, Stages, RunTyped, CredentialsArrive, Goto
  <2>3. Frame(w)
    BY <1>0, <1>a DEF TypeOK, Frame, CredentialsArrive, Goto
  <2>4. Action(w)' = Action(w) /\ Allowed(w)' = Allowed(w) /\ Checked(w)' = Checked(w)
    BY <2>1, DecisionsKept
  <2>5. TargetInv(w)'
    BY <1>0, <1>a, <2>1, <2>3, <2>4 DEF LookupInv, Local, Frame, TargetInv, RecordInv
  <2>6. GateInv(w)'
    BY <1>0, <1>a, <2>1, <2>4 DEF Local, TargetInv, GateInv, RecordInv, PastGate
  <2>7. ChangeInv(w)'
    BY <1>0, <1>a, <2>1, <2>4 DEF Local, GateInv, PastGate, ChangeInv
  <2>8. RecordInv(w)'
    BY <1>0, <1>a, <2>1, <2>4 DEF Local, RecordInv, ChangeInv
  <2> QED
    BY <1>0, <1>a, <2>1, <2>2, <2>3, <2>5, <2>6, <2>7, <2>8 DEF Local
<1>2. TypeOK'
  BY <1>0, <1>1, <1>a DEF TypeOK, RunTyped, CredentialsArrive, Goto
<1>3. LookupInv'
  BY <1>0, <1>a DEF TypeOK, LookupInv, Local, TargetInv, CredentialsArrive, Goto
<1> QED
  BY <1>1, <1>2, <1>3, OthersKeep DEF IndInv, Local

\* The action reads, or checks what it is about to change.
LEMMA ExecuteKeeps ==
  ASSUME IndInv, NEW w \in Workers, Execute(w)
  PROVE IndInv'
<1> USE DEF runVars, recVars, cacheVars, ocmVars, logVars
<1>0. TypeOK /\ LookupInv /\ Local(w)
  BY DEF IndInv, Local
<1>a. /\ pc[w] = "execute"
      /\ req[w] \in Requests
      /\ Action(w).scope \in {"kube", "aws"}
      /\ ~effect[w]
      /\ req[w].id \in Identifiers
  BY <1>0, TableTyped DEF Execute, Local, TargetInv, ChangeInv, Action
<1>1. RunTyped' /\ Frame(w) /\ Local(w)'
  <2>1. CASE ~Action(w).write
    <3>1. /\ pc'[w] = "log" /\ req'[w] = req[w] /\ stage'[w] = stage[w] /\ got'[w] = got[w]
          /\ region'[w] = region[w] /\ infra'[w] = infra[w] /\ creds'[w] = creds[w]
          /\ decision'[w] = "allowed" /\ outcome'[w] = "success"
          /\ effect'[w] = effect[w] /\ touched'[w] = touched[w]
      BY <1>0, <1>a, <2>1 DEF TypeOK, Execute, Goto, Conclude
    <3>2. RunTyped'
      BY <1>0, <1>a, <2>1 DEF TypeOK, Stages, RunTyped, Execute, Goto, Conclude
    <3>3. Frame(w)
      BY <1>0, <1>a, <2>1 DEF TypeOK, Frame, Execute, Goto, Conclude
    <3>4. Action(w)' = Action(w) /\ Allowed(w)' = Allowed(w) /\ Checked(w)' = Checked(w)
      BY <3>1, DecisionsKept
    <3>5. TargetInv(w)'
      BY <1>0, <1>a, <2>1, <3>1, <3>3, <3>4 DEF LookupInv, Local, Frame, TargetInv, RecordInv
    <3>6. GateInv(w)'
      BY <1>0, <1>a, <2>1, <3>1, <3>4 DEF Local, TargetInv, GateInv, RecordInv, PastGate
    <3>7. ChangeInv(w)'
      BY <1>0, <1>a, <2>1, <3>1, <3>4 DEF Local, GateInv, PastGate, ChangeInv
    <3>8. RecordInv(w)'
      BY <1>0, <1>a, <2>1, <3>1, <3>4 DEF Local, RecordInv, ChangeInv
    <3> QED
      BY <1>0, <1>a, <2>1, <3>1, <3>2, <3>3, <3>5, <3>6, <3>7, <3>8 DEF Local
  <2>2. CASE Action(w).write /\ ~Checked(w)
    <3>1. /\ pc'[w] = "log" /\ req'[w] = req[w] /\ stage'[w] = stage[w] /\ got'[w] = got[w]
          /\ region'[w] = region[w] /\ infra'[w] = infra[w] /\ creds'[w] = creds[w]
          /\ decision'[w] = "allowed" /\ outcome'[w] = "failure"
          /\ effect'[w] = effect[w] /\ touched'[w] = touched[w]
      BY <1>0, <1>a, <2>2 DEF TypeOK, Execute, Goto, Conclude
    <3>2. RunTyped'
      BY <1>0, <1>a, <2>2 DEF TypeOK, Stages, RunTyped, Execute, Goto, Conclude
    <3>3. Frame(w)
      BY <1>0, <1>a, <2>2 DEF TypeOK, Frame, Execute, Goto, Conclude
    <3>4. Action(w)' = Action(w) /\ Allowed(w)' = Allowed(w) /\ Checked(w)' = Checked(w)
      BY <3>1, DecisionsKept
    <3>5. TargetInv(w)'
      BY <1>0, <1>a, <2>2, <3>1, <3>3, <3>4 DEF LookupInv, Local, Frame, TargetInv, RecordInv
    <3>6. GateInv(w)'
      BY <1>0, <1>a, <2>2, <3>1, <3>4 DEF Local, TargetInv, GateInv, RecordInv, PastGate
    <3>7. ChangeInv(w)'
      BY <1>0, <1>a, <2>2, <3>1, <3>4 DEF Local, GateInv, PastGate, ChangeInv
    <3>8. RecordInv(w)'
      BY <1>0, <1>a, <2>2, <3>1, <3>4 DEF Local, RecordInv, ChangeInv
    <3> QED
      BY <1>0, <1>a, <2>2, <3>1, <3>2, <3>3, <3>5, <3>6, <3>7, <3>8 DEF Local
  <2>3. CASE Action(w).write /\ Checked(w)
    <3>1. /\ pc'[w] = "change" /\ req'[w] = req[w] /\ stage'[w] = stage[w] /\ got'[w] = got[w]
          /\ region'[w] = region[w] /\ infra'[w] = infra[w] /\ creds'[w] = creds[w]
          /\ decision'[w] = decision[w] /\ outcome'[w] = outcome[w]
          /\ effect'[w] = effect[w] /\ touched'[w] = touched[w]
      BY <1>0, <1>a, <2>3 DEF TypeOK, Execute, Goto, Conclude
    <3>2. RunTyped'
      BY <1>0, <1>a, <2>3 DEF TypeOK, Stages, RunTyped, Execute, Goto, Conclude
    <3>3. Frame(w)
      BY <1>0, <1>a, <2>3 DEF TypeOK, Frame, Execute, Goto, Conclude
    <3>4. Action(w)' = Action(w) /\ Allowed(w)' = Allowed(w) /\ Checked(w)' = Checked(w)
      BY <3>1, DecisionsKept
    <3>5. TargetInv(w)'
      BY <1>0, <1>a, <2>3, <3>1, <3>3, <3>4 DEF LookupInv, Local, Frame, TargetInv, RecordInv
    <3>6. GateInv(w)'
      BY <1>0, <1>a, <2>3, <3>1, <3>4 DEF Local, TargetInv, GateInv, RecordInv, PastGate
    <3>7. ChangeInv(w)'
      BY <1>0, <1>a, <2>3, <3>1, <3>4 DEF Local, GateInv, PastGate, ChangeInv
    <3>8. RecordInv(w)'
      BY <1>0, <1>a, <2>3, <3>1, <3>4 DEF Local, RecordInv, ChangeInv
    <3> QED
      BY <1>0, <1>a, <2>3, <3>1, <3>2, <3>3, <3>5, <3>6, <3>7, <3>8 DEF Local
  <2> QED
    BY <1>0, <2>1, <2>2, <2>3, <1>a DEF TypeOK, Execute, Goto, Conclude
<1>2. TypeOK'
  BY <1>0, <1>1, <1>a DEF TypeOK, RunTyped, Execute, Goto, Conclude
<1>3. LookupInv'
  BY <1>0, <1>a DEF TypeOK, LookupInv, Local, TargetInv, Execute, Goto, Conclude
<1> QED
  BY <1>1, <1>2, <1>3, OthersKeep DEF IndInv, Local

\* The change takes effect.
LEMMA ChangeKeeps ==
  ASSUME IndInv, NEW w \in Workers, Change(w)
  PROVE IndInv'
<1> USE DEF runVars, recVars, cacheVars, ocmVars, logVars
<1>0. TypeOK /\ LookupInv /\ Local(w)
  BY DEF IndInv, Local
<1>a. /\ pc[w] = "change"
      /\ req[w] \in Requests
      /\ Action(w).scope \in {"kube", "aws"}
      /\ ~effect[w]
      /\ req[w].id \in Identifiers
  BY <1>0, TableTyped DEF Change, Local, TargetInv, ChangeInv, Action
<1>o. PICK o \in {"success", "failure"} : Conclude(w, "allowed", o)
  BY DEF Change
<1>1. RunTyped' /\ Frame(w) /\ Local(w)'
  <2>1. /\ pc'[w] = "log" /\ req'[w] = req[w] /\ stage'[w] = stage[w] /\ got'[w] = got[w]
        /\ region'[w] = region[w] /\ infra'[w] = infra[w] /\ creds'[w] = creds[w]
        /\ decision'[w] = "allowed" /\ outcome'[w] = o
        /\ effect'[w] = TRUE /\ touched'[w] = touched[w]
    BY <1>0, <1>a, <1>o DEF TypeOK, Change, Goto, Conclude
  <2>2. RunTyped'
    BY <1>0, <1>a, <1>o DEF TypeOK, Stages, RunTyped, Change, Goto, Conclude
  <2>3. Frame(w)
    BY <1>0, <1>a, <1>o DEF TypeOK, Frame, Change, Goto, Conclude
  <2>4. Action(w)' = Action(w) /\ Allowed(w)' = Allowed(w) /\ Checked(w)' = Checked(w)
    BY <2>1, DecisionsKept
  <2>5. TargetInv(w)'
    BY <1>0, <1>a, <1>o, <2>1, <2>3, <2>4 DEF LookupInv, Local, Frame, TargetInv, RecordInv
  <2>6. GateInv(w)'
    BY <1>0, <1>a, <1>o, <2>1, <2>4 DEF Local, TargetInv, GateInv, RecordInv, PastGate
  <2>7. ChangeInv(w)'
    BY <1>0, <1>a, <1>o, <2>1, <2>4 DEF Local, GateInv, PastGate, ChangeInv
  <2>8. RecordInv(w)'
    BY <1>0, <1>a, <1>o, <2>1, <2>4 DEF Local, RecordInv, ChangeInv
  <2> QED
    BY <1>0, <1>a, <1>o, <2>1, <2>2, <2>3, <2>5, <2>6, <2>7, <2>8 DEF Local
<1>2. TypeOK'
  BY <1>0, <1>1, <1>a, <1>o DEF TypeOK, RunTyped, Change, Goto, Conclude
<1>3. LookupInv'
  BY <1>0, <1>a, <1>o DEF TypeOK, LookupInv, Local, TargetInv, Change, Goto, Conclude
<1> QED
  BY <1>1, <1>2, <1>3, OthersKeep DEF IndInv, Local

\* A call out of the process fails or is cut off.
LEMMA FailKeeps ==
  ASSUME IndInv, NEW w \in Workers, CallFails(w)
  PROVE IndInv'
<1> USE DEF runVars, recVars, cacheVars, ocmVars, logVars
<1>0. TypeOK /\ LookupInv /\ Local(w)
  BY DEF IndInv, Local
<1>a. /\ pc[w] \in {"lookup", "session", "credentials", "execute", "change"}
      /\ req[w] \in Requests
      /\ Action(w).scope \in {"kube", "aws"}
      /\ ~effect[w]
      /\ req[w].id \in Identifiers
  BY <1>0, TableTyped DEF CallFails, Local, TargetInv, ChangeInv, Action
<1>1. RunTyped' /\ Frame(w) /\ Local(w)'
  <2>1. CASE pc[w] = "lookup" /\ stage[w] # "clients"
    <3>1. /\ pc'[w] = "log" /\ req'[w] = req[w] /\ stage'[w] = stage[w] /\ got'[w] = got[w]
          /\ region'[w] = region[w] /\ infra'[w] = infra[w] /\ creds'[w] = creds[w]
          /\ decision'[w] = "none" /\ outcome'[w] = "failure"
          /\ effect'[w] = effect[w] /\ touched'[w] = touched[w]
      BY <1>0, <1>a, <2>1 DEF TypeOK, CallFails, Goto, Conclude
    <3>2. RunTyped'
      BY <1>0, <1>a, <2>1 DEF TypeOK, Stages, RunTyped, CallFails, Goto, Conclude
    <3>3. Frame(w)
      BY <1>0, <1>a, <2>1 DEF TypeOK, Frame, CallFails, Goto, Conclude
    <3>4. Action(w)' = Action(w) /\ Allowed(w)' = Allowed(w) /\ Checked(w)' = Checked(w)
      BY <3>1, DecisionsKept
    <3>5. TargetInv(w)'
      BY <1>0, <1>a, <2>1, <3>1, <3>3, <3>4 DEF LookupInv, Local, Frame, TargetInv, RecordInv
    <3>6. GateInv(w)'
      BY <1>0, <1>a, <2>1, <3>1, <3>4 DEF Local, TargetInv, GateInv, RecordInv, PastGate
    <3>7. ChangeInv(w)'
      BY <1>0, <1>a, <2>1, <3>1, <3>4 DEF Local, GateInv, PastGate, ChangeInv
    <3>8. RecordInv(w)'
      BY <1>0, <1>a, <2>1, <3>1, <3>4 DEF Local, RecordInv, ChangeInv
    <3> QED
      BY <1>0, <1>a, <2>1, <3>1, <3>2, <3>3, <3>5, <3>6, <3>7, <3>8 DEF Local
  <2>2. CASE ~(pc[w] = "lookup" /\ stage[w] # "clients")
    <3>1. /\ pc'[w] = "log" /\ req'[w] = req[w] /\ stage'[w] = stage[w] /\ got'[w] = got[w]
          /\ region'[w] = region[w] /\ infra'[w] = infra[w] /\ creds'[w] = creds[w]
          /\ decision'[w] = "allowed" /\ outcome'[w] = "failure"
          /\ effect'[w] = effect[w] /\ touched'[w] = (touched[w] \/ pc[w] \in {"session", "credentials"})
      BY <1>0, <1>a, <2>2 DEF TypeOK, CallFails, Goto, Conclude
    <3>2. RunTyped'
      BY <1>0, <1>a, <2>2 DEF TypeOK, Stages, RunTyped, CallFails, Goto, Conclude
    <3>3. Frame(w)
      BY <1>0, <1>a, <2>2 DEF TypeOK, Frame, CallFails, Goto, Conclude
    <3>4. Action(w)' = Action(w) /\ Allowed(w)' = Allowed(w) /\ Checked(w)' = Checked(w)
      BY <3>1, DecisionsKept
    <3>5. TargetInv(w)'
      BY <1>0, <1>a, <2>2, <3>1, <3>3, <3>4 DEF LookupInv, Local, Frame, TargetInv, RecordInv
    <3>6. GateInv(w)'
      BY <1>0, <1>a, <2>2, <3>1, <3>4 DEF Local, TargetInv, GateInv, RecordInv, PastGate
    <3>7. ChangeInv(w)'
      BY <1>0, <1>a, <2>2, <3>1, <3>4 DEF Local, GateInv, PastGate, ChangeInv
    <3>8. RecordInv(w)'
      BY <1>0, <1>a, <2>2, <3>1, <3>4 DEF Local, RecordInv, ChangeInv
    <3> QED
      BY <1>0, <1>a, <2>2, <3>1, <3>2, <3>3, <3>5, <3>6, <3>7, <3>8 DEF Local
  <2> QED
    BY <1>0, <2>1, <2>2, <1>a DEF TypeOK, CallFails, Goto, Conclude
<1>2. TypeOK'
  BY <1>0, <1>1, <1>a DEF TypeOK, RunTyped, CallFails, Goto, Conclude
<1>3. LookupInv'
  BY <1>0, <1>a DEF TypeOK, LookupInv, Local, TargetInv, CallFails, Goto, Conclude
<1> QED
  BY <1>1, <1>2, <1>3, OthersKeep DEF IndInv, Local

\* The append of Log reads the slice header.
LEMMA LogReadKeeps ==
  ASSUME IndInv, NEW w \in Workers, LogRead(w)
  PROVE IndInv'
<1> USE DEF runVars, recVars, cacheVars, ocmVars, logVars
<1>0. TypeOK /\ LookupInv /\ Local(w)
  BY DEF IndInv, Local
<1>a. pc[w] = "log"
  BY DEF LogRead
<1>1. RunTyped' /\ Frame(w) /\ Local(w)'
  <2>1. /\ pc'[w] = "append" /\ req'[w] = req[w] /\ stage'[w] = stage[w] /\ got'[w] = got[w]
        /\ region'[w] = region[w] /\ infra'[w] = infra[w] /\ creds'[w] = creds[w]
        /\ decision'[w] = decision[w] /\ outcome'[w] = outcome[w]
        /\ effect'[w] = effect[w] /\ touched'[w] = touched[w]
    BY <1>0, <1>a DEF TypeOK, LogRead, Goto
  <2>2. RunTyped'
    BY <1>0, <1>a DEF TypeOK, Stages, RunTyped, LogRead, Goto
  <2>3. Frame(w)
    BY <1>0, <1>a DEF TypeOK, Frame, LogRead, Goto
  <2>4. Action(w)' = Action(w) /\ Allowed(w)' = Allowed(w) /\ Checked(w)' = Checked(w)
    BY <2>1, DecisionsKept
  <2>5. TargetInv(w)'
    BY <1>0, <1>a, <2>1, <2>3, <2>4 DEF LookupInv, Local, Frame, TargetInv, RecordInv
  <2>6. GateInv(w)'
    BY <1>0, <1>a, <2>1, <2>4 DEF Local, TargetInv, GateInv, RecordInv, PastGate
  <2>7. ChangeInv(w)'
    BY <1>0, <1>a, <2>1, <2>4 DEF Local, GateInv, PastGate, ChangeInv
  <2>8. RecordInv(w)'
    BY <1>0, <1>a, <2>1, <2>4 DEF Local, RecordInv, ChangeInv
  <2> QED
    BY <1>0, <1>a, <2>1, <2>2, <2>3, <2>5, <2>6, <2>7, <2>8 DEF Local
<1>2. TypeOK'
  BY <1>0, <1>1, <1>a DEF TypeOK, RunTyped, LogRead, Goto
<1>3. LookupInv'
  BY <1>0, <1>a DEF TypeOK, LookupInv, Local, TargetInv, LogRead, Goto
<1> QED
  BY <1>1, <1>2, <1>3, OthersKeep DEF IndInv, Local

\* The append of Log assigns the slice, and the worker is idle again.
LEMMA LogWriteKeeps ==
  ASSUME IndInv, NEW w \in Workers, LogWrite(w)
  PROVE IndInv'
<1> USE DEF runVars, recVars, cacheVars, ocmVars, logVars
<1>0. TypeOK /\ LookupInv /\ Local(w)
  BY DEF IndInv, Local
<1>a. pc[w] = "append"
  BY DEF LogWrite
<1>s. "" \in KnownRegions
  BY DEF KnownRegions
<1>t. header[w] + 1 \in Nat /\ logged + 1 \in Nat
  BY <1>0 DEF TypeOK
<1>1. RunTyped' /\ Frame(w) /\ Local(w)'
  <2>1. /\ pc'[w] = "idle" /\ req'[w] = NoRequest /\ stage'[w] = "region" /\ got'[w] = got[w]
        /\ region'[w] = "" /\ infra'[w] = NoCluster /\ creds'[w] = NoCluster
        /\ decision'[w] = "none" /\ outcome'[w] = "none"
        /\ effect'[w] = FALSE /\ touched'[w] = FALSE
    BY <1>0, <1>a, <1>s, <1>t DEF TypeOK, LogWrite, Goto
  <2>2. RunTyped'
    BY <1>0, <1>a, <1>s, <1>t DEF TypeOK, Stages, RunTyped, LogWrite, Goto
  <2>3. Frame(w)
    BY <1>0, <1>a, <1>s, <1>t DEF TypeOK, Frame, LogWrite, Goto
  <2>4. Action(w)' = ActionTable[req'[w].action]
    BY DEF Action
  <2>5. TargetInv(w)'
    BY <1>0, <1>a, <1>s, <1>t, <2>1, <2>3, <2>4 DEF LookupInv, Local, Frame, TargetInv,
       RecordInv
  <2>6. GateInv(w)'
    BY <1>0, <1>a, <1>s, <1>t, <2>1, <2>4 DEF Local, TargetInv, GateInv, RecordInv, PastGate
  <2>7. ChangeInv(w)'
    BY <1>0, <1>a, <1>s, <1>t, <2>1, <2>4 DEF Local, GateInv, PastGate, ChangeInv
  <2>8. RecordInv(w)'
    BY <1>0, <1>a, <1>s, <1>t, <2>1, <2>4 DEF Local, RecordInv, ChangeInv
  <2> QED
    BY <1>0, <1>a, <1>s, <1>t, <2>1, <2>2, <2>3, <2>5, <2>6, <2>7, <2>8 DEF Local
<1>2. TypeOK'
  BY <1>0, <1>1, <1>a, <1>s, <1>t DEF TypeOK, RunTyped, LogWrite, Goto
<1>3. LookupInv'
  BY <1>0, <1>a, <1>s, <1>t DEF TypeOK, LookupInv, Local, TargetInv, LogWrite, Goto
<1> QED
  BY <1>1, <1>2, <1>3, OthersKeep DEF IndInv, Local

\* Time and OCM move on, and no run is touched; names may come to denote more.
LEMMA OutsideKeeps ==
  ASSUME IndInv, NEW id \in Identifiers,
         CacheExpires(id) \/ \E c \in Clusters \cup {NoCluster} : Rebind(id, c)
  PROVE IndInv'
<1> USE DEF runVars, recVars, cacheVars, ocmVars, logVars
<1>0. TypeOK /\ LookupInv
  BY DEF IndInv
<1>1. TypeOK'
  <2>1. CASE CacheExpires(id)
    BY <1>0, <2>1 DEF TypeOK, Stages, CacheExpires
  <2>2. ASSUME NEW c \in Clusters \cup {NoCluster}, Rebind(id, c) PROVE TypeOK'
    <3>1. bind' \in [Identifiers -> Clusters \cup {NoCluster}]
      BY <1>0, <2>2 DEF TypeOK, Rebind
    <3>2. denoted' \in [Identifiers -> SUBSET Clusters]
      BY <1>0, <2>2 DEF TypeOK, Rebind
    <3>3. rebinds' \in 0..MaxRebinds
      BY <1>0, <2>2, ExecutionAssumption DEF TypeOK, Rebind
    <3> QED
      BY <1>0, <2>2, <3>1, <3>2, <3>3 DEF TypeOK, Stages, Rebind
  <2> QED
    BY <2>1, <2>2
<1>2. LookupInv'
  BY <1>0 DEF TypeOK, LookupInv, CacheExpires, Rebind
<1>4. \A i \in Identifiers : denoted[i] \subseteq denoted'[i]
  BY <1>0 DEF TypeOK, CacheExpires, Rebind
<1>5. UNCHANGED <<pc, runVars, recVars>>
  BY DEF CacheExpires, Rebind
<1>6. ASSUME NEW w \in Workers PROVE TargetInv(w)' /\ GateInv(w)' /\ ChangeInv(w)' /\ RecordInv(w)'
  <2>1. TargetInv(w) /\ GateInv(w) /\ ChangeInv(w) /\ RecordInv(w)
    BY <1>6 DEF IndInv
  <2>2. Action(w)' = Action(w) /\ Allowed(w)' = Allowed(w) /\ Checked(w)' = Checked(w)
    BY <1>5, <1>6, DecisionsKept
  <2>3. TargetInv(w)'
    BY <1>0, <1>4, <1>5, <2>1, <2>2, TableTyped, ExecutionAssumption DEF TargetInv, TypeOK
  <2>4. GateInv(w)' /\ ChangeInv(w)' /\ RecordInv(w)'
    BY <1>5, <2>1, <2>2 DEF GateInv, PastGate, ChangeInv, RecordInv
  <2> QED
    BY <2>3, <2>4
<1> QED
  BY <1>1, <1>2, <1>6 DEF IndInv

\* Every step keeps the invariant.
LEMMA StepPreserves == IndInv /\ [Next]_vars => IndInv'
<1> SUFFICES ASSUME IndInv, [Next]_vars PROVE IndInv'
  OBVIOUS
<1>1. CASE UNCHANGED vars
  <2>1. UNCHANGED <<pc, runVars, recVars, cacheVars, ocmVars, logVars, runs>>
    BY <1>1 DEF vars
  <2>2. TypeOK' /\ LookupInv'
    BY <2>1 DEF IndInv, TypeOK, LookupInv, runVars, recVars, cacheVars, ocmVars, logVars
  <2>3. ASSUME NEW w \in Workers PROVE TargetInv(w)' /\ GateInv(w)' /\ ChangeInv(w)' /\ RecordInv(w)'
    <3>1. Action(w)' = Action(w) /\ Allowed(w)' = Allowed(w) /\ Checked(w)' = Checked(w)
      BY <2>1, <2>3, DecisionsKept DEF runVars
    <3> QED
      BY <2>1, <2>3, <3>1 DEF IndInv, TargetInv, GateInv, PastGate, ChangeInv, RecordInv,
         runVars, recVars, ocmVars
  <2> QED
    BY <2>2, <2>3 DEF IndInv
<1>2. ASSUME NEW w \in Workers, WorkerStep(w) PROVE IndInv'
  BY <1>2, CachedKeeps, FetchKeeps, StoreKeeps, AuthorizeKeeps, SessionKeeps, CredentialsKeeps,
     ExecuteKeeps, ChangeKeeps, FailKeeps, LogReadKeeps, LogWriteKeeps DEF WorkerStep
<1> QED
  BY <1>1, <1>2, BeginKeeps, OutsideKeeps DEF Next

\* IndInv is an invariant of the executor.
THEOREM Invariance == Spec => []IndInv
BY InitEstablishes, StepPreserves, PTL DEF Spec

\* The type invariant, for every instance.
THEOREM TypeCorrect == Spec => []TypeOK
<1>1. IndInv => TypeOK
  BY DEF IndInv
<1> QED
  BY <1>1, Invariance, PTL

\* An AWS write changes only an instance of a cluster that the identifier denoted,
\* whatever the cache, OCM and the other workers did between its three lookups.
THEOREM WritesStayOnNamedCluster == Spec => []EffectOnNamedCluster
<1>1. IndInv => EffectOnNamedCluster
  <2> SUFFICES ASSUME IndInv, NEW w \in Workers, effect[w], Action(w).scope = "aws"
               PROVE Owner[req[w].instance] \in denoted[req[w].id]
    BY DEF EffectOnNamedCluster
  <2>1. Owner[req[w].instance] = infra[w] /\ req[w] \in Requests
    BY DEF IndInv, ChangeInv, TargetInv, Checked, OwnedInstance
  <2>2. Owner[req[w].instance] # NoCluster
    BY <2>1, TableTyped, ExecutionAssumption
  <2> QED
    BY <2>1, <2>2 DEF IndInv, TargetInv
<1> QED
  BY <1>1, Invariance, PTL

\* An AWS write changes only an instance in an allowed region, whosever credentials
\* the run was given.
THEOREM WritesStayInRegion == Spec => []EffectInAllowedRegion
<1>1. IndInv => EffectInAllowedRegion
  <2> SUFFICES ASSUME IndInv, NEW w \in Workers, effect[w], Action(w).scope = "aws"
               PROVE Place[req[w].instance][2] \in AllowedRegions
    BY DEF EffectInAllowedRegion
  <2>1. Checked(w) /\ Allowed(w)
    BY DEF IndInv, ChangeInv
  <2>2. Place[req[w].instance] = <<Account[creds[w]], region[w]>>
    BY <2>1 DEF Checked, OwnedInstance, Found
  <2>3. region[w] \in AllowedRegions
    BY <2>1 DEF Allowed, AWSAuthorize
  <2> QED
    BY <2>2, <2>3
<1> QED
  BY <1>1, Invariance, PTL

\* The audit record of every run tells what the run did.
THEOREM AuditIsTruthful == Spec => []AuditMatchesEffect
<1>1. IndInv => AuditMatchesEffect
  BY DEF IndInv, GateInv, PastGate, RecordInv, AuditMatchesEffect
<1> QED
  BY <1>1, Invariance, PTL
=============================================================================
