------------------------ MODULE RequestPipelineProofs ------------------------
(***************************************************************************)
(* For any number of requests, users, roles and actions, and however often *)
(* grants change, reviews and store calls fail and the process dies: only  *)
(* callers with a confirmed role are served, "access denied" is definite,  *)
(* and the audit entry tells what happened. All follow from IndInv.        *)
(***************************************************************************)
EXTENDS RequestPipeline, TLAPS

\* What the invariant says of one request.
Local(q) == StageInv(q) /\ ReviewInv(q) /\ AuditInv(q)

\* The variables that belong to the requests have their types.
RequestTyped ==
    /\ stage \in [Requests -> {"authn", "review", "bind", "action", "handler", "audit", "done"}]
    /\ turn \in [Requests -> 1 .. NumRoles + 1]
    /\ hadErr \in [Requests -> BOOLEAN]
    /\ role \in [Requests -> Roles \cup {Empty}]
    /\ code \in [Requests -> Statuses]
    /\ ac \in [Requests -> BOOLEAN] /\ created \in [Requests -> BOOLEAN]
    /\ entry \in [Requests -> [code : Nat, exec : BOOLEAN] \cup {NoEntry}]
    /\ answers \in [Requests -> [yes : SUBSET Roles, no : SUBSET Roles]]
    /\ faulty \subseteq Requests

\* A step of q leaves the other requests alone.
Frame(q) ==
    /\ kind' = kind
    /\ \A p \in Requests \ {q} :
          /\ stage'[p] = stage[p] /\ turn'[p] = turn[p] /\ hadErr'[p] = hadErr[p]
          /\ role'[p] = role[p] /\ code'[p] = code[p] /\ ac'[p] = ac[p]
          /\ created'[p] = created[p] /\ entry'[p] = entry[p] /\ answers'[p] = answers[p]
          /\ p \in faulty' <=> p \in faulty

\* The types that a proof needs of a request's kind: an execution that can be bound
\* names an action, and no handler but CreateExecution's accepts one.
LEMMA KindTyped ==
  ASSUME NEW k \in Kinds
  PROVE /\ k.panics \in BOOLEAN
        /\ k.route = "CreateExecution" /\ k.bad = {} => k.action # Empty /\ ~k.panics
        /\ k.route # Empty => Answers(k) \subseteq {200, 400, 404}
<1>1. k \in KindType
  BY PipelineAssumption
<1>2. k.panics \in BOOLEAN
  BY <1>1 DEF KindType
<1>3. k.route = "CreateExecution" /\ k.bad = {} => k.action # Empty /\ ~k.panics
  BY PipelineAssumption
<1>4. k.route \in {"Catalog", "Describe", "CreateExecution", "GetExecution",
                   "GetExecutionOutput", "ListExecutions", "ListAuditEntries", Empty}
  BY <1>1 DEF KindType, boundParams
<1>5. k.route # Empty => Answers(k) \subseteq {200, 400, 404}
  BY <1>4 DEF Answers
<1> QED
  BY <1>2, <1>3, <1>5

\* The roles that AuthorizeAPI asks for, by their place in the configuration.
LEMMA RolesTyped ==
  /\ NumRoles \in Nat \ {0} /\ Empty \notin Roles
  /\ \A i \in 1 .. NumRoles : RoleOrder[i] \in Roles
BY PipelineAssumption DEF Roles

\* A request that another one's step leaves alone keeps its part of the invariant.
LEMMA OthersKeep ==
  ASSUME IndInv, NEW q \in Requests, Frame(q), Local(q)'
  PROVE \A p \in Requests : Local(p)'
<1> SUFFICES ASSUME NEW p \in Requests, p # q PROVE Local(p)'
  OBVIOUS
<1>1. /\ stage'[p] = stage[p] /\ turn'[p] = turn[p] /\ hadErr'[p] = hadErr[p]
      /\ role'[p] = role[p] /\ code'[p] = code[p] /\ ac'[p] = ac[p]
      /\ created'[p] = created[p] /\ entry'[p] = entry[p] /\ answers'[p] = answers[p]
      /\ kind' = kind
  BY DEF Frame
<1>2. p \in faulty' <=> p \in faulty
  BY DEF Frame
<1>3. Local(p)
  BY DEF IndInv, Local
<1>4. StageInv(p)' /\ ReviewInv(p)'
  BY <1>1, <1>3 DEF Local, StageInv, ReviewInv
<1>5. AuditInv(p)'
  BY <1>1, <1>2, <1>3 DEF Local, AuditInv
<1> QED
  BY <1>4, <1>5 DEF Local

\* The invariant holds when the requests arrive.
LEMMA InitEstablishes == Init => IndInv
<1> SUFFICES ASSUME Init PROVE IndInv
  OBVIOUS
<1>1. TypeOK
  <2>1. RequestTyped
    <3>1. 1 \in 1 .. NumRoles + 1
      BY RolesTyped
    <3>2. /\ turn = [q \in Requests |-> 1]
          /\ answers = [q \in Requests |-> [yes |-> {}, no |-> {}]]
      BY DEF Init
    <3>3. turn \in [Requests -> 1 .. NumRoles + 1]
      BY <3>1, <3>2
    <3>4. answers \in [Requests -> [yes : SUBSET Roles, no : SUBSET Roles]]
      BY <3>2
    <3> QED
      BY <3>3, <3>4 DEF Init, RequestTyped, Statuses
  <2>2. faults = 0 /\ changes = 0 /\ crashes = 0
    BY DEF Init
  <2>3. faults \in 0..MaxFaults /\ changes \in 0..MaxChanges /\ crashes \in 0..MaxCrashes
    BY <2>2, PipelineAssumption
  <2>4. kind \in [Requests -> Kinds] /\ grants \in [Users -> SUBSET Roles]
    BY DEF Init
  <2> QED
    BY <2>1, <2>3, <2>4 DEF TypeOK, RequestTyped
<1>2. ASSUME NEW q \in Requests PROVE StageInv(q) /\ ReviewInv(q) /\ AuditInv(q)
  BY <1>2 DEF Init, StageInv, ReviewInv, AuditInv
<1> QED
  BY <1>1, <1>2 DEF IndInv

\* Authentication lets a request in or refuses it.
LEMMA AuthenticateKeeps ==
  ASSUME IndInv, NEW q \in Requests, Authenticate(q), UNCHANGED kind
  PROVE IndInv'
<1> USE DEF authVars, dataVars, failVars
<1>0. TypeOK /\ Local(q) /\ kind[q] \in Kinds
  BY DEF IndInv, Local, TypeOK
<1>a. stage[q] = "authn"
  BY DEF Authenticate
<1>1. RequestTyped' /\ Frame(q) /\ Local(q)'
  <2>1. CASE kind[q].user = Empty
    <3>1. /\ stage'[q] = "done" /\ turn'[q] = turn[q] /\ hadErr'[q] = hadErr[q]
          /\ role'[q] = role[q] /\ code'[q] = 401 /\ ac'[q] = ac[q]
          /\ created'[q] = created[q] /\ entry'[q] = entry[q]
          /\ answers'[q] = answers[q] /\ (q \in faulty' <=> q \in faulty)
      BY <1>0, <1>a, <2>1 DEF TypeOK, Authenticate, Respond, Goto
    <3>c. 401 \in Statuses
      BY DEF Statuses
    <3>2. RequestTyped'
      <4>1. /\ code' = [code EXCEPT ![q] = 401] /\ stage' = [stage EXCEPT ![q] = "done"]
            /\ UNCHANGED <<turn, hadErr, role, answers, ac, created, entry, faulty>>
        BY <2>1 DEF Authenticate, Respond
      <4>2. /\ (code \in [Requests -> Statuses])'
            /\ (stage \in [Requests -> {"authn", "review", "bind", "action", "handler", "audit",
                                        "done"}])'
        BY <1>0, <3>c, <4>1 DEF TypeOK
      <4> QED
        BY <1>0, <4>1, <4>2 DEF TypeOK, RequestTyped
    <3>3. Frame(q)
      BY <1>0, <1>a, <2>1 DEF TypeOK, Frame, Authenticate, Respond, Goto
    <3>4. StageInv(q)'
      BY <1>0, <1>a, <2>1, <3>1, <3>3 DEF Local, StageInv, Frame
    <3>5. ReviewInv(q)'
      BY <1>0, <1>a, <2>1, <3>1 DEF Local, StageInv, ReviewInv, TypeOK
    <3>6. AuditInv(q)'
      BY <1>0, <1>a, <2>1, <3>1, <3>3 DEF Local, StageInv, AuditInv, Frame
    <3> QED
      BY <3>2, <3>3, <3>4, <3>5, <3>6 DEF Local
  <2>2. CASE kind[q].user # Empty
    <3>1. /\ stage'[q] = "review" /\ turn'[q] = turn[q] /\ hadErr'[q] = hadErr[q]
          /\ role'[q] = role[q] /\ code'[q] = code[q] /\ ac'[q] = ac[q]
          /\ created'[q] = created[q] /\ entry'[q] = entry[q]
          /\ answers'[q] = answers[q] /\ (q \in faulty' <=> q \in faulty)
      BY <1>0, <1>a, <2>2 DEF TypeOK, Authenticate, Respond, Goto
    <3>2. RequestTyped'
      BY <1>0, <1>a, <2>2 DEF TypeOK, RequestTyped, Authenticate, Respond, Goto
    <3>3. Frame(q)
      BY <1>0, <1>a, <2>2 DEF TypeOK, Frame, Authenticate, Respond, Goto
    <3>4. StageInv(q)'
      BY <1>0, <1>a, <2>2, <3>1, <3>3 DEF Local, StageInv, Frame
    <3>5. ReviewInv(q)'
      BY <1>0, <1>a, <2>2, <3>1 DEF Local, StageInv, ReviewInv, TypeOK
    <3>6. AuditInv(q)'
      BY <1>0, <1>a, <2>2, <3>1, <3>3 DEF Local, StageInv, AuditInv, Frame
    <3> QED
      BY <3>2, <3>3, <3>4, <3>5, <3>6 DEF Local
  <2> QED
    BY <1>0, <1>a, <2>1, <2>2
<1>2. TypeOK'
  BY <1>0, <1>1 DEF TypeOK, RequestTyped, Authenticate, Respond, Goto
<1> QED
  BY <1>1, <1>2, OthersKeep DEF IndInv, Local

\* AMS answers an access review.
LEMMA ReviewKeeps ==
  ASSUME IndInv, NEW q \in Requests, Review(q), UNCHANGED kind
  PROVE IndInv'
<1> USE DEF authVars, dataVars, failVars
<1>0. TypeOK /\ Local(q) /\ kind[q] \in Kinds
  BY DEF IndInv, Local, TypeOK
<1>a. stage[q] = "review" /\ turn[q] \in 1 .. NumRoles
  BY <1>0, RolesTyped DEF TypeOK, Review
<1>b. PICK r : r = RoleOrder[turn[q]]
  OBVIOUS
<1>c. r \in Roles /\ turn[q] + 1 \in 1 .. NumRoles + 1
  BY <1>a, <1>b, RolesTyped
<1>1. RequestTyped' /\ Frame(q) /\ Local(q)'
  <2>1. CASE r \in grants[kind[q].user]
    <3>1. /\ stage'[q] = "bind" /\ turn'[q] = turn[q] /\ hadErr'[q] = hadErr[q]
          /\ role'[q] = r /\ code'[q] = code[q] /\ ac'[q] = ac[q]
          /\ created'[q] = created[q] /\ entry'[q] = entry[q]
          /\ answers'[q].yes = answers[q].yes \cup {r} /\ answers'[q].no = answers[q].no /\ (q \in faulty' <=> q \in faulty)
      BY <1>0, <1>a, <1>b, <1>c, <2>1 DEF TypeOK, Review, Respond, Goto
    <3>c. answers' \in [Requests -> [yes : SUBSET Roles, no : SUBSET Roles]]
      <4>1. /\ answers \in [Requests -> [yes : SUBSET Roles, no : SUBSET Roles]]
            /\ answers' = [answers EXCEPT ![q].yes = @ \cup {r}]
        BY <1>0, <1>b, <2>1 DEF TypeOK, Review
      <4> QED
        BY <1>c, <4>1
    <3>2. RequestTyped'
      BY <1>0, <1>a, <1>b, <1>c, <2>1, <3>c DEF TypeOK, RequestTyped, Review, Respond, Goto
    <3>3. Frame(q)
      BY <1>0, <1>a, <1>b, <1>c, <2>1 DEF TypeOK, Frame, Review, Respond, Goto
    <3>4. StageInv(q)'
      BY <1>0, <1>a, <1>b, <1>c, <2>1, <3>1, <3>3 DEF Local, StageInv, Frame
    <3>5. ReviewInv(q)'
      BY <1>0, <1>a, <1>b, <1>c, <2>1, <3>1 DEF Local, StageInv, ReviewInv, TypeOK
    <3>6. AuditInv(q)'
      BY <1>0, <1>a, <1>b, <1>c, <2>1, <3>1, <3>3 DEF Local, StageInv, AuditInv, Frame
    <3> QED
      BY <3>2, <3>3, <3>4, <3>5, <3>6 DEF Local
  <2>2. CASE r \notin grants[kind[q].user]
    <3>1. /\ stage'[q] = stage[q] /\ turn'[q] = turn[q] + 1 /\ hadErr'[q] = hadErr[q]
          /\ role'[q] = role[q] /\ code'[q] = code[q] /\ ac'[q] = ac[q]
          /\ created'[q] = created[q] /\ entry'[q] = entry[q]
          /\ answers'[q].yes = answers[q].yes /\ answers'[q].no = answers[q].no \cup {r} /\ (q \in faulty' <=> q \in faulty)
      BY <1>0, <1>a, <1>b, <1>c, <2>2 DEF TypeOK, Review, Respond, Goto
    <3>c. answers' \in [Requests -> [yes : SUBSET Roles, no : SUBSET Roles]]
      <4>1. /\ answers \in [Requests -> [yes : SUBSET Roles, no : SUBSET Roles]]
            /\ answers' = [answers EXCEPT ![q].no = @ \cup {r}]
        BY <1>0, <1>b, <2>2 DEF TypeOK, Review
      <4> QED
        BY <1>c, <4>1
    <3>2. RequestTyped'
      BY <1>0, <1>a, <1>b, <1>c, <2>2, <3>c DEF TypeOK, RequestTyped, Review, Respond, Goto
    <3>3. Frame(q)
      BY <1>0, <1>a, <1>b, <1>c, <2>2 DEF TypeOK, Frame, Review, Respond, Goto
    <3>4. StageInv(q)'
      BY <1>0, <1>a, <1>b, <1>c, <2>2, <3>1, <3>3 DEF Local, StageInv, Frame
    <3>d. \A i \in 1 .. turn'[q] - 1 : i \in 1 .. turn[q] - 1 \/ RoleOrder[i] = r
      BY <1>0, <1>a, <1>b, <1>c, <2>2, <3>1
    <3>5. ReviewInv(q)'
      <4>1. ASSUME ~hadErr'[q], NEW i \in 1 .. turn'[q] - 1 PROVE RoleOrder[i] \in answers'[q].no
        <5>1. \A j \in 1 .. turn[q] - 1 : RoleOrder[j] \in answers[q].no
          BY <1>0, <3>1, <4>1 DEF Local, ReviewInv
        <5> QED
          BY <3>1, <3>d, <4>1, <5>1
      <4>2. code'[q] = 0
        BY <1>0, <1>a, <3>1 DEF Local, StageInv
      <4> QED
        BY <4>1, <4>2 DEF ReviewInv
    <3>6. AuditInv(q)'
      BY <1>0, <1>a, <1>b, <1>c, <2>2, <3>d, <3>1, <3>3 DEF Local, StageInv, AuditInv, Frame
    <3> QED
      BY <3>2, <3>3, <3>4, <3>5, <3>6 DEF Local
  <2> QED
    BY <1>0, <1>a, <1>b, <1>c, <2>1, <2>2
<1>2. TypeOK'
  BY <1>0, <1>1 DEF TypeOK, RequestTyped, Review, Respond, Goto
<1> QED
  BY <1>1, <1>2, OthersKeep DEF IndInv, Local

\* An access review fails.
LEMMA ReviewErrorKeeps ==
  ASSUME IndInv, NEW q \in Requests, ReviewError(q), UNCHANGED kind
  PROVE IndInv'
<1> USE DEF authVars, dataVars, failVars
<1>0. TypeOK /\ Local(q) /\ kind[q] \in Kinds
  BY DEF IndInv, Local, TypeOK
<1>a. stage[q] = "review" /\ turn[q] \in 1 .. NumRoles
  BY <1>0, RolesTyped DEF TypeOK, ReviewError
<1>b. turn[q] + 1 \in 1 .. NumRoles + 1
  BY <1>a, RolesTyped
<1>1. RequestTyped' /\ Frame(q) /\ Local(q)'
  <2>1. /\ stage'[q] = stage[q] /\ turn'[q] = turn[q] + 1 /\ hadErr'[q] = TRUE
        /\ role'[q] = role[q] /\ code'[q] = code[q] /\ ac'[q] = ac[q]
        /\ created'[q] = created[q] /\ entry'[q] = entry[q]
        /\ answers'[q] = answers[q] /\ (q \in faulty' <=> q \in faulty)
    BY <1>0, <1>a, <1>b DEF TypeOK, ReviewError, ReviewFault
  <2>2. RequestTyped'
    BY <1>0, <1>a, <1>b DEF TypeOK, RequestTyped, ReviewError, ReviewFault
  <2>3. Frame(q)
    BY <1>0, <1>a, <1>b DEF TypeOK, Frame, ReviewError, ReviewFault
  <2>4. StageInv(q)'
    BY <1>0, <1>a, <1>b, <2>1, <2>3 DEF Local, StageInv, Frame
  <2>5. ReviewInv(q)'
    BY <1>0, <1>a, <1>b, <2>1 DEF Local, StageInv, ReviewInv, TypeOK
  <2>6. AuditInv(q)'
    BY <1>0, <1>a, <1>b, <2>1, <2>3 DEF Local, StageInv, AuditInv, Frame
  <2> QED
    BY <2>2, <2>3, <2>4, <2>5, <2>6 DEF Local
<1>2. TypeOK'
  BY <1>0, <1>1, PipelineAssumption DEF TypeOK, RequestTyped, ReviewError, ReviewFault
<1> QED
  BY <1>1, <1>2, OthersKeep DEF IndInv, Local

\* No role was confirmed.
LEMMA NoRoleKeeps ==
  ASSUME IndInv, NEW q \in Requests, NoRole(q), UNCHANGED kind
  PROVE IndInv'
<1> USE DEF authVars, dataVars, failVars
<1>0. TypeOK /\ Local(q) /\ kind[q] \in Kinds
  BY DEF IndInv, Local, TypeOK
<1>a. stage[q] = "review" /\ turn[q] > NumRoles
  BY DEF NoRole
<1>1. RequestTyped' /\ Frame(q) /\ Local(q)'
  <2>1. CASE hadErr[q]
    <3>1. /\ stage'[q] = "audit" /\ turn'[q] = turn[q] /\ hadErr'[q] = hadErr[q]
          /\ role'[q] = role[q] /\ code'[q] = 500 /\ ac'[q] = ac[q]
          /\ created'[q] = created[q] /\ entry'[q] = entry[q]
          /\ answers'[q] = answers[q] /\ (q \in faulty' <=> q \in faulty)
      BY <1>0, <1>a, <2>1 DEF TypeOK, NoRole, Respond, Goto
    <3>c. 500 \in Statuses
      BY DEF Statuses
    <3>2. RequestTyped'
      BY <1>0, <1>a, <2>1, <3>c DEF TypeOK, RequestTyped, NoRole, Respond, Goto
    <3>3. Frame(q)
      BY <1>0, <1>a, <2>1 DEF TypeOK, Frame, NoRole, Respond, Goto
    <3>4. StageInv(q)'
      BY <1>0, <1>a, <2>1, <3>1, <3>3 DEF Local, StageInv, Frame
    <3>5. ReviewInv(q)'
      BY <1>0, <1>a, <2>1, <3>1 DEF Local, StageInv, ReviewInv, TypeOK
    <3>6. AuditInv(q)'
      BY <1>0, <1>a, <2>1, <3>1, <3>3 DEF Local, StageInv, AuditInv, Frame
    <3> QED
      BY <3>2, <3>3, <3>4, <3>5, <3>6 DEF Local
  <2>2. CASE ~hadErr[q]
    <3>1. /\ stage'[q] = "audit" /\ turn'[q] = turn[q] /\ hadErr'[q] = hadErr[q]
          /\ role'[q] = role[q] /\ code'[q] = 403 /\ ac'[q] = ac[q]
          /\ created'[q] = created[q] /\ entry'[q] = entry[q]
          /\ answers'[q] = answers[q] /\ (q \in faulty' <=> q \in faulty)
      BY <1>0, <1>a, <2>2 DEF TypeOK, NoRole, Respond, Goto
    <3>c. 403 \in Statuses
      BY DEF Statuses
    <3>2. RequestTyped'
      BY <1>0, <1>a, <2>2, <3>c DEF TypeOK, RequestTyped, NoRole, Respond, Goto
    <3>3. Frame(q)
      BY <1>0, <1>a, <2>2 DEF TypeOK, Frame, NoRole, Respond, Goto
    <3>4. StageInv(q)'
      BY <1>0, <1>a, <2>2, <3>1, <3>3 DEF Local, StageInv, Frame
    <3>5. ReviewInv(q)'
      BY <1>0, <1>a, <2>2, <3>1 DEF Local, StageInv, ReviewInv, TypeOK
    <3>6. AuditInv(q)'
      BY <1>0, <1>a, <2>2, <3>1, <3>3 DEF Local, StageInv, AuditInv, Frame
    <3> QED
      BY <3>2, <3>3, <3>4, <3>5, <3>6 DEF Local
  <2> QED
    BY <1>0, <1>a, <2>1, <2>2
<1>2. TypeOK'
  BY <1>0, <1>1 DEF TypeOK, RequestTyped, NoRole, Respond, Goto
<1> QED
  BY <1>1, <1>2, OthersKeep DEF IndInv, Local

\* The router finds the route and binds its parameters.
LEMMA BindKeeps ==
  ASSUME IndInv, NEW q \in Requests, Bind(q), UNCHANGED kind
  PROVE IndInv'
<1> USE DEF authVars, dataVars, failVars
<1>0. TypeOK /\ Local(q) /\ kind[q] \in Kinds
  BY DEF IndInv, Local, TypeOK
<1>a. stage[q] = "bind" /\ role[q] # Empty
  BY <1>0, RolesTyped DEF TypeOK, Local, StageInv, Bind
<1>1. RequestTyped' /\ Frame(q) /\ Local(q)'
  <2>1. CASE kind[q].route = Empty
    <3>1. /\ stage'[q] = "audit" /\ turn'[q] = turn[q] /\ hadErr'[q] = hadErr[q]
          /\ role'[q] = role[q] /\ code'[q] = 404 /\ ac'[q] = ac[q]
          /\ created'[q] = created[q] /\ entry'[q] = entry[q]
          /\ answers'[q] = answers[q] /\ (q \in faulty' <=> q \in faulty)
      BY <1>0, <1>a, <2>1 DEF TypeOK, Bind, Respond, Goto
    <3>c. 404 \in Statuses
      BY DEF Statuses
    <3>2. RequestTyped'
      BY <1>0, <1>a, <2>1, <3>c DEF TypeOK, RequestTyped, Bind, Respond, Goto
    <3>3. Frame(q)
      BY <1>0, <1>a, <2>1 DEF TypeOK, Frame, Bind, Respond, Goto
    <3>4. StageInv(q)'
      BY <1>0, <1>a, <2>1, <3>1, <3>3 DEF Local, StageInv, Frame
    <3>5. ReviewInv(q)'
      BY <1>0, <1>a, <2>1, <3>1 DEF Local, StageInv, ReviewInv, TypeOK
    <3>6. AuditInv(q)'
      BY <1>0, <1>a, <2>1, <3>1, <3>3 DEF Local, StageInv, AuditInv, Frame
    <3> QED
      BY <3>2, <3>3, <3>4, <3>5, <3>6 DEF Local
  <2>2. CASE kind[q].route # Empty /\ kind[q].bad # {}
    <3>1. /\ stage'[q] = "audit" /\ turn'[q] = turn[q] /\ hadErr'[q] = hadErr[q]
          /\ role'[q] = role[q] /\ code'[q] = 400 /\ ac'[q] = ac[q]
          /\ created'[q] = created[q] /\ entry'[q] = entry[q]
          /\ answers'[q] = answers[q] /\ (q \in faulty' <=> q \in faulty)
      BY <1>0, <1>a, <2>2 DEF TypeOK, Bind, Respond, Goto
    <3>c. 400 \in Statuses
      BY DEF Statuses
    <3>2. RequestTyped'
      BY <1>0, <1>a, <2>2, <3>c DEF TypeOK, RequestTyped, Bind, Respond, Goto
    <3>3. Frame(q)
      BY <1>0, <1>a, <2>2 DEF TypeOK, Frame, Bind, Respond, Goto
    <3>4. StageInv(q)'
      BY <1>0, <1>a, <2>2, <3>1, <3>3 DEF Local, StageInv, Frame
    <3>5. ReviewInv(q)'
      BY <1>0, <1>a, <2>2, <3>1 DEF Local, StageInv, ReviewInv, TypeOK
    <3>6. AuditInv(q)'
      BY <1>0, <1>a, <2>2, <3>1, <3>3 DEF Local, StageInv, AuditInv, Frame
    <3> QED
      BY <3>2, <3>3, <3>4, <3>5, <3>6 DEF Local
  <2>3. CASE kind[q].route # Empty /\ kind[q].bad = {}
    <3>1. /\ stage'[q] = "action" /\ turn'[q] = turn[q] /\ hadErr'[q] = hadErr[q]
          /\ role'[q] = role[q] /\ code'[q] = code[q] /\ ac'[q] = ac[q]
          /\ created'[q] = created[q] /\ entry'[q] = entry[q]
          /\ answers'[q] = answers[q] /\ (q \in faulty' <=> q \in faulty)
      BY <1>0, <1>a, <2>3 DEF TypeOK, Bind, Respond, Goto
    <3>2. RequestTyped'
      BY <1>0, <1>a, <2>3 DEF TypeOK, RequestTyped, Bind, Respond, Goto
    <3>3. Frame(q)
      BY <1>0, <1>a, <2>3 DEF TypeOK, Frame, Bind, Respond, Goto
    <3>4. StageInv(q)'
      BY <1>0, <1>a, <2>3, <3>1, <3>3 DEF Local, StageInv, Frame
    <3>5. ReviewInv(q)'
      BY <1>0, <1>a, <2>3, <3>1 DEF Local, StageInv, ReviewInv, TypeOK
    <3>6. AuditInv(q)'
      BY <1>0, <1>a, <2>3, <3>1, <3>3 DEF Local, StageInv, AuditInv, Frame
    <3> QED
      BY <3>2, <3>3, <3>4, <3>5, <3>6 DEF Local
  <2> QED
    BY <1>0, <1>a, <2>1, <2>2, <2>3
<1>2. TypeOK'
  BY <1>0, <1>1 DEF TypeOK, RequestTyped, Bind, Respond, Goto
<1> QED
  BY <1>1, <1>2, OthersKeep DEF IndInv, Local

\* The action's allowed roles are looked up.
LEMMA AccessKeeps ==
  ASSUME IndInv, NEW q \in Requests, CheckActionAccess(q), UNCHANGED kind
  PROVE IndInv'
<1> USE DEF authVars, dataVars, failVars
<1>0. TypeOK /\ Local(q) /\ kind[q] \in Kinds
  BY DEF IndInv, Local, TypeOK
<1>a. stage[q] = "action" /\ role[q] # Empty
  BY <1>0, RolesTyped DEF TypeOK, Local, StageInv, CheckActionAccess
<1>1. RequestTyped' /\ Frame(q) /\ Local(q)'
  <2>1. CASE kind[q].action = Empty
    <3>1. /\ stage'[q] = "handler" /\ turn'[q] = turn[q] /\ hadErr'[q] = hadErr[q]
          /\ role'[q] = role[q] /\ code'[q] = code[q] /\ ac'[q] = ac[q]
          /\ created'[q] = created[q] /\ entry'[q] = entry[q]
          /\ answers'[q] = answers[q] /\ (q \in faulty' <=> q \in faulty)
      BY <1>0, <1>a, <2>1 DEF TypeOK, CheckActionAccess, Respond, Goto
    <3>2. RequestTyped'
      BY <1>0, <1>a, <2>1 DEF TypeOK, RequestTyped, CheckActionAccess, Respond, Goto
    <3>3. Frame(q)
      BY <1>0, <1>a, <2>1 DEF TypeOK, Frame, CheckActionAccess, Respond, Goto
    <3>4. StageInv(q)'
      BY <1>0, <1>a, <2>1, <3>1, <3>3 DEF Local, StageInv, Frame
    <3>5. ReviewInv(q)'
      BY <1>0, <1>a, <2>1, <3>1 DEF Local, StageInv, ReviewInv, TypeOK
    <3>6. AuditInv(q)'
      BY <1>0, <1>a, <2>1, <3>1, <3>3 DEF Local, StageInv, AuditInv, Frame
    <3> QED
      BY <3>2, <3>3, <3>4, <3>5, <3>6 DEF Local
  <2>2. CASE kind[q].action # Empty /\ kind[q].action \notin DOMAIN Catalog
    <3>1. /\ stage'[q] = "audit" /\ turn'[q] = turn[q] /\ hadErr'[q] = hadErr[q]
          /\ role'[q] = role[q] /\ code'[q] = 404 /\ ac'[q] = ac[q]
          /\ created'[q] = created[q] /\ entry'[q] = entry[q]
          /\ answers'[q] = answers[q] /\ (q \in faulty' <=> q \in faulty)
      BY <1>0, <1>a, <2>2 DEF TypeOK, CheckActionAccess, Respond, Goto
    <3>c. 404 \in Statuses
      BY DEF Statuses
    <3>2. RequestTyped'
      BY <1>0, <1>a, <2>2, <3>c DEF TypeOK, RequestTyped, CheckActionAccess, Respond, Goto
    <3>3. Frame(q)
      BY <1>0, <1>a, <2>2 DEF TypeOK, Frame, CheckActionAccess, Respond, Goto
    <3>4. StageInv(q)'
      BY <1>0, <1>a, <2>2, <3>1, <3>3 DEF Local, StageInv, Frame
    <3>5. ReviewInv(q)'
      BY <1>0, <1>a, <2>2, <3>1 DEF Local, StageInv, ReviewInv, TypeOK
    <3>6. AuditInv(q)'
      BY <1>0, <1>a, <2>2, <3>1, <3>3 DEF Local, StageInv, AuditInv, Frame
    <3> QED
      BY <3>2, <3>3, <3>4, <3>5, <3>6 DEF Local
  <2>3. CASE /\ kind[q].action # Empty
             /\ kind[q].action \in DOMAIN Catalog
             /\ role[q] \notin Catalog[kind[q].action]
    <3>1. /\ stage'[q] = "audit" /\ turn'[q] = turn[q] /\ hadErr'[q] = hadErr[q]
          /\ role'[q] = role[q] /\ code'[q] = 403 /\ ac'[q] = ac[q]
          /\ created'[q] = created[q] /\ entry'[q] = entry[q]
          /\ answers'[q] = answers[q] /\ (q \in faulty' <=> q \in faulty)
      BY <1>0, <1>a, <2>3 DEF TypeOK, CheckActionAccess, Respond, Goto
    <3>c. 403 \in Statuses
      BY DEF Statuses
    <3>2. RequestTyped'
      BY <1>0, <1>a, <2>3, <3>c DEF TypeOK, RequestTyped, CheckActionAccess, Respond, Goto
    <3>3. Frame(q)
      BY <1>0, <1>a, <2>3 DEF TypeOK, Frame, CheckActionAccess, Respond, Goto
    <3>4. StageInv(q)'
      BY <1>0, <1>a, <2>3, <3>1, <3>3 DEF Local, StageInv, Frame
    <3>5. ReviewInv(q)'
      BY <1>0, <1>a, <2>3, <3>1 DEF Local, StageInv, ReviewInv, TypeOK
    <3>6. AuditInv(q)'
      BY <1>0, <1>a, <2>3, <3>1, <3>3 DEF Local, StageInv, AuditInv, Frame
    <3> QED
      BY <3>2, <3>3, <3>4, <3>5, <3>6 DEF Local
  <2>4. CASE /\ kind[q].action # Empty
             /\ kind[q].action \in DOMAIN Catalog
             /\ role[q] \in Catalog[kind[q].action]
    <3>1. /\ stage'[q] = "handler" /\ turn'[q] = turn[q] /\ hadErr'[q] = hadErr[q]
          /\ role'[q] = role[q] /\ code'[q] = code[q] /\ ac'[q] = ac[q]
          /\ created'[q] = created[q] /\ entry'[q] = entry[q]
          /\ answers'[q] = answers[q] /\ (q \in faulty' <=> q \in faulty)
      BY <1>0, <1>a, <2>4 DEF TypeOK, CheckActionAccess, Respond, Goto
    <3>2. RequestTyped'
      BY <1>0, <1>a, <2>4 DEF TypeOK, RequestTyped, CheckActionAccess, Respond, Goto
    <3>3. Frame(q)
      BY <1>0, <1>a, <2>4 DEF TypeOK, Frame, CheckActionAccess, Respond, Goto
    <3>4. StageInv(q)'
      BY <1>0, <1>a, <2>4, <3>1, <3>3 DEF Local, StageInv, Frame
    <3>5. ReviewInv(q)'
      BY <1>0, <1>a, <2>4, <3>1 DEF Local, StageInv, ReviewInv, TypeOK
    <3>6. AuditInv(q)'
      BY <1>0, <1>a, <2>4, <3>1, <3>3 DEF Local, StageInv, AuditInv, Frame
    <3> QED
      BY <3>2, <3>3, <3>4, <3>5, <3>6 DEF Local
  <2> QED
    BY <1>0, <1>a, <2>1, <2>2, <2>3, <2>4
<1>2. TypeOK'
  BY <1>0, <1>1 DEF TypeOK, RequestTyped, CheckActionAccess, Respond, Goto
<1> QED
  BY <1>1, <1>2, OthersKeep DEF IndInv, Local

\* A handler that creates nothing answers.
LEMMA AnswerKeeps ==
  ASSUME IndInv, NEW q \in Requests, Answer(q), UNCHANGED kind
  PROVE IndInv'
<1> USE DEF authVars, dataVars, failVars
<1>0. TypeOK /\ Local(q) /\ kind[q] \in Kinds
  BY DEF IndInv, Local, TypeOK
<1>a. stage[q] = "handler" /\ role[q] # Empty
  BY <1>0, RolesTyped DEF TypeOK, Local, StageInv, Answer
<1>b. PICK status \in Answers(kind[q]) : Respond(q, status, "audit")
  BY DEF Answer
<1>c. status \in {200, 400, 404}
  BY <1>0, <1>a, KindTyped DEF Local, StageInv
<1>1. RequestTyped' /\ Frame(q) /\ Local(q)'
  <2>1. /\ stage'[q] = "audit" /\ turn'[q] = turn[q] /\ hadErr'[q] = hadErr[q]
        /\ role'[q] = role[q] /\ code'[q] = status /\ ac'[q] = ac[q]
        /\ created'[q] = created[q] /\ entry'[q] = entry[q]
        /\ answers'[q] = answers[q] /\ (q \in faulty' <=> q \in faulty)
    BY <1>0, <1>a, <1>b, <1>c DEF TypeOK, Answer, Respond, Goto
  <2>c. status \in Statuses
    BY <1>0, <1>a, <1>b, <1>c DEF Statuses
  <2>2. RequestTyped'
    BY <1>0, <1>a, <1>b, <1>c, <2>c DEF TypeOK, RequestTyped, Answer, Respond, Goto
  <2>3. Frame(q)
    BY <1>0, <1>a, <1>b, <1>c DEF TypeOK, Frame, Answer, Respond, Goto
  <2>4. StageInv(q)'
    BY <1>0, <1>a, <1>b, <1>c, <2>1, <2>3 DEF Local, StageInv, Frame
  <2>5. ReviewInv(q)'
    BY <1>0, <1>a, <1>b, <1>c, <2>1 DEF Local, StageInv, ReviewInv, TypeOK
  <2>6. AuditInv(q)'
    BY <1>0, <1>a, <1>b, <1>c, <2>1, <2>3 DEF Local, StageInv, AuditInv, Frame
  <2> QED
    BY <2>2, <2>3, <2>4, <2>5, <2>6 DEF Local
<1>2. TypeOK'
  BY <1>0, <1>1 DEF TypeOK, RequestTyped, Answer, Respond, Goto
<1> QED
  BY <1>1, <1>2, OthersKeep DEF IndInv, Local

\* An execution is created.
LEMMA CreateKeeps ==
  ASSUME IndInv, NEW q \in Requests, CreateExecution(q), UNCHANGED kind
  PROVE IndInv'
<1> USE DEF authVars, dataVars, failVars
<1>0. TypeOK /\ Local(q) /\ kind[q] \in Kinds
  BY DEF IndInv, Local, TypeOK
<1>a. stage[q] = "handler" /\ role[q] # Empty
  BY <1>0, RolesTyped DEF TypeOK, Local, StageInv, CreateExecution
<1>b. role[q] \in Catalog[kind[q].action]
  BY <1>0, <1>a, KindTyped DEF Local, StageInv, CreateExecution
<1>1. RequestTyped' /\ Frame(q) /\ Local(q)'
  <2>1. /\ stage'[q] = "audit" /\ turn'[q] = turn[q] /\ hadErr'[q] = hadErr[q]
        /\ role'[q] = role[q] /\ code'[q] = 202 /\ ac'[q] = TRUE
        /\ created'[q] = TRUE /\ entry'[q] = entry[q]
        /\ answers'[q] = answers[q] /\ (q \in faulty' <=> q \in faulty)
    BY <1>0, <1>a, <1>b DEF TypeOK, CreateExecution, Respond, Goto
  <2>c. 202 \in Statuses
    BY DEF Statuses
  <2>2. RequestTyped'
    BY <1>0, <1>a, <1>b, <2>c DEF TypeOK, RequestTyped, CreateExecution, Respond, Goto
  <2>3. Frame(q)
    BY <1>0, <1>a, <1>b DEF TypeOK, Frame, CreateExecution, Respond, Goto
  <2>4. StageInv(q)'
    BY <1>0, <1>a, <1>b, <2>1, <2>3 DEF Local, StageInv, Frame
  <2>5. ReviewInv(q)'
    BY <1>0, <1>a, <1>b, <2>1 DEF Local, StageInv, ReviewInv, TypeOK
  <2>6. AuditInv(q)'
    BY <1>0, <1>a, <1>b, <2>1, <2>3 DEF Local, StageInv, AuditInv, Frame
  <2> QED
    BY <2>2, <2>3, <2>4, <2>5, <2>6 DEF Local
<1>2. TypeOK'
  BY <1>0, <1>1 DEF TypeOK, RequestTyped, CreateExecution, Respond, Goto
<1> QED
  BY <1>1, <1>2, OthersKeep DEF IndInv, Local

\* The handler's store call fails, and may have taken effect.
LEMMA HandlerErrorKeeps ==
  ASSUME IndInv, NEW q \in Requests, HandlerError(q), UNCHANGED kind
  PROVE IndInv'
<1> USE DEF authVars, dataVars, failVars
<1>0. TypeOK /\ Local(q) /\ kind[q] \in Kinds
  BY DEF IndInv, Local, TypeOK
<1>a. stage[q] = "handler" /\ role[q] # Empty /\ ~kind[q].panics
  BY <1>0, RolesTyped DEF TypeOK, Local, StageInv, HandlerError
<1>b. kind[q].route = "CreateExecution" => role[q] \in Catalog[kind[q].action]
  BY <1>0, <1>a, KindTyped DEF Local, StageInv
<1>1. RequestTyped' /\ Frame(q) /\ Local(q)'
  <2>1. CASE UNCHANGED created
    <3>1. /\ stage'[q] = "audit" /\ turn'[q] = turn[q] /\ hadErr'[q] = hadErr[q]
          /\ role'[q] = role[q] /\ code'[q] = 500 /\ ac'[q] = ac[q]
          /\ created'[q] = created[q] /\ entry'[q] = entry[q]
          /\ answers'[q] = answers[q] /\ (q \in faulty' <=> TRUE)
      BY <1>0, <1>a, <1>b, <2>1 DEF TypeOK, HandlerError, StoreFault, Respond, Goto
    <3>c. 500 \in Statuses
      BY DEF Statuses
    <3>2. RequestTyped'
      BY <1>0, <1>a, <1>b, <2>1, <3>c DEF TypeOK, RequestTyped, HandlerError, StoreFault,
         Respond, Goto
    <3>3. Frame(q)
      BY <1>0, <1>a, <1>b, <2>1 DEF TypeOK, Frame, HandlerError, StoreFault, Respond, Goto
    <3>4. StageInv(q)'
      BY <1>0, <1>a, <1>b, <2>1, <3>1, <3>3 DEF Local, StageInv, Frame
    <3>5. ReviewInv(q)'
      BY <1>0, <1>a, <1>b, <2>1, <3>1 DEF Local, StageInv, ReviewInv, TypeOK
    <3>6. AuditInv(q)'
      BY <1>0, <1>a, <1>b, <2>1, <3>1, <3>3 DEF Local, StageInv, AuditInv, Frame
    <3> QED
      BY <3>2, <3>3, <3>4, <3>5, <3>6 DEF Local
  <2>2. CASE created' = [created EXCEPT ![q] = TRUE] /\ kind[q].route = "CreateExecution"
    <3>1. /\ stage'[q] = "audit" /\ turn'[q] = turn[q] /\ hadErr'[q] = hadErr[q]
          /\ role'[q] = role[q] /\ code'[q] = 500 /\ ac'[q] = ac[q]
          /\ created'[q] = TRUE /\ entry'[q] = entry[q]
          /\ answers'[q] = answers[q] /\ (q \in faulty' <=> TRUE)
      BY <1>0, <1>a, <1>b, <2>2 DEF TypeOK, HandlerError, StoreFault, Respond, Goto
    <3>c. 500 \in Statuses
      BY DEF Statuses
    <3>2. RequestTyped'
      BY <1>0, <1>a, <1>b, <2>2, <3>c DEF TypeOK, RequestTyped, HandlerError, StoreFault,
         Respond, Goto
    <3>3. Frame(q)
      BY <1>0, <1>a, <1>b, <2>2 DEF TypeOK, Frame, HandlerError, StoreFault, Respond, Goto
    <3>4. StageInv(q)'
      BY <1>0, <1>a, <1>b, <2>2, <3>1, <3>3 DEF Local, StageInv, Frame
    <3>5. ReviewInv(q)'
      BY <1>0, <1>a, <1>b, <2>2, <3>1 DEF Local, StageInv, ReviewInv, TypeOK
    <3>6. AuditInv(q)'
      BY <1>0, <1>a, <1>b, <2>2, <3>1, <3>3 DEF Local, StageInv, AuditInv, Frame
    <3> QED
      BY <3>2, <3>3, <3>4, <3>5, <3>6 DEF Local
  <2> QED
    BY <1>0, <1>a, <1>b, <2>1, <2>2 DEF HandlerError
<1>2. TypeOK'
  BY <1>0, <1>1, PipelineAssumption DEF TypeOK, RequestTyped, HandlerError, StoreFault, Respond,
     Goto
<1> QED
  BY <1>1, <1>2, OthersKeep DEF IndInv, Local

\* A handler panics.
LEMMA PanicKeeps ==
  ASSUME IndInv, NEW q \in Requests, Panic(q), UNCHANGED kind
  PROVE IndInv'
<1> USE DEF authVars, dataVars, failVars
<1>0. TypeOK /\ Local(q) /\ kind[q] \in Kinds
  BY DEF IndInv, Local, TypeOK
<1>a. stage[q] = "handler" /\ role[q] # Empty /\ kind[q].panics
  BY <1>0, RolesTyped DEF TypeOK, Local, StageInv, Panic
<1>1. RequestTyped' /\ Frame(q) /\ Local(q)'
  <2>1. /\ stage'[q] = "done" /\ turn'[q] = turn[q] /\ hadErr'[q] = hadErr[q]
        /\ role'[q] = role[q] /\ code'[q] = 500 /\ ac'[q] = ac[q]
        /\ created'[q] = created[q] /\ entry'[q] = entry[q]
        /\ answers'[q] = answers[q] /\ (q \in faulty' <=> q \in faulty)
    BY <1>0, <1>a DEF TypeOK, Panic, Respond, Goto
  <2>c. 500 \in Statuses
    BY DEF Statuses
  <2>2. RequestTyped'
    BY <1>0, <1>a, <2>c DEF TypeOK, RequestTyped, Panic, Respond, Goto
  <2>3. Frame(q)
    BY <1>0, <1>a DEF TypeOK, Frame, Panic, Respond, Goto
  <2>4. StageInv(q)'
    BY <1>0, <1>a, <2>1, <2>3 DEF Local, StageInv, Frame
  <2>5. ReviewInv(q)'
    BY <1>0, <1>a, <2>1 DEF Local, StageInv, ReviewInv, TypeOK
  <2>6. AuditInv(q)'
    BY <1>0, <1>a, <2>1, <2>3 DEF Local, StageInv, AuditInv, Frame
  <2> QED
    BY <2>2, <2>3, <2>4, <2>5, <2>6 DEF Local
<1>2. TypeOK'
  BY <1>0, <1>1 DEF TypeOK, RequestTyped, Panic, Respond, Goto
<1> QED
  BY <1>1, <1>2, OthersKeep DEF IndInv, Local

\* The audit entry is written.
LEMMA WriteAuditKeeps ==
  ASSUME IndInv, NEW q \in Requests, WriteAudit(q), UNCHANGED kind
  PROVE IndInv'
<1> USE DEF authVars, dataVars, failVars
<1>0. TypeOK /\ Local(q) /\ kind[q] \in Kinds
  BY DEF IndInv, Local, TypeOK
<1>a. stage[q] = "audit"
  BY DEF WriteAudit
<1>b. [code |-> code[q], exec |-> ac[q]] \in [code : Nat, exec : BOOLEAN]
  BY <1>0 DEF TypeOK, Statuses
<1>c. [code |-> code[q], exec |-> ac[q]] # NoEntry
  BY <1>b, PipelineAssumption
<1>1. RequestTyped' /\ Frame(q) /\ Local(q)'
  <2>1. /\ stage'[q] = "done" /\ turn'[q] = turn[q] /\ hadErr'[q] = hadErr[q]
        /\ role'[q] = role[q] /\ code'[q] = code[q] /\ ac'[q] = ac[q]
        /\ created'[q] = created[q] /\ entry'[q] = [code |-> code[q], exec |-> ac[q]]
        /\ answers'[q] = answers[q] /\ (q \in faulty' <=> q \in faulty)
    BY <1>0, <1>a, <1>b, <1>c DEF TypeOK, WriteAudit, Respond, Goto
  <2>2. RequestTyped'
    BY <1>0, <1>a, <1>b, <1>c DEF TypeOK, RequestTyped, WriteAudit, Respond, Goto
  <2>3. Frame(q)
    BY <1>0, <1>a, <1>b, <1>c DEF TypeOK, Frame, WriteAudit, Respond, Goto
  <2>4. StageInv(q)'
    BY <1>0, <1>a, <1>b, <1>c, <2>1, <2>3 DEF Local, StageInv, Frame
  <2>5. ReviewInv(q)'
    BY <1>0, <1>a, <1>b, <1>c, <2>1 DEF Local, StageInv, ReviewInv, TypeOK
  <2>6. AuditInv(q)'
    BY <1>0, <1>a, <1>b, <1>c, <2>1, <2>3 DEF Local, StageInv, AuditInv, Frame
  <2> QED
    BY <2>2, <2>3, <2>4, <2>5, <2>6 DEF Local
<1>2. TypeOK'
  BY <1>0, <1>1 DEF TypeOK, RequestTyped, WriteAudit, Respond, Goto
<1> QED
  BY <1>1, <1>2, OthersKeep DEF IndInv, Local

\* The audit entry cannot be written.
LEMMA AuditErrorKeeps ==
  ASSUME IndInv, NEW q \in Requests, AuditError(q), UNCHANGED kind
  PROVE IndInv'
<1> USE DEF authVars, dataVars, failVars
<1>0. TypeOK /\ Local(q) /\ kind[q] \in Kinds
  BY DEF IndInv, Local, TypeOK
<1>a. stage[q] = "audit"
  BY DEF AuditError
<1>1. RequestTyped' /\ Frame(q) /\ Local(q)'
  <2>1. /\ stage'[q] = "done" /\ turn'[q] = turn[q] /\ hadErr'[q] = hadErr[q]
        /\ role'[q] = role[q] /\ code'[q] = code[q] /\ ac'[q] = ac[q]
        /\ created'[q] = created[q] /\ entry'[q] = entry[q]
        /\ answers'[q] = answers[q] /\ (q \in faulty' <=> TRUE)
    BY <1>0, <1>a DEF TypeOK, AuditError, StoreFault, Respond, Goto
  <2>2. RequestTyped'
    BY <1>0, <1>a DEF TypeOK, RequestTyped, AuditError, StoreFault, Respond, Goto
  <2>3. Frame(q)
    BY <1>0, <1>a DEF TypeOK, Frame, AuditError, StoreFault, Respond, Goto
  <2>4. StageInv(q)'
    BY <1>0, <1>a, <2>1, <2>3 DEF Local, StageInv, Frame
  <2>5. ReviewInv(q)'
    BY <1>0, <1>a, <2>1 DEF Local, StageInv, ReviewInv, TypeOK
  <2>6. AuditInv(q)'
    BY <1>0, <1>a, <2>1, <2>3 DEF Local, StageInv, AuditInv, Frame
  <2> QED
    BY <2>2, <2>3, <2>4, <2>5, <2>6 DEF Local
<1>2. TypeOK'
  BY <1>0, <1>1, PipelineAssumption DEF TypeOK, RequestTyped, AuditError, StoreFault, Respond,
     Goto
<1> QED
  BY <1>1, <1>2, OthersKeep DEF IndInv, Local

\* The process dies: the requests it had are done, and known to have met a fault.
LEMMA CrashKeeps ==
  ASSUME IndInv, Crash, UNCHANGED kind
  PROVE IndInv'
<1> USE DEF authVars, dataVars
<1>0. TypeOK
  BY DEF IndInv
<1>1. TypeOK'
  BY <1>0, PipelineAssumption DEF TypeOK, Crash
<1>2. ASSUME NEW q \in Requests PROVE StageInv(q)' /\ ReviewInv(q)' /\ AuditInv(q)'
  <2>1. StageInv(q) /\ ReviewInv(q) /\ AuditInv(q)
    BY <1>2 DEF IndInv
  <2>2. /\ turn'[q] = turn[q] /\ hadErr'[q] = hadErr[q] /\ role'[q] = role[q] /\ code'[q] = code[q]
        /\ ac'[q] = ac[q] /\ created'[q] = created[q] /\ entry'[q] = entry[q]
        /\ answers'[q] = answers[q] /\ kind' = kind
    BY DEF Crash
  <2>3. stage[q] \in {"authn", "done"} =>
           stage'[q] = stage[q] /\ (q \in faulty' <=> q \in faulty)
    BY <1>0, <1>2 DEF TypeOK, Crash
  <2>4. stage[q] \notin {"authn", "done"} => stage'[q] = "done" /\ q \in faulty'
    BY <1>0, <1>2 DEF TypeOK, Crash
  <2>5. StageInv(q)' /\ ReviewInv(q)'
    BY <2>1, <2>2, <2>3, <2>4 DEF StageInv, ReviewInv
  <2>6. AuditInv(q)'
    BY <2>1, <2>2, <2>3, <2>4 DEF AuditInv
  <2> QED
    BY <2>5, <2>6
<1> QED
  BY <1>1, <1>2 DEF IndInv

\* AMS grants or revokes a role, and no request moves.
LEMMA GrantKeeps ==
  ASSUME IndInv, NEW u \in Users, NEW r \in Roles, ChangeGrant(u, r), UNCHANGED kind
  PROVE IndInv'
<1> USE DEF authVars, dataVars
<1>0. TypeOK
  BY DEF IndInv
<1>1. TypeOK'
  BY <1>0, PipelineAssumption DEF TypeOK, ChangeGrant
<1>2. UNCHANGED <<kind, stage, authVars, code, dataVars, faulty>>
  BY DEF ChangeGrant
<1>3. ASSUME NEW q \in Requests PROVE StageInv(q)' /\ ReviewInv(q)' /\ AuditInv(q)'
  BY <1>2, <1>3 DEF IndInv, StageInv, ReviewInv, AuditInv
<1> QED
  BY <1>1, <1>3 DEF IndInv

\* Every step keeps the invariant.
LEMMA StepPreserves == IndInv /\ [Next]_vars => IndInv'
<1> SUFFICES ASSUME IndInv, [Next]_vars PROVE IndInv'
  OBVIOUS
<1>1. CASE UNCHANGED vars
  <2>1. /\ UNCHANGED <<kind, stage, turn, hadErr, role, answers, code, ac, created, entry>>
        /\ UNCHANGED <<grants, faulty, faults, changes, crashes>>
    BY <1>1 DEF vars, authVars, dataVars, failVars
  <2>2. TypeOK'
    BY <2>1 DEF IndInv, TypeOK
  <2>3. ASSUME NEW q \in Requests PROVE StageInv(q)' /\ ReviewInv(q)' /\ AuditInv(q)'
    <3>1. StageInv(q) /\ ReviewInv(q) /\ AuditInv(q)
      BY <2>3 DEF IndInv
    <3>2. StageInv(q)'
      BY <2>1, <3>1 DEF StageInv
    <3>3. ReviewInv(q)'
      BY <2>1, <3>1 DEF ReviewInv
    <3>4. AuditInv(q)'
      BY <2>1, <3>1 DEF AuditInv
    <3> QED
      BY <3>2, <3>3, <3>4
  <2> QED
    BY <2>2, <2>3 DEF IndInv
<1>2. ASSUME NEW q \in Requests, Step(q), UNCHANGED kind PROVE IndInv'
  BY <1>2, AuthenticateKeeps, ReviewKeeps, ReviewErrorKeeps, NoRoleKeeps, BindKeeps,
     AccessKeeps,
     AnswerKeeps, CreateKeeps, HandlerErrorKeeps, PanicKeeps, WriteAuditKeeps, AuditErrorKeeps
     DEF Step
<1> QED
  BY <1>1, <1>2, CrashKeeps, GrantKeeps DEF Next

\* IndInv is an invariant of the pipeline.
THEOREM Invariance == Spec => []IndInv
BY InitEstablishes, StepPreserves, PTL DEF Spec

\* The type invariant, for every instance.
THEOREM TypeCorrect == Spec => []TypeOK
<1>1. IndInv => TypeOK
  BY DEF IndInv
<1> QED
  BY <1>1, Invariance, PTL

\* Whatever reviews failed and however grants changed during the request: who is
\* served has a role that AMS confirmed, and an execution is created only for one
\* of the action's roles.
THEOREM OnlyConfirmedServed == Spec => []ServedOnlyIfConfirmed
<1>1. IndInv => ServedOnlyIfConfirmed
  BY DEF IndInv, StageInv, ServedOnlyIfConfirmed
<1> QED
  BY <1>1, Invariance, PTL

\* A caller without a role is told 403 only if AMS refused every role.
THEOREM DenialsDefinite == Spec => []DenialIsDefinite
<1>1. IndInv => DenialIsDefinite
  <2> SUFFICES ASSUME IndInv, NEW q \in Requests, code[q] = 403, role[q] = Empty
               PROVE answers[q].no = Roles
    BY DEF DenialIsDefinite
  <2>1. /\ turn[q] > NumRoles /\ turn[q] \in 1 .. NumRoles + 1
        /\ \A i \in 1 .. turn[q] - 1 : RoleOrder[i] \in answers[q].no
    BY DEF IndInv, TypeOK, ReviewInv
  <2>2. \A i \in 1 .. NumRoles : RoleOrder[i] \in answers[q].no
    BY <2>1, RolesTyped
  <2>3. answers[q].no \subseteq Roles
    BY DEF IndInv, TypeOK
  <2> QED
    BY <2>2, <2>3 DEF Roles
<1> QED
  BY <1>1, Invariance, PTL

\* Every request has the audit entry that tells what was answered and created, but
\* for the ones refused at the door, panics and faults.
THEOREM AuditComplete == Spec => []AuditTellsExecution
<1>1. IndInv => AuditTellsExecution
  <2> SUFFICES ASSUME IndInv, NEW q \in Requests
               PROVE /\ entry[q] # NoEntry =>
                          /\ entry[q].code = code[q]
                          /\ entry[q].exec <=> (created[q] /\ code[q] = 202)
                     /\ stage[q] = "done" /\ q \notin faulty =>
                          (entry[q] = NoEntry <=>
                              code[q] = 401 \/ (kind[q].panics /\ code[q] = 500 /\ role[q] # Empty))
    BY DEF AuditTellsExecution
  <2>1. AuditInv(q) /\ ac[q] \in BOOLEAN
    BY DEF IndInv, TypeOK
  <2> QED
    BY <2>1 DEF AuditInv
<1> QED
  BY <1>1, Invariance, PTL
=============================================================================
