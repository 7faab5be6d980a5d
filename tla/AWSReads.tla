------------------------------- MODULE AWSReads -------------------------------
(***************************************************************************)
(* One run of the aws-get action, call by call: the clients that AWSScope  *)
(* obtains, validate and the describe function of the resource (aws_get,   *)
(* aws_ec2, aws_elb, aws_cloudtrail, aws_route53 in internal/actions).     *)
(* Objects come and go in the account while the pages of a listing are     *)
(* read. A page holds the objects at and after a position that the input   *)
(* asks for; where positions come from differs between the AWS services.   *)
(***************************************************************************)
EXTENDS Integers, Sequences, FiniteSetsExt

CONSTANTS
    Requests,     \* authorized aws-get requests, see RequestType
    Objects,      \* objects that may be in the account, see ObjectType
    FirstObjects, \* the objects there when the run starts
    Arns,         \* the identifiers that begin with "arn:"
    KnownKeys,    \* CloudTrail's lookup attribute keys
    PageSize,     \* objects on a full page
    MaxChanges    \* bound: changes of the account during the run

\* No id, no parent.
Empty == ""

\* An object: the resource it is read as, its position in the service's order, the
\* series it belongs to (records of one name and type, told apart by identifier),
\* its identifier and ARN, its parent, the value of the attribute filters ask
\* about, and its age in hours.
ObjectType ==
    [resource : STRING, pos : Nat, series : Nat, id : STRING, arn : STRING, parent : STRING,
     tag : STRING, age : Nat]

\* An entry of the comma-separated filters param.
EntryType == [form : {"blank", "bad", "pair"}, name : STRING, value : STRING]

\* A request: filters is empty for a blank param, since tells whether the param is
\* blank and whether it parses, region is a param no resource accepts.
RequestType ==
    [resource : STRING, id : STRING, filters : Seq(EntryType),
     since : [given : BOOLEAN, parses : BOOLEAN, hours : Int], region : BOOLEAN]

ASSUME ReadsAssumption ==
    /\ Requests \subseteq RequestType
    /\ IsFiniteSet(Objects) /\ Objects \subseteq ObjectType /\ FirstObjects \subseteq Objects
    /\ Empty \notin Arns
    /\ PageSize \in Nat \ {0} /\ MaxChanges \in Nat

VARIABLES
    req,      \* the request
    stage,    \* "clients", "execute", "page", "done" or "failed"
    clients,  \* the service clients that were built
    from,     \* the position the next page starts at
    listed,   \* how often each object was returned so far, 2 for more
    account,  \* the objects in the account now
    ever,     \* history: objects there at some moment of the run
    always,   \* history: objects there at every moment of the run
    changes   \* bound used up

worldVars == <<account, ever, always>>
readVars == <<req, stage, clients, from, listed, worldVars, changes>>

-----------------------------------------------------------------------------
(* The resources aws-get can read.                                         *)

Descriptor(service, id, params) == [service |-> service, id |-> id, params |-> params]

EC2Resources == {"ec2-instances", "ec2-security-groups", "ec2-subnets", "ec2-route-tables",
                 "ec2-vpcs", "ec2-dhcp-options"}

Resources == EC2Resources \cup
    {"load-balancers", "load-balancers-classic", "target-groups", "target-health",
     "cloudtrail-events", "route53-hosted-zones", "route53-record-sets"}

awsResources ==
    [r \in Resources |->
        CASE r \in EC2Resources -> Descriptor("ec2", "optional", {"filters"})
          [] r \in {"load-balancers", "target-groups"} -> Descriptor("elbv2", "optional", {})
          [] r = "load-balancers-classic" -> Descriptor("elb", "optional", {})
          [] r = "target-health" -> Descriptor("elbv2", "required", {})
          [] r = "cloudtrail-events" ->
                Descriptor("cloudtrail", "unsupported", {"filters", "since"})
          [] r = "route53-hosted-zones" -> Descriptor("route53", "unsupported", {})
          [] r = "route53-record-sets" -> Descriptor("route53", "required", {})]

\* RequiredServices: no client at all for a resource that is not in the table.
RequiredServices(q) == IF q.resource \in Resources THEN {awsResources[q.resource].service} ELSE {}

\* awsapi.buildClients.
buildClients(services) == services \cap {"ec2", "elb", "elbv2", "cloudtrail", "route53"}

\* Mutant: params that a resource does not know are ignored.
validateIgnoring(q) ==
    LET d == awsResources[q.resource]
    IN  /\ d.id = "required" => q.id # Empty
        /\ d.id = "unsupported" => q.id = Empty

\* awsResourceDescriptor.validate: what the resource cannot serve is refused.
validate(q) ==
    LET d == awsResources[q.resource]
        names == (IF q.filters # <<>> THEN {"filters"} ELSE {})
                    \cup (IF q.since.given THEN {"since"} ELSE {})
                    \cup (IF q.region THEN {"region"} ELSE {})
    IN  /\ d.id = "required" => q.id # Empty
        /\ d.id = "unsupported" => q.id = Empty
        /\ names \subseteq d.params

-----------------------------------------------------------------------------
(* Filters.                                                                *)

\* The entries that are not blank, by their place.
Pairs(filters) == {i \in DOMAIN filters : filters[i].form = "pair"}

\* parseAWSFilters: a blank param is no filter; a malformed entry, and an expression
\* of empty entries, is an error.
parses(filters) ==
    /\ \A i \in DOMAIN filters : filters[i].form # "bad"
    /\ filters # <<>> => Pairs(filters) # {}

\* The parsed filters: the values accepted for each name.
parseAWSFilters(filters) ==
    [n \in {filters[i].name : i \in Pairs(filters)} |->
        {filters[i].value : i \in {j \in Pairs(filters) : filters[j].name = n}}]

\* cloudTrailAttributes: at most one pair, with a known key.
cloudTrailAttributes(filters) ==
    /\ Cardinality(Pairs(filters)) <= 1
    /\ \A i \in Pairs(filters) : filters[i].name \in KnownKeys

cloudTrailLookbackDefault == 2
CloudTrailLookbackMax == 7 * 24

sinceValid(since) ==
    since.given => since.parses /\ since.hours > 0 /\ since.hours <= CloudTrailLookbackMax

Lookback(since) == IF since.given THEN since.hours ELSE cloudTrailLookbackDefault

-----------------------------------------------------------------------------
(* The inputs of the describe functions: what they ask AWS for.            *)

NoInput ==
    [ids |-> {}, arns |-> {}, parent |-> Empty, filters |-> parseAWSFilters(<<>>), since |-> -1]

ec2Filters(q) == parseAWSFilters(q.filters)

\* describeEC2Instances and its five siblings.
describeEC2(q) == [NoInput EXCEPT !.ids = {q.id} \ {Empty}, !.filters = ec2Filters(q)]

\* arnOrName: an identifier goes to one of the two fields, the empty one to neither.
arnOrName(id) == [NoInput EXCEPT !.arns = {id} \cap Arns, !.ids = {id} \ (Arns \cup {Empty})]

describeLoadBalancers(q) == arnOrName(q.id)

describeTargetGroups(q) == arnOrName(q.id)

describeClassicLoadBalancers(q) == [NoInput EXCEPT !.ids = {q.id} \ {Empty}]

describeTargetHealth(q) == [NoInput EXCEPT !.parent = q.id]

lookupCloudTrailEvents(q) ==
    [NoInput EXCEPT !.filters = parseAWSFilters(q.filters), !.since = Lookback(q.since)]

describeRecordSets(q) == [NoInput EXCEPT !.parent = q.id]

Input(q) ==
    CASE q.resource \in EC2Resources -> describeEC2(q)
      [] q.resource = "load-balancers" -> describeLoadBalancers(q)
      [] q.resource = "target-groups" -> describeTargetGroups(q)
      [] q.resource = "load-balancers-classic" -> describeClassicLoadBalancers(q)
      [] q.resource = "target-health" -> describeTargetHealth(q)
      [] q.resource = "cloudtrail-events" -> lookupCloudTrailEvents(q)
      [] q.resource = "route53-record-sets" -> describeRecordSets(q)
      [] OTHER -> NoInput

\* The client each describe function calls.
ClientOf(resource) ==
    CASE resource \in EC2Resources -> "ec2"
      [] resource = "load-balancers-classic" -> "elb"
      [] resource \in {"load-balancers", "target-groups", "target-health"} -> "elbv2"
      [] resource = "cloudtrail-events" -> "cloudtrail"
      [] OTHER -> "route53"

\* Names are and-ed, the values of a name or-ed.
Accepts(parsed, tag) == \A n \in DOMAIN parsed : n = "tag" /\ tag \in parsed[n]

\* What an AWS service answers an input with.
Selects(input, o) ==
    /\ input.ids # {} => o.id \in input.ids
    /\ input.arns # {} => o.arn \in input.arns
    /\ input.parent # Empty => o.parent = input.parent
    /\ Accepts(input.filters, o.tag)
    /\ input.since >= 0 => o.age <= input.since

-----------------------------------------------------------------------------
(* The steps of a run.                                                     *)

\* AWSScope.Run: the clients of the services the action requires.
GetClients ==
    /\ stage = "clients"
    /\ \/ clients' = buildClients(RequiredServices(req)) /\ stage' = "execute"
       \/ stage' = "failed" /\ UNCHANGED clients
    /\ UNCHANGED <<req, from, listed, worldVars, changes>>

\* The checks between the request and the first call to AWS.
Accepted(q) ==
    /\ q.resource \in Resources
    /\ validate(q)
    /\ parses(q.filters)
    /\ q.resource = "cloudtrail-events" => sinceValid(q.since) /\ cloudTrailAttributes(q.filters)

\* AWSGetAction.Execute up to that call.
Execute ==
    /\ stage = "execute"
    /\ stage' = IF Accepted(req) THEN "page" ELSE "failed"
    /\ UNCHANGED <<req, clients, from, listed, worldVars, changes>>

\* Everything that is left to list, at and after the position asked for.
Rest == {o \in account : o.resource = req.resource /\ Selects(Input(req), o) /\ o.pos >= from}

Before(o) == {p \in Rest : p.pos < o.pos}

\* Mutant: the identifier is not carried over, and the listing resumes with the
\* first record of the name and type.
ResumeAtSeries(next) == Min({o.pos : o \in {p \in account \cup {next} :
                                p.resource = next.resource /\ p.series = next.series}})

\* Mutant: the object the page left out is taken for the last one it returned.
ResumeAfter(next) == next.pos + 1

\* Where the next page starts: at the first object this page left out. Route 53
\* names it by name, type and identifier, the other services by a token.
Resume(next) == next.pos

\* A page of a listing, and its end when nothing was left out. DescribeTargetHealth
\* returns everything at once.
NextPage ==
    /\ stage = "page"
    /\ LET size == IF req.resource = "target-health" THEN Cardinality(Rest) ELSE PageSize
           page == {o \in Rest : Cardinality(Before(o)) < size}
           left == Rest \ page
       IN  /\ listed' = [o \in Objects |->
                            IF o \in page THEN (IF listed[o] = 0 THEN 1 ELSE 2) ELSE listed[o]]
           /\ IF left = {}
              THEN stage' = "done" /\ UNCHANGED from
              ELSE /\ from' = Resume(CHOOSE o \in left : \A p \in left : o.pos <= p.pos)
                   /\ UNCHANGED stage
    /\ UNCHANGED <<req, clients, worldVars, changes>>

\* A page that fails ends the listing, and what was listed is dropped.
PageFails ==
    /\ stage = "page"
    /\ stage' = "failed"
    /\ listed' = [o \in Objects |-> 0]
    /\ UNCHANGED <<req, clients, from, worldVars, changes>>

\* An object of the kind being read is created or deleted.
AccountChanges ==
    /\ stage \notin {"done", "failed"}
    /\ changes < MaxChanges
    /\ changes' = changes + 1
    /\ \E o \in Objects :
        /\ o.resource = req.resource
        /\ account' = IF o \in account THEN account \ {o} ELSE account \cup {o}
    /\ ever' = ever \cup account'
    /\ always' = always \cap account'
    /\ UNCHANGED <<req, stage, clients, from, listed>>

ReadInit ==
    /\ req \in Requests
    /\ stage = "clients"
    /\ clients = {}
    /\ from = 0
    /\ listed = [o \in Objects |-> 0]
    /\ account = FirstObjects /\ ever = FirstObjects /\ always = FirstObjects
    /\ changes = 0

ReadNext == GetClients \/ Execute \/ NextPage \/ PageFails \/ AccountChanges

ReadSpec == ReadInit /\ [][ReadNext]_readVars

\* A run keeps stepping, and AWS answers its calls.
FairReadSpec == ReadSpec /\ WF_readVars(GetClients) /\ WF_readVars(Execute) /\ WF_readVars(NextPage)

-----------------------------------------------------------------------------
(* Properties.                                                             *)

\* The type of every variable.
ReadTypeOK ==
    /\ req \in Requests
    /\ stage \in {"clients", "execute", "page", "done", "failed"}
    /\ clients \subseteq {awsResources[r].service : r \in Resources}
    /\ from \in {0} \cup {o.pos : o \in Objects}
    /\ listed \in [Objects -> 0..2]
    /\ always \subseteq account /\ account \subseteq ever /\ ever \subseteq Objects
    /\ changes \in 0..MaxChanges

\* What the id of a request is compared with: the target group or the zone that the
\* objects belong to, or the object itself by its ARN or its name.
IdOf(q, o) ==
    IF q.resource \in {"target-health", "route53-record-sets"} THEN o.parent
    ELSE IF q.resource \in {"load-balancers", "target-groups"} /\ q.id \in Arns THEN o.arn
    ELSE o.id

\* Every pair of the expression has a pair of its name that the tag matches.
Fits(filters, tag) ==
    \A i \in DOMAIN filters : filters[i].form = "pair" =>
        \E j \in DOMAIN filters :
            /\ filters[j].form = "pair" /\ filters[j].name = filters[i].name
            /\ filters[j].name = "tag" /\ filters[j].value = tag

\* The object fits the id, each filter and the window of the request.
AskedFor(q, o) ==
    /\ o.resource = q.resource
    /\ q.id # Empty => q.id = IdOf(q, o)
    /\ Fits(q.filters, o.tag)
    /\ q.resource = "cloudtrail-events" => o.age <= CloudTrailLookbackMax
    /\ q.since.given => o.age <= q.since.hours

\* A read asks the service whose client was built for it, never a nil one, and a
\* successful read answers the question that was asked: every object fits the id, each
\* filter and the window, no param of the request went unheeded, and a filter
\* expression that says nothing was not taken for none.
AnswersTheQuestion ==
    /\ stage = "page" => clients = {ClientOf(req.resource)}
    /\ stage = "done" =>
          /\ \A o \in Objects : listed[o] > 0 => o \in ever /\ AskedFor(req, o)
          /\ ~req.region
          /\ req.filters # <<>> => \E i \in DOMAIN req.filters : req.filters[i].form = "pair"
          /\ req.filters # <<>> => req.resource \in EC2Resources \cup {"cloudtrail-events"}
          /\ req.since.given => req.resource = "cloudtrail-events"

\* A successful read returned every object that was asked for and there throughout,
\* and no object twice, although objects before, at and after the position of a page
\* came and went.
ListedExactlyOnce ==
    /\ stage = "done" =>
          \A o \in always :
              /\ AskedFor(req, o)
              /\ req.resource = "cloudtrail-events" => o.age <= Lookback(req.since)
              => listed[o] > 0
    /\ \A o \in Objects : listed[o] <= 1

\* Reading pages comes to an end by itself, without the execution's timeout.
ReadEnds == <>(stage \in {"done", "failed"})

\* The inductive strengthening of the two invariants. The services' clients were built
\* for the request's resource, and nothing is read unless the request was accepted.
AcceptInv ==
    /\ stage \in {"execute", "page"} => clients = buildClients(RequiredServices(req))
    /\ stage \in {"page", "done"} => Accepted(req)

\* What a read of the request's resource selects.
Chosen(o) == o.resource = req.resource /\ Selects(Input(req), o)

\* What was returned was there, was selected, and lies before the next page; so the next
\* page returns nothing again.
ListedInv ==
    /\ stage \in {"clients", "execute"} => from = 0
    /\ \A o \in Objects :
          /\ listed[o] <= 1
          /\ listed[o] > 0 =>
                /\ o \in ever /\ Chosen(o)
                /\ stage \in {"page", "done"}
                /\ stage = "page" => o.pos < from

\* Of what was there all the time, everything before the next page was returned.
CoveredInv ==
    \A o \in always :
        Chosen(o) /\ ((stage = "page" /\ o.pos < from) \/ stage = "done") => listed[o] > 0

ReadInv == ReadTypeOK /\ AcceptInv /\ ListedInv /\ CoveredInv
=============================================================================
