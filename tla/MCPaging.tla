------------------------------ MODULE MCPaging ------------------------------
(***************************************************************************)
(* Both kinds of paging in one instance for TLC: the server's list         *)
(* endpoints (Listing) and the reads of aws-get (AWSReads), two parts of   *)
(* one process that share no state.                                        *)
(*                                                                         *)
(* For Listing, a scaled-down clampLimit with every kind of limit          *)
(* parameter, up to three rows, page numbers around the overflow check,    *)
(* every form of since, and durations around the largest that fits. For    *)
(* AWSReads, a few objects of the resources whose reads differ, more of    *)
(* them than a page holds, and requests with and without an id, filters    *)
(* and a window, served and refused.                                       *)
(***************************************************************************)
EXTENDS Listing, AWSReads, TLC

(***************************************************************************)
(* The list requests.                                                      *)
(***************************************************************************)
MCLimits == {Unset, -1, 0, 1, 2, 3, 4}
MCPages == {Unset, 1, 2, 3, 1073741824, 1073741825, 2147483647}
MCUnitLength == ("s" :> 1) @@ ("m" :> 3) @@ ("h" :> 7)

Bound(form, num, unit) == [form |-> form, num |-> num, unit |-> unit]
NoSince == Bound("none", 0, "s")
Parameters(status, dryRun, since) == [status |-> status, dryRun |-> dryRun, since |-> since]

\* No filter; each status filter that rows can leave; dry runs asked for, excluded, and
\* asked for in a way that is not understood; and every form of since.
MCFilters ==
    {Parameters(Unset, Unset, NoSince),
     Parameters("pending", "yes", NoSince),
     Parameters("running", Unset, Bound("duration", 2, "m")),
     Parameters(Unset, "true", Bound("duration", 2, "h")),
     Parameters(Unset, "false", Bound("time", 0, "s")),
     Parameters(Unset, Unset, Bound("duration", 3, "h")),
     Parameters(Unset, Unset, Bound("garbage", 0, "s"))}

(***************************************************************************)
(* The reads.                                                              *)
(***************************************************************************)
Object(resource, pos, series, id, arn, parent, tag, age) ==
    [resource |-> resource, pos |-> pos, series |-> series, id |-> id, arn |-> arn,
     parent |-> parent, tag |-> tag, age |-> age]

Records == {Object("route53-record-sets", 1, 1, "r1", "", "zone", "", 0),
            Object("route53-record-sets", 2, 2, "r2", "", "zone", "", 0),
            Object("route53-record-sets", 3, 2, "r3", "", "zone", "", 0),
            Object("route53-record-sets", 4, 4, "r4", "", "zone", "", 0),
            Object("route53-record-sets", 6, 6, "r6", "", "other", "", 0)}

Instances == {Object("ec2-instances", 1, 1, "i", "", "", "red", 0),
              Object("ec2-instances", 2, 2, "j", "", "", "blue", 0),
              Object("ec2-instances", 3, 3, "k", "", "", "red", 0)}

Events == {Object("cloudtrail-events", 1, 1, "", "", "", "red", 1),
           Object("cloudtrail-events", 2, 2, "", "", "", "red", 5),
           Object("cloudtrail-events", 3, 3, "", "", "", "blue", 200)}

Balancers == {Object("load-balancers", 1, 1, "lb", "arn:lb", "", "", 0),
              Object("load-balancers", 2, 2, "lc", "arn:lc", "", "", 0),
              Object("load-balancers-classic", 1, 1, "lb", "", "", "", 0)}

Others == {Object("target-health", 1, 1, "t1", "", "arn:tg", "", 0),
           Object("target-health", 2, 2, "t2", "", "arn:tg", "", 0),
           Object("target-health", 3, 3, "t3", "", "arn:th", "", 0),
           Object("route53-hosted-zones", 1, 1, "zone", "", "", "", 0),
           Object("route53-hosted-zones", 2, 2, "other", "", "", "", 0)}

MCObjects == Records \cup Instances \cup Events \cup Balancers \cup Others

\* One record and one instance are created later.
MCFirstObjects == {o \in MCObjects : o.id \notin {"r4", "k"}}

Since(given, ok, hours) == [given |-> given, parses |-> ok, hours |-> hours]

Ask(resource, id, filters) ==
    [resource |-> resource, id |-> id, filters |-> filters, since |-> Since(FALSE, FALSE, 0),
     region |-> FALSE]

Pair(name, value) == [form |-> "pair", name |-> name, value |-> value]
Blank == [form |-> "blank", name |-> "", value |-> ""]
Bad == [form |-> "bad", name |-> "", value |-> ""]

FilterParams == {<<>>, <<Blank>>, <<Bad, Pair("tag", "red")>>, <<Pair("tag", "red")>>,
                 <<Pair("tag", "red"), Blank, Pair("tag", "blue")>>,
                 <<Pair("tag", "red"), Pair("nope", "x")>>}

MCRequests ==
    {Ask("ec2-instances", id, filters) : id \in {"", "i"}, filters \in FilterParams}
    \cup {Ask("cloudtrail-events", "", filters) : filters \in FilterParams}
    \cup {[Ask("cloudtrail-events", "", <<>>) EXCEPT !.since = s] :
            s \in {Since(TRUE, FALSE, 0), Since(TRUE, TRUE, -1), Since(TRUE, TRUE, 0),
                   Since(TRUE, TRUE, 168), Since(TRUE, TRUE, 169), Since(TRUE, TRUE, 1)}}
    \cup {Ask("cloudtrail-events", "e", <<>>), Ask("route53-record-sets", "zone", <<>>),
          Ask("route53-record-sets", "", <<>>), Ask("route53-hosted-zones", "", <<>>),
          Ask("load-balancers", "", <<>>), Ask("load-balancers", "arn:lb", <<>>),
          Ask("load-balancers", "lb", <<>>), Ask("load-balancers", "", <<Pair("tag", "red")>>),
          Ask("load-balancers-classic", "lb", <<>>), Ask("target-health", "arn:tg", <<>>),
          Ask("unknown", "", <<>>),
          [Ask("ec2-instances", "", <<>>) EXCEPT !.region = TRUE],
          [Ask("ec2-instances", "", <<>>) EXCEPT !.since = Since(TRUE, TRUE, 1)]}

(***************************************************************************)
(* The two parts side by side. Since neither reads what the other writes,  *)
(* it is enough to see each of them move while the other one stands still: *)
(* walks begin once the read of an unknown resource was refused, and the   *)
(* other reads run beside one walk that has not begun.                     *)
(***************************************************************************)
RefusedRead == req.resource = "unknown"

FirstWalk == rows = <<>> /\ limit = Unset /\ filter = Parameters(Unset, Unset, NoSince)

PagingInit == Init /\ ReadInit /\ (RefusedRead \/ FirstWalk)

PagingNext ==
    \/ RefusedRead /\ stage = "failed" /\ Next /\ UNCHANGED readVars
    \/ ReadNext /\ UNCHANGED vars

\* A run keeps stepping and AWS answers its calls, as in FairReadSpec.
PagingSpec ==
    /\ PagingInit
    /\ [][PagingNext]_<<vars, readVars>>
    /\ WF_readVars(GetClients /\ UNCHANGED vars)
    /\ WF_readVars(Execute /\ UNCHANGED vars)
    /\ WF_readVars(NextPage /\ UNCHANGED vars)
=============================================================================
