------------------------------- MODULE Listing -------------------------------
(***************************************************************************)
(* GET /runs and GET /audit: the filters and the page arithmetic of the    *)
(* handlers (internal/handlers/api.go), the clamping and the two queries   *)
(* of the store (internal/store), and a caller who walks the pages of a    *)
(* list until has_more is false while other requests insert rows, workers  *)
(* change the status of executions, and time passes. Rows are never        *)
(* deleted.                                                                *)
(*                                                                         *)
(* Of the columns a filter may name, status is the only one that changes;  *)
(* dry_run stands for all the others.                                      *)
(***************************************************************************)
EXTENDS Integers, FiniteSets, FiniteSetsExt

CONSTANTS
    Default, Most,  \* clampLimit's default and maximum: 20 and 100, or 50 and 200
    MaxInt32,       \* the 1<<31-1 of the overflow check
    Keys,           \* rows, as their place in ORDER BY created_at DESC, id ASC
    DryRuns,        \* the rows whose dry_run is true
    Filters,        \* the other parameters that callers send, see FilterType
    MaxDuration,    \* math.MaxInt64 of parseSince, scaled down
    UnitLength,     \* UnitLength[u]: nanoseconds in a unit, scaled down
    Limits,         \* the limit parameters that callers send, Unset if there is none
    Pages,          \* the page parameters that callers send
    Unset

RowStatuses == {"pending", "running", "completed"}

\* status and dry_run are query parameters as sent; since is none, an RFC 3339 time, a
\* duration of num units, or garbage.
FilterType ==
    [status : RowStatuses \cup {Unset}, dryRun : STRING \cup {Unset},
     since : [form : {"none", "time", "duration", "garbage"},
              num : Int, unit : DOMAIN UnitLength]]

ASSUME ListingAssumption ==
    /\ IsFiniteSet(Keys) /\ Keys # {} /\ DryRuns \subseteq Keys
    /\ Filters \subseteq FilterType
    /\ MaxDuration \in Nat \ {0} /\ \A u \in DOMAIN UnitLength : UnitLength[u] \in 1..MaxDuration
    /\ Most \in Nat /\ Default \in 1..Most
    /\ MaxInt32 \in Nat
    /\ Unset \notin Int /\ Unset \notin {"true", "false"}
    /\ Keys \subseteq Int
    /\ Limits \ {Unset} \subseteq Int
    /\ Pages \ {Unset} \subseteq Int

-----------------------------------------------------------------------------
(* From the parameters to the query, and from its result to the answer.    *)

EffectiveLimit(limit) == IF limit = Unset THEN Default ELSE limit

\* Mutant: pages are taken to be numbered from 0.
OffsetFromZero(page, limit) == page * limit

\* filter.Offset for a page above 1
PageOffset(page, limit) == (page - 1) * limit

\* Go's integer division, which truncates towards zero.
Quotient(a, b) == IF b > 0 THEN a \div b ELSE -(a \div (-b))

\* An int64, wrapped around at its width.
Wrap(x) == ((x + MaxDuration + 1) % (2 * (MaxDuration + 1))) - (MaxDuration + 1)

\* Mutant: the check for a duration that is too large is missing.
parseDurationUnchecked(num, unit) == IF num <= 0 THEN Unset ELSE Wrap(num * UnitLength[unit])

\* The duration of parseSince, Unset if it is an error. Go divides before it multiplies.
parseDuration(num, unit) ==
    IF num <= 0 \/ num > MaxDuration \div UnitLength[unit]
    THEN Unset
    ELSE Wrap(num * UnitLength[unit])

\* parseSince accepts it.
SinceParses(since) ==
    CASE since.form \in {"none", "time"} -> TRUE
      [] since.form = "duration" -> parseDuration(since.num, since.unit) # Unset
      [] OTHER -> FALSE

\* The head of the handler: bad is answered 400, panic is a division by zero that
\* Recoverer turns into a 500, query goes to the store with an offset. The page is
\* looked at before since.
Parse(limit, page, since) ==
    LET l == EffectiveLimit(limit)
        query(offset) == IF SinceParses(since) THEN [kind |-> "query", offset |-> offset]
                                               ELSE [kind |-> "bad", offset |-> 0] IN
    IF page = Unset THEN query(0)
    ELSE IF page < 1 THEN [kind |-> "bad", offset |-> 0]
    ELSE IF page = 1 THEN query(0)
    ELSE IF l = 0 THEN [kind |-> "panic", offset |-> 0]
    ELSE IF page - 1 > Quotient(MaxInt32, l) THEN [kind |-> "bad", offset |-> 0]
    ELSE query(PageOffset(page, l))

clampLimit(l) == IF l <= 0 THEN Default ELSE IF l > Most THEN Most ELSE l

\* Any dry_run parameter other than true asks for false.
DryRunWanted(param) == param = "true"

\* buildExecutionWhere and the created_at clause the store appends: the rows that the
\* two queries are about. oldest is the last place in the order that since admits.
Where(rows, filter, oldest) ==
    {k \in DOMAIN rows :
        /\ filter.status # Unset => rows[k] = filter.status
        /\ filter.dryRun # Unset => (k \in DryRuns <=> DryRunWanted(filter.dryRun))
        /\ k <= oldest}

\* SELECT ... ORDER BY ... LIMIT l OFFSET offset
Slice(table, offset, l) ==
    {k \in table : Cardinality({j \in table : j < k}) \in offset .. offset + l - 1}

\* The page number that an answer reports.
PageOf(offset, l) == offset \div l + 1

\* Mutant: the last row is not counted as more.
HasMoreOffByOne(offset, n, total) == offset + n + 1 < total

HasMore(offset, n, total) == offset + n < total

-----------------------------------------------------------------------------
(* A caller walks the pages.                                               *)

VARIABLES
    rows,      \* the table: rows[k] is the status of row k
    limit, page,    \* the parameters of the walk's next request
    filter,    \* the walk's other parameters
    cut,       \* the last place in the order that since admits now
    oldest,    \* the place it admitted when the current request was parsed
    pc,        \* count, select: the store's two queries; done: the walk is over
    total,     \* the answer to SELECT COUNT
    got,       \* the rows received so far
    last,      \* the kind of the last answer, "none" before the first
    stayed,    \* history: the rows that have matched status and dry_run from the start
    torn,      \* history: a matching row appeared between the two queries
    left       \* history: a row that matched no longer does

walkVars == <<limit, page, filter, pc, total, got, last, oldest>>
histVars == <<stayed, torn, left>>
vars == <<rows, cut, walkVars, histVars>>

Init ==
    /\ \E present \in SUBSET Keys : rows \in [present -> RowStatuses]
    /\ limit \in Limits
    /\ page = 1
    /\ filter \in Filters
    /\ cut \in IF filter.since.form \in {"time", "duration"} THEN Keys ELSE {Max(Keys)}
    /\ oldest = cut
    /\ pc = "count"
    /\ total = 0
    /\ got = {}
    /\ last = "none"
    /\ stayed = Where(rows, filter, Max(Keys))
    /\ torn = FALSE
    /\ left = FALSE

\* The request is parsed, which turns a duration into a time; a good one runs SELECT COUNT.
Count ==
    /\ pc = "count"
    /\ last' = Parse(limit, page, filter.since).kind
    /\ oldest' = cut
    /\ IF last' = "query"
       THEN pc' = "select" /\ total' = Cardinality(Where(rows, filter, cut))
       ELSE pc' = "done" /\ UNCHANGED total
    /\ torn' = FALSE
    /\ UNCHANGED <<rows, cut, limit, page, filter, got, stayed, left>>

\* The second query, and the answer. The caller asks for the page after the one it
\* asked for, as long as there is more.
Select ==
    LET offset == Parse(limit, page, filter.since).offset
        items == Slice(Where(rows, filter, oldest), offset, clampLimit(EffectiveLimit(limit))) IN
    /\ pc = "select"
    /\ got' = got \cup items
    /\ IF HasMore(offset, Cardinality(items), total)
       THEN pc' = "count" /\ page' = page + 1
       ELSE pc' = "done" /\ UNCHANGED page
    /\ UNCHANGED <<rows, cut, limit, filter, total, last, oldest, histVars>>

\* Keeps the history when the table changes.
Note(new) ==
    LET before == Where(rows, filter, Max(Keys))
        after == Where(new, filter, Max(Keys)) IN
    /\ stayed' = stayed \cap after
    /\ torn' = (torn \/ (pc = "select" /\ ~(after \subseteq before)))
    /\ left' = (left \/ ~(before \subseteq after))

\* Another request inserts a row. Its created_at was read before the insert, on any
\* replica, so it may sort anywhere.
Insert(k) ==
    LET new == [j \in DOMAIN rows \cup {k} |-> IF j = k THEN "pending" ELSE rows[j]] IN
    /\ pc # "done"
    /\ k \notin DOMAIN rows
    /\ rows' = new
    /\ Note(new)
    /\ UNCHANGED <<cut, walkVars>>

\* A worker claims an execution or records its result.
Progress(k) ==
    LET new == [rows EXCEPT ![k] = IF @ = "pending" THEN "running" ELSE "completed"] IN
    /\ pc # "done"
    /\ k \in DOMAIN rows /\ rows[k] # "completed"
    /\ rows' = new
    /\ Note(new)
    /\ UNCHANGED <<cut, walkVars>>

\* Time passes: a duration admits fewer rows.
Tick ==
    /\ pc # "done"
    /\ filter.since.form = "duration"
    /\ cut > 0
    /\ cut' = cut - 1
    /\ UNCHANGED <<rows, walkVars, histVars>>

Next == Count \/ Select \/ Tick \/ \E k \in Keys : Insert(k) \/ Progress(k)

Spec == Init /\ [][Next]_vars

-----------------------------------------------------------------------------
(* Properties.                                                             *)

\* The type of every variable.
TypeOK ==
    /\ DOMAIN rows \subseteq Keys /\ got \subseteq DOMAIN rows
    /\ \A k \in DOMAIN rows : rows[k] \in RowStatuses
    /\ limit \in Limits /\ filter \in Filters
    /\ page \in Nat \ {0}
    /\ cut \in Int /\ oldest \in Int
    /\ pc \in {"count", "select", "done"}
    /\ total \in Nat
    /\ stayed \subseteq DOMAIN rows
    /\ torn \in BOOLEAN /\ left \in BOOLEAN
    /\ last \in {"none", "query", "bad", "panic"}

\* The parameters that the OpenAPI description admits.
Documented(l) == l = Unset \/ l \in 1..Most

\* A walk shows no row that its parameters exclude all along, although the store builds
\* the created_at clause apart from the others and runs two queries with them. With a
\* documented limit it ends with every row that matched from its start to its last
\* request: inserts only push rows to later pages, and a sliding since drops the last
\* ones. There are two exceptions: an insert between COUNT and SELECT of the last page,
\* whose has_more is computed from the older total, and a filter on status, when a row
\* on an earlier page leaves it and the rest move up.
WalkIsExact ==
    /\ \A k \in got :
          /\ filter.dryRun = "true" => k \in DryRuns
          /\ filter.dryRun = "false" => k \notin DryRuns
          /\ filter.since.form = "time" => k <= cut
    /\ pc = "done" /\ last = "query" /\ Documented(limit) =>
          \/ {k \in stayed : k <= oldest} \subseteq got
          \/ torn
          \/ left /\ filter.status # Unset

\* With documented parameters no request panics or is refused before the overflow
\* bound, and the page an answer reports is the page that was asked for, although
\* it is recomputed from the offset and the clamped limit.
DocumentedPagesAnswered ==
    \A l \in Limits, p \in Pages :
        LET answer == Parse(l, p, [form |-> "none"]) IN
        Documented(l) /\ p # Unset /\ p > 0 =>
            \/ answer.kind = "query" /\ PageOf(answer.offset, clampLimit(EffectiveLimit(l))) = p
            \/ answer.kind = "bad" /\ (p - 1) > MaxInt32 \div EffectiveLimit(l)

\* Asking for a longer time never shows less: a duration that parseSince accepts is
\* positive and reaches no further back than any longer one it accepts, up to the
\* largest that an int64 of nanoseconds holds.
LongerSinceReachesFurther ==
    LET length(num, unit) == num * UnitLength[unit]
        since == filter.since
        d == parseDuration(since.num, since.unit) IN
    pc = "count" /\ since.form = "duration" /\ d # Unset =>
        /\ d > 0
        /\ \A unit \in DOMAIN UnitLength, num \in 1..MaxDuration :
              LET e == parseDuration(num, unit) IN
              e # Unset /\ length(since.num, since.unit) <= length(num, unit) => d <= e

\* The inductive strengthening of WalkIsExact. The last row that the request at hand may
\* show, and the rows that the query puts before row k.
Reach == IF pc = "select" THEN oldest ELSE cut
Ahead(k) == {j \in Where(rows, filter, Max(Keys)) : j < k}

\* Only a duration slides, and towards fewer rows.
SinceInv == cut <= oldest /\ (filter.since.form # "duration" => cut = oldest)

\* What was shown is not excluded by what cannot change.
ShownInv ==
    \A k \in got :
        /\ filter.dryRun # Unset => (k \in DryRuns <=> DryRunWanted(filter.dryRun))
        /\ filter.since.form = "time" => k <= cut

\* Between the queries the total is no less than what there is to select, unless torn.
CountInv ==
    pc = "select" =>
        /\ last = "query" /\ Parse(limit, page, filter.since).kind = "query"
        /\ ~torn => Cardinality(Where(rows, filter, oldest)) <= total

\* A row that stayed has been shown, or is still on this page or a later one; and at the
\* end there is no later one.
CoverInv ==
    Documented(limit) /\ ~(left /\ filter.status # Unset) =>
        /\ pc # "done" =>
              \A k \in stayed : k <= Reach =>
                  k \in got \/ Cardinality(Ahead(k)) >= (page - 1) * EffectiveLimit(limit)
        /\ pc = "done" /\ last = "query" => {k \in stayed : k <= oldest} \subseteq got \/ torn

WalkInv ==
    /\ TypeOK
    /\ stayed \subseteq Where(rows, filter, Max(Keys))
    /\ SinceInv
    /\ ShownInv
    /\ CountInv
    /\ CoverInv
=============================================================================
