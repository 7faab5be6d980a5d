---------------------------- MODULE PagingProofs ----------------------------
(***************************************************************************)
(* Proofs about the two reads that come in pages: the lists of executions, *)
(* for any table, requests and walks (WalkInv), and the aws-get action,    *)
(* for any account, requests and page size (ReadInv). Both rest on the     *)
(* place that a row or an object has among those that are left.            *)
(***************************************************************************)
EXTENDS Listing, AWSReads, TLAPS, FiniteSetTheorems

-----------------------------------------------------------------------------
(* Sets of numbers, and the place of a number in one.                      *)

\* A set of natural numbers has a least one.
LEMMA LeastExists ==
  ASSUME NEW T, T \subseteq Nat, T # {}
  PROVE  \E x \in T : \A y \in T : x <= y
  <1>1. PICK x \in T : \A y \in T : ~(<<y, x>> \in OpToRel(<, Nat))
    BY WFMin, NatLessThanWellFounded
  <1>2. \A y \in T : ~(y < x)
    BY <1>1 DEF OpToRel
  <1> QED
    BY <1>2

\* Of two rows the later one has more rows before it.
LEMMA PlaceGrows ==
  ASSUME NEW S, IsFiniteSet(S), S \subseteq Int, NEW k \in S, NEW m \in S, k < m
  PROVE  /\ Cardinality({j \in S : j < k}) \in Nat
         /\ Cardinality({j \in S : j < m}) \in Nat
         /\ Cardinality({j \in S : j < k}) < Cardinality({j \in S : j < m})
  <1> DEFINE A == {j \in S : j < k}
             B == {j \in S : j < m}
  <1>a. ASSUME NEW j \in S, j < k PROVE j < m
    <2>1. j \in Int /\ k \in Int /\ m \in Int
      OBVIOUS
    <2> QED
      BY <1>a, <2>1
  <1>b. A \in SUBSET B /\ B \in SUBSET S
    BY <1>a
  <1>1. IsFiniteSet(B) /\ A \in SUBSET B
    BY <1>b, FS_Subset
  <1>2. k \in B /\ k \notin A
    OBVIOUS
  <1>3. IsFiniteSet(A) /\ Cardinality(A) <= Cardinality(B) /\ Cardinality(A) # Cardinality(B)
    BY <1>1, <1>2, FS_Subset
  <1>4. Cardinality(A) \in Nat /\ Cardinality(B) \in Nat
    BY <1>1, <1>3, FS_CardinalityType
  <1> QED
    BY <1>3, <1>4

\* A finite set of numbers has a greatest one.
LEMMA GreatestExists ==
  ASSUME NEW S, IsFiniteSet(S), S \subseteq Int, S # {}
  PROVE  Max(S) \in S /\ \A y \in S : y <= Max(S)
  <1> DEFINE After(k) == {j \in S : j > k}
             T == {Cardinality(After(k)) : k \in S}
  <1>1. \A k \in S : IsFiniteSet(After(k)) /\ Cardinality(After(k)) \in Nat
    BY FS_Subset, FS_CardinalityType
  <1>2. PICK x \in T : \A y \in T : x <= y
    <2>1. T \subseteq Nat /\ T # {}
      BY <1>1
    <2> HIDE DEF T
    <2> QED
      BY <2>1, LeastExists
  <1>3. PICK k \in S : x = Cardinality(After(k))
    OBVIOUS
  <1>4. \A m \in S : m <= k
    <2> SUFFICES ASSUME NEW m \in S, m > k PROVE FALSE
      OBVIOUS
    <2>a. ASSUME NEW j \in S, j > m PROVE j > k
      <3>1. j \in Int /\ k \in Int /\ m \in Int
        OBVIOUS
      <3> QED
        BY <2>a, <3>1
    <2>1. After(m) \in SUBSET After(k) /\ m \in After(k) /\ m \notin After(m)
      <3>1. m \in Int /\ ~(m > m)
        OBVIOUS
      <3> QED
        BY <2>a, <3>1
    <2>2. Cardinality(After(m)) <= Cardinality(After(k))
             /\ Cardinality(After(m)) # Cardinality(After(k))
      BY <1>1, <2>1, FS_Subset
    <2>3. Cardinality(After(m)) \in T
      OBVIOUS
    <2> HIDE DEF T, After
    <2> QED
      BY <1>1, <1>2, <1>3, <2>2, <2>3
  <1> HIDE DEF T, After
  <1> QED
    BY <1>4 DEF Max

\* The keys of the table end somewhere.
LEMMA LastKey == Max(Keys) \in Keys /\ \A k \in Keys : k <= Max(Keys)
  BY ListingAssumption, GreatestExists

\* LIMIT: a page holds no more rows than were asked for.
LEMMA SliceFits ==
  ASSUME NEW S, IsFiniteSet(S), S \subseteq Int, NEW offset \in Nat, NEW l \in Nat
  PROVE  Cardinality(Slice(S, offset, l)) \in Nat /\ Cardinality(Slice(S, offset, l)) <= l
  <1> DEFINE place == [k \in Slice(S, offset, l) |-> Cardinality({j \in S : j < k})]
  <1>1. place \in [Slice(S, offset, l) -> offset .. offset + l - 1]
    BY DEF Slice
  <1>2. ASSUME NEW k \in Slice(S, offset, l), NEW m \in Slice(S, offset, l), k # m
        PROVE  place[k] # place[m]
    <2>1. k \in S /\ m \in S
      BY DEF Slice
    <2>2. /\ place[k] = Cardinality({j \in S : j < k})
          /\ place[m] = Cardinality({j \in S : j < m})
      OBVIOUS
    <2> HIDE DEF place
    <2>3. CASE k < m
      <3>1. place[k] \in Nat /\ place[m] \in Nat /\ place[k] < place[m]
        <4>1. /\ Cardinality({j \in S : j < k}) \in Nat
              /\ Cardinality({j \in S : j < m}) \in Nat
              /\ Cardinality({j \in S : j < k}) < Cardinality({j \in S : j < m})
          BY <2>1, <2>3, PlaceGrows
        <4> QED
          BY <2>2, <4>1
      <3> QED
        BY <3>1
    <2>4. CASE m < k
      <3>1. place[m] \in Nat /\ place[k] \in Nat /\ place[m] < place[k]
        <4>1. /\ Cardinality({j \in S : j < m}) \in Nat
              /\ Cardinality({j \in S : j < k}) \in Nat
              /\ Cardinality({j \in S : j < m}) < Cardinality({j \in S : j < k})
          BY <2>1, <2>4, PlaceGrows
        <4> QED
          BY <2>2, <4>1
      <3> QED
        BY <3>1
    <2>5. k < m \/ m < k
      <3>1. k \in Int /\ m \in Int
        BY <2>1
      <3> QED
        BY <1>2, <3>1
    <2> QED
      BY <2>3, <2>4, <2>5
  <1> HIDE DEF place
  <1>3. place \in Injection(Slice(S, offset, l), offset .. offset + l - 1)
    BY <1>1, <1>2 DEF Injection, IsInjective
  <1>4. /\ IsFiniteSet(offset .. offset + l - 1)
        /\ Cardinality(offset .. offset + l - 1) = l
    BY FS_Interval
  <1>5. /\ IsFiniteSet(Slice(S, offset, l))
        /\ Cardinality(Slice(S, offset, l)) <= Cardinality(offset .. offset + l - 1)
    BY <1>3, <1>4, FS_Injection
  <1> QED
    BY <1>4, <1>5, FS_CardinalityType

-----------------------------------------------------------------------------
(* The arithmetic of pages and of since.                                   *)

\* A request's limit is a number, and a documented one is not changed by the store.
LEMMA LimitTyped ==
  ASSUME NEW l \in Limits
  PROVE  /\ EffectiveLimit(l) \in Int
         /\ clampLimit(EffectiveLimit(l)) \in Nat
         /\ Documented(l) => /\ EffectiveLimit(l) \in Nat /\ EffectiveLimit(l) > 0
                             /\ clampLimit(EffectiveLimit(l)) = EffectiveLimit(l)
  <1>1. Default \in Nat /\ Most \in Int /\ 1 <= Default /\ Default <= Most
    <2>1. Default \in 1..Most
      BY ListingAssumption
    <2> QED
      BY <2>1, ListingAssumption
  <1>2. CASE l = Unset
    BY <1>1, <1>2 DEF EffectiveLimit, clampLimit
  <1>3. CASE l # Unset
    <2>1. l \in Int
      BY <1>3, ListingAssumption
    <2> QED
      BY <1>1, <1>3, <2>1 DEF EffectiveLimit, clampLimit, Documented
  <1> QED
    BY <1>2, <1>3

\* Where the page that is queried begins.
LEMMA OffsetOfPage ==
  ASSUME NEW l \in Limits, NEW p \in Nat \ {0}, NEW since,
         Parse(l, p, since).kind = "query"
  PROVE  /\ Parse(l, p, since).offset \in Int
         /\ Documented(l) => Parse(l, p, since).offset = (p - 1) * EffectiveLimit(l)
  <1>1. p # Unset /\ p \in Int /\ EffectiveLimit(l) \in Int
    BY ListingAssumption, LimitTyped
  <1>2. CASE p = 1
    <2>1. Parse(l, p, since).offset = 0
      BY <1>1, <1>2 DEF Parse
    <2>2. (p - 1) * EffectiveLimit(l) = 0
      BY <1>1, <1>2
    <2> QED
      BY <2>1, <2>2
  <1>3. CASE p # 1
    <2>1. Parse(l, p, since).offset = (p - 1) * EffectiveLimit(l)
      BY <1>1, <1>3 DEF Parse, PageOffset
    <2> QED
      BY <1>1, <2>1
  <1> QED
    BY <1>2, <1>3

\* A number of units that passes the check of parseSince fits, so its product is not
\* wrapped around.
LEMMA DurationExact ==
  ASSUME NEW num \in Int, NEW unit \in DOMAIN UnitLength, parseDuration(num, unit) # Unset
  PROVE  /\ parseDuration(num, unit) = num * UnitLength[unit]
         /\ num * UnitLength[unit] \in Nat /\ num * UnitLength[unit] > 0
  <1> DEFINE u == UnitLength[unit]
             x == num * u
  <1>1. MaxDuration \in Nat /\ u \in Nat /\ u > 0
    BY ListingAssumption
  <1>2. num > 0 /\ num <= MaxDuration \div u /\ parseDuration(num, unit) = Wrap(x)
    BY <1>1 DEF parseDuration
  <1> HIDE DEF u
  <1>3. x \in Nat /\ x > 0 /\ x <= MaxDuration
    <2>1. MaxDuration = u * (MaxDuration \div u) + (MaxDuration % u)
             /\ (MaxDuration % u) \in Nat /\ (MaxDuration \div u) \in Nat
      BY <1>1
    <2>2. num \in Nat
      BY <1>2
    <2>3. num * u <= u * (MaxDuration \div u)
      BY <1>1, <1>2, <2>1, <2>2
    <2> QED
      BY <1>1, <1>2, <2>1, <2>2, <2>3
  <1> HIDE DEF x
  <1>4. Wrap(x) = x
    <2>1. /\ x + MaxDuration + 1 \in Nat
          /\ 2 * (MaxDuration + 1) \in Nat
          /\ x + MaxDuration + 1 < 2 * (MaxDuration + 1)
      BY <1>1, <1>3
    <2>2. (x + MaxDuration + 1) % (2 * (MaxDuration + 1)) = x + MaxDuration + 1
      BY <2>1
    <2> QED
      BY <1>1, <1>3, <2>2 DEF Wrap
  <1> QED
    BY <1>2, <1>3, <1>4 DEF x, u

\* Every page number that the description admits is answered with that page, or refused
\* when its offset would not fit an int32, for every limit from 1 to the maximum, every
\* default and every page: the page reported is recomputed from the clamped limit.
THEOREM EveryPageAnswered == DocumentedPagesAnswered
  <1> SUFFICES ASSUME NEW l \in Limits, NEW p \in Pages, Documented(l), p # Unset, p > 0,
                      NEW answer, answer = Parse(l, p, [form |-> "none"])
               PROVE  \/ /\ answer.kind = "query"
                         /\ PageOf(answer.offset, clampLimit(EffectiveLimit(l))) = p
                      \/ answer.kind = "bad" /\ (p - 1) > MaxInt32 \div EffectiveLimit(l)
    BY DEF DocumentedPagesAnswered
  <1> DEFINE n == EffectiveLimit(l)
  <1>1. p \in Int /\ p \in Nat \ {0}
    BY ListingAssumption
  <1>2. n \in Nat /\ n > 0 /\ n # 0 /\ clampLimit(n) = n /\ MaxInt32 \in Nat
    BY LimitTyped, ListingAssumption
  <1>3. SinceParses([form |-> "none"])
    BY DEF SinceParses
  <1>4. Quotient(MaxInt32, n) = MaxInt32 \div n
    BY <1>2 DEF Quotient
  <1>5. CASE p > 1 /\ p - 1 > MaxInt32 \div n
    BY <1>1, <1>2, <1>4, <1>5 DEF Parse
  <1>6. CASE ~(p > 1 /\ p - 1 > MaxInt32 \div n)
    <2>1. answer.kind = "query"
      BY <1>1, <1>2, <1>3, <1>4, <1>6 DEF Parse
    <2>2. answer.offset = (p - 1) * n
      BY <1>1, <2>1, OffsetOfPage
    <2>3. ((p - 1) * n) \div n = p - 1
      <3>1. p - 1 \in Nat
        BY <1>1
      <3> HIDE DEF n
      <3> QED
        BY <1>2, <3>1
    <2> HIDE DEF n
    <2>4. PageOf(answer.offset, clampLimit(n)) = p
      BY <1>1, <1>2, <2>2, <2>3 DEF PageOf
    <2> QED
      BY <2>1, <2>4 DEF n
  <1> QED
    BY <1>5, <1>6

-----------------------------------------------------------------------------
(* The walk. One lemma per action: each preserves WalkInv.                 *)

\* The rows a query is about are keys, finitely many.
LEMMA WhereFinite ==
  ASSUME NEW rs, NEW f, NEW b, DOMAIN rs \subseteq Keys
  PROVE  /\ Where(rs, f, b) \subseteq Keys /\ Where(rs, f, b) \subseteq Int
         /\ Where(rs, f, b) \subseteq DOMAIN rs
         /\ IsFiniteSet(Where(rs, f, b)) /\ Cardinality(Where(rs, f, b)) \in Nat
  <1>1. Where(rs, f, b) \in SUBSET Keys /\ Where(rs, f, b) \subseteq DOMAIN rs
    BY DEF Where
  <1>2. IsFiniteSet(Where(rs, f, b))
    BY <1>1, FS_Subset, ListingAssumption
  <1> QED
    BY <1>1, <1>2, FS_CardinalityType, ListingAssumption

\* The walk before its first request.
LEMMA WalkInit == Init => WalkInv
  <1> SUFFICES ASSUME Init PROVE WalkInv
    OBVIOUS
  <1>1. PICK present \in SUBSET Keys : rows \in [present -> RowStatuses]
    BY DEF Init
  <1>2. DOMAIN rows \subseteq Keys /\ \A k \in DOMAIN rows : rows[k] \in RowStatuses
    BY <1>1
  <1>3. cut \in Keys /\ cut \in Int /\ oldest = cut
    BY LastKey, ListingAssumption DEF Init
  <1>4. stayed = Where(rows, filter, Max(Keys)) /\ stayed \subseteq DOMAIN rows
    BY <1>2, WhereFinite DEF Init
  <1>5. TypeOK
    <2>1. torn \in BOOLEAN /\ left \in BOOLEAN
      BY Zenon DEF Init
    <2>2. page = 1 /\ total = 0 /\ got = {} /\ pc = "count" /\ last = "none"
             /\ limit \in Limits /\ filter \in Filters
      BY DEF Init
    <2> QED
      BY <1>2, <1>3, <1>4, <2>1, <2>2 DEF TypeOK
  <1>6. SinceInv /\ ShownInv /\ CountInv
    BY <1>3 DEF Init, SinceInv, ShownInv, CountInv
  <1>7. CoverInv
    <2> SUFFICES ASSUME Documented(limit), NEW k \in stayed
                 PROVE  Cardinality(Ahead(k)) >= (page - 1) * EffectiveLimit(limit)
      BY DEF CoverInv, Init
    <2>1. EffectiveLimit(limit) \in Int /\ page = 1
      BY LimitTyped DEF Init
    <2>2. (page - 1) * EffectiveLimit(limit) = 0
      BY <2>1
    <2>3. Ahead(k) \in SUBSET Where(rows, filter, Max(Keys))
      BY DEF Ahead
    <2>4. Cardinality(Ahead(k)) \in Nat
      BY <1>2, <2>3, WhereFinite, FS_Subset, FS_CardinalityType
    <2> QED
      BY <2>2, <2>4
  <1> QED
    BY <1>4, <1>5, <1>6, <1>7 DEF WalkInv

\* Parsing and counting: the rows in reach stay the same.
LEMMA WalkCount == WalkInv /\ Count => WalkInv'
  <1> SUFFICES ASSUME WalkInv, Count PROVE WalkInv'
    OBVIOUS
  <1>0. /\ UNCHANGED <<rows, cut, limit, page, filter, got, stayed, left>>
        /\ pc = "count" /\ oldest' = cut /\ torn' = FALSE
        /\ last' = Parse(limit, page, filter.since).kind
    BY DEF Count
  <1>1. Cardinality(Where(rows, filter, cut)) \in Nat
    BY WhereFinite DEF WalkInv, TypeOK
  <1>2. last' \in {"none", "query", "bad", "panic"}
    BY <1>0 DEF Parse
  <1>3. \/ last' = "query" /\ pc' = "select" /\ total' = Cardinality(Where(rows, filter, cut))
        \/ last' # "query" /\ pc' = "done" /\ total' = total
    BY DEF Count
  <1>4. TypeOK'
    BY <1>0, <1>1, <1>2, <1>3 DEF WalkInv, TypeOK
  <1>5. stayed' \subseteq Where(rows', filter', Max(Keys))
    BY <1>0 DEF WalkInv
  <1>6. SinceInv'
    BY <1>0 DEF WalkInv, TypeOK, SinceInv
  <1>7. ShownInv'
    BY <1>0 DEF WalkInv, ShownInv
  <1>8. CountInv'
    BY <1>0, <1>1, <1>3 DEF WalkInv, CountInv
  <1>9. CoverInv'
    <2>1. CASE pc' = "done"
      BY <1>3, <2>1 DEF CoverInv
    <2>2. CASE pc' = "select"
      <3>1. Reach' = Reach
        BY <1>0, <2>2 DEF Reach
      <3>2. \A k : Ahead(k)' = Ahead(k)
        BY <1>0 DEF Ahead
      <3> QED
        BY <1>0, <2>2, <3>1, <3>2 DEF WalkInv, CoverInv
    <2> QED
      BY <1>3, <2>1, <2>2
  <1> QED
    BY <1>4, <1>5, <1>6, <1>7, <1>8, <1>9 DEF WalkInv

\* Time passes: fewer rows are in reach of the next request.
LEMMA WalkTick == WalkInv /\ Tick => WalkInv'
  <1> SUFFICES ASSUME WalkInv, Tick PROVE WalkInv'
    OBVIOUS
  <1>0. /\ UNCHANGED <<rows, limit, page, filter, pc, total, got, last, oldest>>
        /\ UNCHANGED <<stayed, torn, left>>
        /\ pc # "done" /\ filter.since.form = "duration" /\ cut' = cut - 1
        /\ cut \in Int /\ cut' \in Int /\ oldest \in Int /\ cut' <= cut
    BY DEF Tick, walkVars, histVars, WalkInv, TypeOK
  <1>1. TypeOK' /\ stayed' \subseteq Where(rows', filter', Max(Keys))
    BY <1>0 DEF WalkInv, TypeOK
  <1>2. SinceInv'
    BY <1>0 DEF WalkInv, SinceInv
  <1>3. ShownInv'
    BY <1>0 DEF WalkInv, ShownInv
  <1>4. CountInv'
    BY <1>0 DEF WalkInv, CountInv
  <1>5. CoverInv'
    <2>1. Reach' \in Int /\ Reach \in Int /\ Reach' <= Reach
      BY <1>0 DEF Reach
    <2>2. \A k : Ahead(k)' = Ahead(k)
      BY <1>0 DEF Ahead
    <2>3. \A k \in stayed : k \in Int
      BY ListingAssumption DEF WalkInv, TypeOK
    <2>4. \A k \in stayed : k <= Reach' => k <= Reach
      BY <2>1, <2>3
    <2> QED
      BY <1>0, <2>2, <2>4 DEF WalkInv, CoverInv
  <1> QED
    BY <1>1, <1>2, <1>3, <1>4, <1>5 DEF WalkInv

\* Selecting a page. What stayed and lies on this page is shown now, the rest lies on later
\* pages; on the last page there is no rest, since a full page ends where the next begins.
LEMMA WalkSelect == WalkInv /\ Select => WalkInv'
  <1> SUFFICES ASSUME WalkInv, Select PROVE WalkInv'
    OBVIOUS
  <1> DEFINE offset == Parse(limit, page, filter.since).offset
             l == clampLimit(EffectiveLimit(limit))
             W == Where(rows, filter, oldest)
             items == Slice(W, offset, l)
  <1>0. /\ UNCHANGED <<rows, cut, limit, filter, total, last, oldest, stayed, torn, left>>
        /\ pc = "select" /\ got' = got \cup items
    BY DEF Select, histVars
  <1>1. \/ /\ HasMore(offset, Cardinality(items), total)
           /\ pc' = "count" /\ page' = page + 1
        \/ /\ ~HasMore(offset, Cardinality(items), total)
           /\ pc' = "done" /\ page' = page
    BY DEF Select
  <1>2. W \subseteq Int /\ W \subseteq DOMAIN rows /\ IsFiniteSet(W) /\ Cardinality(W) \in Nat
    BY WhereFinite DEF WalkInv, TypeOK
  <1>3. items \subseteq W
    BY DEF Slice
  <1>4. page \in Nat \ {0} /\ limit \in Limits /\ oldest \in Int /\ cut \in Int /\ total \in Nat
    BY DEF WalkInv, TypeOK
  <1>5. TypeOK'
    <2>1. page' \in Nat \ {0} /\ pc' \in {"count", "select", "done"}
      BY <1>1, <1>4
    <2>2. got' \subseteq DOMAIN rows'
      BY <1>0, <1>2, <1>3 DEF WalkInv, TypeOK
    <2> QED
      BY <1>0, <2>1, <2>2 DEF WalkInv, TypeOK
  <1>6. SinceInv' /\ stayed' \subseteq Where(rows', filter', Max(Keys))
    BY <1>0 DEF WalkInv, SinceInv
  <1>7. ShownInv'
    <2>1. \A k \in W :
             /\ filter.dryRun # Unset => (k \in DryRuns <=> DryRunWanted(filter.dryRun))
             /\ k <= oldest
      BY DEF Where
    <2>2. filter.since.form = "time" => cut = oldest
      BY DEF WalkInv, SinceInv
    <2> HIDE DEF items, W
    <2> QED
      BY <1>0, <1>3, <2>1, <2>2 DEF WalkInv, ShownInv
  <1>8. CountInv'
    BY <1>1 DEF CountInv
  <1>9. CoverInv'
    <2> SUFFICES ASSUME Documented(limit), ~(left /\ filter.status # Unset)
                 PROVE  /\ pc' # "done" =>
                              \A k \in stayed : k <= Reach' =>
                                \/ k \in got'
                                \/ Cardinality(Ahead(k)') >= (page' - 1) * EffectiveLimit(limit)
                        /\ pc' = "done" =>
                              {k \in stayed : k <= oldest} \subseteq got' \/ torn
      BY <1>0 DEF CoverInv
    <2>1. l = EffectiveLimit(limit) /\ l \in Nat /\ l > 0
      BY <1>4, LimitTyped
    <2>2. Parse(limit, page, filter.since).kind = "query"
      BY <1>0 DEF WalkInv, CountInv
    <2>3. offset = (page - 1) * l
      BY <1>4, <2>1, <2>2, OffsetOfPage
    <2>4. offset \in Nat /\ page * l = offset + l /\ (page + 1) - 1 = page
      <3>1. page - 1 \in Nat
        BY <1>4
      <3> HIDE DEF offset, l
      <3> QED
        BY <1>4, <2>1, <2>3, <3>1
    <2>5. Cardinality(items) \in Nat /\ Cardinality(items) <= l
      <3> HIDE DEF offset, l, W
      <3> QED
        BY <1>2, <2>1, <2>4, SliceFits
    \* Of the rows that stayed and are in reach, a page ahead are those not shown yet.
    <2>6. ASSUME NEW k \in stayed, k <= oldest
          PROVE  /\ k \in W /\ Ahead(k) = {j \in W : j < k}
                 /\ Cardinality(Ahead(k)) \in Nat
                 /\ k \in got' \/ Cardinality(Ahead(k)) >= offset + l
      <3>1. k \in Where(rows, filter, Max(Keys)) /\ k \in Int
        BY WhereFinite DEF WalkInv, TypeOK
      <3>2. k \in W
        BY <2>6, <3>1 DEF Where
      <3>3. \A j \in DOMAIN rows : j \in Int /\ j <= Max(Keys) /\ Max(Keys) \in Int
        BY LastKey, ListingAssumption DEF WalkInv, TypeOK
      <3>4. Ahead(k) = {j \in W : j < k}
        <4>1. \A j \in DOMAIN rows : j < k => j <= oldest
          BY <1>4, <2>6, <3>1, <3>3
        <4> QED
          BY <3>3, <4>1 DEF Ahead, Where
      <3>5. Cardinality({j \in W : j < k}) \in Nat
        <4>1. {j \in W : j < k} \in SUBSET W
          OBVIOUS
        <4> HIDE DEF W
        <4> QED
          BY <1>2, <4>1, FS_Subset, FS_CardinalityType
      <3>6. k \in got \/ Cardinality(Ahead(k)) >= offset
        BY <1>0, <2>1, <2>3, <2>6 DEF WalkInv, CoverInv, Reach
      <3>7. CASE k \notin got /\ Cardinality(Ahead(k)) < offset + l
        <4>1. Cardinality({j \in W : j < k}) \in offset .. offset + l - 1
          <5> HIDE DEF offset, l, W
          <5> QED
            BY <2>1, <2>4, <3>4, <3>5, <3>6, <3>7
        <4>2. k \in items
          BY <3>2, <4>1 DEF Slice
        <4> QED
          BY <1>0, <3>2, <3>4, <3>5, <4>2
      <3>8. CASE k \in got \/ ~(Cardinality(Ahead(k)) < offset + l)
        <4> HIDE DEF offset, l, W
        <4> QED
          BY <1>0, <2>1, <2>4, <3>2, <3>4, <3>5, <3>8
      <3> QED
        BY <3>7, <3>8
    <2>7. CASE pc' = "count"
      <3>1. page' = page + 1 /\ (page' - 1) * EffectiveLimit(limit) = offset + l
        BY <1>1, <2>1, <2>4, <2>7
      <3>2. Reach' = cut /\ cut <= oldest
        BY <1>0, <2>7 DEF Reach, WalkInv, SinceInv
      <3>3. \A k : Ahead(k)' = Ahead(k)
        BY <1>0 DEF Ahead
      <3>4. \A k \in stayed : k <= Reach' => k <= oldest
        <4>1. \A k \in stayed : k \in Int
          BY ListingAssumption DEF WalkInv, TypeOK
        <4> QED
          BY <1>4, <3>2, <4>1
      <3> HIDE DEF offset, l
      <3> QED
        BY <2>6, <2>7, <3>1, <3>3, <3>4
    <2>8. CASE pc' = "done"
      <3>1. torn \/ Cardinality(W) <= total
        BY <1>0 DEF WalkInv, CountInv
      <3>2. ~(offset + Cardinality(items) < total)
        BY <1>1, <2>8 DEF HasMore
      <3>3. ASSUME NEW k \in stayed, k <= oldest, ~torn PROVE k \in got'
        <4>1. /\ k \in W /\ Ahead(k) = {j \in W : j < k}
              /\ Cardinality(Ahead(k)) \in Nat
              /\ k \in got' \/ Cardinality(Ahead(k)) >= offset + l
          BY <2>6, <3>3
        <4> HIDE DEF W, items, offset, l
        <4>2. Ahead(k) \in SUBSET W /\ Ahead(k) # W
          <5>1. k \in Int /\ ~(k < k)
            BY <1>2, <4>1
          <5> QED
            BY <4>1, <5>1
        <4>3. Cardinality(Ahead(k)) < Cardinality(W)
          <5>1. Cardinality(Ahead(k)) <= Cardinality(W) /\ Cardinality(W) # Cardinality(Ahead(k))
            BY <1>2, <4>2, FS_Subset
          <5> QED
            BY <1>2, <4>1, <5>1
        <4> QED
          BY <1>2, <1>4, <2>1, <2>4, <2>5, <3>1, <3>2, <3>3, <4>1, <4>3
      <3> QED
        BY <2>8, <3>3
    <2> QED
      BY <1>1, <2>7, <2>8
  <1> QED
    BY <1>5, <1>6, <1>7, <1>8, <1>9 DEF WalkInv

\* The table changes under the walk. Unless a row leaves a status filter, the rows ahead
\* of each row only become more; and unless a row appears between the queries, there is
\* no more to select than was counted.
LEMMA WalkTable ==
  ASSUME WalkInv, NEW new, rows' = new, Note(new), pc # "done", UNCHANGED <<cut, walkVars>>,
         DOMAIN rows \subseteq DOMAIN new, DOMAIN new \subseteq Keys,
         \A k \in DOMAIN new : new[k] \in RowStatuses
  PROVE  WalkInv'
  <1> DEFINE before == Where(rows, filter, Max(Keys))
             after == Where(new, filter, Max(Keys))
  <1>0. /\ UNCHANGED <<cut, limit, page, filter, pc, total, got, last, oldest>>
        /\ stayed' = stayed \cap after
        /\ torn' = (torn \/ (pc = "select" /\ ~(after \subseteq before)))
        /\ left' = (left \/ ~(before \subseteq after))
    BY DEF Note, walkVars
  <1>1. after \subseteq DOMAIN new
    BY WhereFinite
  <1>2. TypeOK'
    <2>1. torn' \in BOOLEAN /\ left' \in BOOLEAN
      <3> HIDE DEF before, after
      <3> QED
        BY <1>0, Zenon DEF WalkInv, TypeOK
    <2>2. got' \subseteq DOMAIN rows' /\ stayed' \subseteq DOMAIN rows'
      BY <1>0, <1>1 DEF WalkInv, TypeOK
    <2> HIDE DEF before, after
    <2> QED
      BY <1>0, <2>1, <2>2 DEF WalkInv, TypeOK
  <1>3. stayed' \subseteq Where(rows', filter', Max(Keys))
    BY <1>0
  <1>4. SinceInv' /\ ShownInv'
    BY <1>0 DEF WalkInv, SinceInv, ShownInv
  <1>5. CountInv'
    <2> SUFFICES ASSUME pc = "select", ~torn'
                 PROVE  Cardinality(Where(new, filter, oldest)) <= total
      BY <1>0 DEF WalkInv, CountInv
    <2>1. ~torn /\ after \subseteq before
      BY <1>0
    <2>2. \A k \in DOMAIN new : k <= Max(Keys)
      BY LastKey
    <2>3. Where(new, filter, oldest) \in SUBSET Where(rows, filter, oldest)
      BY <2>1, <2>2 DEF Where
    <2>4. /\ IsFiniteSet(Where(rows, filter, oldest))
          /\ Cardinality(Where(rows, filter, oldest)) \in Nat
          /\ Cardinality(Where(new, filter, oldest)) \in Nat
      BY WhereFinite DEF WalkInv, TypeOK
    <2>5. Cardinality(Where(new, filter, oldest)) <= Cardinality(Where(rows, filter, oldest))
      BY <2>3, <2>4, FS_Subset
    <2>6. Cardinality(Where(rows, filter, oldest)) <= total /\ total \in Nat
      BY <2>1 DEF WalkInv, CountInv, TypeOK
    <2> QED
      BY <2>4, <2>5, <2>6
  <1>6. CoverInv'
    <2> SUFFICES ASSUME Documented(limit), ~(left' /\ filter.status # Unset),
                        NEW k \in stayed', k <= Reach, k \notin got
                 PROVE  Cardinality(Ahead(k)') >= (page - 1) * EffectiveLimit(limit)
      BY <1>0 DEF CoverInv, Reach
    <2>1. k \in stayed /\ k \in Int
      BY <1>0, ListingAssumption DEF WalkInv, TypeOK
    <2>2. ~(left /\ filter.status # Unset)
      BY <1>0
    <2>3. Cardinality(Ahead(k)) >= (page - 1) * EffectiveLimit(limit)
      BY <2>1, <2>2 DEF WalkInv, CoverInv
    <2>4. before \subseteq after
      <3>1. CASE filter.status # Unset
        BY <1>0, <3>1
      <3>2. CASE filter.status = Unset
        BY <3>2 DEF Where
      <3> QED
        BY <3>1, <3>2
    <2>5. Ahead(k)' = {j \in after : j < k} /\ Ahead(k) = {j \in before : j < k}
      BY <1>0 DEF Ahead
    <2>6. IsFiniteSet(after) /\ IsFiniteSet(before)
      BY WhereFinite DEF WalkInv, TypeOK
    <2> HIDE DEF before, after
    <2>7. Ahead(k) \in SUBSET Ahead(k)' /\ Ahead(k)' \in SUBSET after /\ Ahead(k) \in SUBSET before
      BY <2>4, <2>5
    <2>8. /\ IsFiniteSet(Ahead(k)') /\ IsFiniteSet(Ahead(k))
          /\ Cardinality(Ahead(k)') \in Nat /\ Cardinality(Ahead(k)) \in Nat
      BY <2>6, <2>7, FS_Subset, FS_CardinalityType
    <2>9. Cardinality(Ahead(k)) <= Cardinality(Ahead(k)')
      BY <2>7, <2>8, FS_Subset
    <2>10. (page - 1) * EffectiveLimit(limit) \in Int
      <3>1. page - 1 \in Int /\ EffectiveLimit(limit) \in Int
        BY LimitTyped DEF WalkInv, TypeOK
      <3> QED
        BY <3>1
    <2> QED
      BY <2>3, <2>8, <2>9, <2>10
  <1> QED
    BY <1>2, <1>3, <1>4, <1>5, <1>6 DEF WalkInv

\* The strengthening is an invariant.
THEOREM WalkInvariant == Spec => []WalkInv
  <1>1. WalkInv /\ [Next]_vars => WalkInv'
    <2> SUFFICES ASSUME WalkInv, [Next]_vars PROVE WalkInv'
      OBVIOUS
    <2>1. CASE UNCHANGED vars
      <3>1. /\ UNCHANGED <<rows, cut, limit, page, filter, pc, total, got, last, oldest>>
            /\ UNCHANGED <<stayed, torn, left>>
        BY <2>1 DEF vars, walkVars, histVars
      <3>2. Reach' = Reach /\ \A k : Ahead(k)' = Ahead(k)
        BY <3>1 DEF Reach, Ahead
      <3>3. TypeOK' /\ SinceInv' /\ ShownInv' /\ CountInv'
        BY <3>1 DEF WalkInv, TypeOK, SinceInv, ShownInv, CountInv
      <3> QED
        BY <3>1, <3>2, <3>3 DEF WalkInv, CoverInv
    <2>2. ASSUME NEW k \in Keys, Insert(k) PROVE WalkInv'
      <3> DEFINE new == [j \in DOMAIN rows \cup {k} |-> IF j = k THEN "pending" ELSE rows[j]]
      <3>1. rows' = new /\ Note(new) /\ pc # "done" /\ UNCHANGED <<cut, walkVars>>
        BY <2>2 DEF Insert
      <3>2. /\ DOMAIN rows \subseteq DOMAIN new /\ DOMAIN new \subseteq Keys
            /\ \A j \in DOMAIN new : new[j] \in RowStatuses
        BY DEF WalkInv, TypeOK, RowStatuses
      <3> HIDE DEF new
      <3> QED
        BY <3>1, <3>2, WalkTable
    <2>3. ASSUME NEW k \in Keys, Progress(k) PROVE WalkInv'
      <3> DEFINE new == [rows EXCEPT ![k] = IF @ = "pending" THEN "running" ELSE "completed"]
      <3>1. rows' = new /\ Note(new) /\ pc # "done" /\ UNCHANGED <<cut, walkVars>>
        BY <2>3 DEF Progress
      <3>2. /\ DOMAIN rows \subseteq DOMAIN new /\ DOMAIN new \subseteq Keys
            /\ \A j \in DOMAIN new : new[j] \in RowStatuses
        BY DEF WalkInv, TypeOK, RowStatuses
      <3> HIDE DEF new
      <3> QED
        BY <3>1, <3>2, WalkTable
    <2> QED
      BY <2>1, <2>2, <2>3, WalkCount, WalkSelect, WalkTick DEF Next
  <1> QED
    BY <1>1, WalkInit, PTL DEF Spec

\* A walk over the pages of GET /runs shows no excluded row and, with a documented limit,
\* every row that matched throughout, with the two exceptions that the property names:
\* for any number of rows, any limits and filters, and whatever is inserted, changed or
\* slides out of since between and during its requests.
THEOREM WalkShowsWhatMatched == Spec => []WalkIsExact
  <1>1. WalkInv => WalkIsExact
    <2> SUFFICES ASSUME WalkInv PROVE WalkIsExact
      OBVIOUS
    <2>1. Unset # "true" /\ Unset # "false"
      BY ListingAssumption
    <2>2. ASSUME NEW k \in got
          PROVE  /\ filter.dryRun = "true" => k \in DryRuns
                 /\ filter.dryRun = "false" => k \notin DryRuns
                 /\ filter.since.form = "time" => k <= cut
      BY <2>1 DEF WalkInv, ShownInv, DryRunWanted
    <2>3. pc = "done" /\ last = "query" /\ Documented(limit) =>
            \/ {k \in stayed : k <= oldest} \subseteq got
            \/ torn
            \/ left /\ filter.status # Unset
      BY DEF WalkInv, CoverInv
    <2> QED
      BY <2>2, <2>3 DEF WalkIsExact
  <1> QED
    BY <1>1, WalkInvariant, PTL

\* A longer since never reaches less far, for every number, unit and width of the
\* duration: the check that divides before it multiplies leaves nothing to wrap around.
THEOREM SinceIsMonotonic == Spec => []LongerSinceReachesFurther
  <1>1. WalkInv => LongerSinceReachesFurther
    <2> SUFFICES ASSUME WalkInv, filter.since.form = "duration",
                        parseDuration(filter.since.num, filter.since.unit) # Unset
                 PROVE  /\ parseDuration(filter.since.num, filter.since.unit) > 0
                        /\ \A unit \in DOMAIN UnitLength, num \in 1..MaxDuration :
                              /\ parseDuration(num, unit) # Unset
                              /\ filter.since.num * UnitLength[filter.since.unit]
                                    <= num * UnitLength[unit]
                              => parseDuration(filter.since.num, filter.since.unit)
                                    <= parseDuration(num, unit)
      BY DEF LongerSinceReachesFurther
    <2>1. filter.since.num \in Int /\ filter.since.unit \in DOMAIN UnitLength
      <3>1. filter \in FilterType
        BY ListingAssumption DEF WalkInv, TypeOK
      <3> QED
        BY <3>1 DEF FilterType
    <2>2. /\ parseDuration(filter.since.num, filter.since.unit)
                = filter.since.num * UnitLength[filter.since.unit]
          /\ parseDuration(filter.since.num, filter.since.unit) > 0
      BY <2>1, DurationExact
    <2>3. ASSUME NEW unit \in DOMAIN UnitLength, NEW num \in 1..MaxDuration,
                 parseDuration(num, unit) # Unset
          PROVE  parseDuration(num, unit) = num * UnitLength[unit]
      <3>1. num \in Int
        BY ListingAssumption
      <3> QED
        BY <2>3, <3>1, DurationExact
    <2> QED
      BY <2>2, <2>3
  <1> QED
    BY <1>1, WalkInvariant, PTL

-----------------------------------------------------------------------------
(* What the table of resources says, and what the describe functions ask.  *)

\* The table, line by line.
LEMMA DescriptorOf ==
  ASSUME NEW r \in Resources
  PROVE  /\ r \in EC2Resources => awsResources[r] = Descriptor("ec2", "optional", {"filters"})
         /\ r \in {"load-balancers", "target-groups"} =>
               awsResources[r] = Descriptor("elbv2", "optional", {})
         /\ r = "load-balancers-classic" => awsResources[r] = Descriptor("elb", "optional", {})
         /\ r = "target-health" => awsResources[r] = Descriptor("elbv2", "required", {})
         /\ r = "cloudtrail-events" =>
               awsResources[r] = Descriptor("cloudtrail", "unsupported", {"filters", "since"})
         /\ r = "route53-hosted-zones" =>
               awsResources[r] = Descriptor("route53", "unsupported", {})
         /\ r = "route53-record-sets" => awsResources[r] = Descriptor("route53", "required", {})
  BY DEF awsResources, Resources, EC2Resources

\* Every resource is one of the lines.
LEMMA ResourceCases ==
  ASSUME NEW r \in Resources
  PROVE  \/ r \in EC2Resources
         \/ r \in {"load-balancers", "target-groups"}
         \/ r = "load-balancers-classic"
         \/ r = "target-health"
         \/ r = "cloudtrail-events"
         \/ r = "route53-hosted-zones"
         \/ r = "route53-record-sets"
  BY DEF Resources

\* The client that is built is the one that the describe function calls.
LEMMA ClientIsBuilt ==
  ASSUME NEW q, q.resource \in Resources
  PROVE  buildClients(RequiredServices(q)) = {ClientOf(q.resource)}
  <1> DEFINE r == q.resource
  <1>0. RequiredServices(q) = {awsResources[r].service}
    BY DEF RequiredServices
  <1>1. /\ awsResources[r].service = ClientOf(r)
        /\ ClientOf(r) \in {"ec2", "elb", "elbv2", "cloudtrail", "route53"}
    <2>1. CASE r \in EC2Resources
      BY <2>1, DescriptorOf DEF Descriptor, ClientOf, EC2Resources
    <2>2. CASE r \in {"load-balancers", "target-groups"}
      BY <2>2, DescriptorOf DEF Descriptor, ClientOf, EC2Resources
    <2>3. CASE r = "load-balancers-classic"
      BY <2>3, DescriptorOf DEF Descriptor, ClientOf, EC2Resources
    <2>4. CASE r = "target-health"
      BY <2>4, DescriptorOf DEF Descriptor, ClientOf, EC2Resources
    <2>5. CASE r = "cloudtrail-events"
      BY <2>5, DescriptorOf DEF Descriptor, ClientOf, EC2Resources
    <2>6. CASE r \in {"route53-hosted-zones", "route53-record-sets"}
      BY <2>6, DescriptorOf DEF Descriptor, ClientOf, EC2Resources
    <2> QED
      BY <2>1, <2>2, <2>3, <2>4, <2>5, <2>6, ResourceCases
  <1> QED
    BY <1>0, <1>1 DEF buildClients

\* What a request that was accepted cannot contain.
LEMMA AcceptedParams ==
  ASSUME NEW q, Accepted(q)
  PROVE  /\ ~q.region
         /\ q.filters # <<>> => q.resource \in EC2Resources \cup {"cloudtrail-events"}
         /\ q.since.given => q.resource = "cloudtrail-events"
         /\ q.resource \in {"cloudtrail-events", "route53-hosted-zones"} => q.id = Empty
  <1> DEFINE r == q.resource
             d == awsResources[r]
  <1>0. r \in Resources /\ validate(q)
    BY DEF Accepted
  <1>1. /\ q.filters # <<>> => "filters" \in d.params
        /\ q.since.given => "since" \in d.params
        /\ q.region => "region" \in d.params
        /\ d.id = "unsupported" => q.id = Empty
    BY <1>0 DEF validate
  <1> HIDE DEF d
  <1>2. CASE r \in EC2Resources
    <2>1. d.params = {"filters"}
      BY <1>0, <1>2, DescriptorOf DEF d, Descriptor
    <2> QED
      BY <1>1, <1>2, <2>1 DEF EC2Resources
  <1>3. CASE r = "cloudtrail-events"
    <2>1. d.params = {"filters", "since"} /\ d.id = "unsupported"
      BY <1>0, <1>3, DescriptorOf DEF d, Descriptor
    <2> QED
      BY <1>1, <1>3, <2>1
  <1>4. CASE r = "route53-hosted-zones"
    <2>1. d.params = {} /\ d.id = "unsupported"
      BY <1>0, <1>4, DescriptorOf DEF d, Descriptor
    <2> QED
      BY <1>1, <1>4, <2>1
  <1>5. CASE r \in {"load-balancers", "target-groups", "load-balancers-classic", "target-health",
                    "route53-record-sets"}
    <2>1. d.params = {}
      BY <1>0, <1>5, DescriptorOf DEF d, Descriptor
    <2> QED
      BY <1>1, <1>5, <2>1
  <1> QED
    BY <1>0, <1>2, <1>3, <1>4, <1>5, ResourceCases

\* The values of a name are or-ed and the names and-ed: the parsed filters accept an object
\* just if every pair of the expression has a pair of its name that does.
LEMMA FilterMeaning ==
  ASSUME NEW fs, NEW tag
  PROVE  Accepts(parseAWSFilters(fs), tag) <=> Fits(fs, tag)
  <1> DEFINE P == parseAWSFilters(fs)
  <1>1. DOMAIN P = {fs[i].name : i \in Pairs(fs)}
    BY DEF parseAWSFilters
  <1>2. \A n \in DOMAIN P : P[n] = {fs[i].value : i \in {j \in Pairs(fs) : fs[j].name = n}}
    BY DEF parseAWSFilters
  <1> HIDE DEF P
  <1>3. ASSUME Accepts(P, tag), NEW i \in DOMAIN fs, fs[i].form = "pair"
        PROVE  \E j \in DOMAIN fs :
                  /\ fs[j].form = "pair" /\ fs[j].name = fs[i].name
                  /\ fs[j].name = "tag" /\ fs[j].value = tag
    <2>1. fs[i].name \in DOMAIN P
      BY <1>1, <1>3 DEF Pairs
    <2>2. PICK j \in {k \in Pairs(fs) : fs[k].name = fs[i].name} : fs[j].value = tag
      BY <1>2, <1>3, <2>1 DEF Accepts
    <2> QED
      BY <1>3, <2>1, <2>2 DEF Pairs, Accepts
  <1>4. ASSUME Fits(fs, tag), NEW n \in DOMAIN P
        PROVE  n = "tag" /\ tag \in P[n]
    <2>1. PICK i \in DOMAIN fs : fs[i].form = "pair" /\ fs[i].name = n
      BY <1>1 DEF Pairs
    <2>2. PICK j \in DOMAIN fs : fs[j].form = "pair" /\ fs[j].name = n
                                     /\ fs[j].name = "tag" /\ fs[j].value = tag
      BY <1>4, <2>1 DEF Fits
    <2> QED
      BY <1>2, <2>2 DEF Pairs
  <1>5. Accepts(P, tag) => Fits(fs, tag)
    BY <1>3 DEF Fits
  <1>6. Fits(fs, tag) => Accepts(P, tag)
    BY <1>4 DEF Accepts
  <1> QED
    BY <1>5, <1>6 DEF P

\* An accepted request is asked of AWS as it was meant: the service selects the objects that
\* fit its id, each of its filters and its window, and no others.
LEMMA SelectsWhatIsAskedFor ==
  ASSUME NEW q \in Requests, Accepted(q), NEW o \in Objects, o.resource = q.resource
  PROVE  Selects(Input(q), o) <=>
            /\ AskedFor(q, o)
            /\ q.resource = "cloudtrail-events" => o.age <= Lookback(q.since)
  <1> DEFINE in == Input(q)
             IdSelects == /\ in.ids # {} => o.id \in in.ids
                          /\ in.arns # {} => o.arn \in in.arns
                          /\ in.parent # Empty => o.parent = in.parent
             SinceSelects == in.since >= 0 => o.age <= in.since
             IdFits == q.id # Empty => q.id = IdOf(q, o)
             SinceFits == /\ q.resource = "cloudtrail-events" => o.age <= CloudTrailLookbackMax
                          /\ q.since.given => o.age <= q.since.hours
                          /\ q.resource = "cloudtrail-events" => o.age <= Lookback(q.since)
  <1>a. /\ q.since.given \in BOOLEAN /\ q.since.hours \in Int /\ o.age \in Nat
        /\ q.resource \in Resources
    BY ReadsAssumption DEF RequestType, ObjectType, Accepted
  <1>b. /\ q.filters # <<>> => q.resource \in EC2Resources \cup {"cloudtrail-events"}
        /\ q.since.given => q.resource = "cloudtrail-events"
        /\ q.resource \in {"cloudtrail-events", "route53-hosted-zones"} => q.id = Empty
    BY AcceptedParams
  <1>c. Selects(in, o) <=> IdSelects /\ Accepts(in.filters, o.tag) /\ SinceSelects
    BY DEF Selects
  <1>d. AskedFor(q, o) /\ (q.resource = "cloudtrail-events" => o.age <= Lookback(q.since))
           <=> IdFits /\ Fits(q.filters, o.tag) /\ SinceFits
    BY DEF AskedFor
  <1> HIDE DEF in
  \* Three things to compare, for each kind of input.
  <1> SUFFICES /\ IdSelects <=> IdFits
               /\ in.filters = parseAWSFilters(q.filters)
               /\ SinceSelects <=> SinceFits
    <2>1. Accepts(parseAWSFilters(q.filters), o.tag) <=> Fits(q.filters, o.tag)
      BY FilterMeaning
    <2> HIDE DEF IdSelects, IdFits, SinceSelects, SinceFits
    <2> QED
      BY <1>c, <1>d, <2>1 DEF in
  <1>1. CASE q.resource \in EC2Resources
    <2>1. /\ in.ids = {q.id} \ {Empty} /\ in.arns = {}
          /\ in.parent = Empty /\ in.filters = parseAWSFilters(q.filters) /\ in.since = -1
      BY <1>1 DEF in, Input, NoInput, EC2Resources, describeEC2, ec2Filters
    <2>2. /\ ~q.since.given /\ q.resource # "cloudtrail-events"
          /\ IdOf(q, o) = o.id
      BY <1>b, <1>1 DEF IdOf, EC2Resources
    <2>4. SinceSelects <=> SinceFits
      BY <1>a, <2>1, <2>2
    <2>5. IdSelects <=> IdFits
      BY <2>1, <2>2
    <2> QED
      BY <2>1, <2>4, <2>5
  <1>2. CASE q.resource \in {"load-balancers", "target-groups"}
    <2>1. /\ in.ids = {q.id} \ (Arns \cup {Empty}) /\ in.arns = {q.id} \cap Arns
          /\ in.parent = Empty /\ in.filters = parseAWSFilters(<<>>) /\ in.since = -1
      BY <1>2 DEF in, Input, NoInput, EC2Resources, describeLoadBalancers, describeTargetGroups,
                 arnOrName
    <2>2. /\ ~q.since.given /\ q.resource # "cloudtrail-events"
          /\ IdOf(q, o) = (IF q.id \in Arns THEN o.arn ELSE o.id)
      BY <1>b, <1>2 DEF IdOf, EC2Resources
    <2>3. q.filters = <<>>
      BY <1>b, <1>2 DEF EC2Resources
    <2>4. SinceSelects <=> SinceFits
      BY <1>a, <2>1, <2>2
    <2>5. IdSelects <=> IdFits
      BY <2>1, <2>2, ReadsAssumption
    <2> QED
      BY <2>1, <2>4, <2>5, <2>3
  <1>3. CASE q.resource = "load-balancers-classic"
    <2>1. /\ in.ids = {q.id} \ {Empty} /\ in.arns = {}
          /\ in.parent = Empty /\ in.filters = parseAWSFilters(<<>>) /\ in.since = -1
      BY <1>3 DEF in, Input, NoInput, EC2Resources, describeClassicLoadBalancers
    <2>2. /\ ~q.since.given /\ q.resource # "cloudtrail-events"
          /\ IdOf(q, o) = o.id
      BY <1>b, <1>3 DEF IdOf, EC2Resources
    <2>3. q.filters = <<>>
      BY <1>b, <1>3 DEF EC2Resources
    <2>4. SinceSelects <=> SinceFits
      BY <1>a, <2>1, <2>2
    <2>5. IdSelects <=> IdFits
      BY <2>1, <2>2
    <2> QED
      BY <2>1, <2>4, <2>5, <2>3
  <1>4. CASE q.resource \in {"target-health", "route53-record-sets"}
    <2>1. /\ in.ids = {} /\ in.arns = {}
          /\ in.parent = q.id /\ in.filters = parseAWSFilters(<<>>) /\ in.since = -1
      BY <1>4 DEF in, Input, NoInput, EC2Resources, describeTargetHealth, describeRecordSets
    <2>2. /\ ~q.since.given /\ q.resource # "cloudtrail-events"
          /\ IdOf(q, o) = o.parent
      BY <1>b, <1>4 DEF IdOf, EC2Resources
    <2>3. q.filters = <<>>
      BY <1>b, <1>4 DEF EC2Resources
    <2>4. SinceSelects <=> SinceFits
      BY <1>a, <2>1, <2>2
    <2>5. IdSelects <=> IdFits
      BY <2>1, <2>2
    <2> QED
      BY <2>1, <2>4, <2>5, <2>3
  <1>5. CASE q.resource = "cloudtrail-events"
    <2>1. /\ in.ids = {} /\ in.arns = {}
          /\ in.parent = Empty /\ in.filters = parseAWSFilters(q.filters)
          /\ in.since = Lookback(q.since)
      BY <1>5 DEF in, Input, NoInput, EC2Resources, lookupCloudTrailEvents
    <2>2. q.id = Empty /\ sinceValid(q.since)
      BY <1>b, <1>5 DEF Accepted
    <2>3. /\ Lookback(q.since) \in Nat /\ Lookback(q.since) <= CloudTrailLookbackMax
          /\ q.since.given => Lookback(q.since) = q.since.hours
      BY <1>a, <2>2 DEF Lookback, sinceValid, cloudTrailLookbackDefault, CloudTrailLookbackMax
    <2>4. o.age <= Lookback(q.since) => o.age <= CloudTrailLookbackMax
      BY <1>a, <2>3 DEF CloudTrailLookbackMax
    <2>5. SinceSelects <=> SinceFits
      BY <1>a, <1>5, <2>1, <2>3, <2>4
    <2>6. IdSelects <=> IdFits
      BY <2>1, <2>2
    <2> QED
      BY <2>1, <2>5, <2>6
  <1>6. CASE q.resource = "route53-hosted-zones"
    <2>1. /\ in.ids = {} /\ in.arns = {}
          /\ in.parent = Empty /\ in.filters = parseAWSFilters(<<>>) /\ in.since = -1
      BY <1>6 DEF in, Input, NoInput, EC2Resources
    <2>2. /\ ~q.since.given /\ q.resource # "cloudtrail-events"
          /\ IdOf(q, o) = o.id
      BY <1>b, <1>6 DEF IdOf, EC2Resources
    <2>3. q.filters = <<>>
      BY <1>b, <1>6 DEF EC2Resources
    <2>4. SinceSelects <=> SinceFits
      BY <1>a, <2>1, <2>2
    <2>5. IdSelects <=> IdFits
      BY <2>1, <2>2, <1>b, <1>6
    <2> QED
      BY <2>1, <2>4, <2>5, <2>3
  <1> QED
    BY <1>a, <1>1, <1>2, <1>3, <1>4, <1>5, <1>6, ResourceCases

-----------------------------------------------------------------------------
(* A page.                                                                 *)

\* What is left to list: some of the objects, each with its position.
LEMMA RestTyped ==
  ASSUME ReadTypeOK
  PROVE  /\ Rest \subseteq account /\ Rest \subseteq Objects /\ IsFiniteSet(Rest)
         /\ \A o \in Objects : o.pos \in Nat /\ o.age \in Nat
         /\ from \in Nat
         /\ \A o \in Rest : IsFiniteSet(Before(o)) /\ Cardinality(Before(o)) \in Nat
         /\ Cardinality(Rest) \in Nat
  <1>1. Rest \subseteq account /\ Rest \in SUBSET Objects
    BY DEF Rest, ReadTypeOK
  <1>2. IsFiniteSet(Rest) /\ Cardinality(Rest) \in Nat
    BY <1>1, FS_Subset, FS_CardinalityType, ReadsAssumption
  <1>3. \A o \in Objects : o.pos \in Nat /\ o.age \in Nat
    BY ReadsAssumption DEF ObjectType
  <1>4. from \in Nat
    BY <1>3 DEF ReadTypeOK
  <1>5. ASSUME NEW o \in Rest PROVE IsFiniteSet(Before(o)) /\ Cardinality(Before(o)) \in Nat
    <2>1. Before(o) \in SUBSET Rest
      BY DEF Before
    <2> QED
      BY <1>2, <2>1, FS_Subset, FS_CardinalityType
  <1> QED
    BY <1>1, <1>2, <1>3, <1>4, <1>5

\* A page ends before everything it leaves out, whatever its size.
LEMMA PageComesFirst ==
  ASSUME ReadTypeOK, NEW size \in Nat,
         NEW o \in Rest, Cardinality(Before(o)) < size,
         NEW p \in Rest, ~(Cardinality(Before(p)) < size)
  PROVE  o.pos < p.pos
  <1>1. /\ o.pos \in Nat /\ p.pos \in Nat
        /\ IsFiniteSet(Before(o))
        /\ Cardinality(Before(o)) \in Nat /\ Cardinality(Before(p)) \in Nat
    BY RestTyped
  <1> SUFFICES ASSUME p.pos <= o.pos PROVE FALSE
    BY <1>1
  <1>2. Before(p) \in SUBSET Before(o)
    <2> SUFFICES ASSUME NEW x \in Rest, x.pos < p.pos PROVE x.pos < o.pos
      BY DEF Before
    <2>1. x.pos \in Nat
      BY RestTyped
    <2> QED
      BY <1>1, <2>1
  <1>3. Cardinality(Before(p)) <= Cardinality(Before(o))
    BY <1>1, <1>2, FS_Subset
  <1> QED
    BY <1>1, <1>3

\* Objects that were left out have a first one, where the listing resumes.
LEMMA FirstLeftOut ==
  ASSUME ReadTypeOK, NEW S, S \subseteq Rest, S # {}
  PROVE  /\ (CHOOSE o \in S : \A p \in S : o.pos <= p.pos) \in S
         /\ \A p \in S : (CHOOSE o \in S : \A q \in S : o.pos <= q.pos).pos <= p.pos
  <1> DEFINE T == {o.pos : o \in S}
  <1>1. T \subseteq Nat /\ T # {}
    BY RestTyped
  <1>2. PICK x \in T : \A y \in T : x <= y
    <2> HIDE DEF T
    <2> QED
      BY <1>1, LeastExists
  <1>3. \E o \in S : \A p \in S : o.pos <= p.pos
    BY <1>2
  <1> QED
    BY <1>3

-----------------------------------------------------------------------------
(* One lemma per action: each preserves ReadInv.                            *)

\* Nothing has been asked, and nothing returned.
LEMMA InitReads == ReadInit => ReadInv
  <1> SUFFICES ASSUME ReadInit PROVE ReadInv
    OBVIOUS
  <1>0. /\ req \in Requests /\ stage = "clients" /\ clients = {} /\ from = 0
        /\ listed = [o \in Objects |-> 0]
        /\ account = FirstObjects /\ ever = FirstObjects /\ always = FirstObjects /\ changes = 0
    BY DEF ReadInit
  <1>1. listed \in [Objects -> 0..2] /\ changes \in 0..MaxChanges
    BY <1>0, ReadsAssumption
  <1>2. ReadTypeOK
    BY <1>0, <1>1, ReadsAssumption DEF ReadTypeOK
  <1>3. AcceptInv /\ ListedInv /\ CoveredInv
    BY <1>0 DEF AcceptInv, ListedInv, CoveredInv
  <1> QED
    BY <1>2, <1>3 DEF ReadInv

\* AWSScope obtains the clients, or fails.
LEMMA GetClientsReads == ReadInv /\ GetClients => ReadInv'
  <1> SUFFICES ASSUME ReadInv, GetClients PROVE ReadInv'
    OBVIOUS
  <1>0. /\ stage = "clients"
        /\ UNCHANGED <<req, from, listed, account, ever, always, changes>>
        /\ \/ clients' = buildClients(RequiredServices(req)) /\ stage' = "execute"
           \/ stage' = "failed" /\ clients' = clients
    BY DEF GetClients, worldVars
  <1>1. buildClients(RequiredServices(req)) \subseteq {awsResources[r].service : r \in Resources}
    BY DEF buildClients, RequiredServices
  <1>2. ReadTypeOK'
    BY <1>0, <1>1 DEF ReadInv, ReadTypeOK
  <1>3. AcceptInv'
    BY <1>0 DEF AcceptInv
  <1>4. ListedInv'
    BY <1>0 DEF ReadInv, ListedInv
  <1>5. CoveredInv'
    BY <1>0 DEF CoveredInv
  <1> QED
    BY <1>2, <1>3, <1>4, <1>5 DEF ReadInv

\* The request is accepted, and the listing starts at the beginning, or it is refused.
LEMMA ExecuteReads == ReadInv /\ Execute => ReadInv'
  <1> SUFFICES ASSUME ReadInv, Execute PROVE ReadInv'
    OBVIOUS
  <1>0. /\ stage = "execute"
        /\ UNCHANGED <<req, clients, from, listed, account, ever, always, changes>>
        /\ \/ Accepted(req) /\ stage' = "page"
           \/ stage' = "failed"
    BY DEF Execute, worldVars
  <1>1. ReadTypeOK'
    BY <1>0 DEF ReadInv, ReadTypeOK
  <1>2. AcceptInv'
    BY <1>0 DEF ReadInv, AcceptInv
  <1>3. ListedInv'
    BY <1>0 DEF ReadInv, ListedInv
  <1>4. CoveredInv'
    <2>1. from' = 0 /\ \A o \in always' : o.pos \in Nat
      BY <1>0, RestTyped DEF ReadInv, ListedInv, ReadTypeOK
    <2> QED
      BY <1>0, <2>1 DEF CoveredInv
  <1> QED
    BY <1>1, <1>2, <1>3, <1>4 DEF ReadInv

\* A failed page drops everything.
LEMMA PageFailsReads == ReadInv /\ PageFails => ReadInv'
  <1> SUFFICES ASSUME ReadInv, PageFails PROVE ReadInv'
    OBVIOUS
  <1>0. /\ stage = "page" /\ stage' = "failed" /\ listed' = [o \in Objects |-> 0]
        /\ UNCHANGED <<req, clients, from, account, ever, always, changes>>
    BY DEF PageFails, worldVars
  <1>1. listed' \in [Objects -> 0..2]
    BY <1>0
  <1>2. ReadTypeOK'
    BY <1>0, <1>1 DEF ReadInv, ReadTypeOK
  <1>3. AcceptInv' /\ ListedInv' /\ CoveredInv'
    BY <1>0 DEF AcceptInv, ListedInv, CoveredInv
  <1> QED
    BY <1>2, <1>3 DEF ReadInv

\* The account changes under the listing: nothing that was returned was never there, and
\* fewer objects were there all the time.
LEMMA AccountChangesReads == ReadInv /\ AccountChanges => ReadInv'
  <1> SUFFICES ASSUME ReadInv, AccountChanges PROVE ReadInv'
    OBVIOUS
  <1>0. /\ changes < MaxChanges /\ changes' = changes + 1
        /\ ever' = ever \cup account' /\ always' = always \cap account'
        /\ UNCHANGED <<req, stage, clients, from, listed>>
    BY DEF AccountChanges
  <1>1. account' \subseteq Objects
    <2>1. PICK o \in Objects :
             account' = IF o \in account THEN account \ {o} ELSE account \cup {o}
      BY DEF AccountChanges
    <2> QED
      BY <2>1 DEF ReadInv, ReadTypeOK
  <1>2. changes' \in 0..MaxChanges
    BY <1>0, ReadsAssumption DEF ReadInv, ReadTypeOK
  <1>3. ReadTypeOK'
    BY <1>0, <1>1, <1>2 DEF ReadInv, ReadTypeOK
  <1>4. AcceptInv'
    BY <1>0 DEF ReadInv, AcceptInv
  <1>5. \A o : Chosen(o)' <=> Chosen(o)
    BY <1>0 DEF Chosen
  <1>6. ListedInv'
    BY <1>0, <1>5 DEF ReadInv, ListedInv
  <1>7. CoveredInv'
    BY <1>0, <1>5 DEF ReadInv, CoveredInv
  <1> QED
    BY <1>3, <1>4, <1>6, <1>7 DEF ReadInv

\* A page is returned: objects at and after the position asked for, so none again, and
\* none of those that the next page will start with.
LEMMA NextPageReads == ReadInv /\ NextPage => ReadInv'
  <1> SUFFICES ASSUME ReadInv, NextPage PROVE ReadInv'
    OBVIOUS
  <1> DEFINE size == IF req.resource = "target-health" THEN Cardinality(Rest) ELSE PageSize
             onPage == {o \in Rest : Cardinality(Before(o)) < size}
             leftOut == Rest \ onPage
             next == CHOOSE o \in leftOut : \A p \in leftOut : o.pos <= p.pos
  <1>t. ReadTypeOK
    BY DEF ReadInv
  <1>0. /\ stage = "page"
        /\ UNCHANGED <<req, clients, account, ever, always, changes>>
        /\ listed' = [o \in Objects |->
                        IF o \in onPage THEN (IF listed[o] = 0 THEN 1 ELSE 2) ELSE listed[o]]
        /\ \/ leftOut = {} /\ stage' = "done" /\ from' = from
           \/ leftOut # {} /\ stage' = "page" /\ from' = next.pos
    BY DEF NextPage, worldVars, Resume
  <1>1. size \in Nat
    BY <1>t, RestTyped, ReadsAssumption
  <1> HIDE DEF size
  <1>2. /\ onPage \subseteq Rest /\ leftOut \subseteq Rest /\ Rest \subseteq Objects
        /\ Rest \subseteq account /\ from \in Nat
        /\ \A o \in Objects : o.pos \in Nat
    BY <1>t, RestTyped
  <1>3. \A o \in Rest : Chosen(o) /\ o.pos >= from /\ o \in ever
    BY <1>t, <1>2 DEF Rest, Chosen, ReadTypeOK
  <1>4. \A o \in onPage, p \in leftOut : o.pos < p.pos
    BY <1>t, <1>1, PageComesFirst
  <1>5. leftOut # {} => next \in leftOut /\ \A p \in leftOut : next.pos <= p.pos
    <2> HIDE DEF leftOut
    <2> QED
      BY <1>t, <1>2, FirstLeftOut
  <1>6. \A o : (o \in onPage \/ o \in leftOut) <=> o \in Rest
    OBVIOUS
  <1>7. \A o : Chosen(o)' <=> Chosen(o)
    BY <1>0 DEF Chosen
  <1> HIDE DEF onPage, leftOut, next
  \* A page holds what was not returned before.
  <1>8. \A o \in onPage : listed[o] = 0
    <2> SUFFICES ASSUME NEW o \in onPage PROVE listed[o] = 0
      OBVIOUS
    <2>1. o \in Objects /\ o.pos >= from /\ o.pos \in Nat /\ listed[o] \in 0..2
      BY <1>t, <1>2, <1>3 DEF ReadTypeOK
    <2>2. ~(listed[o] > 0)
      BY <1>0, <1>2, <2>1 DEF ReadInv, ListedInv
    <2> QED
      BY <2>1, <2>2
  <1>9. /\ \A o \in onPage : listed'[o] = 1
        /\ \A o \in Objects \ onPage : listed'[o] = listed[o]
    BY <1>0, <1>2, <1>8
  <1>10. ReadTypeOK'
    <2>1. listed' \in [Objects -> 0..2]
      BY <1>0, <1>t DEF ReadTypeOK
    <2>2. from' \in {0} \cup {o.pos : o \in Objects}
      BY <1>0, <1>2, <1>5, <1>t DEF ReadTypeOK
    <2> QED
      BY <1>0, <1>t, <2>1, <2>2 DEF ReadTypeOK
  <1>11. AcceptInv'
    BY <1>0 DEF ReadInv, AcceptInv
  <1>12. from' \in Nat /\ from <= from'
    BY <1>0, <1>2, <1>3, <1>5
  <1>13. ListedInv'
    <2> SUFFICES ASSUME NEW o \in Objects
                 PROVE  /\ listed'[o] <= 1
                        /\ listed'[o] > 0 =>
                             /\ o \in ever /\ Chosen(o)
                             /\ stage' = "page" => o.pos < from'
      BY <1>0, <1>7 DEF ListedInv
    <2>1. CASE o \in onPage
      <3>1. stage' = "page" => o.pos < from'
        BY <1>0, <1>4, <1>5, <2>1
      <3> QED
        BY <1>2, <1>3, <1>9, <2>1, <3>1
    <2>2. CASE o \notin onPage
      <3>1. listed'[o] = listed[o] /\ o.pos \in Nat
        BY <1>2, <1>9, <2>2
      <3>2. listed[o] <= 1 /\ (listed[o] > 0 => o \in ever /\ Chosen(o) /\ o.pos < from)
        BY <1>0 DEF ReadInv, ListedInv
      <3> QED
        BY <1>2, <1>12, <3>1, <3>2
    <2> QED
      BY <2>1, <2>2
  <1>14. CoveredInv'
    <2> SUFFICES ASSUME NEW o \in always, Chosen(o),
                        (stage' = "page" /\ o.pos < from') \/ stage' = "done"
                 PROVE  listed'[o] > 0
      BY <1>0, <1>7 DEF CoveredInv
    <2>1. o \in account /\ o \in Objects /\ o.pos \in Nat
      BY <1>t, <1>2 DEF ReadTypeOK
    <2>2. CASE o.pos < from
      <3>1. listed[o] > 0
        BY <1>0, <2>2 DEF ReadInv, CoveredInv
      <3>2. o \notin onPage
        BY <1>8, <3>1
      <3> QED
        BY <1>9, <2>1, <3>1, <3>2
    <2>3. CASE o.pos >= from
      <3>1. o \in Rest
        BY <2>1, <2>3 DEF Rest, Chosen
      <3>2. o \notin leftOut
        <4> SUFFICES ASSUME o \in leftOut PROVE FALSE
          OBVIOUS
        <4>1. stage' = "page" /\ o.pos < from' /\ from' = next.pos /\ next.pos <= o.pos
          BY <1>0, <1>5
        <4>2. next.pos \in Nat
          BY <1>2, <1>5
        <4> QED
          BY <2>1, <4>1, <4>2
      <3> QED
        BY <1>6, <1>9, <3>1, <3>2
    <2> QED
      BY <1>2, <2>1, <2>2, <2>3
  <1> QED
    BY <1>10, <1>11, <1>13, <1>14 DEF ReadInv

-----------------------------------------------------------------------------
\* The strengthening is an invariant.
THEOREM ReadsInvariant == ReadSpec => []ReadInv
  <1>1. ReadInv /\ [ReadNext]_readVars => ReadInv'
    <2> SUFFICES ASSUME ReadInv, [ReadNext]_readVars PROVE ReadInv'
      OBVIOUS
    <2>1. CASE UNCHANGED readVars
      <3>1. UNCHANGED <<req, stage, clients, from, listed, account, ever, always, changes>>
        BY <2>1 DEF readVars, worldVars
      <3>2. \A o : Chosen(o)' <=> Chosen(o)
        BY <3>1 DEF Chosen
      <3> QED
        BY <3>1, <3>2 DEF ReadInv, ReadTypeOK, AcceptInv, ListedInv, CoveredInv
    <2> QED
      BY <2>1, GetClientsReads, ExecuteReads, NextPageReads, PageFailsReads,
         AccountChangesReads DEF ReadNext
  <1> QED
    BY <1>1, InitReads, PTL DEF ReadSpec

\* aws-get never calls a client that was not built, and a read that succeeds answers the
\* question: every object fits the id, each filter and the window, and no param that the
\* resource does not know was ignored, for every request, resource and account.
THEOREM ReadAnswersTheQuestion == ReadSpec => []AnswersTheQuestion
  <1>1. ReadInv => AnswersTheQuestion
    <2> SUFFICES ASSUME ReadInv PROVE AnswersTheQuestion
      OBVIOUS
    <2>0. req \in Requests
      BY DEF ReadInv, ReadTypeOK
    <2>1. stage = "page" => clients = {ClientOf(req.resource)}
      <3> SUFFICES ASSUME stage = "page" PROVE clients = {ClientOf(req.resource)}
        OBVIOUS
      <3>1. clients = buildClients(RequiredServices(req)) /\ req.resource \in Resources
        BY DEF ReadInv, AcceptInv, Accepted
      <3> QED
        BY <3>1, ClientIsBuilt
    <2>2. ASSUME stage = "done", NEW o \in Objects, listed[o] > 0
          PROVE  o \in ever /\ AskedFor(req, o)
      <3>1. Accepted(req) /\ o \in ever /\ o.resource = req.resource /\ Selects(Input(req), o)
        BY <2>2 DEF ReadInv, AcceptInv, ListedInv, Chosen
      <3> QED
        BY <2>0, <3>1, SelectsWhatIsAskedFor
    <2>3. ASSUME stage = "done"
          PROVE  /\ ~req.region
                 /\ req.filters # <<>> => req.resource \in EC2Resources \cup {"cloudtrail-events"}
                 /\ req.since.given => req.resource = "cloudtrail-events"
                 /\ req.filters # <<>> =>
                        \E i \in DOMAIN req.filters : req.filters[i].form = "pair"
      <3>1. Accepted(req)
        BY <2>3 DEF ReadInv, AcceptInv
      <3>2. req.filters # <<>> => \E i \in DOMAIN req.filters : req.filters[i].form = "pair"
        BY <3>1 DEF Accepted, parses, Pairs
      <3> QED
        BY <3>1, <3>2, AcceptedParams
    <2> QED
      BY <2>1, <2>2, <2>3 DEF AnswersTheQuestion
  <1> QED
    BY <1>1, ReadsInvariant, PTL

\* A read that succeeds returned every object that was asked for and there throughout, and
\* none twice, for every page size, any order of positions and any number of objects that
\* come and go between the pages.
THEOREM EveryObjectOnce == ReadSpec => []ListedExactlyOnce
  <1>1. ReadInv => ListedExactlyOnce
    <2> SUFFICES ASSUME ReadInv PROVE ListedExactlyOnce
      OBVIOUS
    <2>1. ASSUME stage = "done", NEW o \in always, AskedFor(req, o),
                 req.resource = "cloudtrail-events" => o.age <= Lookback(req.since)
          PROVE  listed[o] > 0
      <3>1. req \in Requests /\ o \in Objects /\ Accepted(req) /\ o.resource = req.resource
        BY <2>1 DEF ReadInv, ReadTypeOK, AcceptInv, AskedFor
      <3>2. Chosen(o)
        BY <2>1, <3>1, SelectsWhatIsAskedFor DEF Chosen
      <3> QED
        BY <2>1, <3>2 DEF ReadInv, CoveredInv
    <2>2. \A o \in Objects : listed[o] <= 1
      BY DEF ReadInv, ListedInv
    <2> QED
      BY <2>1, <2>2 DEF ListedExactlyOnce
  <1> QED
    BY <1>1, ReadsInvariant, PTL

\* A page that is not the last one moves the position forward, although objects may have
\* been deleted or inserted around it: the reason why the pages of a read end (ReadEnds).
THEOREM PagesAdvance == ReadSpec => [][NextPage /\ stage' = "page" => from' > from]_readVars
  <1>1. ReadInv /\ NextPage /\ stage' = "page" => from' > from
    <2> SUFFICES ASSUME ReadInv, NextPage, stage' = "page" PROVE from' > from
      OBVIOUS
    <2> DEFINE size == IF req.resource = "target-health" THEN Cardinality(Rest) ELSE PageSize
               onPage == {o \in Rest : Cardinality(Before(o)) < size}
               leftOut == Rest \ onPage
               next == CHOOSE o \in leftOut : \A p \in leftOut : o.pos <= p.pos
               first == CHOOSE o \in Rest : \A p \in Rest : o.pos <= p.pos
    <2>t. ReadTypeOK
      BY DEF ReadInv
    <2>1. leftOut # {} /\ from' = next.pos
      BY DEF NextPage, Resume
    <2>2. /\ leftOut \subseteq Rest /\ Rest # {} /\ IsFiniteSet(Rest) /\ Cardinality(Rest) \in Nat
          /\ from \in Nat /\ \A o \in Rest : o.pos \in Nat /\ o.pos >= from
      <3>1. leftOut \subseteq Rest /\ Rest # {}
        BY <2>1
      <3> QED
        BY <2>t, <3>1, RestTyped DEF Rest
    <2>3. size \in Nat /\ size > 0
      <3>1. Cardinality(Rest) # 0
        BY <2>2, FS_EmptySet
      <3> QED
        BY <2>2, <3>1, ReadsAssumption
    <2>4. first \in Rest /\ \A p \in Rest : first.pos <= p.pos
      BY <2>t, <2>2, FirstLeftOut
    <2>5. next \in leftOut
      <3> HIDE DEF leftOut
      <3> QED
        BY <2>t, <2>1, <2>2, FirstLeftOut
    <2> HIDE DEF first, next, size
    <2>6. Cardinality(Before(first)) = 0
      <3>1. Before(first) = {}
        <4> SUFFICES ASSUME NEW p \in Rest, p.pos < first.pos PROVE FALSE
          BY DEF Before
        <4> QED
          BY <2>2, <2>4
      <3> QED
        BY <3>1, FS_EmptySet
    <2>7. first.pos < next.pos
      <3>1. Cardinality(Before(first)) < size
        BY <2>3, <2>6
      <3>2. next \in Rest /\ ~(Cardinality(Before(next)) < size)
        BY <2>5
      <3> QED
        BY <2>t, <2>3, <2>4, <3>1, <3>2, PageComesFirst
    <2> QED
      BY <2>1, <2>2, <2>4, <2>5, <2>7
  <1>2. ReadInv /\ [ReadNext]_readVars => [NextPage /\ stage' = "page" => from' > from]_readVars
    BY <1>1
  <1> QED
    BY <1>2, ReadsInvariant, PTL DEF ReadSpec
=============================================================================
