-------------------------- MODULE AlgorithmsProofs --------------------------
(***************************************************************************)
(* Page cursors for lists of any length, pages of any size and windows of  *)
(* any width, the reading of all pages of a list that changes, the prices  *)
(* offered for any asking price and any number of tiers, the paths of      *)
(* tagged fields in any document, and the auctions of a bidder with any    *)
(* lots and sales.                                                         *)
(***************************************************************************)
EXTENDS MCAlgorithms, FiniteSetTheorems, SequenceTheorems, WellFoundedInduction, TLAPS

\* Division by a positive number, rounded down.
LEMMA Quotient ==
  ASSUME NEW a \in Int, NEW d \in Nat \ {0}, NEW q \in Int, q * d <= a, a < (q + 1) * d
  PROVE  a \div d = q
<1>1. a \div d \in Int
  OBVIOUS
<1>2. (a \div d) * d <= a /\ a < (a \div d + 1) * d
  OBVIOUS
<1>3. ~(a \div d < q)
  <2>1. SUFFICES ASSUME a \div d + 1 <= q PROVE FALSE
    BY <1>1
  <2>2. (a \div d + 1) * d <= q * d
    BY <1>1, <2>1
  <2> QED
    BY <1>1, <1>2, <2>2
<1>4. ~(a \div d > q)
  <2>1. SUFFICES ASSUME q + 1 <= a \div d PROVE FALSE
    BY <1>1
  <2>2. (q + 1) * d <= (a \div d) * d
    BY <1>1, <2>1
  <2> QED
    BY <1>1, <1>2, <2>2
<1> QED
  BY <1>1, <1>3, <1>4

\* A page number comes back from its cursor: the request that carries the cursor
\* of a page asks gravity for that page and slices at its first item
\* (pageToCursor, then convertConnectionArgsToGravityArgs).
THEOREM CursorRoundTrip ==
  ASSUME NEW page \in Nat \ {0}, NEW size \in Nat \ {0}
  PROVE  LET params == ConvertConnectionArgs(Forward(size, PageToCursor(page, size)))
         IN  params.page = page /\ params.offset = (page - 1) * size /\ params.size = size
<1> DEFINE offset == (page - 1) * size
<1>1. offset \in Nat /\ size + offset = page * size
  OBVIOUS
<1>2. PagingParameters(Forward(size, PageToCursor(page, size)))
        = [limit |-> size, offset |-> offset]
  BY DEF PagingParameters, Forward, PageToCursor
<1>3. Round(size + offset, size) = page
  <2>1. 2 * (size + offset) + size = page * (2 * size) + size
    BY <1>1
  <2>2. (page * (2 * size) + size) \div (2 * size) = page
    <3>1. page * (2 * size) <= page * (2 * size) + size
      OBVIOUS
    <3>2. (page + 1) * (2 * size) = page * (2 * size) + 2 * size
      OBVIOUS
    <3>3. page * (2 * size) \in Int /\ 2 * size \in Nat \ {0}
      OBVIOUS
    <3>4. page * (2 * size) + size < (page + 1) * (2 * size)
      BY <3>2, <3>3
    <3> QED
      BY <3>1, <3>3, <3>4, Quotient
  <2> QED
    BY <2>1, <2>2 DEF Round
<1> QED
  BY <1>2, <1>3 DEF ConvertConnectionArgs, Forward

\* Cursors that were made for the page size in use lose nothing: the page gravity
\* returns is the part of the list that the offset names (the case that
\* ConnectionIsComplete needs and other cursors break).
THEOREM AlignedConnections ==
  ASSUME NEW page \in Nat \ {0}, NEW size \in Nat \ {0}, NEW list
  PROVE  LET params == ConvertConnectionArgs(Forward(size, PageToCursor(page, size)))
         IN  PageOf(list, params) = Slice(list, params.offset, params.size)
  BY CursorRoundTrip DEF PageOf

\* The window of a page of the list: it holds the page, lies within the list,
\* leaves room for the first and the last page, and together with them reaches
\* both ends without showing a page twice (createPageCursors, all four cases).
THEOREM WindowHoldsPage ==
  ASSUME NEW max \in Nat, max >= 3, max % 2 = 1,
         NEW pages \in Nat, NEW page \in 1 .. pages
  PROVE  LET c == AroundPages(page, pages, max)
             from == c.around[1]
             to == c.around[2]
         IN  /\ 1 <= from /\ from <= page /\ page <= to /\ to <= pages
             /\ IF c.first = 1 THEN 1 < from ELSE from = 1 /\ c.first = 0
             /\ IF c.last = pages THEN to < pages ELSE to = pages /\ c.last = 0
             /\ (to - from + 1) + (IF c.first = 0 THEN 0 ELSE 1) + (IF c.last = 0 THEN 0 ELSE 1)
                  <= max
<1> DEFINE half == max \div 2
<1>1. half \in Nat /\ half >= 1 /\ max = 2 * half + 1
  OBVIOUS
<1>2. (max - 3) \div 2 = half - 1
  BY <1>1
<1>3. CASE pages <= max
  BY <1>3 DEF AroundPages, Cursors
<1>4. CASE pages > max /\ page <= half + 1
  BY <1>1, <1>4 DEF AroundPages, Cursors
<1>5. CASE pages > max /\ page > half + 1 /\ page >= pages - half
  BY <1>1, <1>5 DEF AroundPages, Cursors
<1>6. CASE pages > max /\ page > half + 1 /\ page < pages - half
  BY <1>1, <1>2, <1>6 DEF AroundPages, Cursors
<1> QED
  BY <1>1, <1>3, <1>4, <1>5, <1>6

-----------------------------------------------------------------------------
(* The cursors that a reader is offered.                                   *)

\* What CursorsLeadToPages says of the cursors c of a list of `total` items.
Offered(c, page, size, total, max, cap) ==
  LET pages == ComputeTotalPages(total, size, cap)
      from == c.around[1]
      to == c.around[2]
      given == {c.first, c.last} \ {0}
      shown == from .. to
  IN  page <= Greatest(pages, 1) =>
        /\ {1, Greatest(pages, 1), page} \subseteq shown \cup given
        /\ page \in shown /\ shown \cap given = {}
        /\ to - from + 1 + Cardinality(given) <= Odd(max)
        /\ c.previous = IF page = 1 THEN 0 ELSE page - 1
        /\ \A p \in shown \cup given : p \in 1 .. Greatest(pages, 1)

LEMMA TotalPages ==
  ASSUME NEW total \in Nat, NEW size \in Nat \ {0}, NEW cap \in Nat
  PROVE  ComputeTotalPages(total, size, cap) \in Nat
<1>1. (total + size - 1) \div size \in Int
  OBVIOUS
<1>2. ((total + size - 1) \div size) * size <= total + size - 1
      /\ total + size - 1 < ((total + size - 1) \div size + 1) * size
  OBVIOUS
<1>3. (total + size - 1) \div size >= 0
  <2> SUFFICES ASSUME (total + size - 1) \div size + 1 <= 0 PROVE FALSE
    BY <1>1
  <2>1. ((total + size - 1) \div size + 1) * size <= 0 * size
    BY <1>1
  <2> QED
    BY <1>1, <1>2, <2>1
<1> QED
  BY <1>1, <1>3 DEF ComputeTotalPages, Ceil, Least

\* How many pages are given beside the window.
LEMMA Given ==
  ASSUME NEW first \in Nat, NEW last \in Nat, first # last \/ first = 0
  PROVE  Cardinality({first, last} \ {0}) =
           (IF first = 0 THEN 0 ELSE 1) + (IF last = 0 THEN 0 ELSE 1)
<1>1. CASE first = 0 /\ last = 0
  <2>1. {first, last} \ {0} = {}
    BY <1>1
  <2> QED
    BY <1>1, <2>1, FS_EmptySet
<1>2. CASE first # 0 /\ last = 0
  <2>1. {first, last} \ {0} = {first}
    BY <1>2
  <2> QED
    BY <1>2, <2>1, FS_Singleton
<1>3. CASE first = 0 /\ last # 0
  <2>1. {first, last} \ {0} = {last}
    BY <1>3
  <2> QED
    BY <1>3, <2>1, FS_Singleton
<1>4. CASE first # 0 /\ last # 0
  <2>1. {first, last} \ {0} = {first} \cup {last} /\ last \notin {first}
    BY <1>4
  <2>2. IsFiniteSet({first}) /\ Cardinality({first}) = 1
    BY FS_Singleton
  <2>3. Cardinality({first} \cup {last}) = 2
    BY <2>1, <2>2, FS_AddElement
  <2> QED
    BY <1>4, <2>1, <2>3
<1> QED
  BY <1>1, <1>2, <1>3, <1>4

\* Lists of any length, pages of any size, windows of any width of at least
\* three pages, with and without a cap: the cursors reach the first page, the
\* last and the current one, none twice (createPageCursors).
THEOREM CursorsAreOffered ==
  ASSUME NEW total \in Nat, NEW size \in Nat \ {0}, NEW cap \in Nat,
         NEW max \in Nat, max >= 3, NEW page \in Nat \ {0}
  PROVE  Offered(CreatePageCursors(page, size, total, max, cap), page, size, total, max, cap)
<1> DEFINE pages == ComputeTotalPages(total, size, cap)
           width == Odd(max)
           a == AroundPages(page, pages, width)
           c == CreatePageCursors(page, size, total, max, cap)
           from == a.around[1]
           to == a.around[2]
<1>1. pages \in Nat
  BY TotalPages
<1>2. width \in Nat /\ width >= 3 /\ width % 2 = 1
  BY DEF Odd
<1>3. /\ c.first = a.first /\ c.last = a.last /\ c.around = a.around
      /\ c.previous = Previous(page, pages)
  BY DEF CreatePageCursors
<1> HIDE DEF pages, width
<1> SUFFICES ASSUME page <= Greatest(pages, 1)
             PROVE  /\ {1, Greatest(pages, 1), page} \subseteq (from .. to) \cup ({a.first, a.last} \ {0})
                    /\ page \in from .. to /\ (from .. to) \cap ({a.first, a.last} \ {0}) = {}
                    /\ to - from + 1 + Cardinality({a.first, a.last} \ {0}) <= width
                    /\ Previous(page, pages) = IF page = 1 THEN 0 ELSE page - 1
                    /\ \A p \in (from .. to) \cup ({a.first, a.last} \ {0}) : p \in 1 .. Greatest(pages, 1)
  BY <1>3 DEF Offered, pages, width
<1>4. CASE pages = 0
  <2>1. page = 1 /\ Greatest(pages, 1) = 1
    BY <1>4 DEF Greatest
  <2>2. a.first = 0 /\ a.last = 0 /\ from = 1 /\ to = 1
    BY <1>4 DEF AroundPages, Cursors
  <2>3. Cardinality({a.first, a.last} \ {0}) = 0
    BY <2>2, Given
  <2> HIDE DEF a, from, to
  <2> QED
    BY <1>2, <1>4, <2>1, <2>2, <2>3 DEF Previous
<1>5. CASE pages # 0
  <2>1. Greatest(pages, 1) = pages /\ page \in 1 .. pages
    BY <1>1, <1>5 DEF Greatest
  <2>2. /\ 1 <= from /\ from <= page /\ page <= to /\ to <= pages
        /\ IF a.first = 1 THEN 1 < from ELSE from = 1 /\ a.first = 0
        /\ IF a.last = pages THEN to < pages ELSE to = pages /\ a.last = 0
        /\ (to - from + 1) + (IF a.first = 0 THEN 0 ELSE 1) + (IF a.last = 0 THEN 0 ELSE 1)
             <= width
    BY <1>1, <1>2, <2>1, WindowHoldsPage
  <2>3. from \in Int /\ to \in Int
    BY <1>1, <1>2, <2>1 DEF AroundPages, Cursors
  <2> HIDE DEF a, from, to
  <2>4. a.first \in {0, 1} /\ a.last \in {0, pages} /\ (a.first # a.last \/ a.first = 0)
    BY <1>1, <1>5, <2>2, <2>3
  <2>5. Cardinality({a.first, a.last} \ {0})
          = (IF a.first = 0 THEN 0 ELSE 1) + (IF a.last = 0 THEN 0 ELSE 1)
    BY <1>1, <2>4, Given
  <2>6. to - from + 1 + Cardinality({a.first, a.last} \ {0}) <= width
    BY <1>2, <2>2, <2>3, <2>4, <2>5
  <2>7. Previous(page, pages) = IF page = 1 THEN 0 ELSE page - 1
    BY <1>1, <2>1 DEF Previous
  <2>8. \A p \in (from .. to) \cup ({a.first, a.last} \ {0}) : p \in 1 .. pages
    BY <1>1, <1>5, <2>2, <2>3, <2>4
  <2>9. page \in from .. to /\ (from .. to) \cap ({a.first, a.last} \ {0}) = {}
    BY <1>1, <1>5, <2>1, <2>2, <2>3, <2>4
  <2>10. {1, pages, page} \subseteq (from .. to) \cup ({a.first, a.last} \ {0})
    BY <1>1, <1>5, <2>1, <2>2, <2>3, <2>4
  <2> QED
    BY <2>1, <2>6, <2>7, <2>8, <2>9, <2>10
<1> QED
  BY <1>4, <1>5

\* What was computed so far.
Computed ==
  /\ job \in Jobs
  /\ Returned("cursors") =>
       result = <<CreatePageCursors(job.page, job.size, job.total, job.max, job.cap)>>
  /\ Returned("all") => result = <<AllViaLoader(job.counted, job.later, job.early, job.size)>>
  /\ Returned("increments") =>
       result = <<BidIncrements(job.minimum, job.tiers, job.limit, job.count)>>
  /\ Returned("directives") =>
       result = <<[optional |-> GetOptionalFieldsDirectivePaths(job.doc),
                   principal |-> GetPrincipalFieldDirectivePath(job.doc)]>>
  /\ Returned("bids") => result = <<ResolveMyBids(job.in)>>

\* What was computed is what the function of src/src/schema/v2/fields/pagination.ts,
\* src/src/lib/all.ts, src/src/schema/v2/sale_artwork.ts, src/src/directives or
\* src/src/schema/v2/me/myBids.ts returns for the job.
THEOREM ComputedInvariance == Spec => []Computed
<1>1. Init => Computed
  BY DEF Init, Computed, Returned
<1>2. Computed /\ [Next]_vars => Computed'
  <2> SUFFICES ASSUME Computed, [Next]_vars PROVE Computed'
    OBVIOUS
  <2>1. CASE Paging
    BY <2>1 DEF Paging, Does, Computed, Returned
  <2>2. CASE ReadingAll
    BY <2>2 DEF ReadingAll, Does, Computed, Returned
  <2>3. CASE Pricing
    BY <2>3 DEF Pricing, Does, Computed, Returned
  <2>4. CASE Connecting
    BY <2>4 DEF Connecting, Does, Computed, Returned
  <2>5. CASE Visiting
    BY <2>5 DEF Visiting, Does, Computed, Returned
  <2>6. CASE Bidding
    BY <2>6 DEF Bidding, Does, Computed, Returned
  <2>7. CASE UNCHANGED vars
    BY <2>7 DEF vars, Computed, Returned
  <2> QED
    BY <2>1, <2>2, <2>3, <2>4, <2>5, <2>6, <2>7 DEF Next
<1> QED
  BY <1>1, <1>2, PTL DEF Spec

LEMMA AllJob ==
  ASSUME NEW j \in AllJobs
  PROVE  /\ j.kind = "all"
         /\ \E n \in 0 .. 6 : j.counted = Range1(n) /\ j.later \in Later(n)
         /\ j.size \in Sizes
<1> DEFINE Group(n, size) ==
             [kind : {"all"}, counted : {Range1(n)}, later : Later(n),
              early : SUBSET (1 .. Ceil(n, size)), size : {size}]
<1>1. AllJobs = UNION {Group(n, size) : n \in 0 .. 6, size \in Sizes}
  BY DEF AllJobs
<1>2. \A n, size : \A i \in Group(n, size) :
        i.kind = "all" /\ i.counted = Range1(n) /\ i.later \in Later(n) /\ i.size = size
  OBVIOUS
<1> HIDE DEF Group
<1>3. PICK n \in 0 .. 6, size \in Sizes : j \in Group(n, size)
  BY <1>1
<1> QED
  BY <1>2, <1>3

LEMMA KindOfJob ==
  ASSUME NEW j \in Jobs
  PROVE  /\ j.kind = "cursors" => j \in CursorJobs
         /\ j.kind = "all" => j \in AllJobs
         /\ j.kind = "increments" => j \in IncrementJobs
         /\ j.kind = "directives" => j \in DirectiveJobs
         /\ j.kind = "bids" => j \in BidJobs
<1>1. \A i \in ConnectionJobs : i.kind = "connection"
  BY DEF ConnectionJobs
<1>2. \A i \in IncrementJobs : i.kind = "increments"
  BY DEF IncrementJobs
<1>3. \A i \in DirectiveJobs : i.kind = "directives"
  BY DEF DirectiveJobs
<1>4. \A i \in BidJobs : i.kind = "bids"
  BY DEF BidJobs
<1>5. \A i \in CursorJobs : i.kind = "cursors"
  BY DEF CursorJobs
<1>6. \A i \in AllJobs : i.kind = "all"
  BY AllJob
<1> QED
  BY <1>1, <1>2, <1>3, <1>4, <1>5, <1>6 DEF Jobs

\* The pages a reader is offered, for lists of any length: every cursor leads to
\* the items of its page.
THEOREM EveryCursorLeads == Spec => []CursorsLeadToPages
<1>1. Computed => CursorsLeadToPages
  <2> SUFFICES ASSUME Computed, Returned("cursors") PROVE CursorsLeadToPages
    BY DEF CursorsLeadToPages
  <2> DEFINE c == CreatePageCursors(job.page, job.size, job.total, job.max, job.cap)
  <2>1. result[1] = c
    BY DEF Computed
  <2>2. job \in CursorJobs
    BY KindOfJob DEF Computed, Returned
  <2>3. /\ job.total \in Nat /\ job.size \in Nat \ {0} /\ job.cap \in Nat
        /\ job.max \in Nat /\ job.max >= 3 /\ job.page \in Nat \ {0}
    BY <2>2 DEF CursorJobs, Sizes
  <2>4. Offered(c, job.page, job.size, job.total, job.max, job.cap)
    BY <2>3, CursorsAreOffered
  <2>5. ASSUME NEW p \in Nat \ {0} PROVE Leads(p)
    <3>1. LET params == ConvertConnectionArgs(Forward(job.size, PageToCursor(p, job.size)))
          IN  params.page = p /\ params.size = job.size
      BY <2>3, CursorRoundTrip
    <3> QED
      BY <3>1 DEF Leads, PageOf
  <2> HIDE DEF c
  <2>6. \A p : p \in 1 .. Greatest(ComputeTotalPages(job.total, job.size, job.cap), 1) => Leads(p)
    BY <2>5
  <2> QED
    BY <2>1, <2>4, <2>6 DEF CursorsLeadToPages, Offered
<1> QED
  BY <1>1, ComputedInvariance, PTL

-----------------------------------------------------------------------------
(* Reading all pages of a list.                                            *)

\* Induction over the numbers of a set.
LEMMA EveryNumber ==
  ASSUME NEW T, T \subseteq Nat, 0 \in T, \A n \in T : n + 1 \in T
  PROVE  T = Nat
<1> SUFFICES ASSUME Nat \ T # {} PROVE FALSE
  OBVIOUS
<1> DEFINE R == OpToRel(<, Nat)
<1>1. IsWellFoundedOn(R, Nat)
  BY NatLessThanWellFounded
<1>2. R = {s \in Nat \X Nat : s[1] < s[2]}
  BY DEF OpToRel
<1> HIDE DEF R
<1>3. PICK u \in Nat \ T : \A v \in Nat \ T : <<v, u>> \notin R
  BY <1>1, WFMin
<1>4. u # 0 /\ u - 1 \in Nat /\ u = (u - 1) + 1
  OBVIOUS
<1>5. u - 1 \notin T
  BY <1>4
<1>6. <<u - 1, u>> \in Nat \X Nat /\ <<u - 1, u>>[1] < <<u - 1, u>>[2]
  BY <1>4
<1> QED
  BY <1>2, <1>3, <1>4, <1>5, <1>6

\* A function that is defined by recursion over the numbers exists.
Recursion(f, S, base, step) ==
  /\ f \in [Nat -> S]
  /\ f = [n \in Nat |-> IF n = 0 THEN base ELSE step[n][f[n - 1]]]

LEMMA RecursionExists ==
  ASSUME NEW S, NEW base \in S, NEW step \in [Nat -> [S -> S]]
  PROVE  \E f : Recursion(f, S, base, step)
<1> DEFINE Prefix(g, m) ==
             /\ g \in [0 .. m -> S] /\ g[0] = base
             /\ \A i \in 1 .. m : g[i] = step[i][g[i - 1]]
           T == {m \in Nat : \E g : Prefix(g, m)}
           G(n) == CHOOSE g : Prefix(g, n)
           F == [n \in Nat |-> G(n)[n]]
<1>1. T = Nat
  <2>1. 0 \in T
    <3>1. Prefix([i \in 0 .. 0 |-> base], 0)
      OBVIOUS
    <3> QED
      BY <3>1
  <2>2. ASSUME NEW m \in T PROVE m + 1 \in T
    <3>1. PICK g : Prefix(g, m)
      OBVIOUS
    <3> DEFINE h == [i \in 0 .. (m + 1) |-> IF i <= m THEN g[i] ELSE step[m + 1][g[m]]]
    <3>2. m \in Nat /\ g[m] \in S /\ step[m + 1] \in [S -> S]
      BY <3>1
    <3>3. step[m + 1][g[m]] \in S
      BY <3>2
    <3>4. h \in [0 .. (m + 1) -> S] /\ h[0] = base
      BY <3>1, <3>2, <3>3
    <3>5. ASSUME NEW i \in 1 .. (m + 1) PROVE h[i] = step[i][h[i - 1]]
      <4>1. CASE i <= m
        <5>1. h[i] = g[i] /\ h[i - 1] = g[i - 1] /\ i \in 1 .. m
          BY <3>2, <4>1
        <5> QED
          BY <3>1, <5>1
      <4>2. CASE i = m + 1
        <5>1. i - 1 = m /\ i \in 0 .. (m + 1) /\ m \in 0 .. (m + 1) /\ ~(m + 1 <= m) /\ m <= m
          BY <3>2, <4>2
        <5>2. h[m + 1] = step[m + 1][g[m]]
          BY <4>2, <5>1
        <5>3. h[m] = g[m]
          BY <5>1
        <5> HIDE DEF h
        <5> QED
          BY <4>2, <5>1, <5>2, <5>3
      <4>3. i <= m \/ i = m + 1
        BY <3>2
      <4> QED
        BY <4>1, <4>2, <4>3
    <3>6. Prefix(h, m + 1)
      <4> HIDE DEF h
      <4> QED
        BY <3>4, <3>5
    <3>7. m + 1 \in Nat
      BY <3>2
    <3> HIDE DEF h, Prefix
    <3> QED
      BY <3>6, <3>7
  <2> HIDE DEF Prefix
  <2>3. T \subseteq Nat
    OBVIOUS
  <2> HIDE DEF T
  <2> QED
    BY <2>1, <2>2, <2>3, EveryNumber
<1>2. \A n \in Nat : Prefix(G(n), n)
  <2> HIDE DEF Prefix
  <2> QED
    BY <1>1
<1>3. ASSUME NEW m \in Nat, NEW n \in Nat, m <= n, NEW g, Prefix(g, m), NEW h, Prefix(h, n)
      PROVE  g[m] = h[m]
  <2> DEFINE V == {i \in Nat : i <= m => g[i] = h[i]}
  <2>1. 0 \in V
    BY <1>3
  <2>2. ASSUME NEW i \in V PROVE i + 1 \in V
    <3> SUFFICES ASSUME i + 1 <= m PROVE g[i + 1] = h[i + 1]
      OBVIOUS
    <3>1. g[i] = h[i] /\ i + 1 \in 1 .. m /\ i + 1 \in 1 .. n /\ (i + 1) - 1 = i
      BY <1>3
    <3>2. g[i + 1] = step[i + 1][g[(i + 1) - 1]] /\ h[i + 1] = step[i + 1][h[(i + 1) - 1]]
      BY <1>3, <3>1
    <3> QED
      BY <3>1, <3>2
  <2>3. V \subseteq Nat
    OBVIOUS
  <2>4. V = Nat
    <3> HIDE DEF V
    <3> QED
      BY <2>1, <2>2, <2>3, EveryNumber
  <2> QED
    BY <2>4
<1>4. ASSUME NEW n \in Nat PROVE F[n] = IF n = 0 THEN base ELSE step[n][F[n - 1]]
  <2>1. CASE n = 0
    <3>1. G(n)[0] = base
      BY <1>2
    <3> QED
      BY <2>1, <3>1
  <2>2. CASE n # 0
    <3>1. n - 1 \in Nat /\ n - 1 <= n /\ n \in 1 .. n
      BY <2>2
    <3>2. G(n)[n] = step[n][G(n)[n - 1]]
      BY <1>2, <3>1
    <3>3. G(n - 1)[n - 1] = G(n)[n - 1]
      <4> HIDE DEF Prefix, G
      <4> QED
        BY <1>2, <1>3, <3>1
    <3> HIDE DEF G
    <3> QED
      BY <2>2, <3>1, <3>2, <3>3
  <2> QED
    BY <2>1, <2>2
<1>5. F = [n \in Nat |-> IF n = 0 THEN base ELSE step[n][F[n - 1]]]
  <2> HIDE DEF G
  <2>1. F = [n \in Nat |-> F[n]]
    OBVIOUS
  <2> HIDE DEF F
  <2> QED
    BY <1>4, <2>1
<1>6. F \in [Nat -> S]
  <2>1. ASSUME NEW n \in Nat PROVE G(n)[n] \in S
    <3> HIDE DEF G
    <3>1. n \in 0 .. n /\ G(n) \in [0 .. n -> S]
      BY <1>2
    <3> QED
      BY <3>1
  <2> HIDE DEF G
  <2> QED
    BY <2>1
<1>7. Recursion(F, S, base, step)
  BY <1>5, <1>6 DEF Recursion
<1> HIDE DEF F
<1> QED
  BY <1>7

\* The function that joins more and more pages exists.
LEMMA JoinExists ==
  ASSUME NEW S, NEW page, \A n \in Nat : page[n] \in Seq(S)
  PROVE  \E f : f = [n \in Nat |-> IF n = 0 THEN <<>> ELSE f[n - 1] \o page[n]]
<1> DEFINE step == [n \in Nat |-> [list \in Seq(S) |-> list \o page[n]]]
<1>1. step \in [Nat -> [Seq(S) -> Seq(S)]]
  <2>1. \A n \in Nat, list \in Seq(S) : list \o page[n] \in Seq(S)
    BY ConcatProperties
  <2> QED
    BY <2>1
<1>2. <<>> \in Seq(S)
  BY EmptySeq
<1>3. \A n \in Nat, list \in Seq(S) : step[n][list] = list \o page[n]
  OBVIOUS
<1> HIDE DEF step
<1>4. PICK f : Recursion(f, Seq(S), <<>>, step)
  BY <1>1, <1>2, RecursionExists
<1>5. ASSUME NEW n \in Nat
      PROVE  (IF n = 0 THEN <<>> ELSE step[n][f[n - 1]])
             = IF n = 0 THEN <<>> ELSE f[n - 1] \o page[n]
  <2>1. n # 0 => f[n - 1] \in Seq(S)
    BY <1>4 DEF Recursion
  <2> QED
    BY <1>3, <2>1
<1>6. f = [n \in Nat |-> IF n = 0 THEN <<>> ELSE f[n - 1] \o page[n]]
  BY <1>4, <1>5 DEF Recursion
<1> QED
  BY <1>6

\* Enough pages for i items, and no more.
LEMMA CeilBounds ==
  ASSUME NEW i \in Nat, NEW size \in Nat \ {0}
  PROVE  /\ Ceil(i, size) \in Nat /\ i <= Ceil(i, size) * size
         /\ i # 0 => (Ceil(i, size) - 1) * size < i
<1> DEFINE c == (i + size - 1) \div size
<1>1. c \in Int /\ c * size <= i + size - 1 /\ i + size - 1 < (c + 1) * size
  OBVIOUS
<1>2. (c + 1) * size = c * size + size /\ (c - 1) * size = c * size - size
  BY <1>1
<1>3. c >= 0
  <2> SUFFICES ASSUME c + 1 <= 0 PROVE FALSE
    BY <1>1
  <2>1. (c + 1) * size <= 0 * size
    BY <1>1
  <2> QED
    BY <1>1, <2>1
<1> QED
  BY <1>1, <1>2, <1>3 DEF Ceil

\* An item of a list is on the page of its position.
LEMMA OnPage ==
  ASSUME NEW i \in Nat \ {0}, NEW size \in Nat \ {0}, NEW n \in Nat \ {0}
  PROVE  Ceil(i, size) = n <=> (n - 1) * size < i /\ i <= n * size
<1>1. (n + 1) * size = n * size + size /\ (n - 1) * size = n * size - size /\ n * size \in Nat
  OBVIOUS
<1>2. ASSUME (n - 1) * size < i, i <= n * size PROVE Ceil(i, size) = n
  <2>1. n * size <= i + size - 1 /\ i + size - 1 < (n + 1) * size
    BY <1>1, <1>2
  <2> QED
    BY <2>1, Quotient DEF Ceil
<1>3. Ceil(i, size) = n => (n - 1) * size < i /\ i <= n * size
  BY CeilBounds
<1> QED
  BY <1>2, <1>3

\* The page of an item is one of the list's.
LEMMA CeilGrows ==
  ASSUME NEW i \in Nat \ {0}, NEW m \in Nat, i <= m, NEW size \in Nat \ {0}
  PROVE  Ceil(i, size) \in 1 .. Ceil(m, size)
<1> DEFINE c == Ceil(i, size)
           d == Ceil(m, size)
<1>1. c \in Nat /\ i <= c * size /\ (c - 1) * size < i /\ d \in Nat /\ m <= d * size
  BY CeilBounds
<1> HIDE DEF c, d
<1>2. c # 0
  BY <1>1
<1>3. ~(d <= c - 1)
  <2> SUFFICES ASSUME d <= c - 1 PROVE FALSE
    OBVIOUS
  <2>1. d * size <= (c - 1) * size
    BY <1>1
  <2> QED
    BY <1>1, <2>1
<1> QED
  BY <1>1, <1>2, <1>3 DEF c, d

\* The items of a slice.
LEMMA SliceItems ==
  ASSUME NEW S, NEW list \in Seq(S), NEW o \in Nat, NEW size \in Nat \ {0}
  PROVE  LET p == Slice(list, o, size)
         IN  /\ p \in Seq(S)
             /\ Len(p) \in Nat /\ DOMAIN p = 1 .. Len(p)
             /\ \A k \in Nat \ {0} : k <= Len(p) <=> k <= size /\ o + k <= Len(list)
             /\ \A k \in 1 .. Len(p) : p[k] = list[o + k]
<1> DEFINE n == Least(o + size, Len(list))
           p == SubSeq(list, o + 1, n)
<1>1. n \in Nat /\ n <= Len(list) /\ (n = o + size \/ (n = Len(list) /\ n <= o + size))
  BY DEF Least
<1> HIDE DEF n
<1>2. \A i \in (o + 1) .. n : list[i] \in S
  BY <1>1
<1>3. /\ p \in Seq(S) /\ Len(p) = IF o + 1 <= n THEN n - (o + 1) + 1 ELSE 0
      /\ \A k \in 1 .. n - (o + 1) + 1 : p[k] = list[(o + 1) + k - 1]
  <2>1. o + 1 \in Int /\ n \in Int
    BY <1>1
  <2> HIDE DEF p
  <2> QED
    BY <1>2, <2>1, SubSeqProperties DEF p
<1> HIDE DEF p
<1>4. Len(p) \in Nat /\ \A k \in Nat \ {0} : k <= Len(p) <=> k <= size /\ o + k <= Len(list)
  <2>1. CASE o + 1 <= n
    <3>1. Len(p) = n - o
      BY <1>1, <1>3, <2>1
    <3> QED
      BY <1>1, <2>1, <3>1
  <2>2. CASE n < o + 1
    <3>1. Len(p) = 0
      BY <1>1, <1>3, <2>2
    <3> QED
      BY <1>1, <2>2, <3>1
  <2> QED
    BY <1>1, <2>1, <2>2
<1>5. DOMAIN p = 1 .. Len(p)
  BY <1>3, LenProperties
<1>6. ASSUME NEW k \in 1 .. Len(p) PROVE p[k] = list[o + k]
  <2>1. k \in 1 .. n - (o + 1) + 1 /\ (o + 1) + k - 1 = o + k
    BY <1>1, <1>3, <1>4
  <2> QED
    BY <1>3, <2>1
<1> QED
  BY <1>3, <1>4, <1>5, <1>6 DEF Slice, n, p

\* What is returned is the last of the lists that are joined page after page.
Joining(S, counted, later, early, size, f) ==
  /\ f[0] = <<>>
  /\ \A n \in Nat :
       /\ f[n] \in Seq(S)
       /\ PageRead(counted, later, early, size, n + 1) \in Seq(S)
       /\ f[n + 1] = f[n] \o PageRead(counted, later, early, size, n + 1)
  /\ AllViaLoader(counted, later, early, size) = f[Ceil(Len(counted), size)]

LEMMA Joined ==
  ASSUME NEW S, NEW counted \in Seq(S), NEW later \in Seq(S), NEW early,
         NEW size \in Nat \ {0}
  PROVE  \E f : Joining(S, counted, later, early, size, f)
<1> DEFINE Read(n) == PageRead(counted, later, early, size, n)
           page == [n \in Nat |-> IF n = 0 THEN <<>> ELSE Read(n)]
           Joins(h) == [n \in Nat |-> IF n = 0 THEN <<>> ELSE h[n - 1] \o Read(n)]
           U == CHOOSE h : h = Joins(h)
<1>1. ASSUME NEW n \in Nat \ {0} PROVE Read(n) \in Seq(S)
  <2>1. (n - 1) * size \in Nat
    OBVIOUS
  <2> QED
    BY <2>1, SliceItems DEF PageRead
<1>2. AllViaLoader(counted, later, early, size) = U[Ceil(Len(counted), size)]
  BY DEF AllViaLoader
<1> HIDE DEF Read
<1>3. U = Joins(U)
  <2>1. \A n \in Nat : page[n] \in Seq(S)
    BY <1>1
  <2> HIDE DEF page
  <2>2. PICK g : g = [n \in Nat |-> IF n = 0 THEN <<>> ELSE g[n - 1] \o page[n]]
    BY <2>1, JoinExists
  <2>3. \A n \in Nat : (IF n = 0 THEN <<>> ELSE g[n - 1] \o page[n])
                       = IF n = 0 THEN <<>> ELSE g[n - 1] \o Read(n)
    BY DEF page
  <2>4. g = Joins(g)
    BY <2>2, <2>3
  <2> QED
    BY <2>4
<1> HIDE DEF U
<1>4. U[0] = <<>>
  BY <1>3
<1>5. ASSUME NEW n \in Nat PROVE U[n + 1] = U[n] \o Read(n + 1)
  <2>1. n + 1 \in Nat /\ n + 1 # 0 /\ (n + 1) - 1 = n
    OBVIOUS
  <2>2. U[n + 1] = U[(n + 1) - 1] \o Read(n + 1)
    BY <1>3, <2>1
  <2> QED
    BY <2>1, <2>2
<1>6. ASSUME NEW n \in Nat PROVE U[n] \in Seq(S)
  <2> DEFINE T == {i \in Nat : U[i] \in Seq(S)}
  <2>1. 0 \in T
    BY <1>4, EmptySeq
  <2>2. ASSUME NEW i \in T PROVE i + 1 \in T
    <3>1. U[i] \in Seq(S) /\ i \in Nat /\ i + 1 \in Nat \ {0}
      OBVIOUS
    <3>2. Read(i + 1) \in Seq(S)
      BY <1>1, <3>1
    <3>3. U[i] \o Read(i + 1) \in Seq(S)
      BY <3>1, <3>2, ConcatProperties
    <3> QED
      BY <1>5, <3>1, <3>3
  <2>3. T \subseteq Nat
    OBVIOUS
  <2> HIDE DEF T
  <2>4. T = Nat
    BY <2>1, <2>2, <2>3, EveryNumber
  <2> QED
    BY <2>4 DEF T
<1>7. \A n \in Nat : Read(n + 1) \in Seq(S)
  BY <1>1
<1> QED
  <2>1. Joining(S, counted, later, early, size, U)
    BY <1>2, <1>4, <1>5, <1>6, <1>7 DEF Read, Joining
  <2> QED
    BY <2>1

Positions(x, s) == {i \in DOMAIN s : s[i] = x}

Once(x, s) == \E k : Positions(x, s) = {k}

Never(x, s) == Positions(x, s) = {}

\* Where an item is in two lists, one after the other.
LEMMA PositionsOfConcat ==
  ASSUME NEW S, NEW s \in Seq(S), NEW t \in Seq(S), NEW x
  PROVE  Positions(x, s \o t) = Positions(x, s) \cup {Len(s) + i : i \in Positions(x, t)}
<1> DEFINE u == s \o t
<1>1. u \in Seq(S) /\ Len(u) = Len(s) + Len(t)
  BY ConcatProperties
<1>2. \A i \in 1 .. Len(s) + Len(t) : u[i] = IF i <= Len(s) THEN s[i] ELSE t[i - Len(s)]
  BY ConcatProperties
<1>3. /\ Len(s) \in Nat /\ Len(t) \in Nat
      /\ DOMAIN s = 1 .. Len(s) /\ DOMAIN t = 1 .. Len(t) /\ DOMAIN u = 1 .. Len(s) + Len(t)
  BY <1>1, LenProperties
<1> HIDE DEF u
<1>4. ASSUME NEW i \in Positions(x, u), i > Len(s)
      PROVE  i \in {Len(s) + j : j \in Positions(x, t)}
  <2>1. i - Len(s) \in 1 .. Len(t) /\ Len(s) + (i - Len(s)) = i
    BY <1>3, <1>4 DEF Positions
  <2>2. t[i - Len(s)] = x
    BY <1>2, <1>3, <1>4 DEF Positions
  <2>3. i - Len(s) \in Positions(x, t)
    BY <1>3, <2>1, <2>2 DEF Positions
  <2> QED
    BY <2>1, <2>3
<1>5. ASSUME NEW i \in Positions(x, u), i <= Len(s) PROVE i \in Positions(x, s)
  BY <1>2, <1>3, <1>5 DEF Positions
<1>6. ASSUME NEW i \in Positions(x, s) PROVE i \in Positions(x, u)
  BY <1>2, <1>3 DEF Positions
<1>7. ASSUME NEW j \in Positions(x, t) PROVE Len(s) + j \in Positions(x, u)
  <2>1. j \in 1 .. Len(t) /\ t[j] = x
    BY <1>3 DEF Positions
  <2>2. Len(s) + j \in 1 .. Len(s) + Len(t) /\ ~(Len(s) + j <= Len(s)) /\ (Len(s) + j) - Len(s) = j
    BY <1>3, <2>1
  <2> QED
    BY <1>2, <1>3, <2>1, <2>2 DEF Positions
<1>8. \A i \in Positions(x, u) : i \in Nat
  BY <1>3 DEF Positions
<1>9. \A i \in Positions(x, u) : i > Len(s) \/ i <= Len(s)
  BY <1>3, <1>8
<1> QED
  BY <1>4, <1>5, <1>6, <1>7, <1>9 DEF u

\* In a list without repetition an item is on one page, and there once.
LEMMA PageHolds ==
  ASSUME NEW S, NEW list \in Seq(S), IsInjective(list), NEW size \in Nat \ {0},
         NEW x, x \in ToSet(list), NEW n \in Nat \ {0}
  PROVE  LET held == Slice(list, (n - 1) * size, size)
         IN  /\ PageOfItem(x, list, size) \in 1 .. Ceil(Len(list), size)
             /\ PageOfItem(x, list, size) = n => Once(x, held)
             /\ PageOfItem(x, list, size) # n => Never(x, held)
<1> DEFINE o == (n - 1) * size
           held == Slice(list, o, size)
           j == CHOOSE i \in DOMAIN list : list[i] = x
<1>1. j \in DOMAIN list /\ list[j] = x
  BY DEF ToSet
<1>2. DOMAIN list = 1 .. Len(list) /\ Len(list) \in Nat
  BY LenProperties
<1>3. PageOfItem(x, list, size) = Ceil(j, size)
  BY DEF PageOfItem
<1> HIDE DEF j
<1>4. j \in Nat \ {0} /\ j <= Len(list)
  BY <1>1, <1>2
<1>5. PageOfItem(x, list, size) \in 1 .. Ceil(Len(list), size)
  BY <1>2, <1>3, <1>4, CeilGrows
<1>6. o \in Nat /\ n * size = o + size
  OBVIOUS
<1> HIDE DEF o
<1>7. Ceil(j, size) = n <=> o < j /\ j <= o + size
  BY <1>4, <1>6, OnPage DEF o
<1>8. /\ Len(held) \in Nat /\ DOMAIN held = 1 .. Len(held)
      /\ \A k \in Nat \ {0} : k <= Len(held) <=> k <= size /\ o + k <= Len(list)
      /\ \A k \in 1 .. Len(held) : held[k] = list[o + k]
  <2>1. o \in Nat /\ list \in Seq(S) /\ size \in Nat \ {0}
    BY <1>6
  <2> QED
    BY ONLY <2>1, SliceItems
<1> HIDE DEF held
<1>9. ASSUME NEW k \in Positions(x, held)
      PROVE  o + k = j /\ k \in Nat \ {0} /\ k <= size
  <2>1. k \in Nat \ {0} /\ k <= Len(held) /\ k \in 1 .. Len(held) /\ held[k] = x
    BY <1>8 DEF Positions
  <2>2. k <= size /\ o + k <= Len(list)
    BY <1>8, <2>1
  <2>3. o + k \in DOMAIN list /\ list[o + k] = x
    BY <1>2, <1>6, <1>8, <2>1, <2>2
  <2> QED
    BY <1>1, <2>1, <2>2, <2>3 DEF IsInjective
<1>10. ASSUME Ceil(j, size) = n PROVE Positions(x, held) = {j - o}
  <2>1. j - o \in Nat \ {0} /\ j - o <= size /\ o + (j - o) = j
    BY <1>4, <1>6, <1>7, <1>10
  <2>2. j - o <= Len(held)
    BY <1>4, <1>8, <2>1
  <2>3. j - o \in 1 .. Len(held)
    BY <1>8, <2>1, <2>2
  <2>4. j - o \in Positions(x, held)
    BY <1>1, <1>8, <2>1, <2>3 DEF Positions
  <2>5. ASSUME NEW k \in Positions(x, held) PROVE k = j - o
    BY <1>4, <1>6, <1>9
  <2> QED
    BY <2>4, <2>5
<1>11. ASSUME Ceil(j, size) # n PROVE Positions(x, held) = {}
  <2> SUFFICES ASSUME NEW k \in Positions(x, held) PROVE FALSE
    OBVIOUS
  <2>1. o < j /\ j <= o + size
    BY <1>4, <1>6, <1>9
  <2> QED
    BY <1>7, <1>11, <2>1
<1> QED
  BY <1>3, <1>5, <1>10, <1>11 DEF Once, Never, held, o

\* What may be expected of all pages together: AllPagesRead of any lists.
Gathered(counted, later, size, all) ==
  /\ later = counted => all = counted
  /\ \A item \in ToSet(counted) :
       PageOfItem(item, counted, size) = PageOfItem(item, later, size)
         => Occurrences(item, all) = 1
  /\ ToSet(all) \subseteq ToSet(counted) \cup ToSet(later)

\* The pages of a list that does not change are adjacent.
LEMMA UntouchedIsWhole ==
  ASSUME NEW S, NEW list \in Seq(S), NEW early, NEW size \in Nat \ {0}
  PROVE  AllViaLoader(list, list, early, size) = list
<1> DEFINE Read(n) == PageRead(list, list, early, size, n)
           To(n) == Least(n * size, Len(list))
           c == Ceil(Len(list), size)
<1>0. PICK f : Joining(S, list, list, early, size, f)
  BY Joined
<1>1. /\ f[0] = <<>>
      /\ \A n \in Nat : /\ f[n] \in Seq(S)
                        /\ Read(n + 1) \in Seq(S)
                        /\ f[n + 1] = f[n] \o Read(n + 1)
      /\ AllViaLoader(list, list, early, size) = f[c]
  BY <1>0 DEF Joining
<1>2. Len(list) \in Nat
  BY LenProperties
<1>3. ASSUME NEW n \in Nat
      PROVE  SubSeq(list, 1, To(n)) \o Read(n + 1) = SubSeq(list, 1, To(n + 1))
  <2>1. Read(n + 1) = SubSeq(list, n * size + 1, To(n + 1))
    <3>1. (n + 1) - 1 = n /\ (n + 1) * size = n * size + size
      OBVIOUS
    <3> QED
      BY <3>1 DEF PageRead, Slice
  <2>2. n * size \in Nat /\ (n + 1) * size \in Nat /\ n * size <= (n + 1) * size
    <3>1. (n + 1) * size = n * size + size
      OBVIOUS
    <3> QED
      BY <3>1
  <2>3. CASE n * size <= Len(list)
    <3>1. To(n) = n * size /\ To(n + 1) \in n * size .. Len(list)
      BY <1>2, <2>2, <2>3 DEF Least
    <3>2. 1 \in 1 .. Len(list) + 1 /\ n * size \in (1 - 1) .. Len(list)
      BY <1>2, <2>2, <2>3
    <3> HIDE DEF To
    <3>3. SubSeq(list, 1, n * size) \o SubSeq(list, n * size + 1, To(n + 1))
          = SubSeq(list, 1, To(n + 1))
      BY ONLY <3>1, <3>2, list \in Seq(S), ConcatAdjacentSubSeq
    <3> QED
      BY <2>1, <3>1, <3>3
  <2>4. CASE Len(list) < n * size
    <3>1. To(n) = Len(list) /\ To(n + 1) = Len(list)
      BY <1>2, <2>2, <2>4 DEF Least
    <3>2. SubSeq(list, n * size + 1, Len(list)) = <<>>
      BY <1>2, <2>2, <2>4, SubSeqEmpty
    <3>3. SubSeq(list, 1, Len(list)) = list
      BY SubSeqFull
    <3>4. list \o <<>> = list
      BY ConcatEmptySeq
    <3> QED
      BY <2>1, <3>1, <3>2, <3>3, <3>4
  <2>5. n * size <= Len(list) \/ Len(list) < n * size
    BY <1>2, <2>2
  <2> HIDE DEF Read, To
  <2> QED
    BY <2>3, <2>4, <2>5
<1> DEFINE T == {n \in Nat : f[n] = SubSeq(list, 1, To(n))}
<1>4. 0 \in T
  <2>1. To(0) = 0
    BY <1>2 DEF Least
  <2>2. SubSeq(list, 1, 0) = <<>>
    BY SubSeqEmpty
  <2> QED
    BY <1>1, <2>1, <2>2
<1> HIDE DEF Read, To
<1>5. ASSUME NEW n \in T PROVE n + 1 \in T
  <2>1. n \in Nat /\ n + 1 \in Nat /\ f[n] = SubSeq(list, 1, To(n))
    OBVIOUS
  <2>2. f[n + 1] = f[n] \o Read(n + 1)
    BY <1>1, <2>1
  <2> QED
    BY <1>3, <2>1, <2>2
<1>6. T = Nat
  <2>1. T \subseteq Nat
    OBVIOUS
  <2> HIDE DEF T
  <2> QED
    BY <1>4, <1>5, <2>1, EveryNumber
<1>7. c \in Nat /\ Len(list) <= c * size /\ c * size \in Nat
  BY <1>2, CeilBounds
<1> HIDE DEF c
<1>8. f[c] = SubSeq(list, 1, To(c))
  BY <1>6, <1>7
<1>9. To(c) = Len(list)
  BY <1>2, <1>7 DEF To, Least
<1> QED
  BY <1>1, <1>8, <1>9, SubSeqFull

\* An item is on no page before its own and on none after it.
LEMMA StayerIsReadOnce ==
  ASSUME NEW S, NEW counted \in Seq(S), NEW later \in Seq(S),
         IsInjective(counted), IsInjective(later), NEW early, NEW size \in Nat \ {0},
         NEW x, x \in ToSet(counted),
         PageOfItem(x, counted, size) = PageOfItem(x, later, size)
  PROVE  Once(x, AllViaLoader(counted, later, early, size))
<1> DEFINE Read(n) == PageRead(counted, later, early, size, n)
           c == Ceil(Len(counted), size)
           p == PageOfItem(x, counted, size)
<1>0. PICK f : Joining(S, counted, later, early, size, f)
  BY Joined
<1>1. /\ f[0] = <<>>
      /\ \A n \in Nat : /\ f[n] \in Seq(S)
                        /\ Read(n + 1) \in Seq(S)
                        /\ f[n + 1] = f[n] \o Read(n + 1)
      /\ AllViaLoader(counted, later, early, size) = f[c]
  BY <1>0 DEF Joining
<1>2. p \in 1 .. c /\ c \in Nat
  <2>1. 1 \in Nat \ {0} /\ Len(counted) \in Nat
    BY LenProperties
  <2> QED
    BY <2>1, PageHolds, CeilBounds
<1>3. x \in ToSet(later)
  <2>1. PageOfItem(x, later, size) # 0
    BY <1>2
  <2> QED
    BY <2>1 DEF PageOfItem
<1>4. ASSUME NEW n \in Nat \ {0}
      PROVE  (n = p => Once(x, Read(n))) /\ (n # p => Never(x, Read(n)))
  <2>1. /\ p = n => Once(x, Slice(counted, (n - 1) * size, size))
        /\ p # n => Never(x, Slice(counted, (n - 1) * size, size))
    BY PageHolds
  <2>2. /\ p = n => Once(x, Slice(later, (n - 1) * size, size))
        /\ p # n => Never(x, Slice(later, (n - 1) * size, size))
    BY <1>3, PageHolds
  <2> QED
    BY <2>1, <2>2 DEF PageRead
<1> HIDE DEF Read, c, p
<1> DEFINE T == {n \in Nat : (n < p => Never(x, f[n])) /\ (p <= n => Once(x, f[n]))}
<1>5. 0 \in T
  <2>1. Never(x, <<>>)
    BY DEF Never, Positions
  <2> QED
    BY <1>1, <1>2, <2>1
<1>6. ASSUME NEW n \in T PROVE n + 1 \in T
  <2>0. n \in Nat /\ n + 1 \in Nat \ {0}
    OBVIOUS
  <2>1. n \in Nat /\ n + 1 \in Nat \ {0} /\ f[n] \in Seq(S) /\ Read(n + 1) \in Seq(S)
    BY <1>1, <2>0
  <2>2. Positions(x, f[n + 1])
        = Positions(x, f[n]) \cup {Len(f[n]) + i : i \in Positions(x, Read(n + 1))}
    <3>1. f[n + 1] = f[n] \o Read(n + 1)
      BY <1>1, <2>0
    <3> QED
      BY ONLY <2>1, <3>1, PositionsOfConcat
  <2>3. (n + 1 = p => Once(x, Read(n + 1))) /\ (n + 1 # p => Never(x, Read(n + 1)))
    BY <1>4, <2>1
  <2>4. CASE n + 1 < p
    <3>1. Never(x, f[n]) /\ Never(x, Read(n + 1))
      BY <1>2, <2>1, <2>3, <2>4
    <3> QED
      BY <1>2, <2>1, <2>2, <2>4, <3>1 DEF Never
  <2>5. CASE n + 1 = p
    <3>1. Never(x, f[n]) /\ Once(x, Read(n + 1))
      BY <1>2, <2>1, <2>3, <2>5
    <3>2. PICK k : Positions(x, Read(n + 1)) = {k}
      BY <3>1 DEF Once
    <3>3. Positions(x, f[n + 1]) = {Len(f[n]) + k}
      BY <2>2, <3>1, <3>2 DEF Never
    <3> QED
      <4>1. Once(x, f[n + 1])
        BY <3>3 DEF Once
      <4>2. ~(n + 1 < p)
        BY <1>2, <2>1, <2>5
      <4> QED
        BY <2>1, <4>1, <4>2
  <2>6. CASE p < n + 1
    <3>1. Once(x, f[n]) /\ Never(x, Read(n + 1))
      BY <1>2, <2>1, <2>3, <2>6
    <3>2. Positions(x, f[n + 1]) = Positions(x, f[n])
      BY <2>2, <3>1 DEF Never
    <3> QED
      <4>1. Once(x, f[n + 1])
        BY <3>1, <3>2 DEF Once
      <4>2. ~(n + 1 < p)
        BY <1>2, <2>1, <2>6
      <4> QED
        BY <2>1, <4>1, <4>2
  <2> QED
    BY <1>2, <2>1, <2>4, <2>5, <2>6
<1>7. T = Nat
  <2>1. T \subseteq Nat
    OBVIOUS
  <2> HIDE DEF T
  <2> QED
    BY <1>5, <1>6, <2>1, EveryNumber
<1> QED
  BY <1>1, <1>2, <1>7

\* allViaLoader reads a list of distinct items while it changes, however long it
\* is, whatever the change and whichever pages were read before it: what stays on
\* its page is returned once, and nothing is made up.
THEOREM AllPagesTogether ==
  ASSUME NEW S, NEW counted \in Seq(S), NEW later \in Seq(S),
         IsInjective(counted), IsInjective(later), NEW early, NEW size \in Nat \ {0}
  PROVE  Gathered(counted, later, size, AllViaLoader(counted, later, early, size))
<1> DEFINE all == AllViaLoader(counted, later, early, size)
           R == ToSet(counted) \cup ToSet(later)
<1>1. later = counted => all = counted
  BY UntouchedIsWhole
<1>2. ASSUME NEW item \in ToSet(counted),
             PageOfItem(item, counted, size) = PageOfItem(item, later, size)
      PROVE  Occurrences(item, all) = 1
  <2>1. Once(item, all)
    BY <1>2, StayerIsReadOnce
  <2> HIDE DEF all
  <2>2. PICK k : Positions(item, all) = {k}
    BY <2>1 DEF Once
  <2>3. Cardinality({k}) = 1
    BY FS_Singleton
  <2> QED
    BY <2>2, <2>3 DEF Occurrences, Positions
<1>3. ToSet(all) \subseteq R
  <2>1. counted \in Seq(R) /\ later \in Seq(R)
    <3>1. counted \in [1 .. Len(counted) -> R] /\ later \in [1 .. Len(later) -> R]
      BY LenProperties DEF ToSet
    <3>2. Len(counted) \in Nat /\ Len(later) \in Nat
      BY LenProperties
    <3> HIDE DEF R
    <3> QED
      BY <3>1, <3>2, SeqDef
  <2> HIDE DEF R
  <2>2. PICK f : Joining(R, counted, later, early, size, f)
    BY <2>1, Joined
  <2>3. Ceil(Len(counted), size) \in Nat
    BY <2>1, LenProperties, CeilBounds
  <2>4. all \in Seq(R)
    BY <2>2, <2>3 DEF Joining
  <2> HIDE DEF all
  <2> QED
    BY <2>4, LenProperties DEF ToSet
<1> QED
  BY <1>1, <1>2, <1>3 DEF Gathered

\* The jobs: a numbered list, with one item put in or taken out.
LEMMA LaterList ==
  ASSUME NEW n \in Nat, NEW list \in Later(n)
  PROVE  list \in Seq(Nat) /\ IsInjective(list)
<1> DEFINE r == Range1(n)
<1>1. r \in Seq(Nat) /\ Len(r) = n /\ \A k \in 1 .. n : r[k] = k
  BY DEF Range1
<1>2. IsInjective(r)
  BY DEF Range1, IsInjective
<1> HIDE DEF r
<1>3. ASSUME NEW a \in 1 .. n + 1, NEW b \in Int, b <= n
      PROVE  /\ SubSeq(r, a, b) \in Seq(Nat)
             /\ Len(SubSeq(r, a, b)) = IF a <= b THEN b - a + 1 ELSE 0
             /\ \A k \in 1 .. b - a + 1 : SubSeq(r, a, b)[k] = a + k - 1
  <2>1. \A k \in a .. b : r[k] \in Nat
    BY <1>1, <1>3
  <2>2. a \in Int /\ b \in Int
    OBVIOUS
  <2>3. /\ SubSeq(r, a, b) \in Seq(Nat)
        /\ Len(SubSeq(r, a, b)) = IF a <= b THEN b - a + 1 ELSE 0
        /\ \A k \in 1 .. b - a + 1 : SubSeq(r, a, b)[k] = r[a + k - 1]
    BY ONLY <2>1, <2>2, SubSeqProperties
  <2> QED
    BY <1>1, <1>3, <2>3
<1>4. ASSUME NEW i \in 1 .. n + 1 PROVE InsertAt(r, i, 0) \in Seq(Nat) /\ IsInjective(InsertAt(r, i, 0))
  <2> DEFINE before == SubSeq(r, 1, i - 1)
             after == SubSeq(r, i, n)
             head == before \o <<0>>
             whole == head \o after
  <2>1. before \in Seq(Nat) /\ Len(before) = i - 1 /\ \A k \in 1 .. i - 1 : before[k] = k
    <3>1. 1 \in 1 .. n + 1 /\ (i - 1) \in Int /\ (i - 1) <= n
      OBVIOUS
    <3>2. /\ before \in Seq(Nat)
          /\ Len(before) = IF 1 <= (i - 1) THEN (i - 1) - 1 + 1 ELSE 0
          /\ \A k \in 1 .. (i - 1) - 1 + 1 : before[k] = 1 + k - 1
      BY <1>3, <3>1
    <3> HIDE DEF before
    <3> QED
      BY <3>1, <3>2
  <2>2. after \in Seq(Nat) /\ Len(after) = n - i + 1 /\ \A k \in 1 .. n - i + 1 : after[k] = i + k - 1
    <3>1. i \in 1 .. n + 1 /\ n \in Int /\ n <= n
      OBVIOUS
    <3>2. /\ after \in Seq(Nat)
          /\ Len(after) = IF i <= n THEN n - i + 1 ELSE 0
          /\ \A k \in 1 .. n - i + 1 : after[k] = i + k - 1
      BY <1>3, <3>1
    <3> HIDE DEF after
    <3> QED
      BY <3>1, <3>2
  <2>3. <<0>> \in Seq(Nat) /\ Len(<<0>>) = 1 /\ <<0>>[1] = 0
    OBVIOUS
  <2> HIDE DEF before, after
  <2>4. /\ head \in Seq(Nat) /\ Len(head) = i
        /\ \A k \in 1 .. i : head[k] = IF k < i THEN k ELSE 0
    BY <2>1, <2>3, ConcatProperties
  <2> HIDE DEF head
  <2>5. /\ whole \in Seq(Nat) /\ Len(whole) = n + 1
        /\ \A k \in 1 .. n + 1 :
             whole[k] = IF k < i THEN k ELSE IF k = i THEN 0 ELSE k - 1
    <3>1. /\ whole \in Seq(Nat) /\ Len(whole) = Len(head) + Len(after)
          /\ \A k \in 1 .. Len(head) + Len(after) :
               whole[k] = IF k <= Len(head) THEN head[k] ELSE after[k - Len(head)]
      BY ONLY <2>2, <2>4, ConcatProperties
    <3> HIDE DEF whole
    <3>2. ASSUME NEW k \in 1 .. n + 1
          PROVE  whole[k] = IF k < i THEN k ELSE IF k = i THEN 0 ELSE k - 1
      <4>1. CASE k <= i
        BY <2>2, <2>4, <3>1, <4>1
      <4>2. CASE k > i
        <5>1. k - i \in 1 .. n - i + 1 /\ i + (k - i) - 1 = k - 1
          BY <4>2
        <5>2. whole[k] = after[k - i]
          <6>1. k \in 1 .. Len(head) + Len(after) /\ ~(k <= Len(head)) /\ k - Len(head) = k - i
            BY <2>2, <2>4, <4>2
          <6> QED
            BY <3>1, <6>1
        <5>3. after[k - i] = i + (k - i) - 1
          BY <2>2, <5>1
        <5> QED
          BY <4>2, <5>1, <5>2, <5>3
      <4> QED
        BY <4>1, <4>2
    <3> QED
      BY <2>2, <2>4, <3>1, <3>2
  <2>6. InsertAt(r, i, 0) = whole
    BY <1>1 DEF InsertAt, before, after, head
  <2> HIDE DEF whole
  <2>7. DOMAIN whole = 1 .. n + 1
    BY <2>5, LenProperties
  <2> QED
    <3>1. ASSUME NEW k \in 1 .. n + 1, NEW l \in 1 .. n + 1, whole[k] = whole[l] PROVE k = l
      <4>1. k \in Int /\ l \in Int
        OBVIOUS
      <4>2. CASE k < i
        BY <2>5, <3>1, <4>1, <4>2
      <4>3. CASE k = i
        BY <2>5, <3>1, <4>1, <4>3
      <4>4. CASE k > i
        <5>1. whole[k] = k - 1
          BY <2>5, <4>1, <4>4
        <5>2. whole[l] = IF l < i THEN l ELSE IF l = i THEN 0 ELSE l - 1
          BY <2>5
        <5> QED
          <6>1. k - 1 = IF l < i THEN l ELSE IF l = i THEN 0 ELSE l - 1
            BY <3>1, <5>1, <5>2
          <6>2. i \in Int /\ 1 <= i
            OBVIOUS
          <6> HIDE DEF whole, head
          <6> QED
            BY ONLY <4>1, <4>4, <6>1, <6>2
      <4> QED
        BY <4>1, <4>2, <4>3, <4>4
    <3>2. IsInjective(whole)
      BY <2>7, <3>1 DEF IsInjective
    <3> QED
      BY <2>5, <2>6, <3>2
<1>5. ASSUME NEW i \in 1 .. n PROVE RemoveAt(r, i) \in Seq(Nat) /\ IsInjective(RemoveAt(r, i))
  <2> DEFINE before == SubSeq(r, 1, i - 1)
             after == SubSeq(r, i + 1, n)
             whole == before \o after
  <2>1. before \in Seq(Nat) /\ Len(before) = i - 1 /\ \A k \in 1 .. i - 1 : before[k] = k
    <3>1. 1 \in 1 .. n + 1 /\ (i - 1) \in Int /\ (i - 1) <= n
      OBVIOUS
    <3>2. /\ before \in Seq(Nat)
          /\ Len(before) = IF 1 <= (i - 1) THEN (i - 1) - 1 + 1 ELSE 0
          /\ \A k \in 1 .. (i - 1) - 1 + 1 : before[k] = 1 + k - 1
      BY <1>3, <3>1
    <3> HIDE DEF before
    <3> QED
      BY <3>1, <3>2
  <2>2. after \in Seq(Nat) /\ Len(after) = n - i /\ \A k \in 1 .. n - i : after[k] = i + k
    <3>1. (i + 1) \in 1 .. n + 1 /\ n \in Int /\ n <= n
      OBVIOUS
    <3>2. /\ after \in Seq(Nat)
          /\ Len(after) = IF (i + 1) <= n THEN n - (i + 1) + 1 ELSE 0
          /\ \A k \in 1 .. n - (i + 1) + 1 : after[k] = (i + 1) + k - 1
      BY <1>3, <3>1
    <3> HIDE DEF after
    <3> QED
      BY <3>1, <3>2
  <2> HIDE DEF before, after
  <2>3. /\ whole \in Seq(Nat) /\ Len(whole) = n - 1
        /\ \A k \in 1 .. n - 1 : whole[k] = IF k < i THEN k ELSE k + 1
    <3>1. /\ whole \in Seq(Nat) /\ Len(whole) = Len(before) + Len(after)
          /\ \A k \in 1 .. Len(before) + Len(after) :
               whole[k] = IF k <= Len(before) THEN before[k] ELSE after[k - Len(before)]
      BY ONLY <2>1, <2>2, ConcatProperties
    <3> HIDE DEF whole
    <3>2. ASSUME NEW k \in 1 .. n - 1 PROVE whole[k] = IF k < i THEN k ELSE k + 1
      <4>1. CASE k < i
        <5>1. k \in 1 .. Len(before) + Len(after) /\ k <= Len(before) /\ k \in 1 .. i - 1
          BY <2>1, <2>2, <4>1
        <5>2. whole[k] = before[k]
          BY <3>1, <5>1
        <5> QED
          BY <2>1, <4>1, <5>1, <5>2
      <4>2. CASE k >= i
        <5>1. k - (i - 1) \in 1 .. n - i /\ i + (k - (i - 1)) = k + 1
          BY <4>2
        <5>2. whole[k] = after[k - (i - 1)]
          BY <2>1, <2>2, <3>1, <4>2
        <5>3. after[k - (i - 1)] = i + (k - (i - 1))
          BY <2>2, <5>1
        <5> QED
          BY <4>2, <5>1, <5>2, <5>3
      <4> QED
        BY <4>1, <4>2
    <3> QED
      BY <2>1, <2>2, <3>1, <3>2
  <2>4. RemoveAt(r, i) = whole
    BY <1>1 DEF RemoveAt, before, after
  <2> HIDE DEF whole
  <2>5. DOMAIN whole = 1 .. n - 1
    BY <2>3, LenProperties
  <2> QED
    <3>1. ASSUME NEW k \in 1 .. n - 1, NEW l \in 1 .. n - 1, whole[k] = whole[l] PROVE k = l
      <4>1. k \in Int /\ l \in Int
        OBVIOUS
      <4>2. CASE k < i
        BY <2>3, <3>1, <4>1, <4>2
      <4>3. CASE k = i
        BY <2>3, <3>1, <4>1, <4>3
      <4>4. CASE k > i
        BY <2>3, <3>1, <4>1, <4>4, SMTT(30)
      <4> QED
        BY <4>1, <4>2, <4>3, <4>4
    <3>2. IsInjective(whole)
      BY <2>5, <3>1 DEF IsInjective
    <3> QED
      BY <2>3, <2>4, <3>2
<1>6. list = r \/ (\E i \in 1 .. n + 1 : list = InsertAt(r, i, 0)) \/ \E i \in 1 .. n : list = RemoveAt(r, i)
  BY DEF Later, r
<1> QED
  BY <1>1, <1>2, <1>4, <1>5, <1>6

\* However the list changes between its count and the reading of its pages, what
\* allViaLoader returns of the items that stay on their page is complete and
\* without repetition.
THEOREM EveryPageIsRead == Spec => []AllPagesRead
<1>1. Computed => AllPagesRead
  <2> SUFFICES ASSUME Computed, Returned("all") PROVE AllPagesRead
    BY DEF AllPagesRead
  <2>1. result[1] = AllViaLoader(job.counted, job.later, job.early, job.size)
    BY DEF Computed
  <2>2. job \in AllJobs
    BY KindOfJob DEF Computed, Returned
  <2>3. PICK n \in 0 .. 6 : job.counted = Range1(n) /\ job.later \in Later(n)
    BY <2>2, AllJob
  <2>4. job.size \in Nat \ {0} /\ n \in Nat
    BY <2>2, AllJob DEF Sizes
  <2>5. Range1(n) \in Later(n)
    BY DEF Later
  <2>6. /\ job.counted \in Seq(Nat) /\ IsInjective(job.counted)
        /\ job.later \in Seq(Nat) /\ IsInjective(job.later)
    BY <2>3, <2>4, <2>5, LaterList
  <2>7. Gathered(job.counted, job.later, job.size, result[1])
    BY <2>1, <2>4, <2>6, AllPagesTogether
  <2> QED
    BY <2>7 DEF Gathered, AllPagesRead
<1> QED
  BY <1>1, ComputedInvariance, PTL

-----------------------------------------------------------------------------
(* The prices of a sale.                                                   *)

\* The tiers of a sale, as its increment strategy has them.
TierSet == [to : Nat, amount : Nat \ {0}]

LEMMA LeastNumber ==
  ASSUME NEW T, T \subseteq Nat, T # {}
  PROVE  \E n \in T : \A m \in T : n <= m
<1> DEFINE R == OpToRel(<, Nat)
<1>1. IsWellFoundedOn(R, Nat)
  BY NatLessThanWellFounded
<1>2. R = {s \in Nat \X Nat : s[1] < s[2]}
  BY DEF OpToRel
<1> HIDE DEF R
<1>3. PICK n \in T : \A m \in T : <<m, n>> \notin R
  BY <1>1, WFMin
<1>4. ASSUME NEW m \in T PROVE n <= m
  <2> SUFFICES ASSUME m < n PROVE FALSE
    OBVIOUS
  <2>1. <<m, n>> \in Nat \X Nat /\ <<m, n>>[1] < <<m, n>>[2]
    OBVIOUS
  <2> QED
    BY <1>2, <1>3, <2>1
<1> QED
  BY <1>4

LEMMA TierTypes ==
  ASSUME NEW tiers \in Seq(TierSet)
  PROVE  /\ Len(tiers) \in Nat /\ DOMAIN tiers = 1 .. Len(tiers)
         /\ \A k \in 1 .. Len(tiers) : tiers[k].to \in Nat /\ tiers[k].amount \in Nat \ {0}
<1>1. Len(tiers) \in Nat /\ DOMAIN tiers = 1 .. Len(tiers) /\ tiers \in [1 .. Len(tiers) -> TierSet]
  BY LenProperties
<1>2. \A k \in 1 .. Len(tiers) : tiers[k] \in TierSet
  BY <1>1
<1> QED
  BY <1>1, <1>2 DEF TierSet

LEMMA TiersRise ==
  ASSUME NEW tiers \in Seq(TierSet), Widths(tiers),
         NEW i \in 1 .. Len(tiers), NEW j \in 1 .. Len(tiers), i <= j
  PROVE  tiers[i].to <= tiers[j].to
<1> DEFINE T == {n \in Nat : i + n <= Len(tiers) => tiers[i].to <= tiers[i + n].to}
<1>1. \A k \in 1 .. Len(tiers) : tiers[k].to \in Nat /\ tiers[k].amount \in Nat \ {0}
  BY TierTypes
<1>2. 0 \in T
  BY <1>1
<1>3. ASSUME NEW n \in T PROVE n + 1 \in T
  <2> SUFFICES ASSUME i + (n + 1) <= Len(tiers) PROVE tiers[i].to <= tiers[i + (n + 1)].to
    OBVIOUS
  <2>1. /\ n \in Nat /\ i + n <= Len(tiers) /\ i + (n + 1) = (i + n) + 1
        /\ i + n \in 1 .. Len(tiers) - 1 /\ i + n \in 1 .. Len(tiers)
        /\ (i + n) + 1 \in 1 .. Len(tiers)
    OBVIOUS
  <2>2. tiers[i].to <= tiers[i + n].to
    BY <2>1
  <2>3. tiers[(i + n) + 1].to - tiers[i + n].to >= tiers[i + n].amount
    BY <2>1 DEF Widths
  <2>4. tiers[i].to \in Nat /\ tiers[i + n].to \in Nat /\ tiers[(i + n) + 1].to \in Nat /\ tiers[i + n].amount \in Nat
    BY <1>1, <2>1
  <2> QED
    BY <2>1, <2>2, <2>3, <2>4, SMTT(30)
<1>4. T \subseteq Nat
  OBVIOUS
<1> HIDE DEF T
<1>5. T = Nat
  BY <1>2, <1>3, <1>4, EveryNumber
<1>6. j - i \in T /\ i + (j - i) = j
  BY <1>5
<1> QED
  BY <1>6 DEF T

\* The tier of a price is the one between whose ends it lies.
LEMMA AmountOfTier ==
  ASSUME NEW tiers \in Seq(TierSet), Widths(tiers), NEW price \in Nat,
         NEW d \in 1 .. Len(tiers),
         d = 1 \/ tiers[d - 1].to < price,
         d = Len(tiers) \/ price <= tiers[d].to
  PROVE  AmountAt(tiers, price) = tiers[d].amount
<1> DEFINE holds == {i \in DOMAIN tiers : price <= tiers[i].to}
<1>1. DOMAIN tiers = 1 .. Len(tiers) /\ Len(tiers) \in Nat
  BY LenProperties
<1>2. \A k \in 1 .. Len(tiers) : tiers[k].to \in Nat
  BY TierTypes
<1>3. ASSUME NEW i \in 1 .. Len(tiers), price <= tiers[i].to PROVE d <= i
  <2>0. i \in Int /\ d \in Int /\ 1 <= i /\ d <= Len(tiers) /\ Len(tiers) \in Int
    BY ONLY <1>1, i \in 1 .. Len(tiers), d \in 1 .. Len(tiers)
  <2> SUFFICES ASSUME i < d PROVE FALSE
    BY <2>0
  <2>1. d - 1 \in 1 .. Len(tiers) /\ i <= d - 1 /\ d # 1
    BY <2>0
  <2>2. tiers[i].to <= tiers[d - 1].to
    BY <2>1, TiersRise
  <2> QED
    BY <1>2, <1>3, <2>1, <2>2
<1>4. CASE price <= tiers[d].to
  <2>1. d \in holds /\ \A i \in holds : d <= i
    BY <1>1, <1>3, <1>4
  <2>2. holds # {} /\ \A i \in holds : (\A j \in holds : i <= j) => i = d
    BY <1>1, <2>1
  <2>3. (CHOOSE i \in holds : \A j \in holds : i <= j) = d
    <3> HIDE DEF holds
    <3> QED
      BY <2>1, <2>2
  <2> QED
    BY <2>2, <2>3 DEF AmountAt
<1>5. CASE ~(price <= tiers[d].to)
  <2>1. d = Len(tiers)
    BY <1>5
  <2>2. holds = {}
    <3> SUFFICES ASSUME NEW i \in holds PROVE FALSE
      OBVIOUS
    <3>1. i \in 1 .. Len(tiers) /\ i <= d /\ price <= tiers[i].to
      BY <1>1, <2>1
    <3>2. tiers[i].to <= tiers[d].to
      BY <3>1, TiersRise
    <3> QED
      BY <1>2, <1>5, <3>1, <3>2
  <2> QED
    BY <2>1, <2>2 DEF AmountAt
<1> QED
  BY <1>4, <1>5

LEMMA AmountIsPositive ==
  ASSUME NEW tiers \in Seq(TierSet), tiers # <<>>, NEW price
  PROVE  AmountAt(tiers, price) \in Nat \ {0}
<1> DEFINE holds == {i \in DOMAIN tiers : price <= tiers[i].to}
<1>1. DOMAIN tiers = 1 .. Len(tiers) /\ Len(tiers) \in Nat /\ Len(tiers) \in 1 .. Len(tiers)
  BY LenProperties
<1>2. \A k \in 1 .. Len(tiers) : tiers[k].amount \in Nat \ {0}
  BY TierTypes
<1>3. CASE holds = {}
  BY <1>1, <1>2, <1>3 DEF AmountAt
<1>4. CASE holds # {}
  <2>1. holds \subseteq Nat /\ holds \subseteq 1 .. Len(tiers)
    BY <1>1
  <2> HIDE DEF holds
  <2>2. \E i \in holds : \A j \in holds : i <= j
    BY <1>4, <2>1, LeastNumber
  <2>3. (CHOOSE i \in holds : \A j \in holds : i <= j) \in 1 .. Len(tiers)
    BY <2>1, <2>2
  <2> QED
    BY <1>2, <1>4, <2>3 DEF AmountAt, holds
<1> QED
  BY <1>3, <1>4

\* The regular prices: zero, and each raised by the increment of its tier.
Regular(f, tiers) ==
  /\ f \in [Nat -> Nat] /\ f[0] = 0
  /\ \A n \in Nat : f[n + 1] = f[n] + AmountAt(tiers, f[n])

Climb(f, tiers) ==
  [n \in Nat |-> IF n = 0 THEN 0 ELSE LET below == f[n - 1] IN below + AmountAt(tiers, below)]

LEMMA RegularExists ==
  ASSUME NEW tiers \in Seq(TierSet), tiers # <<>>
  PROVE  LET f == CHOOSE h : h = Climb(h, tiers) IN Regular(f, tiers)
<1> DEFINE f == CHOOSE h : h = Climb(h, tiers)
           step == [n \in Nat |-> [price \in Nat |-> price + AmountAt(tiers, price)]]
<1>1. \A price \in Nat : price + AmountAt(tiers, price) \in Nat
  BY AmountIsPositive
<1>2. step \in [Nat -> [Nat -> Nat]] /\ 0 \in Nat
  BY <1>1
<1>3. \A n \in Nat, price \in Nat : step[n][price] = price + AmountAt(tiers, price)
  OBVIOUS
<1> HIDE DEF step
<1>4. PICK g : Recursion(g, Nat, 0, step)
  BY <1>2, RecursionExists
<1>5. ASSUME NEW h PROVE Recursion(h, Nat, 0, step) => h = Climb(h, tiers)
  <2> SUFFICES ASSUME Recursion(h, Nat, 0, step) PROVE h = Climb(h, tiers)
    OBVIOUS
  <2>1. ASSUME NEW n \in Nat
        PROVE  (IF n = 0 THEN 0 ELSE step[n][h[n - 1]])
               = IF n = 0 THEN 0 ELSE LET below == h[n - 1] IN below + AmountAt(tiers, below)
    <3>1. n # 0 => h[n - 1] \in Nat
      BY DEF Recursion
    <3> QED
      BY <1>3, <3>1
  <2> QED
    BY <2>1 DEF Recursion, Climb
<1>6. f = Climb(f, tiers)
  BY <1>4, <1>5
<1> HIDE DEF f
<1>7. f[0] = 0
  BY <1>6 DEF Climb
<1>8. ASSUME NEW n \in Nat PROVE f[n + 1] = f[n] + AmountAt(tiers, f[n])
  <2>1. n + 1 \in Nat /\ n + 1 # 0 /\ (n + 1) - 1 = n
    OBVIOUS
  <2>2. f[n + 1] = LET below == f[(n + 1) - 1] IN below + AmountAt(tiers, below)
    BY <1>6, <2>1 DEF Climb
  <2> QED
    BY <2>1, <2>2
<1>9. \A n \in Nat : f[n] \in Nat
  <2> DEFINE T == {n \in Nat : f[n] \in Nat}
  <2>1. 0 \in T
    BY <1>7
  <2>2. ASSUME NEW n \in T PROVE n + 1 \in T
    <3>1. n \in Nat /\ n + 1 \in Nat /\ f[n] \in Nat
      OBVIOUS
    <3>2. f[n] + AmountAt(tiers, f[n]) \in Nat
      BY <1>1, <3>1
    <3> QED
      BY <1>8, <3>1, <3>2
  <2>3. T \subseteq Nat
    OBVIOUS
  <2> HIDE DEF T
  <2>4. T = Nat
    BY <2>1, <2>2, <2>3, EveryNumber
  <2> QED
    BY <2>4 DEF T
<1>10. f \in [Nat -> Nat]
  <2>1. f = [n \in Nat |-> f[n]]
    BY <1>6 DEF Climb
  <2> QED
    BY <1>9, <2>1
<1> QED
  BY <1>7, <1>8, <1>10 DEF Regular, f

\* Each price is above the one before, at least by one.
LEMMA PricesGrow ==
  ASSUME NEW tiers \in Seq(TierSet), tiers # <<>>, NEW f, Regular(f, tiers),
         NEW i \in Nat, NEW n \in Nat
  PROVE  f[i] + n <= f[i + n]
<1> DEFINE T == {m \in Nat : f[i] + m <= f[i + m]}
<1>1. \A m \in Nat : f[m] \in Nat
  BY DEF Regular
<1>2. 0 \in T
  BY <1>1
<1>3. ASSUME NEW m \in T PROVE m + 1 \in T
  <2>1. m \in Nat /\ i + m \in Nat /\ i + (m + 1) = (i + m) + 1 /\ f[i] + m <= f[i + m]
    OBVIOUS
  <2>2. f[(i + m) + 1] = f[i + m] + AmountAt(tiers, f[i + m])
    BY <2>1 DEF Regular
  <2>3. AmountAt(tiers, f[i + m]) \in Nat \ {0}
    BY AmountIsPositive
  <2>4. f[i] \in Nat /\ f[i + m] \in Nat
    BY <1>1, <2>1
  <2>5. f[i] + (m + 1) <= f[(i + m) + 1]
    BY <2>1, <2>2, <2>3, <2>4, SMTT(30)
  <2> QED
    BY <2>1, <2>5
<1>4. T \subseteq Nat
  OBVIOUS
<1> HIDE DEF T
<1>5. n \in T
  BY <1>2, <1>3, <1>4, EveryNumber
<1> QED
  BY <1>5 DEF T

\* Some regular price is the first above the asking price.
LEMMA FirstAbove ==
  ASSUME NEW tiers \in Seq(TierSet), tiers # <<>>, NEW f, Regular(f, tiers), NEW minimum \in Nat
  PROVE  LET first == CHOOSE n \in 1 .. minimum + 1 : f[n - 1] <= minimum /\ minimum < f[n]
         IN  /\ first \in Nat \ {0} /\ f[first - 1] <= minimum /\ minimum < f[first]
             /\ \A m \in Nat : minimum < f[m] <=> first <= m
<1> DEFINE first == CHOOSE n \in 1 .. minimum + 1 : f[n - 1] <= minimum /\ minimum < f[n]
           T == {n \in Nat : minimum < f[n]}
<1>1. \A m \in Nat : f[m] \in Nat
  BY DEF Regular
<1>2. minimum + 1 \in T
  <2>0. 0 \in Nat /\ minimum + 1 \in Nat /\ 0 + (minimum + 1) = minimum + 1 /\ f[0] = 0
    BY DEF Regular
  <2>1. f[0] + (minimum + 1) <= f[0 + (minimum + 1)]
    BY ONLY <2>0, tiers \in Seq(TierSet), tiers # <<>>, Regular(f, tiers), PricesGrow
  <2> QED
    BY <1>1, <2>0, <2>1
<1>3. T \subseteq Nat /\ T # {}
  BY <1>2
<1>4. PICK n \in T : \A m \in T : n <= m
  <2> HIDE DEF T
  <2> QED
    BY <1>3, LeastNumber
<1>5. n # 0
  BY DEF Regular
<1>6. n \in 1 .. minimum + 1 /\ n - 1 \in Nat /\ n - 1 \notin T /\ minimum < f[n]
  BY <1>2, <1>4, <1>5
<1>7. f[n - 1] <= minimum
  BY <1>1, <1>6
<1>8. first \in 1 .. minimum + 1 /\ f[first - 1] <= minimum /\ minimum < f[first]
  BY <1>6, <1>7
<1> HIDE DEF first
<1>9. ASSUME NEW m \in Nat, first <= m PROVE minimum < f[m]
  <2>1. first \in Nat /\ m - first \in Nat /\ first + (m - first) = m
    BY <1>8, <1>9
  <2>2. f[first] + (m - first) <= f[first + (m - first)]
    BY ONLY <2>1, tiers \in Seq(TierSet), tiers # <<>>, Regular(f, tiers), PricesGrow
  <2> QED
    BY <1>1, <1>8, <2>1, <2>2
<1>10. ASSUME NEW m \in Nat, ~(first <= m) PROVE ~(minimum < f[m])
  <2>1. first - 1 \in Nat /\ (first - 1) - m \in Nat /\ m + ((first - 1) - m) = first - 1
    BY <1>8, <1>10
  <2>2. f[m] + ((first - 1) - m) <= f[m + ((first - 1) - m)]
    BY ONLY <2>1, m \in Nat, tiers \in Seq(TierSet), tiers # <<>>, Regular(f, tiers), PricesGrow
  <2> QED
    BY <1>1, <1>8, <2>1, <2>2
<1> QED
  BY <1>8, <1>9, <1>10 DEF first

\* What the loop carries.
States == [increments : Seq(Nat), current : Nat, tiers : Seq(TierSet) \ {<<>>}]

Lap(s, minimum, limit, count) == IF Continues(s, limit, count) THEN Advance(s, minimum) ELSE s

Begin(minimum, tiers) == [increments |-> <<minimum>>, current |-> 0, tiers |-> tiers]

Laps(r, minimum, tiers, limit, count) ==
  /\ r \in [Nat -> States] /\ r[0] = Begin(minimum, tiers)
  /\ \A n \in Nat : r[n + 1] = Lap(r[n], minimum, limit, count)
  /\ BidIncrements(minimum, tiers, limit, count) = r[limit + 1].increments

LEMMA LapType ==
  ASSUME NEW s \in States, NEW minimum \in Nat, NEW limit, NEW count
  PROVE  Lap(s, minimum, limit, count) \in States
<1> DEFINE next == s.current + s.tiers[1].amount
           listed == IF s.current > minimum THEN Append(s.increments, s.current) ELSE s.increments
           left == IF next > s.tiers[1].to /\ Len(s.tiers) > 1 THEN Tail(s.tiers) ELSE s.tiers
<1>1. /\ s.increments \in Seq(Nat) /\ s.current \in Nat
      /\ s.tiers \in Seq(TierSet) /\ s.tiers # <<>>
  BY DEF States
<1>2. Len(s.tiers) \in Nat /\ 1 \in 1 .. Len(s.tiers)
  BY <1>1, LenProperties
<1>3. next \in Nat
  BY <1>1, <1>2, TierTypes
<1>4. listed \in Seq(Nat)
  BY <1>1, AppendProperties
<1>5. left \in Seq(TierSet) \ {<<>>}
  <2>1. ASSUME Len(s.tiers) > 1 PROVE Tail(s.tiers) \in Seq(TierSet) /\ Tail(s.tiers) # <<>>
    <3>1. Tail(s.tiers) \in Seq(TierSet) /\ Len(Tail(s.tiers)) = Len(s.tiers) - 1
      BY <1>1, HeadTailProperties
    <3>0. PICK k \in Nat : k = Len(s.tiers)
      BY <1>2
    <3>2. k - 1 # 0
      <4>1. k > 1
        BY <2>1, <3>0
      <4> QED
        BY ONLY <4>1
    <3>3. Len(<<>>) = 0
      BY EmptySeq
    <3> QED
      BY ONLY <3>0, <3>1, <3>2, <3>3
  <2> QED
    BY <1>1, <2>1
<1>6. Advance(s, minimum) = [increments |-> listed, current |-> next, tiers |-> left]
  BY DEF Advance
<1> HIDE DEF listed, next, left
<1>7. Advance(s, minimum) \in States
  BY <1>3, <1>4, <1>5, <1>6 DEF States
<1> QED
  BY <1>7 DEF Lap

LEMMA LapsExist ==
  ASSUME NEW minimum \in Nat, NEW tiers \in Seq(TierSet), tiers # <<>>,
         NEW limit, NEW count
  PROVE  \E r : Laps(r, minimum, tiers, limit, count)
<1> DEFINE Go(s) == Lap(s, minimum, limit, count)
           base == Begin(minimum, tiers)
           Loop(h) == [n \in Nat |-> IF n = 0 THEN base ELSE Go(h[n - 1])]
           U == CHOOSE h : h = Loop(h)
           step == [n \in Nat |-> [s \in States |-> Go(s)]]
<1>1. base \in States
  BY DEF Begin, States
<1>2. step \in [Nat -> [States -> States]]
  <2>1. \A s \in States : Go(s) \in States
    BY LapType
  <2> HIDE DEF Go
  <2> QED
    BY <2>1
<1>3. BidIncrements(minimum, tiers, limit, count) = U[limit + 1].increments
  BY DEF BidIncrements, Begin, Lap
<1> HIDE DEF Go, base
<1>4. \A n \in Nat, s \in States : step[n][s] = Go(s)
  OBVIOUS
<1> HIDE DEF step
<1>5. PICK g : Recursion(g, States, base, step)
  BY <1>1, <1>2, RecursionExists
<1>6. ASSUME NEW n \in Nat
      PROVE  (IF n = 0 THEN base ELSE step[n][g[n - 1]]) = IF n = 0 THEN base ELSE Go(g[n - 1])
  <2>1. n # 0 => g[n - 1] \in States
    BY <1>5 DEF Recursion
  <2> QED
    BY <1>4, <2>1
<1>7. g = Loop(g)
  BY <1>5, <1>6 DEF Recursion
<1>8. U = Loop(U)
  BY <1>7
<1> HIDE DEF U
<1>9. U[0] = base
  BY <1>8
<1>10. ASSUME NEW n \in Nat PROVE U[n + 1] = Go(U[n])
  <2>1. n + 1 \in Nat /\ n + 1 # 0 /\ (n + 1) - 1 = n
    OBVIOUS
  <2>2. U[n + 1] = Go(U[(n + 1) - 1])
    BY <1>8, <2>1
  <2> QED
    BY <2>1, <2>2
<1>11. U \in [Nat -> States]
  <2> DEFINE T == {n \in Nat : U[n] \in States}
  <2>1. 0 \in T
    BY <1>1, <1>9
  <2>2. ASSUME NEW n \in T PROVE n + 1 \in T
    <3>1. n \in Nat /\ n + 1 \in Nat /\ U[n] \in States
      OBVIOUS
    <3>2. Go(U[n]) \in States
      BY <3>1, LapType DEF Go
    <3> QED
      BY <1>10, <3>1, <3>2
  <2>3. T \subseteq Nat
    OBVIOUS
  <2> HIDE DEF T
  <2>4. T = Nat
    BY <2>1, <2>2, <2>3, EveryNumber
  <2>5. U = [n \in Nat |-> U[n]]
    BY <1>8
  <2> QED
    BY <2>4, <2>5 DEF T
<1>12. Laps(U, minimum, tiers, limit, count)
  BY <1>3, <1>9, <1>10, <1>11 DEF Laps, Go, base
<1> QED
  BY <1>12

\* What is listed when the loop has climbed to the m-th regular price: the prices
\* from the first above the asking price to the one before.
Listed(list, f, first, m, minimum, limit) ==
  /\ list # <<>> /\ list[1] = minimum
  /\ Len(list) = IF first < m THEN 1 + m - first ELSE 1
  /\ \A k \in 2 .. Len(list) : list[k] = f[first + k - 2] /\ list[k] <= limit

\* The tiers that are left are those from the current price's tier on.
InTier(left, tiers, d, price) ==
  /\ d \in 1 .. Len(tiers)
  /\ left = SubSeq(tiers, d, Len(tiers))
  /\ d = 1 \/ tiers[d - 1].to < price
  /\ d = Len(tiers) \/ price <= tiers[d].to

\* After n rounds the loop is at the n-th price, or stopped before.
Climbed(s, n, f, first, minimum, tiers, limit, count) ==
  \E m \in Nat, d \in Nat :
    /\ m <= n /\ (m = n \/ ~Continues(s, limit, count))
    /\ s.current = f[m]
    /\ InTier(s.tiers, tiers, d, f[m])
    /\ Listed(s.increments, f, first, m, minimum, limit)
    /\ Len(s.increments) <= count

\* The list grows by the current price if that is above the asking price.
LEMMA ListGrows ==
  ASSUME NEW list \in Seq(Nat), NEW f \in [Nat -> Nat], NEW first \in Nat \ {0}, NEW m \in Nat,
         NEW minimum \in Nat, NEW limit \in Nat, f[m] <= limit,
         minimum < f[m] <=> first <= m,
         Listed(list, f, first, m, minimum, limit)
  PROVE  LET listed == IF f[m] > minimum THEN Append(list, f[m]) ELSE list
         IN  Listed(listed, f, first, m + 1, minimum, limit)
<1>1. f[m] \in Nat /\ Len(list) \in Nat
  BY LenProperties
<1>2. CASE first <= m
  <2> DEFINE listed == Append(list, f[m])
  <2>1. /\ listed # <<>> /\ Len(listed) = Len(list) + 1
        /\ \A i \in 1 .. Len(list) : listed[i] = list[i]
        /\ listed[Len(list) + 1] = f[m]
    <3>1. ASSUME NEW price \in Nat
          PROVE  /\ Append(list, price) # <<>>
                 /\ Len(Append(list, price)) = Len(list) + 1
                 /\ \A i \in 1 .. Len(list) : Append(list, price)[i] = list[i]
                 /\ Append(list, price)[Len(list) + 1] = price
      <4>1. list \in Seq(Nat)
        OBVIOUS
      <4>2. Append(list, price) # <<>> /\ Len(Append(list, price)) = Len(list) + 1
        <5>1. Len(Append(list, price)) = Len(list) + 1
          BY ONLY <4>1, price \in Nat, AppendProperties
        <5>2. Len(list) + 1 # 0
          BY ONLY <1>1
        <5>3. Len(<<>>) = 0
          BY EmptySeq
        <5> QED
          BY ONLY <5>1, <5>2, <5>3
      <4>3. \A i \in 1 .. Len(list) : Append(list, price)[i] = list[i]
        BY ONLY <4>1, price \in Nat, AppendProperties
      <4>4. Append(list, price)[Len(list) + 1] = price
        BY ONLY <4>1, price \in Nat, AppendProperties
      <4> QED
        BY ONLY <4>2, <4>3, <4>4
    <3> QED
      BY ONLY <1>1, <3>1
  <2> HIDE DEF listed
  <2>2. Len(list) = 1 + m - first
    <3>1. Len(list) = IF first < m THEN 1 + m - first ELSE 1
      BY DEF Listed
    <3>2. ~(first < m) => 1 = 1 + m - first
      BY ONLY <1>2, first \in Nat \ {0}, m \in Nat
    <3> QED
      BY <3>1, <3>2
  <2>3. Len(list) # 0 /\ 1 \in 1 .. Len(list)
    BY <1>1, <1>2, <2>2
  <2>4. ASSUME NEW k \in 2 .. Len(listed)
        PROVE  listed[k] = f[first + k - 2] /\ listed[k] <= limit
    <3>1. CASE k <= Len(list)
      <4>1. k \in 1 .. Len(list) /\ k \in 2 .. Len(list)
        BY <1>1, <3>1
      <4> QED
        BY <2>1, <4>1 DEF Listed
    <3>2. CASE k = Len(list) + 1
      <4>1. first + k - 2 = m
        BY <2>2, <3>2
      <4> QED
        BY <2>1, <3>2, <4>1
    <3>3. k <= Len(list) \/ k = Len(list) + 1
      BY <1>1, <2>1, SMTT(30)
    <3> QED
      BY <3>1, <3>2, <3>3
  <2>5. listed[1] = minimum
    BY <2>1, <2>3 DEF Listed
  <2>6. first < m + 1 /\ Len(listed) = 1 + (m + 1) - first
    BY <1>2, <2>1, <2>2
  <2>7. Listed(listed, f, first, m + 1, minimum, limit)
    BY <2>1, <2>4, <2>5, <2>6 DEF Listed
  <2>8. f[m] > minimum
    BY <1>1, <1>2
  <2> QED
    BY <2>7, <2>8 DEF listed
<1>3. CASE ~(first <= m)
  <2>1. ~(f[m] > minimum)
    BY <1>1, <1>3
  <2>2. ~(first < m + 1) /\ ~(first < m)
    BY <1>3
  <2>3. Listed(list, f, first, m + 1, minimum, limit)
    BY <2>2 DEF Listed
  <2> QED
    BY <2>1, <2>3
<1> QED
  BY <1>2, <1>3

\* One tier is dropped when the price passes its end, and one is enough.
LEMMA TierAdvances ==
  ASSUME NEW tiers \in Seq(TierSet), tiers # <<>>, Widths(tiers), NEW price \in Nat,
         NEW left, NEW d \in Nat, InTier(left, tiers, d, price)
  PROVE  LET next == price + left[1].amount
             after == IF next > left[1].to /\ Len(left) > 1 THEN Tail(left) ELSE left
         IN  /\ next = price + AmountAt(tiers, price)
             /\ \E e \in Nat : InTier(after, tiers, e, next)
<1> DEFINE L == Len(tiers)
           next == price + tiers[d].amount
           after == IF next > tiers[d].to /\ Len(left) > 1 THEN Tail(left) ELSE left
<1>1. /\ d \in 1 .. L /\ left = SubSeq(tiers, d, L)
      /\ d = 1 \/ tiers[d - 1].to < price
      /\ d = L \/ price <= tiers[d].to
  BY DEF InTier
<1>2. L \in Nat /\ \A k \in 1 .. L : tiers[k].to \in Nat /\ tiers[k].amount \in Nat \ {0}
  BY TierTypes
<1>3. tiers[d].to \in Nat /\ tiers[d].amount \in Nat \ {0} /\ next \in Nat /\ price < next
  BY <1>1, <1>2
<1>4. Len(left) = L - d + 1 /\ left[1] = tiers[d]
  <2>1. d \in Int /\ L \in Int /\ \A k \in d .. L : tiers[k] \in TierSet
    BY <1>1, <1>2, LenProperties
  <2>2. /\ Len(SubSeq(tiers, d, L)) = IF d <= L THEN L - d + 1 ELSE 0
        /\ \A k \in 1 .. L - d + 1 : SubSeq(tiers, d, L)[k] = tiers[d + k - 1]
    BY ONLY <2>1, SubSeqProperties
  <2>3. 1 \in 1 .. L - d + 1 /\ d + 1 - 1 = d /\ d <= L
    BY <1>1, <1>2
  <2> QED
    BY <1>1, <2>2, <2>3
<1>5. AmountAt(tiers, price) = tiers[d].amount
  BY <1>1, AmountOfTier
<1> HIDE DEF L
<1>6. CASE next > tiers[d].to /\ Len(left) > 1
  <2>1. d + 1 \in 1 .. L /\ (d + 1) - 1 = d /\ d # L /\ d \in 1 .. L - 1
    BY <1>1, <1>2, <1>4, <1>6
  <2>2. Tail(left) = SubSeq(tiers, d + 1, L)
    BY <1>1, <2>1, HeadTailOfSubSeq DEF L
  <2>3. tiers[d].to < next
    BY <1>3, <1>6
  <2>4. next <= tiers[d + 1].to
    <3>1. tiers[d + 1].to - tiers[d].to >= tiers[d].amount
      BY <2>1 DEF Widths, L
    <3>2. price <= tiers[d].to /\ tiers[d + 1].to \in Nat
      BY <1>1, <1>2, <2>1
    <3> QED
      BY <1>3, <3>1, <3>2, SMTT(30)
  <2>5. InTier(after, tiers, d + 1, next)
    BY <1>6, <2>1, <2>2, <2>3, <2>4 DEF InTier, L
  <2>6. d + 1 \in Nat
    OBVIOUS
  <2> QED
    BY <1>4, <1>5, <2>5, <2>6
<1>7. CASE ~(next > tiers[d].to /\ Len(left) > 1)
  <2>1. d = L \/ next <= tiers[d].to
    BY <1>1, <1>2, <1>3, <1>4, <1>7
  <2>2. d = 1 \/ tiers[d - 1].to < next
    <3>1. d # 1 => tiers[d - 1].to \in Nat
      BY <1>1, <1>2
    <3> QED
      BY <1>1, <1>3, <3>1, SMTT(30)
  <2>3. InTier(after, tiers, d, next)
    BY <1>1, <1>7, <2>1, <2>2 DEF InTier, L
  <2> QED
    BY <1>4, <1>5, <2>3
<1> QED
  BY <1>6, <1>7

\* A round of the loop climbs by one price.
LEMMA ClimbStep ==
  ASSUME NEW tiers \in Seq(TierSet), tiers # <<>>, Widths(tiers), NEW f, Regular(f, tiers),
         NEW minimum \in Nat, NEW limit \in Nat, NEW count \in Nat, NEW first \in Nat \ {0},
         \A m \in Nat : minimum < f[m] <=> first <= m,
         NEW s \in States, NEW n \in Nat,
         Climbed(s, n, f, first, minimum, tiers, limit, count)
  PROVE  Climbed(Lap(s, minimum, limit, count), n + 1, f, first, minimum, tiers, limit, count)
<1>1. PICK m \in Nat, d \in Nat :
        /\ m <= n /\ (m = n \/ ~Continues(s, limit, count))
        /\ s.current = f[m]
        /\ InTier(s.tiers, tiers, d, f[m])
        /\ Listed(s.increments, f, first, m, minimum, limit)
        /\ Len(s.increments) <= count
  BY DEF Climbed
<1>2. s.increments \in Seq(Nat) /\ Len(s.increments) \in Nat
  BY LenProperties DEF States
<1>3. CASE Continues(s, limit, count)
  <2> DEFINE list == s.increments
             left == s.tiers
             next == f[n] + left[1].amount
             listed == IF f[n] > minimum THEN Append(list, f[n]) ELSE list
             after == IF next > left[1].to /\ Len(left) > 1 THEN Tail(left) ELSE left
             step == [increments |-> listed, current |-> next, tiers |-> after]
  <2>1. m = n /\ f[n] <= limit /\ Len(list) < count /\ s.current = f[n]
    BY <1>1, <1>3 DEF Continues
  <2>2. f \in [Nat -> Nat] /\ f[n] \in Nat /\ f[n + 1] = f[n] + AmountAt(tiers, f[n])
    BY DEF Regular
  <2>3. Lap(s, minimum, limit, count) = step
    BY <1>3, <2>1 DEF Lap, Advance
  <2>4. Listed(listed, f, first, n + 1, minimum, limit)
    <3>1. Listed(list, f, first, n, minimum, limit) /\ (minimum < f[n] <=> first <= n)
      BY <1>1, <2>1
    <3> HIDE DEF list
    <3>2. list \in Seq(Nat)
      BY <1>2 DEF list
    <3> QED
      BY ONLY <2>1, <2>2, <3>1, <3>2, first \in Nat \ {0}, n \in Nat, minimum \in Nat,
              limit \in Nat, ListGrows DEF listed
  <2>5. InTier(left, tiers, d, f[n])
    BY <1>1, <2>1
  <2>6. Len(listed) <= count
    <3>1. Len(Append(list, f[n])) = Len(list) + 1
      BY ONLY <1>2, <2>2, AppendProperties DEF list
    <3>2. Len(listed) = Len(list) + 1 \/ Len(listed) = Len(list)
      BY <3>1
    <3> QED
      BY <1>2, <2>1, <3>2
  <2> HIDE DEF left, listed
  <2>7. next = f[n] + AmountAt(tiers, f[n]) /\ \E e \in Nat : InTier(after, tiers, e, next)
    BY ONLY <2>2, <2>5, tiers \in Seq(TierSet), tiers # <<>>, Widths(tiers), d \in Nat, TierAdvances
       DEF next, after
  <2>8. PICK e \in Nat : InTier(after, tiers, e, f[n + 1])
    BY <2>2, <2>7
  <2>9. step.increments = listed /\ step.current = f[n + 1] /\ step.tiers = after
    BY <2>2, <2>7
  <2> HIDE DEF step, after, next
  <2>10. n + 1 \in Nat /\ n + 1 <= n + 1
    OBVIOUS
  <2>11. Climbed(step, n + 1, f, first, minimum, tiers, limit, count)
    BY <2>4, <2>6, <2>8, <2>9, <2>10 DEF Climbed
  <2> QED
    BY <2>3, <2>11
<1>4. CASE ~Continues(s, limit, count)
  <2>1. Lap(s, minimum, limit, count) = s
    BY <1>4 DEF Lap
  <2>2. m <= n + 1
    BY <1>1
  <2>3. Climbed(s, n + 1, f, first, minimum, tiers, limit, count)
    BY <1>1, <1>4, <2>2 DEF Climbed
  <2> QED
    BY <2>1, <2>3
<1> QED
  BY <1>3, <1>4

\* The prices a bidder may choose from are the asking price and then the regular
\* prices above it, none left out, to the limit or as many as may be listed, if
\* each tier is at least as wide as the increment before it: the climb of
\* bid_increments_calculator (src/src/schema/v2/sale_artwork.ts), which drops one
\* tier at a time, then always adds the increment of the tier its price is in.
THEOREM PricesAreOnGrid ==
  ASSUME NEW tiers \in Seq(TierSet), tiers # <<>>, Widths(tiers),
         NEW minimum \in Nat, NEW limit \in Nat, NEW count \in Nat \ {0}
  PROVE  OnGrid(BidIncrements(minimum, tiers, limit, count), minimum, tiers, limit, count)
<1> DEFINE f == CHOOSE h : h = Climb(h, tiers)
           first == CHOOSE n \in 1 .. minimum + 1 : f[n - 1] <= minimum /\ minimum < f[n]
           last == limit + 1
           At(s, n) == Climbed(s, n, f, first, minimum, tiers, limit, count)
           prices == BidIncrements(minimum, tiers, limit, count)
<1>1. Regular(f, tiers)
  BY RegularExists
<1>2. OnGrid(prices, minimum, tiers, limit, count) <=>
        /\ prices # <<>> /\ prices[1] = minimum
        /\ \A k \in 2 .. Len(prices) : prices[k] = f[first + k - 2] /\ prices[k] <= limit
        /\ Len(prices) <= count
        /\ Len(prices) < count => limit < f[first + Len(prices) - 1]
  <2> HIDE DEF prices
  <2> QED
    BY DEF OnGrid, Climb
<1> HIDE DEF f
<1>3. first \in Nat \ {0} /\ \A m \in Nat : minimum < f[m] <=> first <= m
  BY <1>1, FirstAbove
<1>4. PICK r : Laps(r, minimum, tiers, limit, count)
  BY LapsExist
<1>5. /\ \A n \in Nat : r[n] \in States /\ r[n + 1] = Lap(r[n], minimum, limit, count)
      /\ r[0] = Begin(minimum, tiers) /\ prices = r[last].increments
  BY <1>4 DEF Laps
<1>6. /\ \A m \in Nat : f[m] \in Nat
      /\ f[0] = 0 /\ last \in Nat
  <2>1. f \in [Nat -> Nat] /\ f[0] = 0
    BY <1>1 DEF Regular
  <2>2. last \in Nat
    OBVIOUS
  <2> QED
    BY ONLY <2>1, <2>2
<1> HIDE DEF first, prices
<1>7. At(r[0], 0)
  <2> DEFINE L == Len(tiers)
  <2>1. L \in Nat \ {0} /\ tiers[1].to \in Nat
    <3>1. Len(tiers) \in Nat /\ Len(tiers) # 0
      BY LenProperties, EmptySeq
    <3> QED
      BY <3>1, TierTypes
  <2>2. SubSeq(tiers, 1, L) = tiers
    BY SubSeqFull
  <2> HIDE DEF L
  <2>3. InTier(tiers, tiers, 1, 0)
    BY <2>1, <2>2 DEF InTier, L
  <2>4. Listed(<<minimum>>, f, first, 0, minimum, limit)
    <3>1. <<minimum>> # <<>> /\ <<minimum>>[1] = minimum /\ Len(<<minimum>>) = 1
      OBVIOUS
    <3>2. ~(first < 0) /\ 2 .. 1 = {}
      BY <1>3
    <3> QED
      BY <3>1, <3>2 DEF Listed
  <2>5. Len(<<minimum>>) <= count
    OBVIOUS
  <2>6. r[0].increments = <<minimum>> /\ r[0].current = f[0] /\ r[0].tiers = tiers /\ f[0] = 0
    BY <1>5, <1>6 DEF Begin
  <2>7. 0 \in Nat /\ 0 <= 0 /\ 1 \in Nat
    OBVIOUS
  <2> QED
    BY <2>3, <2>4, <2>5, <2>6, <2>7 DEF Climbed
<1>8. At(r[last], last)
  <2> DEFINE T == {n \in Nat : At(r[n], n)}
  <2>1. 0 \in T
    BY <1>7
  <2>2. ASSUME NEW n \in T PROVE n + 1 \in T
    <3>1. n \in Nat /\ n + 1 \in Nat /\ At(r[n], n)
      OBVIOUS
    <3>2. count \in Nat /\ r[n] \in States
      BY <1>5, <3>1
    <3>3. At(Lap(r[n], minimum, limit, count), n + 1)
      BY ONLY <1>1, <1>3, <3>1, <3>2, tiers \in Seq(TierSet), tiers # <<>>, Widths(tiers),
              minimum \in Nat, limit \in Nat, ClimbStep
    <3> QED
      BY <1>5, <3>1, <3>3
  <2>3. T \subseteq Nat
    OBVIOUS
  <2> HIDE DEF T
  <2>4. T = Nat
    BY <2>1, <2>2, <2>3, EveryNumber
  <2> QED
    BY <1>6, <2>4 DEF T
<1>9. PICK m \in Nat, d \in Nat :
        /\ m <= last /\ (m = last \/ ~Continues(r[last], limit, count))
        /\ r[last].current = f[m]
        /\ Listed(prices, f, first, m, minimum, limit)
        /\ Len(prices) <= count
  BY <1>5, <1>8 DEF Climbed
<1> HIDE DEF At
<1>10. prices \in Seq(Nat) /\ Len(prices) \in Nat
  BY <1>5, <1>6, LenProperties DEF States
<1>11. Len(prices) < count => limit < f[m]
  <2>1. CASE m = last
    <3>1. f[0] + last <= f[0 + last]
      BY ONLY <1>1, <1>6, tiers \in Seq(TierSet), tiers # <<>>, 0 \in Nat, PricesGrow
    <3> QED
      BY <1>6, <2>1, <3>1
  <2>2. CASE ~Continues(r[last], limit, count)
    <3>1. ~(Len(prices) < count /\ f[m] <= limit)
      BY ONLY <1>5, <1>9, <2>2 DEF Continues
    <3>2. f[m] \in Nat
      BY ONLY <1>6, m \in Nat
    <3> QED
      BY ONLY <3>1, <3>2, limit \in Nat
  <2> QED
    BY <1>9, <2>1, <2>2
<1>12. Len(prices) < count => limit < f[first + Len(prices) - 1]
  <2>1. CASE first < m
    <3>1. Len(prices) = 1 + m - first
      BY <1>9, <2>1 DEF Listed
    <3>2. first + Len(prices) - 1 = m
      BY <1>3, <3>1
    <3> QED
      BY <1>11, <3>2
  <2>2. CASE ~(first < m)
    <3>1. Len(prices) = 1
      BY <1>9, <2>2 DEF Listed
    <3>2. first + Len(prices) - 1 = first /\ first - m \in Nat /\ m + (first - m) = first
      BY <1>3, <2>2, <3>1
    <3>3. f[m] + (first - m) <= f[m + (first - m)]
      BY ONLY <1>1, <3>2, m \in Nat, tiers \in Seq(TierSet), tiers # <<>>, PricesGrow
    <3>4. f[m] \in Nat /\ f[first] \in Nat
      BY ONLY <1>3, <1>6, m \in Nat
    <3>5. f[m] <= f[first]
      BY ONLY <3>2, <3>3, <3>4
    <3> QED
      BY ONLY <1>11, <3>2, <3>4, <3>5, limit \in Nat
  <2> QED
    BY <2>1, <2>2
<1>13. /\ prices # <<>> /\ prices[1] = minimum
       /\ \A k \in 2 .. Len(prices) : prices[k] = f[first + k - 2] /\ prices[k] <= limit
  BY <1>9 DEF Listed
<1> QED
  BY <1>2, <1>9, <1>12, <1>13 DEF prices

LEMMA IncrementJob ==
  ASSUME NEW j \in IncrementJobs
  PROVE  /\ j.minimum \in Nat /\ j.limit \in Nat /\ j.count \in Nat \ {0}
         /\ j.tiers \in Seq(TierSet) /\ j.tiers # <<>>
<1>1. PICK a \in 1 .. 4, b \in 2 .. 4, c \in {3}, x \in 1 .. 3, y \in 1 .. 3, z \in {2, 4} :
        j.tiers = <<Tier(a, x), Tier(a + b, y), Tier(a + b + c, z)>>
  <2>1. j.tiers \in {<<Tier(a, x), Tier(a + b, y), Tier(a + b + c, z)>> :
                      a \in 1 .. 4, b \in 2 .. 4, c \in {3}, x \in 1 .. 3, y \in 1 .. 3, z \in {2, 4}}
    BY DEF IncrementJobs
  <2> QED
    BY ONLY <2>1, SMTT(60)
<1>2. Tier(a, x) \in TierSet /\ Tier(a + b, y) \in TierSet /\ Tier(a + b + c, z) \in TierSet
  BY DEF Tier, TierSet
<1>3. j.tiers \in Seq(TierSet) /\ j.tiers # <<>>
  BY <1>1, <1>2
<1> QED
  BY <1>3 DEF IncrementJobs

\* bid_increments_calculator offers the asking price and the regular prices above
\* it: each job's tiers, asking price and limits are ones PricesAreOnGrid speaks of.
THEOREM RegularPrices == Spec => []IncrementsAreOnGrid
<1>1. Computed => IncrementsAreOnGrid
  <2> SUFFICES ASSUME Computed, Returned("increments"), Widths(job.tiers)
               PROVE  OnGrid(result[1], job.minimum, job.tiers, job.limit, job.count)
    BY DEF IncrementsAreOnGrid
  <2>1. result[1] = BidIncrements(job.minimum, job.tiers, job.limit, job.count)
    BY DEF Computed
  <2>2. job \in IncrementJobs
    BY KindOfJob DEF Computed, Returned
  <2>3. /\ job.minimum \in Nat /\ job.limit \in Nat /\ job.count \in Nat \ {0}
        /\ job.tiers \in Seq(TierSet) /\ job.tiers # <<>>
    BY <2>2, IncrementJob
  <2> QED
    BY <2>1, <2>3, PricesAreOnGrid
<1> QED
  BY <1>1, ComputedInvariance, PTL

-----------------------------------------------------------------------------
(* Sorted lists.                                                           *)

\* R puts the elements of S one after the other.
Orders(R, S) ==
  /\ \A x \in S : <<x, x>> \notin R
  /\ \A x, y \in S : x # y => <<x, y>> \in R \/ <<y, x>> \in R
  /\ \A x, y, z \in S : <<x, y>> \in R /\ <<y, z>> \in R => <<x, z>> \in R

Sorts(e, n, S, R) ==
  /\ e \in [1 .. n -> S]
  /\ \A a, b \in 1 .. n : a < b => <<e[a], e[b]>> \in R

LEMMA LastElement ==
  ASSUME NEW U, IsFiniteSet(U), NEW R, Orders(R, U), U # {}
  PROVE  \E x \in U : \A y \in U \ {x} : <<y, x>> \in R
<1> DEFINE Hindmost(S, x) == x \in S /\ \A y \in S \ {x} : <<y, x>> \in R
           T == {n \in Nat : \A S \in SUBSET U : Cardinality(S) = n /\ S # {} => \E x : Hindmost(S, x)}
<1>1. \A S \in SUBSET U : IsFiniteSet(S) /\ Cardinality(S) \in Nat
  BY FS_Subset, FS_CardinalityType
<1>2. 0 \in T
  <2>1. \A S \in SUBSET U : Cardinality(S) = 0 => S = {}
    BY <1>1, FS_EmptySet
  <2> QED
    BY <2>1
<1>3. ASSUME NEW n \in T PROVE n + 1 \in T
  <2>1. n \in Nat /\ n + 1 \in Nat
    OBVIOUS
  <2> SUFFICES ASSUME NEW S \in SUBSET U, Cardinality(S) = n + 1, S # {} PROVE \E x : Hindmost(S, x)
    BY <2>1
  <2>2. PICK y \in S : TRUE
    OBVIOUS
  <2>3. S \ {y} \in SUBSET U /\ Cardinality(S \ {y}) = n
    BY <1>1, <2>1, FS_RemoveElement
  <2>4. CASE S \ {y} = {}
    <3>1. Hindmost(S, y)
      BY <2>4
    <3> QED
      BY <3>1
  <2>5. CASE S \ {y} # {}
    <3>1. PICK x : Hindmost(S \ {y}, x)
      BY <2>3, <2>5
    <3>2. x \in U /\ y \in U /\ x # y
      BY <3>1
    <3>3. CASE <<x, y>> \in R
      <4>1. Hindmost(S, y)
        <5> SUFFICES ASSUME NEW z \in S \ {y} PROVE <<z, y>> \in R
          OBVIOUS
        <5>1. z = x \/ <<z, x>> \in R
          BY <3>1
        <5>2. z \in U
          OBVIOUS
        <5> QED
          BY <3>2, <3>3, <5>1, <5>2 DEF Orders
      <4> QED
        BY <4>1
    <3>4. CASE <<y, x>> \in R
      <4>1. Hindmost(S, x)
        BY <3>1, <3>4
      <4> QED
        BY <4>1
    <3> QED
      BY <3>2, <3>3, <3>4 DEF Orders
  <2> QED
    BY <2>4, <2>5
<1>4. T \subseteq Nat
  OBVIOUS
<1> HIDE DEF T
<1>5. T = Nat
  BY <1>2, <1>3, <1>4, EveryNumber
<1>6. Cardinality(U) \in T
  BY <1>1, <1>5
<1>7. \E x : Hindmost(U, x)
  BY <1>6 DEF T
<1> QED
  BY <1>7

LEMMA SortExists ==
  ASSUME NEW U, IsFiniteSet(U), NEW R, Orders(R, U)
  PROVE  \E e : Sorts(e, Cardinality(U), U, R)
<1> DEFINE T == {n \in Nat : \A S \in SUBSET U : Cardinality(S) = n => \E e : Sorts(e, n, S, R)}
<1>1. \A S \in SUBSET U : IsFiniteSet(S) /\ Cardinality(S) \in Nat /\ Orders(R, S)
  BY FS_Subset, FS_CardinalityType DEF Orders
<1>2. 0 \in T
  <2>1. ASSUME NEW S PROVE Sorts([k \in 1 .. 0 |-> 0], 0, S, R)
    BY DEF Sorts
  <2> QED
    BY <2>1
<1>3. ASSUME NEW n \in T PROVE n + 1 \in T
  <2>1. n \in Nat /\ n + 1 \in Nat
    OBVIOUS
  <2> SUFFICES ASSUME NEW S \in SUBSET U, Cardinality(S) = n + 1 PROVE \E e : Sorts(e, n + 1, S, R)
    BY <2>1
  <2>2. S # {}
    BY <2>1, FS_EmptySet
  <2>3. PICK x \in S : \A y \in S \ {x} : <<y, x>> \in R
    BY <1>1, <2>2, LastElement
  <2>4. S \ {x} \in SUBSET U /\ Cardinality(S \ {x}) = n
    <3>1. IsFiniteSet(S)
      BY <1>1
    <3>2. Cardinality(S \ {x}) = (n + 1) - 1
      BY ONLY <3>1, x \in S, Cardinality(S) = n + 1, FS_RemoveElement
    <3> QED
      BY <2>1, <3>2
  <2>5. PICK f : Sorts(f, n, S \ {x}, R)
    BY <2>4
  <2> DEFINE e == [k \in 1 .. n + 1 |-> IF k = n + 1 THEN x ELSE f[k]]
  <2>6. \A k \in 1 .. n : e[k] = f[k] /\ f[k] \in S \ {x}
    BY <2>1, <2>5 DEF Sorts
  <2>7. e \in [1 .. n + 1 -> S] /\ e[n + 1] = x
    <3>1. n + 1 \in 1 .. n + 1 /\ \A k \in 1 .. n + 1 : k = n + 1 \/ k \in 1 .. n
      BY <2>1
    <3>2. e[n + 1] = x
      BY <3>1
    <3>3. \A k \in 1 .. n + 1 : e[k] \in S
      BY <2>6, <3>1, <3>2
    <3> QED
      BY <3>2, <3>3
  <2> HIDE DEF e
  <2>8. ASSUME NEW a \in 1 .. n + 1, NEW b \in 1 .. n + 1, a < b PROVE <<e[a], e[b]>> \in R
    <3>1. a \in 1 .. n
      BY <2>1, <2>8
    <3>2. CASE b = n + 1
      BY <2>3, <2>6, <2>7, <3>1, <3>2
    <3>3. CASE b \in 1 .. n
      BY <2>5, <2>6, <2>8, <3>1, <3>3 DEF Sorts
    <3> QED
      BY <2>1, <3>2, <3>3
  <2>9. Sorts(e, n + 1, S, R)
    BY <2>7, <2>8 DEF Sorts
  <2> QED
    BY <2>9
<1>4. T \subseteq Nat
  OBVIOUS
<1> HIDE DEF T
<1>5. T = Nat
  BY <1>2, <1>3, <1>4, EveryNumber
<1>6. Cardinality(U) \in T
  BY <1>1, <1>5
<1> QED
  BY <1>6 DEF T

\* A sorted list has every element, once.
LEMMA SortIsOnto ==
  ASSUME NEW S, IsFiniteSet(S), NEW R, Orders(R, S), NEW e, Sorts(e, Cardinality(S), S, R)
  PROVE  /\ \A a, b \in 1 .. Cardinality(S) : e[a] = e[b] => a = b
         /\ \A x \in S : \E k \in 1 .. Cardinality(S) : e[k] = x
<1> DEFINE n == Cardinality(S)
<1>1. n \in Nat
  BY FS_CardinalityType
<1>2. IsFiniteSet(1 .. n) /\ Cardinality(1 .. n) = n
  BY <1>1, FS_Interval
<1>3. e \in [1 .. n -> S] /\ \A a, b \in 1 .. n : a < b => <<e[a], e[b]>> \in R
  BY DEF Sorts
<1> HIDE DEF n
<1>4. ASSUME NEW a \in 1 .. n, NEW b \in 1 .. n, e[a] = e[b] PROVE a = b
  <2>1. ~(a < b) /\ ~(b < a)
    BY <1>3, <1>4 DEF Orders
  <2> QED
    BY <1>1, <2>1
<1>5. ASSUME NEW x \in S, \A k \in 1 .. n : e[k] # x PROVE FALSE
  <2>1. IsFiniteSet(S \ {x}) /\ Cardinality(S \ {x}) = n - 1
    BY FS_RemoveElement DEF n
  <2>2. e \in [1 .. n -> S \ {x}]
    BY <1>3, <1>5
  <2>3. Cardinality(S \ {x}) < Cardinality(1 .. n)
    BY <1>1, <1>2, <2>1
  <2>4. \E a, b \in 1 .. n : a # b /\ e[a] = e[b]
    BY ONLY <1>2, <2>1, <2>2, <2>3, FS_PigeonHole
  <2> QED
    BY <1>4, <2>4
<1> QED
  BY <1>4, <1>5 DEF n

LEMMA EnumerationSorts ==
  ASSUME NEW S, IsFiniteSet(S), NEW R, Orders(R, S)
  PROVE  Sorts(Enumeration(S, R), Cardinality(S), S, R)
<1>1. PICK e : Sorts(e, Cardinality(S), S, R)
  BY SortExists
<1> QED
  BY <1>1 DEF Sorts, Enumeration

\* Finite sets of numbers in their natural order.
Ascends(e, n, I) ==
  /\ e \in [1 .. n -> I]
  /\ \A a, b \in 1 .. n : a < b => e[a] < e[b]

Onto(e, n, I) ==
  /\ \A a, b \in 1 .. n : e[a] = e[b] => a = b
  /\ \A x \in I : \E k \in 1 .. n : e[k] = x

LEMMA IncreasingAscends ==
  ASSUME NEW I \in SUBSET Nat, IsFiniteSet(I)
  PROVE  Ascends(Increasing(I), Cardinality(I), I) /\ Onto(Increasing(I), Cardinality(I), I)
<1> DEFINE R == {p \in I \X I : p[1] < p[2]}
           e == Increasing(I)
           n == Cardinality(I)
<1>1. \A x, y \in I : <<x, y>> \in R <=> x < y
  OBVIOUS
<1>2. e = Enumeration(I, R)
  BY DEF Increasing
<1> HIDE DEF R, e, n
<1>3. \A x \in I : x \in Nat
  OBVIOUS
<1>4. Orders(R, I)
  BY <1>1, <1>3 DEF Orders
<1>5. Sorts(e, n, I, R)
  BY <1>2, <1>4, EnumerationSorts DEF n
<1>6. Onto(e, n, I)
  BY <1>4, <1>5, SortIsOnto DEF n, Onto
<1>7. Ascends(e, n, I)
  BY <1>1, <1>5 DEF Sorts, Ascends
<1> QED
  BY <1>6, <1>7 DEF e, n

\* There is only one such list.
LEMMA AscentIsUnique ==
  ASSUME NEW I \in SUBSET Nat, NEW n \in Nat,
         NEW f, Ascends(f, n, I), Onto(f, n, I), NEW g, Ascends(g, n, I), Onto(g, n, I)
  PROVE  f = g
<1> DEFINE T == {m \in Nat : \A k \in 1 .. n : k <= m => f[k] = g[k]}
<1>1. \A k \in 1 .. n : f[k] \in Nat /\ g[k] \in Nat /\ f[k] \in I /\ g[k] \in I
  BY DEF Ascends
<1>2. 0 \in T
  OBVIOUS
<1>3. ASSUME NEW m \in T PROVE m + 1 \in T
  <2>1. m \in Nat /\ m + 1 \in Nat /\ \A k \in 1 .. n : k <= m => f[k] = g[k]
    OBVIOUS
  <2> HIDE DEF T
  <2>2. ASSUME m + 1 \in 1 .. n PROVE f[m + 1] = g[m + 1]
    <3>1. PICK k \in 1 .. n : g[k] = f[m + 1]
      BY <1>1, <2>2 DEF Onto
    <3>2. PICK l \in 1 .. n : f[l] = g[m + 1]
      BY <1>1, <2>2 DEF Onto
    <3>3. ~(k <= m) /\ ~(l <= m)
      <4>1. k <= m => f[k] = f[m + 1]
        BY <2>1, <3>1
      <4>2. l <= m => g[l] = g[m + 1]
        BY <2>1, <3>2
      <4> QED
        BY <2>1, <2>2, <4>1, <4>2 DEF Onto
    <3>4. g[m + 1] <= g[k] /\ f[m + 1] <= f[l]
      <4>1. m + 1 = k \/ m + 1 < k
        BY <2>1, <3>3
      <4>2. m + 1 = l \/ m + 1 < l
        BY <2>1, <3>3
      <4> QED
        BY <1>1, <2>2, <4>1, <4>2, SMTT(30) DEF Ascends
    <3> QED
      BY <1>1, <2>2, <3>1, <3>2, <3>4
  <2>3. \A k \in 1 .. n : k <= m + 1 => k <= m \/ k = m + 1
    BY <2>1
  <2>4. \A k \in 1 .. n : k <= m + 1 => f[k] = g[k]
    BY <2>1, <2>2, <2>3
  <2> QED
    BY <2>1, <2>4 DEF T
<1>4. T \subseteq Nat
  OBVIOUS
<1> HIDE DEF T
<1>5. n \in T
  BY <1>2, <1>3, <1>4, EveryNumber
<1>6. \A k \in 1 .. n : f[k] = g[k]
  BY <1>5 DEF T
<1> QED
  BY <1>6 DEF Ascends

\* A number above all others is the last.
LEMMA IncreasingAppend ==
  ASSUME NEW I \in SUBSET Nat, IsFiniteSet(I), NEW x \in Nat, \A i \in I : i < x
  PROVE  LET n == Cardinality(I)
             e == Increasing(I \cup {x})
         IN  /\ n \in Nat /\ IsFiniteSet(I \cup {x}) /\ Cardinality(I \cup {x}) = n + 1
             /\ e[n + 1] = x
             /\ \A k \in 1 .. n : e[k] = Increasing(I)[k]
<1> DEFINE n == Cardinality(I)
           e == Increasing(I \cup {x})
           f == Increasing(I)
           g == [k \in 1 .. n + 1 |-> IF k = n + 1 THEN x ELSE f[k]]
<1>1. n \in Nat
  BY FS_CardinalityType
<1>2. x \notin I
  OBVIOUS
<1>3. IsFiniteSet(I \cup {x}) /\ Cardinality(I \cup {x}) = n + 1
  BY <1>2, FS_AddElement
<1>4. Ascends(f, n, I) /\ Onto(f, n, I)
  BY IncreasingAscends
<1>5. Ascends(e, n + 1, I \cup {x}) /\ Onto(e, n + 1, I \cup {x})
  <2>1. I \cup {x} \in SUBSET Nat
    OBVIOUS
  <2> QED
    BY <1>3, <2>1, IncreasingAscends
<1> HIDE DEF n, e, f
<1>6. n + 1 \in 1 .. n + 1 /\ \A k \in 1 .. n + 1 : k = n + 1 \/ k \in 1 .. n
  BY <1>1
<1>7. /\ g[n + 1] = x
      /\ \A k \in 1 .. n : g[k] = f[k] /\ f[k] \in I /\ f[k] < x /\ f[k] # x
  <2>1. \A k \in 1 .. n : k # n + 1 /\ k \in 1 .. n + 1
    BY <1>1
  <2>2. \A k \in 1 .. n : f[k] \in I
    BY <1>4 DEF Ascends
  <2>3. \A i \in I : i \in Nat /\ i < x /\ i # x
    OBVIOUS
  <2>4. g[n + 1] = x /\ \A k \in 1 .. n : g[k] = f[k]
    BY <1>6, <2>1
  <2> QED
    BY ONLY <2>2, <2>3, <2>4
<1>8. g \in [1 .. n + 1 -> I \cup {x}]
  <2>1. \A k \in 1 .. n + 1 : g[k] \in I \cup {x}
    BY <1>6, <1>7
  <2> QED
    BY <2>1
<1> HIDE DEF g
<1>9. Ascends(g, n + 1, I \cup {x})
  <2>1. ASSUME NEW a \in 1 .. n + 1, NEW b \in 1 .. n + 1, a < b PROVE g[a] < g[b]
    <3>1. a \in 1 .. n
      BY <1>1, <2>1
    <3>2. CASE b = n + 1
      BY <1>7, <3>1, <3>2
    <3>3. CASE b \in 1 .. n
      BY <1>4, <1>7, <2>1, <3>1, <3>3 DEF Ascends
    <3> QED
      BY <1>6, <3>2, <3>3
  <2> QED
    BY <1>8, <2>1 DEF Ascends
<1>10. Onto(g, n + 1, I \cup {x})
  <2>1. ASSUME NEW a \in 1 .. n + 1, NEW b \in 1 .. n + 1, g[a] = g[b] PROVE a = b
    BY <1>4, <1>6, <1>7, <2>1 DEF Onto
  <2>2. ASSUME NEW y \in I \cup {x} PROVE \E k \in 1 .. n + 1 : g[k] = y
    <3>1. CASE y = x
      BY <1>6, <1>7, <3>1
    <3>2. CASE y \in I
      <4>1. PICK k \in 1 .. n : f[k] = y
        BY <1>4, <3>2 DEF Onto
      <4>2. k \in 1 .. n + 1
        BY <1>1
      <4> QED
        BY <1>7, <4>1, <4>2
    <3> QED
      BY <3>1, <3>2
  <2> QED
    BY <2>1, <2>2 DEF Onto
<1>11. e = g
  <2>1. I \cup {x} \in SUBSET Nat /\ n + 1 \in Nat
    BY <1>1
  <2> QED
    BY ONLY <1>5, <1>9, <1>10, <2>1, AscentIsUnique
<1> QED
  BY <1>1, <1>3, <1>7, <1>11 DEF n, e, f

-----------------------------------------------------------------------------
(* The paths of tagged fields.                                             *)

\* A document as graphql visits it, whose fields have names in N.
Document(doc, N) ==
  /\ doc \in Seq([depth : Nat \ {0}, name : N, tagged : BOOLEAN])
  /\ doc # <<>> => doc[1].depth = 1
  /\ \A i \in 2 .. Len(doc) : doc[i].depth <= doc[i - 1].depth + 1

LEMMA DocumentTypes ==
  ASSUME NEW doc, NEW N, Document(doc, N)
  PROVE  /\ Len(doc) \in Nat /\ DOMAIN doc = 1 .. Len(doc)
         /\ \A i \in 1 .. Len(doc) :
              doc[i].depth \in Nat \ {0} /\ doc[i].name \in N /\ doc[i].tagged \in BOOLEAN
<1> DEFINE F == [depth : Nat \ {0}, name : N, tagged : BOOLEAN]
<1>1. doc \in Seq(F)
  BY DEF Document
<1> HIDE DEF F
<1>2. Len(doc) \in Nat /\ DOMAIN doc = 1 .. Len(doc) /\ doc \in [1 .. Len(doc) -> F]
  BY <1>1, LenProperties
<1>3. \A i \in 1 .. Len(doc) : doc[i] \in F
  BY <1>2
<1> QED
  BY <1>2, <1>3 DEF F

\* A field is entered at most one level below the field before it.
LEMMA DepthOfNext ==
  ASSUME NEW doc, NEW N, Document(doc, N), NEW i \in 1 .. Len(doc)
  PROVE  DepthBefore(doc, i) \in Nat /\ doc[i].depth <= DepthBefore(doc, i) + 1
<1>1. \A j \in 1 .. Len(doc) : doc[j].depth \in Nat \ {0}
  BY DocumentTypes
<1>2. Len(doc) \in Nat
  BY DocumentTypes
<1>3. CASE i = 1
  <2>1. doc # <<>>
    BY <1>2, EmptySeq
  <2>2. doc[1].depth = 1
    BY <2>1 DEF Document
  <2> QED
    BY <1>3, <2>2 DEF DepthBefore
<1>4. CASE i # 1
  <2>1. i \in 2 .. Len(doc) /\ i - 1 \in 1 .. Len(doc)
    BY <1>2, <1>4
  <2>2. doc[i].depth <= doc[i - 1].depth + 1
    BY <2>1 DEF Document
  <2> QED
    BY <1>1, <1>4, <2>1, <2>2 DEF DepthBefore
<1> QED
  BY <1>3, <1>4

LEMMA AncestorsOfNext ==
  ASSUME NEW doc, NEW N, Document(doc, N), NEW i \in Nat, i + 1 \in 1 .. Len(doc)
  PROVE  AncestorsOrSelf(doc, i + 1)
         = {j \in AncestorsOrSelf(doc, i) : doc[j].depth < doc[i + 1].depth} \cup {i + 1}
<1> DEFINE A == AncestorsOrSelf(doc, i)
           B == AncestorsOrSelf(doc, i + 1)
<1>0. \A j \in 1 .. Len(doc) : doc[j].depth \in Nat
  BY DocumentTypes
<1>1. ASSUME NEW j \in B, j # i + 1 PROVE j \in A /\ doc[j].depth < doc[i + 1].depth
  <2>1. j \in 1 .. i /\ j \in 1 .. i + 1 /\ i + 1 \in j + 1 .. i + 1
    BY <1>1 DEF AncestorsOrSelf
  <2>2. \A k \in j + 1 .. i + 1 : doc[k].depth > doc[j].depth
    BY DEF AncestorsOrSelf
  <2>3. \A k \in j + 1 .. i : k \in j + 1 .. i + 1
    BY <2>1
  <2>4. j \in A
    BY <2>1, <2>2, <2>3 DEF AncestorsOrSelf
  <2>5. Len(doc) \in Nat
    BY DocumentTypes
  <2>6. j \in 1 .. Len(doc)
    BY <2>1, <2>5
  <2> QED
    BY <1>0, <2>1, <2>2, <2>4, <2>6
<1>2. ASSUME NEW j \in A, doc[j].depth < doc[i + 1].depth PROVE j \in B
  <2>1. j \in 1 .. i /\ j \in 1 .. i + 1
    BY DEF AncestorsOrSelf
  <2>2. \A k \in j + 1 .. i + 1 : k \in j + 1 .. i \/ k = i + 1
    BY <2>1
  <2>3. \A k \in j + 1 .. i : doc[k].depth > doc[j].depth
    BY DEF AncestorsOrSelf
  <2>4. doc[i + 1].depth > doc[j].depth
    <3>1. Len(doc) \in Nat
      BY DocumentTypes
    <3>2. j \in 1 .. Len(doc)
      BY <2>1, <3>1
    <3> QED
      BY <1>0, <1>2, <3>2
  <2> QED
    BY <2>1, <2>2, <2>3, <2>4 DEF AncestorsOrSelf
<1>3. i + 1 \in B
  BY DEF AncestorsOrSelf
<1> QED
  BY <1>1, <1>2, <1>3

\* A field has one ancestor of each depth above its own, and the deeper is the later.
LEMMA AncestorDepths ==
  ASSUME NEW doc, NEW N, Document(doc, N), NEW i \in 1 .. Len(doc)
  PROVE  /\ \A j \in AncestorsOrSelf(doc, i) : j \in 1 .. i /\ doc[j].depth <= doc[i].depth
         /\ \A j, k \in AncestorsOrSelf(doc, i) : j < k => doc[j].depth < doc[k].depth
         /\ \A c \in 1 .. doc[i].depth : \E j \in AncestorsOrSelf(doc, i) : doc[j].depth = c
<1> DEFINE A(n) == AncestorsOrSelf(doc, n)
           T == {n \in Nat : n \in 1 .. Len(doc) =>
                   \A c \in 1 .. doc[n].depth : \E j \in A(n) : doc[j].depth = c}
<1>1. Len(doc) \in Nat /\ \A j \in 1 .. Len(doc) : doc[j].depth \in Nat \ {0}
  BY DocumentTypes
<1>2. \A n \in 1 .. Len(doc) : n \in A(n)
  BY <1>1 DEF AncestorsOrSelf
<1>3. 0 \in T
  BY <1>1
<1>4. ASSUME NEW n \in T PROVE n + 1 \in T
  <2>1. n \in Nat /\ n + 1 \in Nat
    OBVIOUS
  <2> SUFFICES ASSUME n + 1 \in 1 .. Len(doc), NEW c \in 1 .. doc[n + 1].depth
               PROVE  \E j \in A(n + 1) : doc[j].depth = c
    BY <2>1
  <2>2. CASE c = doc[n + 1].depth
    BY <1>2, <2>2
  <2>3. CASE c # doc[n + 1].depth
    <3>1. c < doc[n + 1].depth /\ doc[n + 1].depth <= DepthBefore(doc, n + 1) + 1
          /\ DepthBefore(doc, n + 1) \in Nat /\ c \in Nat \ {0}
      BY <1>1, <2>3, DepthOfNext
    <3>2. n \in 1 .. Len(doc) /\ c \in 1 .. doc[n].depth
      <4>1. n + 1 # 1 /\ (n + 1) - 1 = n
        BY <1>1, <2>1, <3>1 DEF DepthBefore
      <4>2. DepthBefore(doc, n + 1) = doc[n].depth
        BY <4>1 DEF DepthBefore
      <4>3. n \in 1 .. Len(doc)
        BY <1>1, <2>1, <4>1
      <4> QED
        BY <1>1, <3>1, <4>2, <4>3
    <3>3. PICK j \in A(n) : doc[j].depth = c
      BY <3>2
    <3>4. j \in A(n + 1)
      BY <2>1, <3>1, <3>3, AncestorsOfNext
    <3> QED
      BY <3>3, <3>4
  <2> QED
    BY <2>2, <2>3
<1>5. T \subseteq Nat
  OBVIOUS
<1> HIDE DEF T
<1>6. T = Nat
  BY <1>3, <1>4, <1>5, EveryNumber
<1>7. \A c \in 1 .. doc[i].depth : \E j \in A(i) : doc[j].depth = c
  BY <1>1, <1>6 DEF T
<1>8. ASSUME NEW j \in A(i), NEW k \in A(i), j < k PROVE doc[j].depth < doc[k].depth
  <2>1. j \in 1 .. i /\ k \in 1 .. i /\ \A l \in j + 1 .. i : doc[l].depth > doc[j].depth
    BY DEF AncestorsOrSelf
  <2>2. k \in j + 1 .. i /\ j \in 1 .. Len(doc) /\ k \in 1 .. Len(doc)
    BY <1>1, <1>8, <2>1
  <2>3. doc[k].depth > doc[j].depth
    BY <2>1, <2>2
  <2> QED
    BY <1>1, <2>2, <2>3
<1>9. ASSUME NEW j \in A(i) PROVE j \in 1 .. i /\ doc[j].depth <= doc[i].depth
  <2>1. j \in 1 .. i
    BY DEF AncestorsOrSelf
  <2>2. CASE j = i
    BY <1>1, <2>1, <2>2
  <2>3. CASE j # i
    <3>1. j < i /\ j \in 1 .. Len(doc)
      BY <1>1, <2>1, <2>3
    <3>2. doc[j].depth < doc[i].depth
      BY <1>2, <1>8, <3>1
    <3> QED
      BY <1>1, <2>1, <3>1, <3>2
  <2> QED
    BY <2>2, <2>3
<1> QED
  BY <1>7, <1>8, <1>9

LEMMA NamesType ==
  ASSUME NEW doc, NEW N, Document(doc, N), NEW fields \in SUBSET (1 .. Len(doc))
  PROVE  /\ IsFiniteSet(fields) /\ fields \in SUBSET Nat
         /\ Names(doc, fields) \in Seq(N) /\ Len(Names(doc, fields)) = Cardinality(fields)
<1> DEFINE n == Cardinality(fields)
           e == Increasing(fields)
           names == Names(doc, fields)
<1>1. Len(doc) \in Nat /\ \A i \in 1 .. Len(doc) : doc[i].name \in N
  BY DocumentTypes
<1>2. IsFiniteSet(fields) /\ fields \in SUBSET Nat /\ n \in Nat
  <2>1. IsFiniteSet(1 .. Len(doc))
    BY <1>1, FS_Interval
  <2>2. IsFiniteSet(fields)
    BY <2>1, FS_Subset
  <2> QED
    BY <1>1, <2>2, FS_CardinalityType
<1>3. Ascends(e, n, fields)
  BY <1>2, IncreasingAscends
<1>4. names = [k \in 1 .. n |-> doc[e[k]].name]
  BY DEF Names
<1> HIDE DEF n, e, names
<1>5. \A k \in 1 .. n : e[k] \in 1 .. Len(doc)
  BY <1>3 DEF Ascends
<1>6. names \in [1 .. n -> N]
  BY <1>1, <1>4, <1>5
<1>7. names \in Seq(N)
  BY <1>2, <1>6, SeqDef
<1>8. Len(names) = n
  <2>1. DOMAIN names = 1 .. n /\ DOMAIN names = 1 .. Len(names) /\ Len(names) \in Nat
    BY <1>6, <1>7, LenProperties
  <2> QED
    BY <1>2, <2>1
<1> QED
  BY <1>2, <1>7, <1>8 DEF n, names

LEMMA NoNames ==
  ASSUME NEW doc
  PROVE  Names(doc, {}) = <<>>
<1>1. Cardinality({}) = 0
  BY FS_EmptySet
<1>2. Names(doc, {}) = [k \in 1 .. 0 |-> doc[Increasing({})[k]].name]
  BY <1>1 DEF Names
<1> QED
  BY <1>2

LEMMA NamesAppend ==
  ASSUME NEW doc, NEW N, Document(doc, N), NEW fields \in SUBSET (1 .. Len(doc)),
         NEW x \in 1 .. Len(doc), \A i \in fields : i < x
  PROVE  Names(doc, fields \cup {x}) = Append(Names(doc, fields), doc[x].name)
<1> DEFINE n == Cardinality(fields)
           before == Names(doc, fields)
           after == Names(doc, fields \cup {x})
           name == doc[x].name
<1>1. Len(doc) \in Nat /\ name \in N
  BY DocumentTypes
<1>2. IsFiniteSet(fields) /\ fields \in SUBSET Nat /\ before \in Seq(N) /\ Len(before) = n
  BY NamesType
<1>3. x \in Nat /\ fields \cup {x} \in SUBSET (1 .. Len(doc))
  BY <1>1
<1>4. LET e == Increasing(fields \cup {x})
      IN  /\ n \in Nat /\ IsFiniteSet(fields \cup {x}) /\ Cardinality(fields \cup {x}) = n + 1
          /\ e[n + 1] = x
          /\ \A k \in 1 .. n : e[k] = Increasing(fields)[k]
  BY ONLY <1>2, <1>3, \A i \in fields : i < x, IncreasingAppend
<1>5. after \in Seq(N) /\ Len(after) = n + 1
  BY <1>3, <1>4, NamesType
<1>6. /\ \A k \in 1 .. n + 1 : after[k] = doc[Increasing(fields \cup {x})[k]].name
      /\ \A k \in 1 .. n : before[k] = doc[Increasing(fields)[k]].name
  BY <1>4 DEF Names
<1> HIDE DEF n, before, after, name
<1>7. /\ Append(before, name) \in Seq(N) /\ Len(Append(before, name)) = n + 1
      /\ \A k \in 1 .. n : Append(before, name)[k] = before[k]
      /\ Append(before, name)[n + 1] = name
  BY ONLY <1>1, <1>2, AppendProperties
<1>8. \A k \in 1 .. n + 1 : after[k] = Append(before, name)[k]
  <2>1. \A k \in 1 .. n + 1 : k \in 1 .. n \/ k = n + 1
    BY <1>4
  <2>2. n + 1 \in 1 .. n + 1 /\ \A k \in 1 .. n : k \in 1 .. n + 1
    BY <1>4
  <2>3. after[n + 1] = name
    BY <1>4, <1>6, <2>2 DEF name
  <2>4. \A k \in 1 .. n : after[k] = before[k]
    BY <1>4, <1>6, <2>2
  <2> QED
    BY <1>7, <2>1, <2>3, <2>4
<1>9. after = Append(before, name)
  BY ONLY <1>5, <1>7, <1>8, SeqEqual
<1> QED
  BY <1>9 DEF after, before, name

LEMMA PopAppend ==
  ASSUME NEW N, NEW s \in Seq(N), NEW x \in N
  PROVE  Pop(Append(s, x)) = s
<1> DEFINE t == Append(s, x)
<1>1. Len(s) \in Nat
  BY LenProperties
<1>2. t \in Seq(N) /\ Len(t) = Len(s) + 1 /\ \A k \in 1 .. Len(s) : t[k] = s[k]
  BY AppendProperties
<1> HIDE DEF t
<1>3. t # <<>>
  <2>1. Len(<<>>) = 0
    BY EmptySeq
  <2>2. Len(s) + 1 # 0
    BY <1>1
  <2> QED
    BY <1>2, <2>1, <2>2
<1>4. Len(t) - 1 = Len(s)
  BY <1>1, <1>2
<1>5. Pop(t) = SubSeq(t, 1, Len(s))
  BY <1>3, <1>4 DEF Pop
<1>6. /\ SubSeq(t, 1, Len(s)) \in Seq(N) /\ Len(SubSeq(t, 1, Len(s))) = Len(s)
      /\ \A k \in 1 .. Len(s) : SubSeq(t, 1, Len(s))[k] = t[k]
  <2>1. 1 \in Int /\ Len(s) \in Int /\ \A k \in 1 .. Len(s) : t[k] \in N
    BY <1>1, <1>2, LenProperties
  <2>2. /\ SubSeq(t, 1, Len(s)) \in Seq(N)
        /\ Len(SubSeq(t, 1, Len(s))) = IF 1 <= Len(s) THEN Len(s) - 1 + 1 ELSE 0
        /\ \A k \in 1 .. Len(s) - 1 + 1 : SubSeq(t, 1, Len(s))[k] = t[1 + k - 1]
    BY ONLY <2>1, SubSeqProperties
  <2>3. Len(s) - 1 + 1 = Len(s) /\ (~(1 <= Len(s)) => Len(s) = 0) /\ \A k \in 1 .. Len(s) : 1 + k - 1 = k
    BY <1>1
  <2> QED
    BY <2>2, <2>3
<1>7. SubSeq(t, 1, Len(s)) = s
  BY <1>2, <1>6, SeqEqual
<1> QED
  BY <1>5, <1>7 DEF t

LEMMA PopType ==
  ASSUME NEW N, NEW s \in Seq(N)
  PROVE  Pop(s) \in Seq(N)
<1>1. Len(s) \in Nat /\ s \in [1 .. Len(s) -> N]
  BY LenProperties
<1>2. 1 \in Int /\ Len(s) - 1 \in Int /\ \A k \in 1 .. Len(s) - 1 : s[k] \in N
  BY <1>1
<1>3. SubSeq(s, 1, Len(s) - 1) \in Seq(N)
  BY ONLY <1>2, SubSeqProperties
<1> QED
  BY <1>3, EmptySeq DEF Pop

\* The open fields that were entered after last and are no deeper than c.
Open(doc, i, last, c) == {j \in AncestorsOrSelf(doc, i) : j > last /\ doc[j].depth <= c}

\* Leaving a field takes its name off the path, if it is still there.
LEMMA PopLeaves ==
  ASSUME NEW doc, NEW N, Document(doc, N), NEW i \in 1 .. Len(doc), NEW last \in Nat,
         NEW c \in Nat, c + 1 <= doc[i].depth
  PROVE  Pop(Names(doc, Open(doc, i, last, c + 1))) = Names(doc, Open(doc, i, last, c))
<1> DEFINE A == AncestorsOrSelf(doc, i)
           lower == Open(doc, i, last, c + 1)
           upper == Open(doc, i, last, c)
<1>1. Len(doc) \in Nat /\ \A j \in 1 .. Len(doc) : doc[j].depth \in Nat \ {0} /\ doc[j].name \in N
  BY DocumentTypes
<1>2. /\ \A j \in A : j \in 1 .. Len(doc) /\ doc[j].depth <= doc[i].depth
      /\ \A j, k \in A : j < k => doc[j].depth < doc[k].depth
      /\ \A b \in 1 .. doc[i].depth : \E j \in A : doc[j].depth = b
  <2>1. \A j \in 1 .. i : j \in 1 .. Len(doc)
    BY <1>1
  <2> QED
    BY <2>1, AncestorDepths
<1>3. c + 1 \in 1 .. doc[i].depth
  BY <1>1
<1>4. PICK x \in A : doc[x].depth = c + 1
  BY <1>2, <1>3
<1> HIDE DEF A
<1>5. /\ \A j \in lower : j \in A /\ j > last /\ doc[j].depth <= c + 1
      /\ \A j \in upper : j \in A /\ j > last /\ doc[j].depth <= c
      /\ \A j \in A : j > last /\ doc[j].depth <= c + 1 => j \in lower
      /\ \A j \in A : j > last /\ doc[j].depth <= c => j \in upper
  BY DEF Open, A
<1> HIDE DEF lower, upper
<1>6. \A j \in A : j \in Nat /\ doc[j].depth \in Nat
  BY <1>1, <1>2
<1>7. CASE x > last
  <2>1. lower = upper \cup {x}
    <3>1. ASSUME NEW j \in lower, j # x PROVE j \in upper
      <4>1. j \in A /\ j > last /\ doc[j].depth <= c + 1
        BY <1>5
      <4>2. j < x \/ x < j
        BY <1>4, <1>6, <3>1, <4>1
      <4>3. doc[j].depth # c + 1
        BY <1>2, <1>4, <1>6, <4>1, <4>2
      <4> QED
        BY <1>5, <1>6, <4>1, <4>3
    <3>2. x \in lower
      BY <1>4, <1>5, <1>7
    <3>3. ASSUME NEW j \in upper PROVE j \in lower
      BY <1>5, <1>6
    <3> QED
      BY <3>1, <3>2, <3>3
  <2>2. \A j \in upper : j < x
    <3> SUFFICES ASSUME NEW j \in upper, ~(j < x) PROVE FALSE
      OBVIOUS
    <3>1. j \in A /\ doc[j].depth <= c
      BY <1>5
    <3>2. j = x \/ x < j
      BY <1>4, <1>6, <3>1
    <3> QED
      BY <1>2, <1>4, <1>6, <3>1, <3>2
  <2>3. upper \in SUBSET (1 .. Len(doc)) /\ x \in 1 .. Len(doc)
    BY <1>2, <1>4, <1>5
  <2>4. Names(doc, lower) = Append(Names(doc, upper), doc[x].name)
    BY ONLY <2>1, <2>2, <2>3, Document(doc, N), NamesAppend
  <2>5. Names(doc, upper) \in Seq(N) /\ doc[x].name \in N
    BY <1>1, <2>3, NamesType
  <2>6. Pop(Append(Names(doc, upper), doc[x].name)) = Names(doc, upper)
    BY ONLY <2>5, PopAppend
  <2> QED
    BY <2>4, <2>6 DEF lower, upper
<1>8. CASE ~(x > last)
  <2>1. lower = {}
    <3> SUFFICES ASSUME NEW j \in lower PROVE FALSE
      OBVIOUS
    <3>1. j \in A /\ j > last /\ doc[j].depth <= c + 1
      BY <1>5
    <3>2. x < j
      BY <1>4, <1>6, <1>8, <3>1
    <3> QED
      BY <1>2, <1>4, <1>6, <3>1, <3>2
  <2>2. upper = {}
    <3> SUFFICES ASSUME NEW j \in upper PROVE FALSE
      OBVIOUS
    <3>1. j \in A /\ j > last /\ doc[j].depth <= c
      BY <1>5
    <3>2. doc[j].depth <= c + 1
      BY <1>6, <3>1
    <3> QED
      BY <1>5, <2>1, <3>1, <3>2
  <2> QED
    BY <2>1, <2>2, NoNames DEF Pop, lower, upper
<1> QED
  BY <1>7, <1>8

\* What is left of a path after each Array.pop.
Pops(f, path) == f[0] = path /\ \A n \in Nat : f[n + 1] = Pop(f[n])

LEMMA PopsExist ==
  ASSUME NEW N, NEW path \in Seq(N)
  PROVE  LET f == CHOOSE h : h = [n \in Nat |-> IF n = 0 THEN path ELSE Pop(h[n - 1])]
         IN  f \in [Nat -> Seq(N)] /\ Pops(f, path)
<1> DEFINE S == Seq(N)
           Loop(h) == [n \in Nat |-> IF n = 0 THEN path ELSE Pop(h[n - 1])]
           f == CHOOSE h : h = Loop(h)
           step == [n \in Nat |-> [s \in S |-> Pop(s)]]
<1>1. step \in [Nat -> [S -> S]] /\ path \in S
  BY PopType
<1> HIDE DEF S
<1>2. \A n \in Nat, s \in S : step[n][s] = Pop(s)
  OBVIOUS
<1> HIDE DEF step
<1>3. PICK g : Recursion(g, S, path, step)
  BY <1>1, RecursionExists
<1>4. ASSUME NEW n \in Nat
      PROVE  (IF n = 0 THEN path ELSE step[n][g[n - 1]]) = IF n = 0 THEN path ELSE Pop(g[n - 1])
  <2>1. n # 0 => g[n - 1] \in S
    BY <1>3 DEF Recursion
  <2> QED
    BY <1>2, <2>1
<1>5. g = Loop(g)
  BY <1>3, <1>4 DEF Recursion
<1>6. f = Loop(f)
  BY <1>5
<1> HIDE DEF f
<1>7. f[0] = path
  BY <1>6
<1>8. ASSUME NEW n \in Nat PROVE f[n + 1] = Pop(f[n])
  <2>1. n + 1 \in Nat /\ n + 1 # 0 /\ (n + 1) - 1 = n
    OBVIOUS
  <2>2. f[n + 1] = Pop(f[(n + 1) - 1])
    BY <1>6, <2>1
  <2> QED
    BY <2>1, <2>2
<1>9. f \in [Nat -> S]
  <2> DEFINE T == {n \in Nat : f[n] \in S}
  <2>1. 0 \in T
    BY <1>1, <1>7
  <2>2. ASSUME NEW n \in T PROVE n + 1 \in T
    <3>1. n \in Nat /\ n + 1 \in Nat /\ f[n] \in S
      OBVIOUS
    <3>2. Pop(f[n]) \in S
      BY <3>1, PopType DEF S
    <3> QED
      BY <1>8, <3>1, <3>2
  <2>3. T \subseteq Nat
    OBVIOUS
  <2> HIDE DEF T
  <2>4. T = Nat
    BY <2>1, <2>2, <2>3, EveryNumber
  <2>5. f = [n \in Nat |-> f[n]]
    BY <1>6
  <2> QED
    BY <2>4, <2>5 DEF T
<1> QED
  BY <1>7, <1>8, <1>9 DEF Pops, f, S

\* The path when a field is entered holds the names of the open fields entered
\* after last, if it did before.
Kept(doc, i, last) ==
  EnterField(doc, i + 1, Names(doc, {j \in AncestorsOrSelf(doc, i) : j > last}))
  = Names(doc, {j \in AncestorsOrSelf(doc, i + 1) : j > last})

LEMMA EnterKeeps ==
  ASSUME NEW doc, NEW N, Document(doc, N), NEW i \in Nat, i + 1 \in 1 .. Len(doc),
         NEW last \in Nat, last <= i
  PROVE  Kept(doc, i, last)
<1> DEFINE A == AncestorsOrSelf(doc, i)
           B == AncestorsOrSelf(doc, i + 1)
           since == {j \in A : j > last}
           path == Names(doc, since)
           depth == DepthBefore(doc, i + 1)
           left == depth - doc[i + 1].depth + 1
           f == CHOOSE h : h = [n \in Nat |-> IF n = 0 THEN path ELSE Pop(h[n - 1])]
<1>1. Len(doc) \in Nat /\ \A j \in 1 .. Len(doc) : doc[j].depth \in Nat \ {0} /\ doc[j].name \in N
  BY DocumentTypes
<1>2. depth \in Nat /\ doc[i + 1].depth <= depth + 1 /\ doc[i + 1].depth \in Nat \ {0}
  BY <1>1, DepthOfNext
<1>3. since \in SUBSET (1 .. Len(doc))
  BY <1>1 DEF AncestorsOrSelf
<1>4. EnterField(doc, i + 1, path) = Append(f[left], doc[i + 1].name)
  BY DEF EnterField
<1>5. path \in Seq(N)
  BY <1>3, NamesType
<1>6. Pops(f, path)
  <2> HIDE DEF path
  <2> QED
    BY <1>5, PopsExist
<1> HIDE DEF f
<1>7. depth > 0 => i \in 1 .. Len(doc) /\ depth = doc[i].depth
  BY <1>1 DEF DepthBefore
<1>8. ASSUME NEW c \in Nat, c <= depth PROVE f[depth - c] = Names(doc, Open(doc, i, last, c))
  <2> DEFINE T == {n \in Nat : n <= depth => f[n] = Names(doc, Open(doc, i, last, depth - n))}
  <2>1. 0 \in T
    <3>1. since = Open(doc, i, last, depth)
      <4>1. CASE depth = 0
        <5>1. i = 0
          BY <1>1, <4>1 DEF DepthBefore
        <5>2. A = {}
          BY <5>1 DEF AncestorsOrSelf
        <5> QED
          BY <5>2 DEF Open
      <4>2. CASE depth > 0
        <5>1. \A j \in A : doc[j].depth <= depth
          BY <1>7, <4>2, AncestorDepths
        <5> QED
          BY <5>1 DEF Open
      <4> QED
        BY <1>2, <4>1, <4>2
    <3>2. depth - 0 = depth
      BY <1>2
    <3>3. f[0] = path
      BY <1>6 DEF Pops
    <3> QED
      BY <3>1, <3>2, <3>3
  <2>2. ASSUME NEW n \in T PROVE n + 1 \in T
    <3>1. n \in Nat /\ n + 1 \in Nat
      OBVIOUS
    <3> SUFFICES ASSUME n + 1 <= depth
                 PROVE  f[n + 1] = Names(doc, Open(doc, i, last, depth - (n + 1)))
      BY <3>1
    <3>2. f[n] = Names(doc, Open(doc, i, last, depth - n))
      BY <1>2, <3>1
    <3> DEFINE b == depth - (n + 1)
    <3>3. b \in Nat /\ depth - n = b + 1 /\ b + 1 <= depth /\ depth > 0
      BY <1>2, <3>1, SMTT(30)
    <3> HIDE DEF b
    <3>4. Pop(Names(doc, Open(doc, i, last, b + 1))) = Names(doc, Open(doc, i, last, b))
      BY <1>7, <3>3, PopLeaves
    <3>5. f[n + 1] = Pop(f[n])
      BY <1>6, <3>1 DEF Pops
    <3> QED
      BY <3>2, <3>3, <3>4, <3>5 DEF b
  <2>3. T \subseteq Nat
    OBVIOUS
  <2> HIDE DEF T
  <2>4. T = Nat
    BY <2>1, <2>2, <2>3, EveryNumber
  <2>5. depth - c \in Nat /\ depth - c <= depth /\ depth - (depth - c) = c
    BY <1>2, <1>8
  <2>6. depth - c \in T
    BY <2>4, <2>5
  <2> QED
    BY <2>5, <2>6 DEF T
<1> DEFINE c == doc[i + 1].depth - 1
           open == Open(doc, i, last, c)
<1>9. c \in Nat /\ c <= depth /\ depth - c = left
  BY <1>2
<1>10. f[left] = Names(doc, open)
  BY <1>8, <1>9
<1>11. {j \in B : j > last} = open \cup {i + 1}
  <2>1. B = {j \in A : doc[j].depth < doc[i + 1].depth} \cup {i + 1}
    BY AncestorsOfNext
  <2>2. \A j \in A : doc[j].depth < doc[i + 1].depth <=> doc[j].depth <= c
    <3>1. \A j \in A : j \in 1 .. Len(doc)
      BY <1>1 DEF AncestorsOrSelf
    <3> QED
      BY <1>1, <1>2, <3>1
  <2>3. i + 1 > last
    OBVIOUS
  <2> QED
    BY <2>1, <2>2, <2>3 DEF Open
<1>12. open \in SUBSET (1 .. Len(doc)) /\ \A j \in open : j < i + 1
  BY <1>1 DEF Open, AncestorsOrSelf
<1> HIDE DEF open
<1>13. Names(doc, open \cup {i + 1}) = Append(Names(doc, open), doc[i + 1].name)
  BY <1>12, NamesAppend
<1> QED
  BY <1>4, <1>10, <1>11, <1>13 DEF Kept

LEMMA EnterType ==
  ASSUME NEW doc, NEW N, Document(doc, N), NEW i \in 1 .. Len(doc), NEW path \in Seq(N)
  PROVE  EnterField(doc, i, path) \in Seq(N)
<1> DEFINE f == CHOOSE h : h = [n \in Nat |-> IF n = 0 THEN path ELSE Pop(h[n - 1])]
           left == DepthBefore(doc, i) - doc[i].depth + 1
<1>1. EnterField(doc, i, path) = Append(f[left], doc[i].name)
  BY DEF EnterField
<1>2. f \in [Nat -> Seq(N)]
  BY PopsExist
<1> HIDE DEF f
<1>3. left \in Nat /\ doc[i].name \in N
  <2>1. DepthBefore(doc, i) \in Nat /\ doc[i].depth <= DepthBefore(doc, i) + 1
    BY DepthOfNext
  <2>2. doc[i].depth \in Nat /\ doc[i].name \in N
    BY DocumentTypes
  <2> QED
    BY <2>1, <2>2
<1>4. f[left] \in Seq(N)
  BY <1>2, <1>3
<1> QED
  BY ONLY <1>1, <1>3, <1>4, AppendProperties

\* A function that is defined by recursion up to n exists.
LoopTo(n, f, S, base, step) ==
  /\ f \in [0 .. n -> S]
  /\ f = [i \in 0 .. n |-> IF i = 0 THEN base ELSE step[i][f[i - 1]]]

LEMMA LoopExists ==
  ASSUME NEW n \in Nat, NEW S, NEW base \in S, NEW step \in [1 .. n -> [S -> S]]
  PROVE  \E f : LoopTo(n, f, S, base, step)
<1> DEFINE same == [s \in S |-> s]
           full == [i \in Nat |-> IF i \in 1 .. n THEN step[i] ELSE same]
<1>1. full \in [Nat -> [S -> S]]
  OBVIOUS
<1>2. \A i \in 1 .. n : full[i] = step[i]
  OBVIOUS
<1> HIDE DEF full
<1>3. PICK g : Recursion(g, S, base, full)
  BY <1>1, RecursionExists
<1> DEFINE f == [i \in 0 .. n |-> g[i]]
<1>4. f \in [0 .. n -> S]
  BY <1>3 DEF Recursion
<1>5. ASSUME NEW i \in 0 .. n PROVE f[i] = IF i = 0 THEN base ELSE step[i][f[i - 1]]
  <2>1. i \in Nat /\ (i # 0 => i \in 1 .. n /\ i - 1 \in 0 .. n)
    OBVIOUS
  <2>2. g[i] = IF i = 0 THEN base ELSE full[i][g[i - 1]]
    BY <1>3, <2>1 DEF Recursion
  <2> QED
    BY <1>2, <2>1, <2>2
<1>6. f = [i \in 0 .. n |-> IF i = 0 THEN base ELSE step[i][f[i - 1]]]
  BY <1>5
<1> QED
  BY <1>4, <1>6 DEF LoopTo

\* What the visitor of optional fields does at a field.
Visit(doc, i, s) ==
  LET path == EnterField(doc, i, s.path)
  IN  IF doc[i].tagged THEN OptionalTag(s, path) ELSE [s EXCEPT !.path = path]

Fresh == [path |-> <<>>, paths |-> <<>>]

LEMMA VisitsExist ==
  ASSUME NEW doc, NEW N, Document(doc, N)
  PROVE  \E v : /\ v \in [0 .. Len(doc) -> [path : Seq(N), paths : Seq(Seq(N))]]
                /\ v[0] = Fresh
                /\ \A i \in 1 .. Len(doc) : v[i] = Visit(doc, i, v[i - 1])
                /\ GetOptionalFieldsDirectivePaths(doc) = v[Len(doc)].paths
<1> DEFINE S == [path : Seq(N), paths : Seq(Seq(N))]
           n == Len(doc)
           Loop(h) == [i \in 0 .. n |-> IF i = 0 THEN Fresh ELSE Visit(doc, i, h[i - 1])]
           v == CHOOSE h : h = Loop(h)
           step == [i \in 1 .. n |-> [s \in S |-> Visit(doc, i, s)]]
<1>1. n \in Nat
  BY DocumentTypes
<1>2. Fresh \in S
  BY EmptySeq DEF Fresh
<1>3. ASSUME NEW i \in 1 .. n, NEW s \in S PROVE Visit(doc, i, s) \in S
  <2>1. EnterField(doc, i, s.path) \in Seq(N)
    BY EnterType
  <2>2. Append(s.paths, EnterField(doc, i, s.path)) \in Seq(Seq(N))
    <3>1. s.paths \in Seq(Seq(N))
      OBVIOUS
    <3> QED
      BY ONLY <2>1, <3>1, AppendProperties
  <2>3. <<>> \in Seq(N)
    BY EmptySeq
  <2> QED
    BY <2>1, <2>2, <2>3 DEF Visit, OptionalTag
<1>4. GetOptionalFieldsDirectivePaths(doc) = v[n].paths
  BY DEF GetOptionalFieldsDirectivePaths, Visit, Fresh
<1> HIDE DEF S, n
<1>5. step \in [1 .. n -> [S -> S]] /\ \A i \in 1 .. n, s \in S : step[i][s] = Visit(doc, i, s)
  BY <1>3
<1> HIDE DEF step
<1>6. PICK g : /\ g \in [0 .. n -> S]
               /\ g = [i \in 0 .. n |-> IF i = 0 THEN Fresh ELSE step[i][g[i - 1]]]
  <2>1. \E g : LoopTo(n, g, S, Fresh, step)
    BY <1>1, <1>2, <1>5, LoopExists
  <2> QED
    BY <2>1 DEF LoopTo
<1>7. \A i \in 1 .. n : i \in 0 .. n /\ i # 0 /\ i - 1 \in 0 .. n
  BY <1>1
<1>8. g = Loop(g)
  <2>1. \A i \in 0 .. n : g[i] = IF i = 0 THEN Fresh ELSE Visit(doc, i, g[i - 1])
    <3> SUFFICES ASSUME NEW i \in 0 .. n
                 PROVE  g[i] = IF i = 0 THEN Fresh ELSE Visit(doc, i, g[i - 1])
      OBVIOUS
    <3>1. i # 0 => i \in 1 .. n
      BY ONLY <1>1, i \in 0 .. n
    <3>2. g \in [0 .. n -> S]
      BY <1>6
    <3>3. i # 0 => i \in 1 .. n /\ g[i - 1] \in S
      BY ONLY <1>7, <3>1, <3>2
    <3> QED
      BY <1>5, <1>6, <3>3
  <2> QED
    BY <1>6, <2>1
<1>9. v = Loop(v)
  BY <1>8
<1> HIDE DEF v
<1>10. v[0] = Fresh /\ \A i \in 1 .. n : v[i] = Visit(doc, i, v[i - 1])
  <2>1. 0 \in 0 .. n
    BY <1>1
  <2> QED
    BY <1>7, <1>9, <2>1
<1>11. v \in [0 .. n -> S]
  <2> DEFINE T == {m \in Nat : m \in 0 .. n => v[m] \in S}
  <2>1. 0 \in T
    BY <1>2, <1>10
  <2>2. ASSUME NEW m \in T PROVE m + 1 \in T
    <3>1. m \in Nat /\ m + 1 \in Nat
      OBVIOUS
    <3> SUFFICES ASSUME m + 1 \in 0 .. n PROVE v[m + 1] \in S
      BY <3>1
    <3>2. m + 1 \in 1 .. n /\ (m + 1) - 1 = m /\ v[m] \in S
      BY <1>1, <3>1
    <3>3. v[m + 1] = Visit(doc, m + 1, v[m])
      BY <1>10, <3>2
    <3> QED
      BY <1>3, <3>2, <3>3 DEF n, S
  <2>3. T \subseteq Nat
    OBVIOUS
  <2> HIDE DEF T
  <2>4. T = Nat
    BY <2>1, <2>2, <2>3, EveryNumber
  <2>5. \A m \in 0 .. n : v[m] \in S
    BY <1>1, <2>4 DEF T
  <2> QED
    BY <1>9, <2>5
<1> QED
  BY <1>4, <1>10, <1>11 DEF n, S

TagsTo(doc, i) == {t \in 1 .. i : doc[t].tagged}

LastTag(doc, i) ==
  LET n == Cardinality(TagsTo(doc, i)) IN IF n = 0 THEN 0 ELSE Increasing(TagsTo(doc, i))[n]

\* What the visitor has recorded after the i-th field: the open fields it entered
\* after the last tag, and of each tag those entered after the tag before.
Recorded(s, doc, i) ==
  LET tags == Increasing(TagsTo(doc, i))
      n == Cardinality(TagsTo(doc, i))
  IN  /\ s.path = Names(doc, {j \in AncestorsOrSelf(doc, i) : j > LastTag(doc, i)})
      /\ s.paths \in Seq(Seq({doc[j].name : j \in 1 .. Len(doc)})) /\ Len(s.paths) = n
      /\ \A m \in 1 .. n :
           s.paths[m] = Names(doc, {j \in AncestorsOrSelf(doc, tags[m]) :
                                      j > IF m = 1 THEN 0 ELSE tags[m - 1]})

LEMMA TagTypes ==
  ASSUME NEW doc, NEW i \in Nat
  PROVE  LET G == TagsTo(doc, i)
             n == Cardinality(G)
             e == Increasing(G)
         IN  /\ G \in SUBSET Nat /\ IsFiniteSet(G) /\ n \in Nat
             /\ Ascends(e, n, G) /\ Onto(e, n, G)
             /\ \A k \in 1 .. n : e[k] \in 1 .. i /\ e[k] \in G
             /\ LastTag(doc, i) \in 0 .. i
<1> DEFINE G == TagsTo(doc, i)
           n == Cardinality(G)
           e == Increasing(G)
<1>1. G \in SUBSET (1 .. i) /\ G \in SUBSET Nat
  BY DEF TagsTo
<1> HIDE DEF G
<1>2. IsFiniteSet(1 .. i)
  BY FS_Interval
<1>3. IsFiniteSet(G) /\ n \in Nat
  BY <1>1, <1>2, FS_Subset, FS_CardinalityType
<1>4. Ascends(e, n, G) /\ Onto(e, n, G)
  BY <1>1, <1>3, IncreasingAscends
<1>5. LastTag(doc, i) = IF n = 0 THEN 0 ELSE e[n]
  BY DEF LastTag, G
<1> HIDE DEF n, e
<1>6. \A k \in 1 .. n : e[k] \in 1 .. i /\ e[k] \in G
  BY <1>1, <1>4 DEF Ascends
<1>7. LastTag(doc, i) \in 0 .. i
  BY <1>3, <1>5, <1>6
<1> QED
  BY <1>1, <1>3, <1>4, <1>6, <1>7 DEF n, e, G

\* A tagged field is the last tag, after those before it.
LEMMA TagIsLast ==
  ASSUME NEW doc, NEW i \in Nat, doc[i + 1].tagged
  PROVE  LET n == Cardinality(TagsTo(doc, i))
             tags == Increasing(TagsTo(doc, i + 1))
         IN  /\ Cardinality(TagsTo(doc, i + 1)) = n + 1
             /\ tags[n + 1] = i + 1 /\ LastTag(doc, i + 1) = i + 1
             /\ \A k \in 1 .. n : tags[k] = Increasing(TagsTo(doc, i))[k]
<1> DEFINE G == TagsTo(doc, i)
           H == TagsTo(doc, i + 1)
           n == Cardinality(G)
<1>1. G \in SUBSET Nat /\ IsFiniteSet(G) /\ n \in Nat
  BY TagTypes
<1>2. H = G \cup {i + 1}
  <2>1. \A t \in 1 .. i + 1 : t \in 1 .. i \/ t = i + 1
    OBVIOUS
  <2>2. \A t \in 1 .. i : t \in 1 .. i + 1
    OBVIOUS
  <2>3. i + 1 \in 1 .. i + 1
    OBVIOUS
  <2> QED
    BY <2>1, <2>2, <2>3 DEF TagsTo
<1>3. i + 1 \in Nat /\ \A t \in G : t < i + 1
  BY DEF TagsTo
<1>4. LastTag(doc, i + 1) = LET m == Cardinality(H) IN IF m = 0 THEN 0 ELSE Increasing(H)[m]
  BY DEF LastTag
<1> HIDE DEF G, H
<1>5. LET e == Increasing(G \cup {i + 1})
      IN  /\ Cardinality(G \cup {i + 1}) = n + 1
          /\ e[n + 1] = i + 1
          /\ \A k \in 1 .. n : e[k] = Increasing(G)[k]
  BY <1>1, <1>3, IncreasingAppend
<1>6. n + 1 # 0
  BY <1>1
<1>7. /\ Cardinality(H) = n + 1 /\ Increasing(H)[n + 1] = i + 1
      /\ \A k \in 1 .. n : Increasing(H)[k] = Increasing(G)[k]
  BY <1>2, <1>5
<1>8. LastTag(doc, i + 1) = i + 1
  BY ONLY <1>4, <1>6, <1>7
<1> QED
  BY <1>7, <1>8 DEF G, H

LEMMA RecordStep ==
  ASSUME NEW doc, NEW N, Document(doc, N), NEW i \in Nat, i + 1 \in 1 .. Len(doc),
         NEW s \in [path : Seq(N), paths : Seq(Seq(N))], Recorded(s, doc, i)
  PROVE  Recorded(Visit(doc, i + 1, s), doc, i + 1)
<1> DEFINE last == LastTag(doc, i)
           since == {j \in AncestorsOrSelf(doc, i) : j > last}
           entered == EnterField(doc, i + 1, s.path)
           next == {j \in AncestorsOrSelf(doc, i + 1) : j > last}
           N0 == {doc[j].name : j \in 1 .. Len(doc)}
<1>1. Len(doc) \in Nat /\ \A j \in 1 .. Len(doc) : doc[j].tagged \in BOOLEAN
  BY DocumentTypes
<1>2. last \in Nat /\ last <= i
  BY TagTypes
<1>3. s.path = Names(doc, since)
  BY DEF Recorded
<1>4. entered = Names(doc, next)
  <2> HIDE DEF last
  <2>1. EnterField(doc, i + 1, Names(doc, since)) = Names(doc, next)
    <3>1. Kept(doc, i, last)
      BY ONLY <1>2, Document(doc, N), i \in Nat, i + 1 \in 1 .. Len(doc), EnterKeeps
    <3> QED
      BY <3>1 DEF Kept
  <2> QED
    BY <1>3, <2>1
<1>5. CASE ~doc[i + 1].tagged
  <2>1. TagsTo(doc, i + 1) = TagsTo(doc, i)
    <3>1. \A t \in 1 .. i + 1 : t \in 1 .. i \/ t = i + 1
      OBVIOUS
    <3>2. \A t \in 1 .. i : t \in 1 .. i + 1
      OBVIOUS
    <3> QED
      BY <1>5, <3>1, <3>2 DEF TagsTo
  <2>2. LastTag(doc, i + 1) = last
    BY <2>1 DEF LastTag
  <2>3. Visit(doc, i + 1, s) = [s EXCEPT !.path = entered]
    BY <1>5 DEF Visit
  <2>4. Visit(doc, i + 1, s).path = entered /\ Visit(doc, i + 1, s).paths = s.paths
    BY <2>3
  <2> HIDE DEF entered
  <2> QED
    BY <1>4, <2>1, <2>2, <2>4 DEF Recorded
<1>6. CASE doc[i + 1].tagged
  <2> DEFINE n == Cardinality(TagsTo(doc, i))
             tags == Increasing(TagsTo(doc, i + 1))
             old == Increasing(TagsTo(doc, i))
             paths == Append(s.paths, entered)
             From(t, m) == IF m = 1 THEN 0 ELSE t[m - 1]
             Of(t, m) == Names(doc, {j \in AncestorsOrSelf(doc, t[m]) : j > From(t, m)})
  <2>1. /\ Cardinality(TagsTo(doc, i + 1)) = n + 1
        /\ tags[n + 1] = i + 1 /\ LastTag(doc, i + 1) = i + 1
        /\ \A k \in 1 .. n : tags[k] = old[k]
    BY <1>6, TagIsLast
  <2>2. n \in Nat /\ \A k \in 1 .. n : old[k] \in 1 .. i
    BY TagTypes
  <2>3. Visit(doc, i + 1, s) = [path |-> <<>>, paths |-> paths]
    BY <1>6 DEF Visit, OptionalTag
  <2>4. <<>> = Names(doc, {j \in AncestorsOrSelf(doc, i + 1) : j > LastTag(doc, i + 1)})
    <3>1. \A j \in AncestorsOrSelf(doc, i + 1) : ~(j > i + 1)
      BY DEF AncestorsOrSelf
    <3>2. {j \in AncestorsOrSelf(doc, i + 1) : j > LastTag(doc, i + 1)} = {}
      BY <2>1, <3>1
    <3> QED
      BY <3>2, NoNames
  <2>5. s.paths \in Seq(Seq(N0)) /\ Len(s.paths) = n /\ \A m \in 1 .. n : s.paths[m] = Of(old, m)
    BY DEF Recorded
  <2>6. entered \in Seq(N0)
    <3>1. Document(doc, N0)
      <4>1. \A j \in 1 .. Len(doc) : doc[j] \in [depth : Nat \ {0}, name : N0, tagged : BOOLEAN]
        <5>1. \A j \in 1 .. Len(doc) : doc[j] \in [depth : Nat \ {0}, name : N, tagged : BOOLEAN]
          BY <1>1, ElementOfSeq DEF Document
        <5> QED
          BY <5>1
      <4>2. doc = [j \in 1 .. Len(doc) |-> doc[j]]
        BY LenProperties DEF Document
      <4> DEFINE F == [depth : Nat \ {0}, name : N0, tagged : BOOLEAN]
      <4>3. doc \in [1 .. Len(doc) -> F]
        BY <4>1, <4>2
      <4> HIDE DEF F
      <4>4. doc \in Seq(F)
        <5>1. PICK k \in Nat : k = Len(doc)
          BY <1>1
        <5>2. doc \in [1 .. k -> F]
          BY <4>3, <5>1
        <5> QED
          BY ONLY <5>2, k \in Nat, SeqDef
      <4> QED
        BY <4>4 DEF Document, F
    <3>2. next \in SUBSET (1 .. Len(doc))
      BY <1>1 DEF AncestorsOrSelf
    <3> HIDE DEF N0, next
    <3> QED
      BY <1>4, <3>1, <3>2, NamesType
  <2>7. /\ paths \in Seq(Seq(N0)) /\ Len(paths) = n + 1
        /\ \A m \in 1 .. n : paths[m] = s.paths[m]
        /\ paths[n + 1] = entered
    <3> HIDE DEF N0, entered, n
    <3>1. s.paths \in Seq(Seq(N0)) /\ Len(s.paths) = n /\ entered \in Seq(N0)
      BY <2>5, <2>6
    <3> QED
      BY ONLY <3>1, AppendProperties
  <2>8. last = From(tags, n + 1)
    <3>1. CASE n = 0
      BY <3>1 DEF LastTag
    <3>2. CASE n # 0
      <4>1. n \in 1 .. n /\ n + 1 # 1 /\ (n + 1) - 1 = n
        BY <2>2, <3>2
      <4>2. last = old[n]
        BY <3>2 DEF LastTag
      <4> QED
        BY <2>1, <4>1, <4>2
    <3> QED
      BY <3>1, <3>2
  <2>9. \A m \in 1 .. n + 1 : paths[m] = Of(tags, m)
    <3>1. CASE TRUE
      <4>1. ASSUME NEW m \in 1 .. n PROVE paths[m] = Of(tags, m)
        <5>1. tags[m] = old[m]
          BY <2>1
        <5>2. m # 1 => m - 1 \in 1 .. n
          BY <2>2
        <5>3. From(tags, m) = From(old, m)
          BY <2>1, <5>2
        <5>4. paths[m] = Of(old, m)
          BY <2>5, <2>7
        <5> HIDE DEF From, paths, tags, old
        <5> QED
          BY <5>1, <5>3, <5>4
      <4>2. paths[n + 1] = Of(tags, n + 1)
        <5> HIDE DEF From, paths, entered, last
        <5> QED
          BY <1>4, <2>1, <2>7, <2>8 DEF tags
      <4>3. \A m \in 1 .. n + 1 : m \in 1 .. n \/ m = n + 1
        BY <2>2
      <4> HIDE DEF Of, paths
      <4> QED
        BY <4>1, <4>2, <4>3
    <3> QED
      BY <3>1
  <2> HIDE DEF paths, n, tags, N0
  <2>10. Visit(doc, i + 1, s).path = <<>> /\ Visit(doc, i + 1, s).paths = paths
    BY <2>3
  <2> QED
    BY <2>1, <2>4, <2>7, <2>9, <2>10 DEF Recorded, tags, N0
<1> QED
  BY <1>1, <1>5, <1>6

\* A path without some of its fields has fewer names.
LEMMA NamesDiffer ==
  ASSUME NEW doc, NEW N, Document(doc, N), NEW path \in SUBSET (1 .. Len(doc)),
         NEW F \in SUBSET path
  PROVE  Names(doc, path \ F) = Names(doc, path) <=> F = {}
<1> DEFINE rest == path \ F
<1>1. rest \in SUBSET (1 .. Len(doc)) /\ rest \in SUBSET path
  OBVIOUS
<1>2. F = {} <=> rest = path
  OBVIOUS
<1> HIDE DEF rest
<1>3. IsFiniteSet(path) /\ Len(Names(doc, path)) = Cardinality(path)
  BY NamesType
<1>4. Len(Names(doc, rest)) = Cardinality(rest)
  BY <1>1, NamesType
<1>5. Cardinality(rest) = Cardinality(path) => rest = path
  BY <1>1, <1>3, FS_Subset
<1>6. Names(doc, rest) = Names(doc, path) <=> F = {}
  BY ONLY <1>2, <1>3, <1>4, <1>5
<1> QED
  BY <1>6 DEF rest

\* Both visitors find the fields that a query tags, whatever the document.  The
\* principal field has its whole path.  An optional field has it if no ancestor of
\* it was open at the tag before it, and else only what was entered after that tag
\* (src/src/directives/optionalField/getOptionalFieldsDirectivePaths.ts and
\* src/src/directives/principalField/getPrincipalFieldDirectivePath.ts).
THEOREM TagsAreFound ==
  ASSUME NEW doc, NEW N, Document(doc, N)
  PROVE  Tagged(doc, GetOptionalFieldsDirectivePaths(doc), GetPrincipalFieldDirectivePath(doc))
<1> DEFINE n == Len(doc)
           S == [path : Seq(N), paths : Seq(Seq(N))]
           G == {i \in DOMAIN doc : doc[i].tagged}
           size == Cardinality(G)
           tags == Tags(doc)
           optional == GetOptionalFieldsDirectivePaths(doc)
           principal == GetPrincipalFieldDirectivePath(doc)
<1>1. n \in Nat /\ DOMAIN doc = 1 .. n
  BY DocumentTypes
<1>2. G = TagsTo(doc, n) /\ tags = Increasing(G)
  BY <1>1 DEF TagsTo, Tags
<1>3. PICK v : /\ v \in [0 .. n -> S]
               /\ v[0] = Fresh
               /\ \A i \in 1 .. n : v[i] = Visit(doc, i, v[i - 1])
               /\ optional = v[n].paths
  BY VisitsExist
<1>4. TagsTo(doc, 0) = {} /\ Cardinality(TagsTo(doc, 0)) = 0 /\ LastTag(doc, 0) = 0
  <2>1. TagsTo(doc, 0) = {}
    BY DEF TagsTo
  <2> QED
    BY <2>1, FS_EmptySet DEF LastTag
<1> HIDE DEF n, S, G, tags, optional, principal
<1>5. Recorded(v[0], doc, 0)
  <2>1. AncestorsOrSelf(doc, 0) = {}
    BY DEF AncestorsOrSelf
  <2>2. {j \in AncestorsOrSelf(doc, 0) : j > LastTag(doc, 0)} = {}
    BY <2>1
  <2>3. v[0].path = <<>> /\ v[0].paths = <<>>
    BY <1>3 DEF Fresh
  <2>4. \A A : <<>> \in Seq(A) /\ Len(<<>>) = 0
    BY EmptySeq
  <2>5. v[0].path = Names(doc, {j \in AncestorsOrSelf(doc, 0) : j > LastTag(doc, 0)})
    BY <2>2, <2>3, NoNames
  <2>6. v[0].paths \in Seq(Seq(N)) /\ Len(v[0].paths) = Cardinality(TagsTo(doc, 0))
    BY <1>4, <2>3, <2>4
  <2>7. 1 .. Cardinality(TagsTo(doc, 0)) = {}
    BY <1>4
  <2> QED
    BY <2>5, <2>6, <2>7, SMTT(30) DEF Recorded
<1>6. Recorded(v[n], doc, n)
  <2> DEFINE T == {i \in Nat : i \in 0 .. n => Recorded(v[i], doc, i)}
  <2>1. 0 \in T
    BY <1>5
  <2>2. ASSUME NEW i \in T PROVE i + 1 \in T
    <3>1. i \in Nat /\ i + 1 \in Nat
      OBVIOUS
    <3> SUFFICES ASSUME i + 1 \in 0 .. n PROVE Recorded(v[i + 1], doc, i + 1)
      BY <3>1
    <3>2. i \in 0 .. n /\ i + 1 \in 1 .. n /\ (i + 1) - 1 = i
      BY <1>1, <3>1
    <3>3. v[i] \in S /\ Recorded(v[i], doc, i) /\ v[i + 1] = Visit(doc, i + 1, v[i])
      BY <1>3, <3>1, <3>2
    <3> QED
      BY <3>1, <3>2, <3>3, RecordStep DEF S, n
  <2>3. T \subseteq Nat
    OBVIOUS
  <2> HIDE DEF T
  <2>4. T = Nat
    BY <2>1, <2>2, <2>3, EveryNumber
  <2> QED
    BY <1>1, <2>4 DEF T
<1>7. /\ Len(optional) = size /\ DOMAIN optional = 1 .. size
      /\ \A m \in 1 .. size :
           optional[m] = Names(doc, {j \in AncestorsOrSelf(doc, tags[m]) :
                                       j > IF m = 1 THEN 0 ELSE tags[m - 1]})
  BY <1>2, <1>3, <1>6, LenProperties DEF Recorded
<1>8. /\ G \in SUBSET Nat /\ size \in Nat /\ G \in SUBSET (1 .. n)
      /\ Ascends(tags, size, G) /\ Onto(tags, size, G)
  BY <1>1, <1>2, TagTypes DEF TagsTo
<1> HIDE DEF size
<1>9. DOMAIN tags = 1 .. size /\ (tags = <<>> <=> size = 0)
  <2>1. tags \in [1 .. size -> Nat] /\ DOMAIN tags = 1 .. size
    BY <1>8 DEF Ascends
  <2>2. tags \in Seq(Nat)
    BY <1>8, <2>1, SeqDef
  <2>3. Len(tags) = size
    BY <1>8, <2>1, <2>2, LenProperties
  <2>4. tags = <<>> <=> Len(tags) = 0
    BY <2>2, EmptySeq
  <2> QED
    BY <2>1, <2>3, <2>4
<1>10. principal = IF tags = <<>> THEN <<>> ELSE Names(doc, AncestorsOrSelf(doc, tags[1]))
  <2> DEFINE Loop(h) == [i \in 0 .. n |-> IF i = 0 THEN <<>> ELSE EnterField(doc, i, h[i - 1])]
             u == CHOOSE h : h = Loop(h)
             least == CHOOSE i \in G : \A j \in G : i <= j
  <2>1. principal = IF G = {} THEN <<>> ELSE u[least]
    BY DEF principal, GetPrincipalFieldDirectivePath, n, G
  <2>2. CASE size = 0
    <3>1. G = {}
      BY <1>8, <2>2 DEF Onto
    <3> QED
      BY <1>9, <2>1, <2>2, <3>1
  <2>3. CASE size # 0
    <3>1. 1 \in 1 .. size /\ tags[1] \in G /\ tags # <<>>
      BY <1>8, <1>9, <2>3 DEF Ascends
    <3>2. \A j \in G : tags[1] <= j
      <4> SUFFICES ASSUME NEW j \in G PROVE tags[1] <= j
        OBVIOUS
      <4>1. PICK k \in 1 .. size : tags[k] = j
        BY <1>8 DEF Onto
      <4>2. k = 1 \/ 1 < k
        BY <1>8
      <4>3. tags[1] \in Nat /\ j \in Nat
        BY <1>8, <3>1
      <4>4. 1 < k => tags[1] < tags[k]
        BY ONLY <1>8, <3>1, k \in 1 .. size DEF Ascends
      <4> QED
        BY ONLY <4>1, <4>2, <4>3, <4>4
    <3>3. least = tags[1]
      <4>1. ASSUME NEW i \in G, \A j \in G : i <= j PROVE i = tags[1]
        <5>1. i \in Nat /\ tags[1] \in Nat
          BY <1>8, <3>1
        <5>2. i <= tags[1] /\ tags[1] <= i
          BY <3>1, <3>2, <4>1
        <5> QED
          BY ONLY <5>1, <5>2
      <4> QED
        BY <3>1, <3>2, <4>1
    <3> HIDE DEF least
    <3>4. u = Loop(u)
      <4> DEFINE step == [i \in 1 .. n |-> [s \in Seq(N) |-> EnterField(doc, i, s)]]
      <4>1. step \in [1 .. n -> [Seq(N) -> Seq(N)]] /\ <<>> \in Seq(N)
        BY EnterType, EmptySeq DEF n
      <4>2. \A i \in 1 .. n, s \in Seq(N) : step[i][s] = EnterField(doc, i, s)
        OBVIOUS
      <4> HIDE DEF step
      <4>3. PICK g : LoopTo(n, g, Seq(N), <<>>, step)
        BY <1>1, <4>1, LoopExists
      <4>4. ASSUME NEW i \in 0 .. n
            PROVE  g[i] = IF i = 0 THEN <<>> ELSE EnterField(doc, i, g[i - 1])
        <5>1. i # 0 => i \in 1 .. n /\ i - 1 \in 0 .. n
          BY <1>1
        <5>2. g[i] = IF i = 0 THEN <<>> ELSE step[i][g[i - 1]]
          BY <4>3 DEF LoopTo
        <5>3. i # 0 => g[i - 1] \in Seq(N)
          BY <4>3, <5>1 DEF LoopTo
        <5> QED
          BY <4>2, <5>1, <5>2, <5>3
      <4>5. g = Loop(g)
        BY <4>3, <4>4 DEF LoopTo
      <4> QED
        BY <4>5
    <3> HIDE DEF u
    <3>5. \A i \in 0 .. n : u[i] = IF i = 0 THEN <<>> ELSE EnterField(doc, i, u[i - 1])
      BY <3>4
    <3>6. \A i \in 0 .. n : u[i] = Names(doc, AncestorsOrSelf(doc, i))
      <4> DEFINE T == {i \in Nat : i \in 0 .. n => u[i] = Names(doc, AncestorsOrSelf(doc, i))}
      <4>1. 0 \in T
        <5>1. AncestorsOrSelf(doc, 0) = {}
          BY DEF AncestorsOrSelf
        <5> QED
          BY <1>1, <3>5, <5>1, NoNames
      <4>2. ASSUME NEW i \in T PROVE i + 1 \in T
        <5>1. i \in Nat /\ i + 1 \in Nat
          OBVIOUS
        <5> SUFFICES ASSUME i + 1 \in 0 .. n
                     PROVE  u[i + 1] = Names(doc, AncestorsOrSelf(doc, i + 1))
          BY <5>1
        <5>2. i \in 0 .. n /\ i + 1 \in 1 .. n /\ i + 1 # 0 /\ (i + 1) - 1 = i
          BY <1>1, <5>1
        <5>3. u[i] = Names(doc, AncestorsOrSelf(doc, i))
          BY <5>1, <5>2
        <5>4. u[i + 1] = EnterField(doc, i + 1, u[i])
          BY <3>5, <5>2
        <5>5. \A k \in Nat : {j \in AncestorsOrSelf(doc, k) : j > 0} = AncestorsOrSelf(doc, k)
          BY DEF AncestorsOrSelf
        <5>6. EnterField(doc, i + 1, Names(doc, {j \in AncestorsOrSelf(doc, i) : j > 0}))
              = Names(doc, {j \in AncestorsOrSelf(doc, i + 1) : j > 0})
          <6>1. i + 1 \in 1 .. Len(doc) /\ 0 \in Nat /\ 0 <= i
            BY <5>1, <5>2 DEF n
          <6> QED
            <7>1. Kept(doc, i, 0)
              BY ONLY <5>1, <6>1, Document(doc, N), EnterKeeps
            <7> QED
              BY <7>1 DEF Kept
        <5> QED
          BY <5>1, <5>3, <5>4, <5>5, <5>6
      <4>3. T \subseteq Nat
        OBVIOUS
      <4> HIDE DEF T
      <4>4. T = Nat
        BY <4>1, <4>2, <4>3, EveryNumber
      <4>5. \A i \in 0 .. n : i \in Nat
        OBVIOUS
      <4> QED
        BY <4>4, <4>5 DEF T
    <3>7. tags[1] \in 0 .. n
      <4>1. tags[1] \in 1 .. n
        BY ONLY <1>8, <3>1
      <4> QED
        BY ONLY <1>1, <4>1
    <3> QED
      BY <2>1, <3>1, <3>3, <3>6, <3>7
  <2> QED
    BY <2>2, <2>3
<1>11. ASSUME NEW m \in DOMAIN tags
       PROVE  LET path == AncestorsOrSelf(doc, tags[m])
                  F == Forgotten(doc, m)
              IN  /\ optional[m] = Names(doc, path \ F)
                  /\ optional[m] = Names(doc, path) <=> F = {}
  <2> DEFINE path == AncestorsOrSelf(doc, tags[m])
             F == Forgotten(doc, m)
             before == IF m = 1 THEN 0 ELSE tags[m - 1]
  <2>1. m \in 1 .. size /\ (m # 1 => m - 1 \in 1 .. size)
    BY ONLY <1>8, <1>9, m \in DOMAIN tags
  <2>2. tags \in [1 .. size -> G] /\ G \subseteq 1 .. n
    BY ONLY <1>8 DEF Ascends
  <2>3. m \in 1 .. size /\ tags[m] \in 1 .. n
    BY ONLY <2>1, <2>2
  <2>4. m # 1 => tags[m - 1] \in 1 .. n
    BY ONLY <2>1, <2>2
  <2>5. path \in SUBSET (1 .. n)
    BY <1>1, <2>3 DEF AncestorsOrSelf
  <2>6. F = IF m = 1 THEN {} ELSE {j \in path : j <= tags[m - 1]}
    BY DEF Forgotten, tags
  <2>7. optional[m] = Names(doc, {j \in path : j > before})
    BY <1>7, <2>3
  <2>8. (m = 1 => before = 0) /\ (m # 1 => before = tags[m - 1])
    OBVIOUS
  <2> HIDE DEF path, F, before
  <2>9. {j \in path : j > before} = path \ F
    <3>1. \A j \in path : j \in Nat /\ j > 0
      BY ONLY <1>1, <2>5
    <3>2. CASE m = 1
      <4>1. \A j \in path : j > before /\ j \notin F
        BY ONLY <2>6, <2>8, <3>1, <3>2
      <4> QED
        BY ONLY <4>1
    <3>3. CASE m # 1
      <4>1. before \in Nat
        BY ONLY <1>1, <2>4, <2>8, <3>3
      <4>2. \A j \in path : j \in F <=> j <= before
        BY ONLY <2>6, <2>8, <3>3
      <4>3. \A j \in path : j > before <=> j \notin F
        BY ONLY <3>1, <4>1, <4>2
      <4> QED
        BY ONLY <4>3
    <3> QED
      BY <3>2, <3>3
  <2>10. F \in SUBSET path
    BY <2>6
  <2>11. Names(doc, path \ F) = Names(doc, path) <=> F = {}
    <3>1. path \in SUBSET (1 .. Len(doc))
      BY <2>5 DEF n
    <3> QED
      BY ONLY Document(doc, N), <2>10, <3>1, NamesDiffer
  <2> QED
    BY <2>7, <2>9, <2>11 DEF path, F
<1> QED
  BY <1>7, <1>9, <1>10, <1>11 DEF Tagged, tags, optional, principal

LEMMA DirectiveJob ==
  ASSUME NEW j \in DirectiveJobs
  PROVE  Document(j.doc, {"a", "b"})
<1> DEFINE F == [depth : Nat \ {0}, name : {"a", "b"}, tagged : BOOLEAN]
           Sized(n) == {d \in [1 .. n -> [depth : 1 .. 3, name : {"a", "b"}, tagged : BOOLEAN]] :
                          /\ d[1].depth = 1
                          /\ \A i \in 2 .. n : d[i].depth <= d[i - 1].depth + 1}
<1>1. Documents = UNION {Sized(n) : n \in 1 .. MaxFields}
  BY DEF Documents
<1>2. j.doc \in Documents
  BY DEF DirectiveJobs
<1> DEFINE doc == j.doc
<1>3. PICK n \in 1 .. MaxFields : doc \in Sized(n)
  BY <1>1, <1>2
<1>4. /\ n \in Nat /\ DOMAIN doc = 1 .. n /\ doc[1].depth = 1
      /\ \A i \in 2 .. n : doc[i].depth <= doc[i - 1].depth + 1
      /\ doc \in [1 .. n -> [depth : 1 .. 3, name : {"a", "b"}, tagged : BOOLEAN]]
  BY <1>3
<1>5. [depth : 1 .. 3, name : {"a", "b"}, tagged : BOOLEAN] \subseteq F
  OBVIOUS
<1> HIDE DEF doc, F
<1>6. doc \in [1 .. n -> F]
  BY <1>4, <1>5
<1>7. doc \in Seq(F)
  BY <1>4, <1>6, SeqDef
<1>8. Len(doc) = n
  BY <1>4, <1>7, LenProperties
<1> QED
  BY <1>4, <1>7, <1>8 DEF Document, F, doc

\* Of every document the runs visit, the visitors of src/src/directives record the
\* tags as a client reads them.
THEOREM EveryTagIsFound == Spec => []DirectivePaths
<1>1. Computed => DirectivePaths
  <2> SUFFICES ASSUME Computed, Returned("directives") PROVE DirectivePaths
    BY DEF DirectivePaths
  <2>1. job \in DirectiveJobs
    BY KindOfJob DEF Computed, Returned
  <2>2. Tagged(job.doc, GetOptionalFieldsDirectivePaths(job.doc),
               GetPrincipalFieldDirectivePath(job.doc))
    BY <2>1, DirectiveJob, TagsAreFound
  <2>3. /\ result[1].optional = GetOptionalFieldsDirectivePaths(job.doc)
        /\ result[1].principal = GetPrincipalFieldDirectivePath(job.doc)
    BY DEF Computed
  <2> QED
    BY <2>2, <2>3 DEF DirectivePaths
<1> QED
  BY <1>1, ComputedInvariance, PTL

-----------------------------------------------------------------------------
(* The auctions of a bidder.                                               *)

\* The second list holds the elements of the first at the positions I, in
\* their order.
Picks(t, s, I) ==
  /\ DOMAIN t = 1 .. Len(t) /\ Len(t) \in Nat
  /\ \E e : /\ Ascends(e, Len(t), I) /\ Onto(e, Len(t), I)
            /\ \A k \in DOMAIN t : t[k] = s[e[k]]

LEMMA InOrderPicks ==
  ASSUME NEW A, NEW s \in Seq(A), NEW I \in SUBSET (DOMAIN s)
  PROVE  InOrder(s, I) \in Seq(A) /\ Picks(InOrder(s, I), s, I)
<1> DEFINE e == Increasing(I)
           n == Cardinality(I)
           t == InOrder(s, I)
<1>1. Len(s) \in Nat /\ DOMAIN s = 1 .. Len(s) /\ \A i \in DOMAIN s : s[i] \in A
  BY LenProperties, ElementOfSeq
<1>2. I \in SUBSET Nat /\ IsFiniteSet(I) /\ n \in Nat
  <2>1. IsFiniteSet(1 .. Len(s))
    BY <1>1, FS_Interval
  <2>2. IsFiniteSet(I)
    BY <1>1, <2>1, FS_Subset
  <2> QED
    BY <1>1, <2>2, FS_CardinalityType
<1>3. Ascends(e, n, I) /\ Onto(e, n, I)
  BY <1>2, IncreasingAscends
<1>4. t = [k \in 1 .. n |-> s[e[k]]]
  BY DEF InOrder
<1> HIDE DEF t, e, n
<1>5. \A k \in 1 .. n : s[e[k]] \in A
  BY <1>1, <1>3 DEF Ascends
<1>6. t \in [1 .. n -> A]
  BY <1>4, <1>5
<1>7. t \in Seq(A)
  BY <1>2, <1>6, SeqDef
<1>8. Len(t) = n /\ DOMAIN t = 1 .. n
  BY <1>2, <1>6, <1>7, LenProperties
<1>9. Picks(t, s, I)
  BY <1>2, <1>3, <1>4, <1>8 DEF Picks
<1> QED
  BY <1>7, <1>9 DEF t

LEMMA Picked ==
  ASSUME NEW s, NEW I, NEW t, Picks(t, s, I)
  PROVE  /\ \A k \in DOMAIN t : \E i \in I : t[k] = s[i]
         /\ \A i \in I : \E k \in DOMAIN t : t[k] = s[i]
         /\ \A k, l \in DOMAIN t : k < l => \E i, j \in I : i < j /\ t[k] = s[i] /\ t[l] = s[j]
<1>1. PICK e : /\ Ascends(e, Len(t), I) /\ Onto(e, Len(t), I)
               /\ \A k \in DOMAIN t : t[k] = s[e[k]]
  BY DEF Picks
<1>2. DOMAIN t = 1 .. Len(t)
  BY DEF Picks
<1>3. \A k \in DOMAIN t : e[k] \in I
  BY <1>1, <1>2 DEF Ascends
<1>4. \A k, l \in DOMAIN t : k < l => e[k] < e[l]
  BY <1>1, <1>2 DEF Ascends
<1>5. \A i \in I : \E k \in DOMAIN t : e[k] = i
  BY <1>1, <1>2 DEF Onto
<1>6. ASSUME NEW k \in DOMAIN t, NEW l \in DOMAIN t, k < l
      PROVE  \E i, j \in I : i < j /\ t[k] = s[i] /\ t[l] = s[j]
  BY <1>1, <1>3, <1>4, <1>6
<1> QED
  BY <1>1, <1>3, <1>5, <1>6

\* The same elements, each once.
LEMMA UniqKeeps ==
  ASSUME NEW A, NEW s \in Seq(A)
  PROVE  /\ Uniq(s) \in Seq(A)
         /\ \A k, l \in DOMAIN Uniq(s) : Uniq(s)[k] = Uniq(s)[l] => k = l
         /\ \A k \in DOMAIN Uniq(s) : \E i \in DOMAIN s : Uniq(s)[k] = s[i]
         /\ \A i \in DOMAIN s : \E k \in DOMAIN Uniq(s) : Uniq(s)[k] = s[i]
<1> DEFINE I == {i \in DOMAIN s : \A j \in 1 .. i - 1 : s[j] # s[i]}
           t == Uniq(s)
<1>1. Len(s) \in Nat /\ DOMAIN s = 1 .. Len(s)
  BY LenProperties
<1>2. PICK n \in Nat : DOMAIN s = 1 .. n
  BY <1>1
<1>3. I \in SUBSET (DOMAIN s)
  OBVIOUS
<1>4. t = InOrder(s, I)
  BY DEF Uniq
<1> HIDE DEF t
<1>5. \A i, j \in I : i < j => s[i] # s[j]
  <2> SUFFICES ASSUME NEW i \in I, NEW j \in I, i < j PROVE s[i] # s[j]
    OBVIOUS
  <2>1. i \in 1 .. j - 1
    BY <1>2
  <2> QED
    BY <2>1
<1>6. \A i \in DOMAIN s : \E j \in I : s[j] = s[i]
  <2> SUFFICES ASSUME NEW i \in DOMAIN s PROVE \E j \in I : s[j] = s[i]
    OBVIOUS
  <2> DEFINE E == {j \in DOMAIN s : s[j] = s[i]}
  <2>1. E \subseteq Nat /\ i \in E
    BY <1>2
  <2>2. PICK j \in E : \A k \in E : j <= k
    BY <2>1, LeastNumber
  <2>3. ASSUME NEW k \in 1 .. j - 1 PROVE s[k] # s[j]
    <3>1. k \in DOMAIN s /\ k \in Nat /\ j \in Nat /\ ~(j <= k)
      BY <1>2, <2>2
    <3> QED
      BY <2>2, <3>1
  <2> QED
    BY <2>2, <2>3
<1> HIDE DEF I
<1>7. t \in Seq(A) /\ Picks(t, s, I)
  BY <1>3, <1>4, InOrderPicks
<1>8. /\ \A k \in DOMAIN t : \E i \in I : t[k] = s[i]
      /\ \A i \in I : \E k \in DOMAIN t : t[k] = s[i]
      /\ \A k, l \in DOMAIN t : k < l => \E i, j \in I : i < j /\ t[k] = s[i] /\ t[l] = s[j]
  BY ONLY <1>7, Picked
<1>9. ASSUME NEW k \in DOMAIN t, NEW l \in DOMAIN t, t[k] = t[l] PROVE k = l
  <2>1. k \in Nat /\ l \in Nat
    BY <1>7 DEF Picks
  <2>2. ~(k < l)
    BY <1>5, <1>8, <1>9
  <2>3. ~(l < k)
    BY <1>5, <1>8, <1>9
  <2> QED
    BY ONLY <2>1, <2>2, <2>3
<1>10. \A i \in DOMAIN s : \E k \in DOMAIN t : t[k] = s[i]
  BY <1>6, <1>8
<1>11. \A k \in DOMAIN t : \E i \in DOMAIN s : t[k] = s[i]
  BY <1>3, <1>8
<1> QED
  BY <1>7, <1>9, <1>10, <1>11 DEF t

\* The list t holds the elements of s that are in K, in their order.
Keeps(t, s, K) ==
  /\ DOMAIN t = 1 .. Len(t) /\ Len(t) \in Nat
  /\ \A k \in DOMAIN t : t[k] \in K /\ \E i \in DOMAIN s : t[k] = s[i]
  /\ \A i \in DOMAIN s : s[i] \in K => \E k \in DOMAIN t : t[k] = s[i]
  /\ \A k, l \in DOMAIN t :
       k < l => \E i, j \in DOMAIN s : i < j /\ t[k] = s[i] /\ t[l] = s[j]

LEMMA FilterKeeps ==
  ASSUME NEW A, NEW s \in Seq(A), NEW K
  PROVE  LET t == InOrder(s, {i \in DOMAIN s : s[i] \in K}) IN t \in Seq(A) /\ Keeps(t, s, K)
<1> DEFINE I == {i \in DOMAIN s : s[i] \in K}
           t == InOrder(s, I)
<1>1. PICK n \in Nat : DOMAIN s = 1 .. n
  BY LenProperties
<1>2. I \in SUBSET (DOMAIN s) /\ \A i \in I : s[i] \in K
  OBVIOUS
<1>3. \A i \in DOMAIN s : s[i] \in K => i \in I
  OBVIOUS
<1> HIDE DEF t, I
<1>4. t \in Seq(A) /\ Picks(t, s, I)
  BY <1>2, InOrderPicks DEF t
<1>5. /\ \A k \in DOMAIN t : \E i \in I : t[k] = s[i]
      /\ \A i \in I : \E k \in DOMAIN t : t[k] = s[i]
      /\ \A k, l \in DOMAIN t : k < l => \E i, j \in I : i < j /\ t[k] = s[i] /\ t[l] = s[j]
  BY ONLY <1>4, Picked
<1>6. DOMAIN t = 1 .. Len(t) /\ Len(t) \in Nat
  BY <1>4 DEF Picks
<1>7. Keeps(t, s, K)
  BY ONLY <1>2, <1>3, <1>5, <1>6 DEF Keeps
<1> QED
  BY <1>4, <1>7 DEF t, I

\* The positions of a list by a key of each element, equal keys in their order.
Before(D, key) ==
  {p \in D \X D : \/ key[p[1]] < key[p[2]]
                  \/ key[p[1]] = key[p[2]] /\ p[1] < p[2]}

Sorted(s, key) == [i \in DOMAIN s |-> s[Enumeration(DOMAIN s, Before(DOMAIN s, key))[i]]]

\* A rearrangement of s by the key.
Rearranges(t, s, key) ==
  /\ DOMAIN t = DOMAIN s
  /\ \E e : /\ e \in [DOMAIN s -> DOMAIN s]
            /\ \A a, b \in DOMAIN s : e[a] = e[b] => a = b
            /\ \A i \in DOMAIN s : \E a \in DOMAIN s : e[a] = i
            /\ \A a \in DOMAIN s : t[a] = s[e[a]]
            /\ \A a, b \in DOMAIN s : a < b => key[e[a]] <= key[e[b]]

LEMMA SortedRearranges ==
  ASSUME NEW A, NEW s \in Seq(A), NEW key \in [DOMAIN s -> Int]
  PROVE  Sorted(s, key) \in Seq(A) /\ Rearranges(Sorted(s, key), s, key)
<1> DEFINE D == DOMAIN s
           R == Before(D, key)
           e == Enumeration(D, R)
           n == Cardinality(D)
           t == Sorted(s, key)
<1>1. PICK m \in Nat : D = 1 .. m /\ Len(s) = m /\ \A i \in D : s[i] \in A
  BY LenProperties, ElementOfSeq
<1>2. IsFiniteSet(D) /\ n = m
  BY <1>1, FS_Interval
<1>3. \A i \in D : i \in Nat /\ key[i] \in Int
  BY <1>1
<1>4. \A i, j \in D : <<i, j>> \in R <=> key[i] < key[j] \/ (key[i] = key[j] /\ i < j)
  BY DEF Before
<1>5. t = [i \in D |-> s[e[i]]]
  BY DEF Sorted
<1> HIDE DEF R, e, n, t
<1>6. Orders(R, D)
  <2>1. \A i \in D : <<i, i>> \notin R
    BY ONLY <1>3, <1>4
  <2>2. \A i, j \in D : i # j => <<i, j>> \in R \/ <<j, i>> \in R
    BY ONLY <1>3, <1>4, SMTT(30)
  <2>3. ASSUME NEW i \in D, NEW j \in D, NEW k \in D, <<i, j>> \in R, <<j, k>> \in R
        PROVE  <<i, k>> \in R
    <3>1. /\ i \in Nat /\ j \in Nat /\ k \in Nat
          /\ key[i] \in Int /\ key[j] \in Int /\ key[k] \in Int
      BY <1>3
    <3>2. /\ key[i] < key[j] \/ (key[i] = key[j] /\ i < j)
          /\ key[j] < key[k] \/ (key[j] = key[k] /\ j < k)
      BY <1>4, <2>3
    <3>3. key[i] < key[k] \/ (key[i] = key[k] /\ i < k)
      BY ONLY <3>1, <3>2
    <3> QED
      BY <1>4, <3>3
  <2> QED
    BY <2>1, <2>2, <2>3 DEF Orders
<1>7. Sorts(e, n, D, R)
  BY <1>2, <1>6, EnumerationSorts DEF e, n
<1>8. /\ \A a, b \in 1 .. n : e[a] = e[b] => a = b
      /\ \A x \in D : \E k \in 1 .. n : e[k] = x
  BY <1>2, <1>6, <1>7, SortIsOnto DEF n
<1>9. 1 .. n = D /\ e \in [D -> D] /\ \A a, b \in D : a < b => <<e[a], e[b]>> \in R
  BY <1>1, <1>2, <1>7 DEF Sorts
<1>10. \A a, b \in D : a < b => key[e[a]] <= key[e[b]]
  <2> SUFFICES ASSUME NEW a \in D, NEW b \in D, a < b PROVE key[e[a]] <= key[e[b]]
    OBVIOUS
  <2>1. e[a] \in D /\ e[b] \in D /\ <<e[a], e[b]>> \in R
    BY <1>9
  <2>2. key[e[a]] < key[e[b]] \/ key[e[a]] = key[e[b]]
    BY <1>4, <2>1
  <2>3. key[e[a]] \in Int /\ key[e[b]] \in Int
    BY <1>3, <2>1
  <2> QED
    BY ONLY <2>2, <2>3
<1>11. Rearranges(t, s, key)
  BY <1>5, <1>8, <1>9, <1>10 DEF Rearranges
<1>12. t \in [1 .. m -> A]
  BY <1>1, <1>5, <1>9
<1> QED
  BY <1>1, <1>11, <1>12, SeqDef DEF t

-----------------------------------------------------------------------------
\* What MyBids is called with: lots of L, sales of S, no lot watched twice.
BidInput(in, L, S) ==
  /\ in.standings \in Seq(L) /\ in.registered \in Seq(S) /\ in.watched \in Seq(L)
  /\ \A i, j \in DOMAIN in.watched : in.watched[i] = in.watched[j] => i = j
  /\ in.saleOf \in [L -> S] /\ in.firstSale \in [L -> S]
  /\ in.endAt \in [S -> Int] /\ in.position \in [L -> Int]

\* The list holds each element of X once.
Lists(t, X, A) ==
  /\ t \in Seq(A)
  /\ \A k, l \in DOMAIN t : t[k] = t[l] => k = l
  /\ \A k \in DOMAIN t : t[k] \in X
  /\ \A x \in X : \E k \in DOMAIN t : t[k] = x

BidsIn(in, sale) == {lot \in ToSet(in.standings) \cap in.listed : in.saleOf[lot] = sale}

WatchedIn(in, sale) ==
  {lot \in ToSet(in.watched) : in.saleOf[lot] = sale /\ lot \notin BidsIn(in, sale)}

LEMMA UniqLists ==
  ASSUME NEW A, NEW s \in Seq(A)
  PROVE  Lists(Uniq(s), ToSet(s), A)
BY UniqKeeps DEF Lists, ToSet

LEMMA FilterLists ==
  ASSUME NEW A, NEW s, NEW X, Lists(s, X, A), NEW K
  PROVE  Lists(InOrder(s, {i \in DOMAIN s : s[i] \in K}), X \cap K, A)
<1> DEFINE t == InOrder(s, {i \in DOMAIN s : s[i] \in K})
<1>1. t \in Seq(A) /\ Keeps(t, s, K)
  BY FilterKeeps DEF Lists
<1> HIDE DEF t
<1>2. ASSUME NEW k \in DOMAIN t, NEW l \in DOMAIN t, t[k] = t[l] PROVE k = l
  <2>1. k \in Nat /\ l \in Nat
    BY <1>1 DEF Keeps
  <2>2. \A i, j \in DOMAIN s : s[i] = s[j] => i = j
    BY DEF Lists
  <2>3. \A i \in DOMAIN s : i \in Nat
    BY LenProperties DEF Lists
  <2>4. \A a, b \in DOMAIN t : a < b => t[a] # t[b]
    <3> SUFFICES ASSUME NEW a \in DOMAIN t, NEW b \in DOMAIN t, a < b PROVE t[a] # t[b]
      OBVIOUS
    <3>1. PICK i \in DOMAIN s, j \in DOMAIN s : i < j /\ t[a] = s[i] /\ t[b] = s[j]
      BY <1>1 DEF Keeps
    <3> QED
      BY <2>2, <2>3, <3>1
  <2> QED
    BY <1>2, <2>1, <2>4
<1>3. \A k \in DOMAIN t : t[k] \in X \cap K
  BY <1>1 DEF Keeps, Lists
<1>4. \A x \in X \cap K : \E k \in DOMAIN t : t[k] = x
  BY <1>1 DEF Keeps, Lists
<1> QED
  BY <1>1, <1>2, <1>3, <1>4 DEF Lists, t

LEMMA ListsContains ==
  ASSUME NEW A, NEW s \in Seq(A), NEW x
  PROVE  Contains(s, x) <=> x \in ToSet(s)
<1>1. DOMAIN s = 1 .. Len(s)
  BY LenProperties
<1> QED
  BY <1>1 DEF Contains, ToSet

\* The lots a bidder has bid upon in a sale, as gravity returns them.
LEMMA BidUponLists ==
  ASSUME NEW in, NEW L, NEW S, BidInput(in, L, S), NEW sale
  PROVE  Lists(BidUpon(in, sale), BidsIn(in, sale), L)
<1> DEFINE s == in.standings
           K == {lot \in L : in.saleOf[lot] = sale}
           t == InOrder(s, {i \in DOMAIN s : s[i] \in K})
           u == Uniq(t)
<1>1. s \in Seq(L) /\ \A i \in DOMAIN s : s[i] \in L
  BY ElementOfSeq, LenProperties DEF BidInput
<1>2. {i \in DOMAIN s : in.saleOf[s[i]] = sale} = {i \in DOMAIN s : s[i] \in K}
  BY <1>1
<1>3. StandingsIn(in, sale) = t
  BY <1>2 DEF StandingsIn, Filter
<1>4. t \in Seq(L) /\ Keeps(t, s, K)
  BY <1>1, FilterKeeps
<1>5. ToSet(t) = {lot \in ToSet(s) : in.saleOf[lot] = sale}
  <2>1. \A lot : lot \in ToSet(s) <=> \E i \in DOMAIN s : s[i] = lot
    BY DEF ToSet
  <2>2. \A lot : lot \in ToSet(t) <=> \E i \in DOMAIN t : t[i] = lot
    BY DEF ToSet
  <2> HIDE DEF s, t
  <2> QED
    BY <1>1, <1>4, <2>1, <2>2 DEF Keeps
<1> HIDE DEF t
<1>6. Lists(u, ToSet(t), L)
  BY <1>4, UniqLists
<1>7. BidUpon(in, sale) = InOrder(u, {i \in DOMAIN u : u[i] \in in.listed})
  BY <1>3 DEF BidUpon, Filter
<1> HIDE DEF u
<1>8. Lists(BidUpon(in, sale), ToSet(t) \cap in.listed, L)
  <2>1. Lists(InOrder(u, {i \in DOMAIN u : u[i] \in in.listed}), ToSet(t) \cap in.listed, L)
    BY ONLY <1>6, FilterLists
  <2> QED
    BY <1>7, <2>1
<1>9. ToSet(t) \cap in.listed = BidsIn(in, sale)
  BY <1>5 DEF BidsIn
<1> QED
  BY <1>8, <1>9

LEMMA WatchedLists ==
  ASSUME NEW in, NEW L, NEW S, BidInput(in, L, S), NEW sale
  PROVE  Lists(WatchedOnly(in, sale), WatchedIn(in, sale), L)
<1> DEFINE s == in.watched
           K == {lot \in L : in.saleOf[lot] = sale /\ lot \notin BidsIn(in, sale)}
           t == InOrder(s, {i \in DOMAIN s : s[i] \in K})
<1>1. s \in Seq(L) /\ \A i \in DOMAIN s : s[i] \in L
  BY ElementOfSeq, LenProperties DEF BidInput
<1>2. ASSUME NEW lot PROVE Contains(BidUpon(in, sale), lot) <=> lot \in BidsIn(in, sale)
  <2>1. Lists(BidUpon(in, sale), BidsIn(in, sale), L)
    BY BidUponLists
  <2>2. Contains(BidUpon(in, sale), lot) <=> lot \in ToSet(BidUpon(in, sale))
    BY <2>1, ListsContains DEF Lists
  <2> QED
    BY <2>1, <2>2 DEF Lists, ToSet
<1>3. {i \in DOMAIN s : in.saleOf[s[i]] = sale /\ ~Contains(BidUpon(in, sale), s[i])}
      = {i \in DOMAIN s : s[i] \in K}
  BY <1>1, <1>2
<1>4. WatchedOnly(in, sale) = t
  BY <1>3 DEF WatchedOnly, Filter
<1>5. Lists(s, ToSet(s), L)
  BY <1>1 DEF Lists, ToSet, BidInput
<1>6. Lists(t, ToSet(s) \cap K, L)
  BY <1>5, FilterLists
<1>7. ToSet(s) \cap K = WatchedIn(in, sale)
  <2>1. ToSet(s) \subseteq L
    BY <1>1 DEF ToSet
  <2> QED
    BY <2>1 DEF WatchedIn
<1> QED
  BY <1>4, <1>6, <1>7

Entry(L) == [lot : L, isWatching : BOOLEAN, lotState : BOOLEAN]

\* A list of a sale shows each lot of W as watched and each of B as bid upon, and
\* no other.
Shows(list, in, L, W, B) ==
  /\ list \in Seq(Entry(L))
  /\ \A i, j \in DOMAIN list : list[i].lot = list[j].lot => i = j
  /\ \A i \in DOMAIN list :
       /\ list[i].lot \in W \cup B
       /\ list[i].isWatching = (list[i].lot \in W)
       /\ list[i].lotState = (list[i].lot \in ToSet(in.standings))
  /\ \A x \in W \cup B : \E i \in DOMAIN list : list[i].lot = x

LEMMA LoadedShows ==
  ASSUME NEW in, NEW L, NEW S, BidInput(in, L, S), NEW sale
  PROVE  Shows(FullyLoaded(in, sale).lots, in, L, WatchedIn(in, sale), BidsIn(in, sale))
<1> DEFINE w == WatchedOnly(in, sale)
           b == BidUpon(in, sale)
           W == WatchedIn(in, sale)
           B == BidsIn(in, sale)
           St == ToSet(in.standings)
           ws == [i \in DOMAIN w |-> SaleArtwork(in, w[i], TRUE)]
           bs == [i \in DOMAIN b |-> SaleArtwork(in, b[i], FALSE)]
           list == FullyLoaded(in, sale).lots
<1>1. list = ws \o bs
  BY DEF FullyLoaded, Map
<1>2. Lists(w, W, L) /\ Lists(b, B, L)
  BY WatchedLists, BidUponLists
<1>3. \A x : x \in W => x \notin B
  BY DEF WatchedIn
<1>4. ASSUME NEW lot \in L, NEW isWatching \in BOOLEAN
      PROVE  LET a == SaleArtwork(in, lot, isWatching)
             IN  /\ a \in Entry(L) /\ a.lot = lot /\ a.isWatching = isWatching
                 /\ a.lotState = (lot \in St)
  <2>1. Contains(in.standings, lot) = (lot \in St)
    <3>1. Contains(in.standings, lot) <=> lot \in St
      BY ListsContains DEF BidInput
    <3>2. Contains(in.standings, lot) \in BOOLEAN
      BY DEF Contains
    <3> QED
      BY <3>1, <3>2
  <2>2. SaleArtwork(in, lot, isWatching)
        = [lot |-> lot, isWatching |-> isWatching, lotState |-> (lot \in St)]
    BY <2>1 DEF SaleArtwork
  <2>3. (lot \in St) \in BOOLEAN
    OBVIOUS
  <2> QED
    BY <2>2, <2>3 DEF Entry
<1> HIDE DEF w, b, W, B, St, list
<1>5. PICK m \in Nat : DOMAIN w = 1 .. m /\ Len(w) = m /\ \A i \in 1 .. m : w[i] \in L
  BY <1>2, LenProperties, ElementOfSeq DEF Lists
<1>6. PICK n \in Nat : DOMAIN b = 1 .. n /\ Len(b) = n /\ \A i \in 1 .. n : b[i] \in L
  BY <1>2, LenProperties, ElementOfSeq DEF Lists
<1>7. \A i \in 1 .. m : /\ ws[i] \in Entry(L) /\ ws[i].lot = w[i] /\ ws[i].isWatching = TRUE
                        /\ ws[i].lotState = (w[i] \in St)
  BY <1>4, <1>5
<1>8. \A i \in 1 .. n : /\ bs[i] \in Entry(L) /\ bs[i].lot = b[i] /\ bs[i].isWatching = FALSE
                        /\ bs[i].lotState = (b[i] \in St)
  BY <1>4, <1>6
<1>9. DOMAIN ws = 1 .. m /\ DOMAIN bs = 1 .. n
  BY <1>5, <1>6
<1> HIDE DEF ws, bs
<1>10. ws \in Seq(Entry(L)) /\ bs \in Seq(Entry(L)) /\ Len(ws) = m /\ Len(bs) = n
  <2>1. ws \in [1 .. m -> Entry(L)] /\ bs \in [1 .. n -> Entry(L)]
    <3>1. ws = [i \in DOMAIN w |-> ws[i]] /\ bs = [i \in DOMAIN b |-> bs[i]]
      BY DEF ws, bs
    <3> QED
      BY <1>5, <1>6, <1>7, <1>8, <3>1
  <2>2. ws \in Seq(Entry(L)) /\ bs \in Seq(Entry(L))
    BY <2>1, SeqDef
  <2> QED
    BY <1>9, <2>2, LenProperties
<1>11. /\ list \in Seq(Entry(L)) /\ Len(list) = m + n
       /\ \A i \in 1 .. m + n : list[i] = IF i <= m THEN ws[i] ELSE bs[i - m]
  BY <1>1, <1>10, ConcatProperties
<1>12. DOMAIN list = 1 .. m + n
  BY <1>11, LenProperties
<1>13. ASSUME NEW i \in DOMAIN list
       PROVE  \/ i \in 1 .. m /\ list[i] = ws[i]
              \/ ~(i <= m) /\ i - m \in 1 .. n /\ list[i] = bs[i - m]
  <2>1. i \in 1 .. m + n /\ list[i] = IF i <= m THEN ws[i] ELSE bs[i - m]
    BY <1>11, <1>12
  <2>2. i \in 1 .. m + n => IF i <= m THEN i \in 1 .. m ELSE i - m \in 1 .. n
    BY ONLY m \in Nat, n \in Nat
  <2> QED
    BY ONLY <2>1, <2>2
<1>14. \A i \in 1 .. m : w[i] \in W /\ w[i] \notin B
  BY <1>2, <1>3, <1>5 DEF Lists
<1>15. \A i \in 1 .. n : b[i] \in B /\ b[i] \notin W
  BY <1>2, <1>3, <1>6 DEF Lists
<1>16. ASSUME NEW i \in DOMAIN list
       PROVE  /\ list[i].lot \in W \cup B
              /\ list[i].isWatching = (list[i].lot \in W)
              /\ list[i].lotState = (list[i].lot \in St)
  <2>1. CASE i \in 1 .. m /\ list[i] = ws[i]
    <3>1. /\ list[i].lot = w[i] /\ list[i].isWatching = TRUE
          /\ list[i].lotState = (w[i] \in St)
      BY <1>7, <2>1
    <3>2. w[i] \in W /\ (w[i] \in W) = TRUE
      BY <1>14, <2>1
    <3> QED
      BY ONLY <3>1, <3>2
  <2>2. CASE i - m \in 1 .. n /\ list[i] = bs[i - m]
    <3>1. /\ list[i].lot = b[i - m] /\ list[i].isWatching = FALSE
          /\ list[i].lotState = (b[i - m] \in St)
      BY <1>8, <2>2
    <3>2. b[i - m] \in B /\ (b[i - m] \in W) = FALSE
      BY <1>15, <2>2
    <3> QED
      BY ONLY <3>1, <3>2
  <2> QED
    BY <1>13, <2>1, <2>2
<1>17. ASSUME NEW i \in DOMAIN list, NEW j \in DOMAIN list, list[i].lot = list[j].lot
       PROVE  i = j
  <2>1. i \in Nat /\ j \in Nat
    BY <1>12
  <2>2. CASE i \in 1 .. m /\ j \in 1 .. m /\ list[i] = ws[i] /\ list[j] = ws[j]
    <3>1. w[i] = w[j]
      BY <1>7, <1>17, <2>2
    <3> QED
      BY <1>2, <1>5, <2>2, <3>1 DEF Lists
  <2>3. CASE /\ i - m \in 1 .. n /\ list[i] = bs[i - m]
             /\ j - m \in 1 .. n /\ list[j] = bs[j - m]
    <3>1. b[i - m] = b[j - m]
      BY <1>8, <1>17, <2>3
    <3>2. i - m = j - m
      BY <1>2, <1>6, <2>3, <3>1 DEF Lists
    <3> QED
      BY ONLY <2>1, <3>2, m \in Nat
  <2>4. CASE i \in 1 .. m /\ list[i] = ws[i] /\ j - m \in 1 .. n /\ list[j] = bs[j - m]
    BY <1>7, <1>8, <1>14, <1>15, <1>17, <2>4
  <2>5. CASE j \in 1 .. m /\ list[j] = ws[j] /\ i - m \in 1 .. n /\ list[i] = bs[i - m]
    BY <1>7, <1>8, <1>14, <1>15, <1>17, <2>5
  <2> QED
    BY <1>13, <2>2, <2>3, <2>4, <2>5
<1>18. ASSUME NEW x \in W \cup B PROVE \E i \in DOMAIN list : list[i].lot = x
  <2>1. CASE x \in W
    <3>1. PICK i \in 1 .. m : w[i] = x
      BY <1>2, <1>5, <2>1 DEF Lists
    <3>2. i \in DOMAIN list /\ list[i] = ws[i]
      BY <1>11, <1>12
    <3> QED
      BY <1>7, <3>1, <3>2
  <2>2. CASE x \in B
    <3>1. PICK i \in 1 .. n : b[i] = x
      BY <1>2, <1>6, <2>2 DEF Lists
    <3>2. i + m \in 1 .. m + n /\ ~(i + m <= m) /\ (i + m) - m = i
      OBVIOUS
    <3>3. i + m \in DOMAIN list /\ list[i + m] = bs[i]
      BY <1>11, <1>12, <3>2
    <3> QED
      BY <1>8, <3>1, <3>3
  <2> QED
    BY <2>1, <2>2
<1> QED
  BY <1>11, <1>16, <1>17, <1>18 DEF Shows, list, W, B, St

ByPosition(in, list) == Sorted(list, [i \in DOMAIN list |-> in.position[list[i].lot]])

ByEnd(in, sales) == Sorted(sales, [i \in DOMAIN sales |-> in.endAt[sales[i].sale]])

LEMMA SortIsSorted ==
  ASSUME NEW in
  PROVE  /\ \A list : SortBy(list, LAMBDA a : in.position[a.lot]) = ByPosition(in, list)
         /\ \A sales : SortBy(sales, LAMBDA s : in.endAt[s.sale]) = ByEnd(in, sales)
<1>1. ASSUME NEW list
      PROVE  SortBy(list, LAMBDA a : in.position[a.lot]) = ByPosition(in, list)
  <2> DEFINE key == [i \in DOMAIN list |-> in.position[list[i].lot]]
             before == {p \in (DOMAIN list) \X (DOMAIN list) :
                          \/ in.position[list[p[1]].lot] < in.position[list[p[2]].lot]
                          \/ in.position[list[p[1]].lot] = in.position[list[p[2]].lot] /\ p[1] < p[2]}
  <2>1. before = Before(DOMAIN list, key)
    BY DEF Before
  <2>2. SortBy(list, LAMBDA a : in.position[a.lot])
        = [i \in DOMAIN list |-> list[Enumeration(DOMAIN list, before)[i]]]
    BY DEF SortBy
  <2> HIDE DEF before
  <2> QED
    BY <2>1, <2>2 DEF Sorted, ByPosition
<1>2. ASSUME NEW sales
      PROVE  SortBy(sales, LAMBDA s : in.endAt[s.sale]) = ByEnd(in, sales)
  <2> DEFINE key == [i \in DOMAIN sales |-> in.endAt[sales[i].sale]]
             before == {p \in (DOMAIN sales) \X (DOMAIN sales) :
                          \/ in.endAt[sales[p[1]].sale] < in.endAt[sales[p[2]].sale]
                          \/ in.endAt[sales[p[1]].sale] = in.endAt[sales[p[2]].sale] /\ p[1] < p[2]}
  <2>1. before = Before(DOMAIN sales, key)
    BY DEF Before
  <2>2. SortBy(sales, LAMBDA s : in.endAt[s.sale])
        = [i \in DOMAIN sales |-> sales[Enumeration(DOMAIN sales, before)[i]]]
    BY DEF SortBy
  <2> HIDE DEF before
  <2> QED
    BY <2>1, <2>2 DEF Sorted, ByEnd
<1> QED
  BY <1>1, <1>2

LEMMA SortShows ==
  ASSUME NEW in, NEW L, NEW S, BidInput(in, L, S), NEW W, NEW B,
         NEW list, Shows(list, in, L, W, B)
  PROVE  Shows(ByPosition(in, list), in, L, W, B)
<1> DEFINE key == [i \in DOMAIN list |-> in.position[list[i].lot]]
           t == Sorted(list, key)
<1>1. list \in Seq(Entry(L))
  BY DEF Shows
<1>2. key \in [DOMAIN list -> Int]
  <2>1. \A i \in DOMAIN list : list[i] \in Entry(L)
    BY <1>1, ElementOfSeq, LenProperties
  <2>2. \A i \in DOMAIN list : list[i].lot \in L
    BY <2>1 DEF Entry
  <2> QED
    BY <2>2 DEF BidInput
<1> HIDE DEF key
<1>3. t \in Seq(Entry(L)) /\ Rearranges(t, list, key)
  BY <1>1, <1>2, SortedRearranges
<1> HIDE DEF t
<1>4. PICK e : /\ e \in [DOMAIN list -> DOMAIN list]
               /\ \A a, b \in DOMAIN list : e[a] = e[b] => a = b
               /\ \A i \in DOMAIN list : \E a \in DOMAIN list : e[a] = i
               /\ \A a \in DOMAIN list : t[a] = list[e[a]]
  BY <1>3 DEF Rearranges
<1>5. DOMAIN t = DOMAIN list
  BY <1>3 DEF Rearranges
<1>6. ASSUME NEW i \in DOMAIN t, NEW j \in DOMAIN t, t[i].lot = t[j].lot PROVE i = j
  <2>1. e[i] \in DOMAIN list /\ e[j] \in DOMAIN list /\ list[e[i]].lot = list[e[j]].lot
    BY <1>4, <1>5, <1>6
  <2>2. e[i] = e[j]
    BY <2>1 DEF Shows
  <2> QED
    BY <1>4, <1>5, <2>2
<1>7. \A i \in DOMAIN t : /\ t[i].lot \in W \cup B
                          /\ t[i].isWatching = (t[i].lot \in W)
                          /\ t[i].lotState = (t[i].lot \in ToSet(in.standings))
  <2> SUFFICES ASSUME NEW i \in DOMAIN t
               PROVE  /\ t[i].lot \in W \cup B
                      /\ t[i].isWatching = (t[i].lot \in W)
                      /\ t[i].lotState = (t[i].lot \in ToSet(in.standings))
    OBVIOUS
  <2>1. PICK k \in DOMAIN list : t[i] = list[k]
    BY <1>4, <1>5
  <2>2. /\ list[k].lot \in W \cup B
        /\ list[k].isWatching = (list[k].lot \in W)
        /\ list[k].lotState = (list[k].lot \in ToSet(in.standings))
    BY DEF Shows
  <2> QED
    BY ONLY <2>1, <2>2
<1>8. \A x \in W \cup B : \E i \in DOMAIN t : t[i].lot = x
  BY <1>4, <1>5 DEF Shows
<1> QED
  BY <1>3, <1>6, <1>7, <1>8 DEF Shows, ByPosition, t, key

\* A closed sale keeps the lots with a standing.
LEMMA PruneShows ==
  ASSUME NEW in, NEW L, NEW W, NEW B, B \subseteq ToSet(in.standings),
         NEW list, Shows(list, in, L, W, B)
  PROVE  Shows(InOrder(list, {i \in DOMAIN list : list[i].lotState}), in, L,
               W \cap ToSet(in.standings), B)
<1> DEFINE St == ToSet(in.standings)
           K == {a \in Entry(L) : a.lot \in St}
           t == InOrder(list, {i \in DOMAIN list : list[i] \in K})
<1>1. list \in Seq(Entry(L)) /\ \A i \in DOMAIN list : list[i] \in Entry(L)
  BY ElementOfSeq, LenProperties DEF Shows
<1>2. {i \in DOMAIN list : list[i].lotState} = {i \in DOMAIN list : list[i] \in K}
  BY <1>1 DEF Shows
<1> HIDE DEF St
<1>3. t \in Seq(Entry(L)) /\ Keeps(t, list, K)
  BY <1>1, FilterKeeps
<1>4. \A x \in Entry(L) : x \in K <=> x.lot \in St
  OBVIOUS
<1> HIDE DEF t, K
<1>5. ASSUME NEW i \in DOMAIN t
      PROVE  /\ t[i].lot \in (W \cap St) \cup B
             /\ t[i].isWatching = (t[i].lot \in W \cap St)
             /\ t[i].lotState = (t[i].lot \in St)
  <2>1. PICK k \in DOMAIN list : t[i] = list[k]
    BY <1>3 DEF Keeps
  <2>2. t[i] \in K /\ t[i].lot \in St
    BY <1>1, <1>3, <1>4, <2>1 DEF Keeps
  <2>3. /\ list[k].lot \in W \cup B
        /\ list[k].isWatching = (list[k].lot \in W)
        /\ list[k].lotState = (list[k].lot \in St)
    BY DEF Shows, St
  <2> QED
    BY <2>1, <2>2, <2>3
<1>6. ASSUME NEW i \in DOMAIN t, NEW j \in DOMAIN t, t[i].lot = t[j].lot PROVE i = j
  <2>1. \A a, b \in DOMAIN t : a < b => t[a].lot # t[b].lot
    <3> SUFFICES ASSUME NEW a \in DOMAIN t, NEW b \in DOMAIN t, a < b
                 PROVE  t[a].lot # t[b].lot
      OBVIOUS
    <3>1. PICK k \in DOMAIN list, l \in DOMAIN list : k < l /\ t[a] = list[k] /\ t[b] = list[l]
      BY <1>3 DEF Keeps
    <3>2. \A c \in DOMAIN list : c \in Nat
      BY <1>1, LenProperties
    <3> QED
      BY <3>1, <3>2 DEF Shows
  <2>2. i \in Nat /\ j \in Nat
    BY <1>3 DEF Keeps
  <2> QED
    BY <1>6, <2>1, <2>2
<1>7. ASSUME NEW x \in (W \cap St) \cup B PROVE \E i \in DOMAIN t : t[i].lot = x
  <2>1. x \in St /\ x \in W \cup B
    BY DEF St
  <2>2. PICK k \in DOMAIN list : list[k].lot = x
    BY <2>1 DEF Shows
  <2>3. list[k] \in K
    BY <1>1, <1>4, <2>1, <2>2
  <2> QED
    BY <1>3, <2>2, <2>3 DEF Keeps
<1>8. Shows(t, in, L, W \cap St, B)
  BY <1>3, <1>5, <1>6, <1>7 DEF Shows, St
<1> QED
  BY <1>2, <1>8 DEF t, St

LEMMA MapSeq ==
  ASSUME NEW A, NEW B, NEW s \in Seq(A), NEW g \in [DOMAIN s -> B]
  PROVE  g \in Seq(B) /\ Len(g) = Len(s) /\ DOMAIN g = DOMAIN s
<1>1. PICK n \in Nat : Len(s) = n /\ DOMAIN s = 1 .. n
  BY LenProperties
<1>2. g \in [1 .. n -> B]
  BY <1>1
<1>3. g \in Seq(B)
  BY <1>2, SeqDef
<1> QED
  BY <1>1, <1>2, <1>3, LenProperties

LEMMA ConcatSet ==
  ASSUME NEW A, NEW s \in Seq(A), NEW t \in Seq(A)
  PROVE  s \o t \in Seq(A) /\ ToSet(s \o t) = ToSet(s) \cup ToSet(t)
<1> DEFINE u == s \o t
<1>1. PICK m \in Nat : Len(s) = m /\ DOMAIN s = 1 .. m
  BY LenProperties
<1>2. PICK n \in Nat : Len(t) = n /\ DOMAIN t = 1 .. n
  BY LenProperties
<1>3. /\ u \in Seq(A) /\ Len(u) = m + n
      /\ \A i \in 1 .. m + n : u[i] = IF i <= m THEN s[i] ELSE t[i - m]
  BY <1>1, <1>2, ConcatProperties
<1>4. DOMAIN u = 1 .. m + n
  BY <1>3, LenProperties
<1> HIDE DEF u
<1>5. \A i \in DOMAIN u : i <= m => i \in DOMAIN s /\ u[i] = s[i]
  BY <1>1, <1>3, <1>4
<1>6. \A i \in DOMAIN u : ~(i <= m) => i - m \in DOMAIN t /\ u[i] = t[i - m]
  BY <1>2, <1>3, <1>4
<1>7. \A i \in DOMAIN s : i \in DOMAIN u /\ u[i] = s[i]
  BY <1>1, <1>3, <1>4
<1>8. ASSUME NEW i \in DOMAIN t PROVE i + m \in DOMAIN u /\ u[i + m] = t[i]
  <2>1. i + m \in 1 .. m + n /\ ~(i + m <= m) /\ (i + m) - m = i
    BY <1>2
  <2> QED
    BY <1>3, <1>4, <2>1
<1>9. ASSUME NEW x PROVE x \in ToSet(u) <=> x \in ToSet(s) \/ x \in ToSet(t)
  <2>1. ASSUME x \in ToSet(u) PROVE x \in ToSet(s) \/ x \in ToSet(t)
    BY <1>5, <1>6, <2>1 DEF ToSet
  <2>2. ASSUME x \in ToSet(s) PROVE x \in ToSet(u)
    BY <1>7, <2>2 DEF ToSet
  <2>3. ASSUME x \in ToSet(t) PROVE x \in ToSet(u)
    BY <1>8, <2>3 DEF ToSet
  <2> QED
    BY <2>1, <2>2, <2>3
<1> QED
  BY <1>3, <1>9 DEF u

\* Every sale that the standings, the registrations or the watched lots name, once.
LEMMA CombinedSalesList ==
  ASSUME NEW in, NEW L, NEW S, BidInput(in, L, S)
  PROVE  /\ Lists(CombinedSales(in), Named(in), S)
         /\ {r.sale : r \in ToSet(CombinedSaleIds(in))} = Named(in)
<1> DEFINE Ref == [name : {"id", "slug"}, sale : S]
           a == [i \in DOMAIN in.standings |-> ById(in.saleOf[in.standings[i]])]
           b == [i \in DOMAIN in.registered |-> ById(in.registered[i])]
           c == [i \in DOMAIN in.watched |-> BySlug(in.firstSale[in.watched[i]])]
           ids == CombinedSaleIds(in)
           sales == [i \in DOMAIN ids |-> ids[i].sale]
<1>1. /\ \A i \in DOMAIN in.standings : in.standings[i] \in L
      /\ \A i \in DOMAIN in.registered : in.registered[i] \in S
      /\ \A i \in DOMAIN in.watched : in.watched[i] \in L
  BY ElementOfSeq, LenProperties DEF BidInput
<1>2. /\ \A x \in S : ById(x) \in Ref /\ BySlug(x) \in Ref /\ ById(x).sale = x /\ BySlug(x).sale = x
      /\ \A x \in L : in.saleOf[x] \in S /\ in.firstSale[x] \in S
  BY DEF ById, BySlug, BidInput
<1>3. ids = Uniq(a \o b \o c)
  BY DEF CombinedSaleIds, Map
<1>4. CombinedSales(in) = Uniq(sales)
  BY DEF CombinedSales, Map
<1>5. /\ in.standings \in Seq(L) /\ in.registered \in Seq(S) /\ in.watched \in Seq(L)
  BY DEF BidInput
<1>6. /\ a \in [DOMAIN in.standings -> Ref] /\ b \in [DOMAIN in.registered -> Ref]
      /\ c \in [DOMAIN in.watched -> Ref]
  <2>1. \A i \in DOMAIN in.standings : ById(in.saleOf[in.standings[i]]) \in Ref
    BY ONLY <1>1, <1>2
  <2>2. \A i \in DOMAIN in.registered : ById(in.registered[i]) \in Ref
    BY ONLY <1>1, <1>2
  <2>3. \A i \in DOMAIN in.watched : BySlug(in.firstSale[in.watched[i]]) \in Ref
    BY ONLY <1>1, <1>2
  <2> QED
    BY <2>1, <2>2, <2>3
<1>7. /\ \A i \in DOMAIN a : a[i].sale = in.saleOf[in.standings[i]]
      /\ \A i \in DOMAIN b : b[i].sale = in.registered[i]
      /\ \A i \in DOMAIN c : c[i].sale = in.firstSale[in.watched[i]]
  BY <1>1, <1>2
<1>8. /\ DOMAIN a = DOMAIN in.standings /\ DOMAIN b = DOMAIN in.registered
      /\ DOMAIN c = DOMAIN in.watched
  OBVIOUS
<1> HIDE DEF a, b, c, ids, Ref
<1>9. a \in Seq(Ref) /\ b \in Seq(Ref) /\ c \in Seq(Ref)
  BY <1>5, <1>6, MapSeq
<1>10. a \o b \in Seq(Ref) /\ ToSet(a \o b) = ToSet(a) \cup ToSet(b)
  BY <1>9, ConcatSet
<1>11. (a \o b) \o c \in Seq(Ref) /\ ToSet((a \o b) \o c) = ToSet(a) \cup ToSet(b) \cup ToSet(c)
  <2>1. /\ (a \o b) \o c \in Seq(Ref)
        /\ ToSet((a \o b) \o c) = ToSet(a \o b) \cup ToSet(c)
    <3> DEFINE ab == a \o b
    <3>1. ab \in Seq(Ref)
      BY <1>10
    <3> HIDE DEF ab
    <3>2. ab \o c \in Seq(Ref) /\ ToSet(ab \o c) = ToSet(ab) \cup ToSet(c)
      BY ONLY <1>9, <3>1, ConcatSet
    <3> QED
      BY <3>2 DEF ab
  <2> QED
    BY <1>10, <2>1
<1>12. Lists(ids, ToSet(a) \cup ToSet(b) \cup ToSet(c), Ref)
  BY <1>3, <1>11, UniqLists
<1>13. \A i \in DOMAIN ids : ids[i].sale \in S
  <2>1. \A i \in DOMAIN ids : ids[i] \in Ref
    BY <1>12, ElementOfSeq, LenProperties DEF Lists
  <2> QED
    BY <2>1 DEF Ref
<1>14. sales \in Seq(S)
  <2>1. sales \in [DOMAIN ids -> S]
    BY <1>13
  <2> QED
    BY <1>12, <2>1, MapSeq DEF Lists
<1>15. ToSet(sales) = {r.sale : r \in ToSet(a) \cup ToSet(b) \cup ToSet(c)}
  <2> DEFINE X == ToSet(a) \cup ToSet(b) \cup ToSet(c)
  <2>1. \A s : s \in ToSet(sales) <=> \E i \in DOMAIN ids : s = ids[i].sale
    BY DEF ToSet
  <2>2. \A i \in DOMAIN ids : ids[i] \in X
    BY <1>12 DEF Lists
  <2>3. \A r \in X : \E i \in DOMAIN ids : ids[i] = r
    BY <1>12 DEF Lists
  <2> HIDE DEF X, sales
  <2>4. ToSet(sales) = {r.sale : r \in X}
    BY <2>1, <2>2, <2>3
  <2> QED
    BY <2>4 DEF X
<1>16. {r.sale : r \in ToSet(a)} = {in.saleOf[l] : l \in ToSet(in.standings)}
  BY <1>7, <1>8 DEF ToSet
<1>17. {r.sale : r \in ToSet(b)} = ToSet(in.registered)
  BY <1>7, <1>8 DEF ToSet
<1>18. {r.sale : r \in ToSet(c)} = {in.firstSale[l] : l \in ToSet(in.watched)}
  BY <1>7, <1>8 DEF ToSet
<1>19. ToSet(sales) = Named(in)
  BY <1>15, <1>16, <1>17, <1>18 DEF Named
<1>20. {r.sale : r \in ToSet(ids)} = ToSet(sales)
  <2>1. \A s : s \in ToSet(sales) <=> \E i \in DOMAIN ids : s = ids[i].sale
    BY DEF ToSet
  <2>2. \A r : r \in ToSet(ids) <=> \E i \in DOMAIN ids : r = ids[i]
    BY DEF ToSet
  <2> HIDE DEF sales
  <2> QED
    BY <2>1, <2>2
<1> HIDE DEF sales
<1>21. Lists(CombinedSales(in), Named(in), S)
  BY <1>4, <1>14, <1>19, UniqLists
<1> QED
  BY <1>19, <1>20, <1>21 DEF ids

-----------------------------------------------------------------------------
\* The sales of T, each once and with its lots: watched are W's, bid upon those
\* of the standings.
SaleEntry(L, S) == [sale : S, lots : Seq(Entry(L))]

Holds(list, in, L, S, T, W) ==
  /\ list \in Seq(SaleEntry(L, S))
  /\ \A i, j \in DOMAIN list : list[i].sale = list[j].sale => i = j
  /\ \A i \in DOMAIN list :
       /\ list[i].sale \in T
       /\ Shows(list[i].lots, in, L, W[list[i].sale], BidsIn(in, list[i].sale))
  /\ \A x \in T : \E i \in DOMAIN list : list[i].sale = x

ByEnds(list, in) ==
  \A i, j \in DOMAIN list : i < j => in.endAt[list[i].sale] <= in.endAt[list[j].sale]

LEMMA LoadedHolds ==
  ASSUME NEW in, NEW L, NEW S, BidInput(in, L, S)
  PROVE  Holds([i \in DOMAIN CombinedSales(in) |-> FullyLoaded(in, CombinedSales(in)[i])],
               in, L, S, Named(in), [s \in S |-> WatchedIn(in, s)])
<1> DEFINE sales == CombinedSales(in)
           list == [i \in DOMAIN sales |-> FullyLoaded(in, sales[i])]
           W == [s \in S |-> WatchedIn(in, s)]
<1>1. Lists(sales, Named(in), S)
  BY CombinedSalesList
<1>2. \A i \in DOMAIN sales : sales[i] \in S
  BY <1>1, ElementOfSeq, LenProperties DEF Lists
<1> HIDE DEF sales
<1>3. ASSUME NEW i \in DOMAIN sales
      PROVE  /\ list[i].sale = sales[i]
             /\ Shows(list[i].lots, in, L, W[list[i].sale], BidsIn(in, list[i].sale))
             /\ list[i] \in SaleEntry(L, S)
  <2>1. list[i] = FullyLoaded(in, sales[i])
    OBVIOUS
  <2>2. FullyLoaded(in, sales[i]) = [sale |-> sales[i], lots |-> FullyLoaded(in, sales[i]).lots]
    BY DEF FullyLoaded
  <2>3. Shows(FullyLoaded(in, sales[i]).lots, in, L, WatchedIn(in, sales[i]), BidsIn(in, sales[i]))
    BY LoadedShows
  <2>4. FullyLoaded(in, sales[i]).lots \in Seq(Entry(L))
    BY <2>3 DEF Shows
  <2>5. sales[i] \in S /\ W[sales[i]] = WatchedIn(in, sales[i])
    BY <1>2
  <2>6. list[i].sale = sales[i] /\ list[i].lots = FullyLoaded(in, sales[i]).lots
    BY <2>1, <2>2
  <2>7. list[i] \in SaleEntry(L, S)
    BY <2>1, <2>2, <2>4, <2>5 DEF SaleEntry
  <2> HIDE DEF list, W
  <2> QED
    BY <2>3, <2>5, <2>6, <2>7
<1>4. DOMAIN list = DOMAIN sales
  OBVIOUS
<1>5. list \in Seq(SaleEntry(L, S))
  <2>1. list \in [DOMAIN sales -> SaleEntry(L, S)]
    BY <1>3
  <2> HIDE DEF list
  <2> QED
    BY <1>1, <2>1, MapSeq DEF Lists
<1> HIDE DEF list, W
<1>6. \A i, j \in DOMAIN list : list[i].sale = list[j].sale => i = j
  BY <1>1, <1>3, <1>4 DEF Lists
<1>7. \A x \in Named(in) : \E i \in DOMAIN list : list[i].sale = x
  BY <1>1, <1>3, <1>4 DEF Lists
<1>8. \A i \in DOMAIN list : list[i].sale \in Named(in)
  BY <1>1, <1>3, <1>4 DEF Lists
<1>9. Holds(list, in, L, S, Named(in), W)
  BY <1>3, <1>4, <1>5, <1>6, <1>7, <1>8 DEF Holds
<1> QED
  BY <1>9 DEF list, W, sales

LEMMA SortHolds ==
  ASSUME NEW in, NEW L, NEW S, BidInput(in, L, S), NEW T, NEW W,
         NEW list, Holds(list, in, L, S, T, W)
  PROVE  Holds(ByEnd(in, list), in, L, S, T, W) /\ ByEnds(ByEnd(in, list), in)
<1> DEFINE key == [i \in DOMAIN list |-> in.endAt[list[i].sale]]
           t == Sorted(list, key)
<1>1. list \in Seq(SaleEntry(L, S))
  BY DEF Holds
<1>2. \A i \in DOMAIN list : list[i].sale \in S
  <2>1. \A i \in DOMAIN list : list[i] \in SaleEntry(L, S)
    BY <1>1, ElementOfSeq, LenProperties
  <2> QED
    BY <2>1 DEF SaleEntry
<1>3. key \in [DOMAIN list -> Int] /\ \A i \in DOMAIN list : key[i] = in.endAt[list[i].sale]
  BY <1>2 DEF BidInput
<1> HIDE DEF key
<1>4. t \in Seq(SaleEntry(L, S)) /\ Rearranges(t, list, key)
  BY <1>1, <1>3, SortedRearranges
<1> HIDE DEF t
<1>5. PICK e : /\ e \in [DOMAIN list -> DOMAIN list]
               /\ \A a, b \in DOMAIN list : e[a] = e[b] => a = b
               /\ \A i \in DOMAIN list : \E a \in DOMAIN list : e[a] = i
               /\ \A a \in DOMAIN list : t[a] = list[e[a]]
               /\ \A a, b \in DOMAIN list : a < b => key[e[a]] <= key[e[b]]
  BY <1>4 DEF Rearranges
<1>6. DOMAIN t = DOMAIN list
  BY <1>4 DEF Rearranges
<1>7. ASSUME NEW i \in DOMAIN t, NEW j \in DOMAIN t, t[i].sale = t[j].sale PROVE i = j
  <2>1. e[i] \in DOMAIN list /\ e[j] \in DOMAIN list /\ list[e[i]].sale = list[e[j]].sale
    BY <1>5, <1>6, <1>7
  <2>2. e[i] = e[j]
    BY <2>1 DEF Holds
  <2> QED
    BY <1>5, <1>6, <2>2
<1>8. ASSUME NEW i \in DOMAIN t
      PROVE  /\ t[i].sale \in T
             /\ Shows(t[i].lots, in, L, W[t[i].sale], BidsIn(in, t[i].sale))
  <2>1. PICK k \in DOMAIN list : t[i] = list[k]
    BY <1>5, <1>6
  <2>2. /\ list[k].sale \in T
        /\ Shows(list[k].lots, in, L, W[list[k].sale], BidsIn(in, list[k].sale))
    BY DEF Holds
  <2> QED
    BY ONLY <2>1, <2>2
<1>9. ASSUME NEW x \in T PROVE \E i \in DOMAIN t : t[i].sale = x
  <2>1. PICK k \in DOMAIN list : list[k].sale = x
    BY DEF Holds
  <2>2. PICK a \in DOMAIN list : e[a] = k
    BY <1>5
  <2> QED
    BY <1>5, <1>6, <2>1, <2>2
<1>10. ByEnds(t, in)
  <2> SUFFICES ASSUME NEW i \in DOMAIN t, NEW j \in DOMAIN t, i < j
               PROVE  in.endAt[t[i].sale] <= in.endAt[t[j].sale]
    BY DEF ByEnds
  <2>1. key[e[i]] <= key[e[j]] /\ e[i] \in DOMAIN list /\ e[j] \in DOMAIN list
    BY <1>5, <1>6
  <2>2. key[e[i]] = in.endAt[t[i].sale] /\ key[e[j]] = in.endAt[t[j].sale]
    BY <1>3, <1>5, <1>6, <2>1
  <2> QED
    BY ONLY <2>1, <2>2
<1>11. Holds(t, in, L, S, T, W)
  BY <1>4, <1>7, <1>8, <1>9 DEF Holds
<1> QED
  BY <1>10, <1>11 DEF ByEnd, t, key

\* Its lots by their positions.
Placed(in, list) == [i \in DOMAIN list |-> [list[i] EXCEPT !.lots = ByPosition(in, @)]]

LEMMA PlacedHolds ==
  ASSUME NEW in, NEW L, NEW S, BidInput(in, L, S), NEW T, NEW W,
         NEW list, Holds(list, in, L, S, T, W)
  PROVE  /\ Holds(Placed(in, list), in, L, S, T, W)
         /\ ByEnds(list, in) => ByEnds(Placed(in, list), in)
<1> DEFINE t == Placed(in, list)
<1>1. list \in Seq(SaleEntry(L, S)) /\ \A i \in DOMAIN list : list[i] \in SaleEntry(L, S)
  BY ElementOfSeq, LenProperties DEF Holds
<1>2. DOMAIN t = DOMAIN list
  BY DEF Placed
<1>3. ASSUME NEW i \in DOMAIN list
      PROVE  /\ t[i] \in SaleEntry(L, S) /\ t[i].sale = list[i].sale
             /\ Shows(t[i].lots, in, L, W[t[i].sale], BidsIn(in, t[i].sale))
  <2> DEFINE lots == ByPosition(in, list[i].lots)
  <2>1. t[i] = [list[i] EXCEPT !.lots = lots]
    BY DEF Placed
  <2>2. Shows(list[i].lots, in, L, W[list[i].sale], BidsIn(in, list[i].sale))
    BY DEF Holds
  <2>3. Shows(lots, in, L, W[list[i].sale], BidsIn(in, list[i].sale))
    BY <2>2, SortShows
  <2>4. lots \in Seq(Entry(L))
    BY <2>3 DEF Shows
  <2> HIDE DEF lots, t
  <2>5. t[i] \in SaleEntry(L, S) /\ t[i].sale = list[i].sale /\ t[i].lots = lots
    BY <1>1, <2>1, <2>4 DEF SaleEntry
  <2> QED
    BY <2>3, <2>5
<1>4. t \in Seq(SaleEntry(L, S))
  <2>1. t \in [DOMAIN list -> SaleEntry(L, S)]
    <3>1. t = [i \in DOMAIN list |-> t[i]]
      BY DEF Placed
    <3> HIDE DEF t
    <3> QED
      BY <1>3, <3>1
  <2> HIDE DEF t
  <2> QED
    BY <1>1, <2>1, MapSeq
<1> HIDE DEF t
<1>5. \A i, j \in DOMAIN t : t[i].sale = t[j].sale => i = j
  BY <1>2, <1>3 DEF Holds
<1>6. \A x \in T : \E i \in DOMAIN t : t[i].sale = x
  BY <1>2, <1>3 DEF Holds
<1>7. \A i \in DOMAIN t : t[i].sale \in T
  BY <1>2, <1>3 DEF Holds
<1>8. Holds(t, in, L, S, T, W)
  BY <1>2, <1>3, <1>4, <1>5, <1>6, <1>7 DEF Holds
<1>9. ByEnds(list, in) => ByEnds(t, in)
  BY <1>2, <1>3 DEF ByEnds
<1> QED
  BY <1>8, <1>9 DEF t

LEMMA ChosenHolds ==
  ASSUME NEW in, NEW L, NEW S, NEW T, NEW W, NEW K,
         NEW list, Holds(list, in, L, S, T, W), ByEnds(list, in)
  PROVE  LET t == InOrder(list, {i \in DOMAIN list : list[i].sale \in K})
         IN  Holds(t, in, L, S, T \cap K, W) /\ ByEnds(t, in)
<1> DEFINE F == {s \in SaleEntry(L, S) : s.sale \in K}
           t == InOrder(list, {i \in DOMAIN list : list[i] \in F})
<1>1. list \in Seq(SaleEntry(L, S)) /\ \A i \in DOMAIN list : list[i] \in SaleEntry(L, S)
  BY ElementOfSeq, LenProperties DEF Holds
<1>2. {i \in DOMAIN list : list[i].sale \in K} = {i \in DOMAIN list : list[i] \in F}
  BY <1>1
<1>3. t \in Seq(SaleEntry(L, S)) /\ Keeps(t, list, F)
  BY <1>1, FilterKeeps
<1>4. \A s \in SaleEntry(L, S) : s \in F <=> s.sale \in K
  OBVIOUS
<1> HIDE DEF t, F
<1>5. ASSUME NEW a \in DOMAIN t, NEW b \in DOMAIN t, a < b
      PROVE  \E i, j \in DOMAIN list : i < j /\ i # j /\ t[a] = list[i] /\ t[b] = list[j]
  <2>1. PICK i \in DOMAIN list, j \in DOMAIN list : i < j /\ t[a] = list[i] /\ t[b] = list[j]
    BY <1>3, <1>5 DEF Keeps
  <2>2. i \in Nat /\ j \in Nat
    BY <1>1, LenProperties
  <2>3. i # j
    BY ONLY <2>1, <2>2
  <2> QED
    BY <2>1, <2>3
<1>6. ASSUME NEW a \in DOMAIN t, NEW b \in DOMAIN t, t[a].sale = t[b].sale PROVE a = b
  <2>1. \A i, j \in DOMAIN t : i < j => t[i].sale # t[j].sale
    BY <1>5 DEF Holds
  <2>2. a \in Nat /\ b \in Nat
    BY <1>3 DEF Keeps
  <2> QED
    BY <1>6, <2>1, <2>2
<1>7. ASSUME NEW a \in DOMAIN t
      PROVE  /\ t[a].sale \in T \cap K
             /\ Shows(t[a].lots, in, L, W[t[a].sale], BidsIn(in, t[a].sale))
  <2>1. PICK k \in DOMAIN list : t[a] = list[k]
    BY <1>3 DEF Keeps
  <2>2. t[a] \in F
    BY <1>3 DEF Keeps
  <2>3. list[k].sale \in K
    BY <1>1, <1>4, <2>1, <2>2
  <2>4. /\ list[k].sale \in T
        /\ Shows(list[k].lots, in, L, W[list[k].sale], BidsIn(in, list[k].sale))
    BY DEF Holds
  <2> QED
    BY ONLY <2>1, <2>3, <2>4
<1>8. ASSUME NEW x \in T \cap K PROVE \E a \in DOMAIN t : t[a].sale = x
  <2>1. PICK k \in DOMAIN list : list[k].sale = x
    BY DEF Holds
  <2>2. list[k] \in F
    BY <1>1, <1>4, <2>1
  <2> QED
    BY <1>3, <2>1, <2>2 DEF Keeps
<1>9. ByEnds(t, in)
  <2> SUFFICES ASSUME NEW a \in DOMAIN t, NEW b \in DOMAIN t, a < b
               PROVE  in.endAt[t[a].sale] <= in.endAt[t[b].sale]
    BY DEF ByEnds
  <2>1. PICK i \in DOMAIN list, j \in DOMAIN list : i < j /\ t[a] = list[i] /\ t[b] = list[j]
    BY <1>5
  <2>2. in.endAt[list[i].sale] <= in.endAt[list[j].sale]
    BY <2>1 DEF ByEnds
  <2> QED
    BY ONLY <2>1, <2>2
<1>10. Holds(t, in, L, S, T \cap K, W)
  BY <1>3, <1>6, <1>7, <1>8 DEF Holds
<1> QED
  BY <1>2, <1>9, <1>10 DEF t

\* The closed sales without the lots that are only watched.
Pruned(list) ==
  [i \in DOMAIN list |->
     [list[i] EXCEPT !.lots = InOrder(@, {k \in DOMAIN @ : @[k].lotState})]]

LEMMA PrunedHolds ==
  ASSUME NEW in, NEW L, NEW S, NEW T, NEW W,
         NEW list, Holds(list, in, L, S, T, W), T \subseteq S
  PROVE  /\ Holds(Pruned(list), in, L, S, T, [s \in S |-> W[s] \cap ToSet(in.standings)])
         /\ ByEnds(list, in) => ByEnds(Pruned(list), in)
<1> DEFINE t == Pruned(list)
           St == ToSet(in.standings)
           V == [s \in S |-> W[s] \cap St]
<1>1. list \in Seq(SaleEntry(L, S)) /\ \A i \in DOMAIN list : list[i] \in SaleEntry(L, S)
  BY ElementOfSeq, LenProperties DEF Holds
<1>2. DOMAIN t = DOMAIN list
  BY DEF Pruned
<1>3. ASSUME NEW i \in DOMAIN list
      PROVE  /\ t[i] \in SaleEntry(L, S) /\ t[i].sale = list[i].sale
             /\ Shows(t[i].lots, in, L, V[t[i].sale], BidsIn(in, t[i].sale))
  <2> DEFINE all == list[i].lots
             lots == InOrder(all, {k \in DOMAIN all : all[k].lotState})
             sale == list[i].sale
  <2>1. t[i] = [list[i] EXCEPT !.lots = lots]
    BY DEF Pruned
  <2>2. Shows(all, in, L, W[sale], BidsIn(in, sale)) /\ sale \in T
    BY DEF Holds
  <2>3. BidsIn(in, sale) \subseteq St
    BY DEF BidsIn
  <2>4. V[sale] = W[sale] \cap St
    BY <2>2
  <2> HIDE DEF all, sale, V
  <2>5. Shows(lots, in, L, W[sale] \cap St, BidsIn(in, sale))
    BY <2>2, <2>3, PruneShows
  <2>6. lots \in Seq(Entry(L))
    BY <2>5 DEF Shows
  <2> HIDE DEF lots, t
  <2>7. t[i] \in SaleEntry(L, S) /\ t[i].sale = sale /\ t[i].lots = lots
    BY <1>1, <2>1, <2>6 DEF SaleEntry, sale
  <2> QED
    BY <2>4, <2>5, <2>7 DEF sale
<1>4. t \in Seq(SaleEntry(L, S))
  <2>1. t \in [DOMAIN list -> SaleEntry(L, S)]
    <3>1. t = [i \in DOMAIN list |-> t[i]]
      BY DEF Pruned
    <3> HIDE DEF t
    <3> QED
      BY <1>3, <3>1
  <2> HIDE DEF t
  <2> QED
    BY <1>1, <2>1, MapSeq
<1> HIDE DEF t, V
<1>5. \A i, j \in DOMAIN t : t[i].sale = t[j].sale => i = j
  BY <1>2, <1>3 DEF Holds
<1>6. \A x \in T : \E i \in DOMAIN t : t[i].sale = x
  BY <1>2, <1>3 DEF Holds
<1>7. \A i \in DOMAIN t : t[i].sale \in T
  BY <1>2, <1>3 DEF Holds
<1>8. Holds(t, in, L, S, T, V)
  BY <1>2, <1>3, <1>4, <1>5, <1>6, <1>7 DEF Holds
<1>9. ByEnds(list, in) => ByEnds(t, in)
  BY <1>2, <1>3 DEF ByEnds
<1> QED
  BY <1>8, <1>9 DEF t, V

OpenSales(in, list) == InOrder(list, {i \in DOMAIN list : list[i].sale \notin in.closed})
ClosedSales(in, list) == InOrder(list, {i \in DOMAIN list : list[i].sale \in in.closed})

LEMMA SortedSales ==
  ASSUME NEW in, NEW sales
  PROVE  LET placed == Placed(in, ByEnd(in, sales))
         IN  SortSales(in, sales)
             = [active |-> OpenSales(in, placed), closed |-> Pruned(ClosedSales(in, placed))]
<1> DEFINE ends == SortBy(sales, LAMBDA s : in.endAt[s.sale])
           placed == [i \in DOMAIN ends |->
                        [ends[i] EXCEPT !.lots = SortBy(@, LAMBDA a : in.position[a.lot])]]
<1>1. SortSales(in, sales)
      = [active |-> OpenSales(in, placed), closed |-> Pruned(ClosedSales(in, placed))]
  BY DEF SortSales, Map, Filter, OpenSales, ClosedSales, Pruned
<1>2. ends = ByEnd(in, sales)
  BY SortIsSorted
<1>3. \A list : SortBy(list, LAMBDA a : in.position[a.lot]) = ByPosition(in, list)
  BY SortIsSorted
<1> HIDE DEF ends
<1>4. placed = Placed(in, ends)
  BY <1>3 DEF Placed
<1> HIDE DEF placed
<1> QED
  BY <1>1, <1>2, <1>4

\* The open sales hold every lot, the closed ones those with a standing.
LEMMA BidsHold ==
  ASSUME NEW in, NEW L, NEW S, BidInput(in, L, S)
  PROVE  LET bids == MyBidsOf(in)
             W == [s \in S |-> WatchedIn(in, s)]
             V == [s \in S |-> W[s] \cap ToSet(in.standings)]
         IN  /\ Holds(bids.active, in, L, S, Named(in) \ in.closed, W)
             /\ Holds(bids.closed, in, L, S, Named(in) \cap in.closed, V)
             /\ ByEnds(bids.active, in) /\ ByEnds(bids.closed, in)
             /\ Named(in) \subseteq S
<1> DEFINE W == [s \in S |-> WatchedIn(in, s)]
           V == [s \in S |-> W[s] \cap ToSet(in.standings)]
           loaded == [i \in DOMAIN CombinedSales(in) |-> FullyLoaded(in, CombinedSales(in)[i])]
           ends == ByEnd(in, loaded)
           placed == Placed(in, ends)
           closed == ClosedSales(in, placed)
           open == OpenSales(in, placed)
           N == Named(in)
           others == S \ in.closed
<1>1. Holds(loaded, in, L, S, N, W)
  BY LoadedHolds
<1>2. MyBidsOf(in) = SortSales(in, loaded)
  BY DEF MyBidsOf, Map
<1>3. MyBidsOf(in) = [active |-> open, closed |-> Pruned(closed)]
  BY <1>2, SortedSales
<1> HIDE DEF loaded, W
<1>4. Holds(ends, in, L, S, N, W) /\ ByEnds(ends, in)
  BY <1>1, SortHolds
<1> HIDE DEF ends
<1>5. Holds(placed, in, L, S, N, W) /\ ByEnds(placed, in)
  BY <1>4, PlacedHolds
<1>6. N \subseteq S
  <2>1. \A i \in DOMAIN placed : placed[i] \in SaleEntry(L, S)
    BY <1>5, ElementOfSeq, LenProperties DEF Holds
  <2>2. \A x \in N : \E i \in DOMAIN placed : placed[i].sale = x
    BY <1>5 DEF Holds
  <2> QED
    BY <2>1, <2>2 DEF SaleEntry
<1> HIDE DEF placed, N
<1>7. Holds(closed, in, L, S, N \cap in.closed, W) /\ ByEnds(closed, in)
  BY ONLY <1>5, ChosenHolds DEF ClosedSales, closed
<1>8. Holds(open, in, L, S, N \ in.closed, W) /\ ByEnds(open, in)
  <2> DEFINE K == others
  <2>1. {i \in DOMAIN placed : placed[i].sale \notin in.closed}
        = {i \in DOMAIN placed : placed[i].sale \in others}
    BY <1>5, <1>6 DEF Holds
  <2>2. open = InOrder(placed, {i \in DOMAIN placed : placed[i].sale \in others})
    BY <2>1 DEF OpenSales
  <2>3. N \cap others = N \ in.closed
    BY <1>6
  <2> HIDE DEF others, open
  <2>4. LET t == InOrder(placed, {i \in DOMAIN placed : placed[i].sale \in others})
        IN  Holds(t, in, L, S, N \cap others, W) /\ ByEnds(t, in)
    BY ONLY <1>5, ChosenHolds
  <2> QED
    BY <2>2, <2>3, <2>4
<1> HIDE DEF closed, open
<1>9. Holds(Pruned(closed), in, L, S, N \cap in.closed, V) /\ ByEnds(Pruned(closed), in)
  <2>1. N \cap in.closed \subseteq S
    BY <1>6
  <2> QED
    BY <1>7, <2>1, PrunedHolds
<1> QED
  BY <1>3, <1>6, <1>8, <1>9 DEF W, N

\* Sales one after the other, each once, the i-th with V[i] as watched lots.
InSales(all, in, L, V) ==
  /\ \A i, j \in DOMAIN all : all[i].sale = all[j].sale => i = j
  /\ \A i \in DOMAIN all :
       /\ Shows(all[i].lots, in, L, V[i], BidsIn(in, all[i].sale))
       /\ \A x \in V[i] : in.saleOf[x] = all[i].sale

Holders(lot, all, in, V) == {i \in DOMAIN all : lot \in V[i] \cup BidsIn(in, all[i].sale)}

\* A lot is shown where a sale has it, and once.
LEMMA ShownOnce ==
  ASSUME NEW in, NEW L, NEW all, NEW V, InSales(all, in, L, V), NEW lot
  PROVE  LET holders == Holders(lot, all, in, V)
         IN  /\ holders = {} => Cardinality(Shown(lot, all)) = 0
             /\ holders # {} => Cardinality(Shown(lot, all)) = 1
             /\ \A e \in Shown(lot, all) :
                  /\ e[1] \in holders /\ all[e[1]].sale = in.saleOf[lot]
                  /\ all[e[1]].lots[e[2]].isWatching = (lot \in V[e[1]])
<1> USE DEF InSales
<1> DEFINE M(i) == V[i] \cup BidsIn(in, all[i].sale)
           holders == {i \in DOMAIN all : lot \in M(i)}
           E == Shown(lot, all)
<1>1. \A i \in DOMAIN all : \A x \in M(i) : in.saleOf[x] = all[i].sale
  <2> SUFFICES ASSUME NEW i \in DOMAIN all, NEW x \in M(i) PROVE in.saleOf[x] = all[i].sale
    OBVIOUS
  <2>1. x \in V[i] \/ x \in BidsIn(in, all[i].sale)
    OBVIOUS
  <2> QED
    BY <2>1 DEF BidsIn
<1>2. \A e : e \in E <=> \E i \in DOMAIN all : \E j \in DOMAIN all[i].lots :
                           e = <<i, j>> /\ all[i].lots[j].lot = lot
  <2>1. \A e : e \in EntriesOf(all) <=>
               \E i \in DOMAIN all : \E j \in DOMAIN all[i].lots : e = <<i, j>>
    BY DEF EntriesOf
  <2>2. \A e : e \in E <=> e \in EntriesOf(all) /\ all[e[1]].lots[e[2]].lot = lot
    BY DEF Shown
  <2> HIDE DEF E
  <2> QED
    BY <2>1, <2>2
<1>3. \A i \in DOMAIN all : \A j \in DOMAIN all[i].lots :
        /\ all[i].lots[j].lot \in M(i)
        /\ all[i].lots[j].isWatching = (all[i].lots[j].lot \in V[i])
  BY DEF Shows
<1>4. \A i \in DOMAIN all : \A j, k \in DOMAIN all[i].lots :
        all[i].lots[j].lot = all[i].lots[k].lot => j = k
  BY DEF Shows
<1>5. \A i \in DOMAIN all : \A x \in M(i) : \E j \in DOMAIN all[i].lots : all[i].lots[j].lot = x
  BY DEF Shows
<1> HIDE DEF E, M
<1>6. ASSUME NEW e \in E
      PROVE  /\ e[1] \in holders /\ all[e[1]].sale = in.saleOf[lot]
             /\ all[e[1]].lots[e[2]].isWatching = (lot \in V[e[1]])
  <2>1. PICK i \in DOMAIN all : \E j \in DOMAIN all[i].lots :
               e = <<i, j>> /\ all[i].lots[j].lot = lot
    BY <1>2
  <2>2. PICK j \in DOMAIN all[i].lots : e = <<i, j>> /\ all[i].lots[j].lot = lot
    BY <2>1
  <2>3. e[1] = i /\ e[2] = j
    BY <2>2
  <2>4. lot \in M(i) /\ all[i].lots[j].isWatching = (lot \in V[i])
    BY <1>3, <2>2
  <2>5. in.saleOf[lot] = all[i].sale
    BY <1>1, <2>4
  <2> QED
    BY <2>3, <2>4, <2>5
<1>7. ASSUME holders = {} PROVE Cardinality(E) = 0
  <2>1. E = {}
    BY <1>6, <1>7
  <2> QED
    BY <2>1, FS_EmptySet
<1>8. ASSUME holders # {} PROVE Cardinality(E) = 1
  <2>1. PICK i \in DOMAIN all : lot \in M(i)
    BY <1>8
  <2>2. PICK j \in DOMAIN all[i].lots : all[i].lots[j].lot = lot
    BY <1>5, <2>1
  <2>3. <<i, j>> \in E
    BY <1>2, <2>1, <2>2
  <2>4. ASSUME NEW e \in E PROVE e = <<i, j>>
    <3>1. PICK a \in DOMAIN all : \E b \in DOMAIN all[a].lots :
                 e = <<a, b>> /\ all[a].lots[b].lot = lot
      BY <1>2
    <3>2. PICK b \in DOMAIN all[a].lots : e = <<a, b>> /\ all[a].lots[b].lot = lot
      BY <3>1
    <3>3. lot \in M(a)
      BY <1>3, <3>2
    <3>4. all[a].sale = all[i].sale
      BY <1>1, <2>1, <3>3
    <3>5. a = i
      BY <3>4
    <3>6. b = j
      BY <1>4, <2>2, <3>2, <3>5
    <3> QED
      BY <3>2, <3>5, <3>6
  <2>5. E = {<<i, j>>}
    BY <2>3, <2>4
  <2> QED
    BY <2>5, FS_Singleton
<1> QED
  BY <1>6, <1>7, <1>8 DEF E, M, Holders

\* The lots of the lists as they were fetched.
LEMMA FetchedAreShown ==
  ASSUME NEW in, NEW L, NEW S, BidInput(in, L, S)
  PROVE  ShowsLots(in, MyBidsOf(in))
<1> DEFINE bids == MyBidsOf(in)
           St == ToSet(in.standings)
           W == [s \in S |-> WatchedIn(in, s)]
           P == [s \in S |-> W[s] \cap St]
           N == Named(in)
           a == bids.active
           c == bids.closed
           all == a \o c
           bid == St \cap in.listed
           watched == ToSet(in.watched) \ St
<1>1. /\ Holds(a, in, L, S, N \ in.closed, W) /\ Holds(c, in, L, S, N \cap in.closed, P)
      /\ ByEnds(a, in) /\ ByEnds(c, in) /\ N \subseteq S
  BY BidsHold
<1>2. /\ \A s \in S : W[s] = WatchedIn(in, s) /\ P[s] = WatchedIn(in, s) \cap St
      /\ \A l \in St : in.saleOf[l] \in N
  BY DEF Named
<1>3. ToSet(in.watched) \subseteq L /\ St \subseteq L /\ \A l \in L : in.saleOf[l] \in S
  BY ElementOfSeq, LenProperties DEF BidInput, ToSet
<1> HIDE DEF bids, W, P, N
<1>4. PICK m \in Nat : Len(a) = m /\ DOMAIN a = 1 .. m
  BY <1>1, LenProperties DEF Holds
<1>5. PICK n \in Nat : Len(c) = n /\ DOMAIN c = 1 .. n
  BY <1>1, LenProperties DEF Holds
<1> HIDE DEF a, c
<1>6. a \in Seq(SaleEntry(L, S)) /\ c \in Seq(SaleEntry(L, S))
  BY <1>1 DEF Holds
<1>7. /\ all \in Seq(SaleEntry(L, S)) /\ Len(all) = m + n
      /\ \A i \in 1 .. m + n : all[i] = IF i <= m THEN a[i] ELSE c[i - m]
  BY <1>4, <1>5, <1>6, ConcatProperties
<1>8. DOMAIN all = 1 .. m + n
  BY <1>7, LenProperties
<1> HIDE DEF all
<1>9. \A i \in DOMAIN a : i \in DOMAIN all /\ all[i] = a[i] /\ i <= m
  BY <1>4, <1>5, <1>7, <1>8
<1>10. ASSUME NEW i \in DOMAIN all, ~(i <= m) PROVE i - m \in DOMAIN c /\ all[i] = c[i - m]
  BY <1>4, <1>5, <1>7, <1>8, <1>10
<1>11. ASSUME NEW i \in DOMAIN all, i <= m PROVE i \in DOMAIN a /\ all[i] = a[i]
  BY <1>4, <1>5, <1>7, <1>8, <1>11
<1>12. ASSUME NEW i \in DOMAIN c PROVE i + m \in DOMAIN all /\ all[i + m] = c[i] /\ ~(i + m <= m)
  <2>1. i + m \in 1 .. m + n /\ ~(i + m <= m) /\ (i + m) - m = i
    BY <1>4, <1>5
  <2> QED
    BY <1>7, <1>8, <2>1
<1> DEFINE V == [i \in DOMAIN all |-> IF i <= m THEN W[all[i].sale] ELSE P[all[i].sale]]
<1>13. ASSUME NEW i \in DOMAIN all, i <= m
       PROVE  /\ all[i].sale \in N \ in.closed
              /\ Shows(all[i].lots, in, L, V[i], BidsIn(in, all[i].sale))
              /\ V[i] = WatchedIn(in, all[i].sale)
  <2>1. i \in DOMAIN a /\ all[i] = a[i]
    BY <1>11, <1>13
  <2>2. a[i].sale \in N \ in.closed /\ Shows(a[i].lots, in, L, W[a[i].sale], BidsIn(in, a[i].sale))
    BY <1>1, <2>1 DEF Holds
  <2>3. V[i] = W[all[i].sale]
    BY <1>13
  <2>4. W[a[i].sale] = WatchedIn(in, a[i].sale)
    BY <1>1, <1>2, <2>2
  <2> HIDE DEF V
  <2> QED
    BY <2>1, <2>2, <2>3, <2>4
<1>14. ASSUME NEW i \in DOMAIN all, ~(i <= m)
       PROVE  /\ all[i].sale \in N \cap in.closed
              /\ Shows(all[i].lots, in, L, V[i], BidsIn(in, all[i].sale))
              /\ V[i] = WatchedIn(in, all[i].sale) \cap St
  <2>1. i - m \in DOMAIN c /\ all[i] = c[i - m]
    BY <1>10, <1>14
  <2> DEFINE k == i - m
  <2>2. c[k].sale \in N \cap in.closed /\ Shows(c[k].lots, in, L, P[c[k].sale], BidsIn(in, c[k].sale))
    BY <1>1, <2>1 DEF Holds
  <2>3. V[i] = P[all[i].sale]
    BY <1>14
  <2>4. P[c[k].sale] = WatchedIn(in, c[k].sale) \cap St
    BY <1>1, <1>2, <2>2
  <2> HIDE DEF V
  <2> QED
    BY <2>1, <2>2, <2>3, <2>4
<1> HIDE DEF V
<1>15. ASSUME NEW i \in DOMAIN all, NEW j \in DOMAIN all, all[i].sale = all[j].sale PROVE i = j
  <2>1. i <= m <=> j <= m
    BY <1>13, <1>14, <1>15
  <2>2. CASE i <= m
    BY <1>1, <1>11, <1>15, <2>1, <2>2 DEF Holds
  <2>3. CASE ~(i <= m)
    <3>1. i - m \in DOMAIN c /\ j - m \in DOMAIN c /\ c[i - m].sale = c[j - m].sale
      BY <1>10, <1>15, <2>1, <2>3
    <3>2. i - m = j - m
      BY <1>1, <3>1 DEF Holds
    <3>3. i \in Nat /\ j \in Nat
      BY <1>8
    <3> QED
      BY ONLY <3>2, <3>3, m \in Nat
  <2> QED
    BY <2>2, <2>3
<1>16. ASSUME NEW i \in DOMAIN all
       PROVE  /\ Shows(all[i].lots, in, L, V[i], BidsIn(in, all[i].sale))
              /\ \A x \in V[i] : in.saleOf[x] = all[i].sale
              /\ \A x \in V[i] : x \notin BidsIn(in, all[i].sale)
  BY <1>13, <1>14 DEF WatchedIn
<1>17. ASSUME NEW s \in N \ in.closed PROVE \E i \in DOMAIN all : i <= m /\ all[i].sale = s
  <2>1. PICK i \in DOMAIN a : a[i].sale = s
    BY <1>1 DEF Holds
  <2> QED
    BY <1>9, <2>1
<1>18. ASSUME NEW s \in N \cap in.closed PROVE \E i \in DOMAIN all : ~(i <= m) /\ all[i].sale = s
  <2>1. PICK i \in DOMAIN c : c[i].sale = s
    BY <1>1 DEF Holds
  <2> QED
    BY <1>12, <2>1
<1> DEFINE holders(lot) == {i \in DOMAIN all : lot \in V[i] \cup BidsIn(in, all[i].sale)}
<1>19. ASSUME NEW lot
       PROVE  /\ holders(lot) = {} => Cardinality(Shown(lot, all)) = 0
              /\ holders(lot) # {} => Cardinality(Shown(lot, all)) = 1
              /\ \A e \in Shown(lot, all) :
                   /\ e[1] \in holders(lot) /\ all[e[1]].sale = in.saleOf[lot]
                   /\ all[e[1]].lots[e[2]].isWatching = (lot \in V[e[1]])
  <2>1. InSales(all, in, L, V)
    BY <1>15, <1>16 DEF InSales
  <2>2. holders(lot) = Holders(lot, all, in, V)
    BY DEF Holders
  <2> HIDE DEF holders
  <2> QED
    BY ONLY <2>1, <2>2, ShownOnce
<1>20. ASSUME NEW lot \in bid PROVE holders(lot) # {} /\ \A i \in holders(lot) : lot \notin V[i]
  <2>1. PICK i \in DOMAIN all : all[i].sale = in.saleOf[lot]
    BY <1>2, <1>17, <1>18
  <2>2. i \in holders(lot)
    BY <2>1 DEF BidsIn
  <2>3. ASSUME NEW k \in holders(lot) PROVE lot \notin V[k]
    <3>1. SUFFICES ASSUME lot \in V[k] PROVE FALSE
      OBVIOUS
    <3>2. in.saleOf[lot] = all[k].sale /\ lot \notin BidsIn(in, all[k].sale)
      BY <1>16, <3>1
    <3> QED
      BY <3>2 DEF BidsIn
  <2> QED
    BY <2>2, <2>3
<1>21. ASSUME NEW lot \in watched
       PROVE  /\ holders(lot) # {} <=> in.saleOf[lot] \in N \ in.closed
              /\ \A i \in holders(lot) : lot \in V[i]
  <2>1. \A s : lot \notin BidsIn(in, s)
    BY DEF BidsIn
  <2>2. \A i \in holders(lot) : lot \in V[i]
    BY <2>1
  <2>3. ASSUME NEW i \in holders(lot) PROVE in.saleOf[lot] \in N \ in.closed
    <3>1. i <= m
      BY <1>14, <2>2
    <3> QED
      BY <1>13, <1>16, <2>2, <3>1
  <2>4. ASSUME in.saleOf[lot] \in N \ in.closed PROVE holders(lot) # {}
    <3>1. PICK i \in DOMAIN all : i <= m /\ all[i].sale = in.saleOf[lot]
      BY <1>17, <2>4
    <3>2. lot \in V[i]
      BY <1>13, <2>1, <3>1 DEF WatchedIn
    <3> QED
      BY <3>2
  <2> QED
    BY <2>2, <2>3, <2>4
<1>0. ASSUME NEW lot, lot \notin bid \cup ToSet(in.watched) PROVE holders(lot) = {}
  <2>1. SUFFICES ASSUME NEW i \in holders(lot) PROVE FALSE
    OBVIOUS
  <2>2. lot \notin BidsIn(in, all[i].sale)
    BY <1>0 DEF BidsIn
  <2>3. lot \notin WatchedIn(in, all[i].sale)
    BY <1>0 DEF WatchedIn
  <2> QED
    BY <1>13, <1>14, <2>2, <2>3
<1> HIDE DEF holders
<1>22. \A lot \in bid : Cardinality(Shown(lot, all)) = 1
  BY <1>19, <1>20
<1>23. \A lot \in watched :
         Cardinality(Shown(lot, all)) = IF in.saleOf[lot] \in N \ in.closed THEN 1 ELSE 0
  BY <1>19, <1>21
<1>24. ASSUME NEW lot \in bid \cup watched, NEW e \in Shown(lot, all)
       PROVE  /\ all[e[1]].sale = in.saleOf[lot]
              /\ all[e[1]].lots[e[2]].isWatching = (lot \notin bid)
  <2>1. /\ e[1] \in holders(lot) /\ all[e[1]].sale = in.saleOf[lot]
        /\ all[e[1]].lots[e[2]].isWatching = (lot \in V[e[1]])
    BY <1>19
  <2>2. CASE lot \in bid
    <3>1. (lot \in V[e[1]]) = (lot \notin bid)
      BY <1>20, <2>1, <2>2
    <3> QED
      BY ONLY <2>1, <3>1
  <2>3. CASE lot \in watched
    <3>1. (lot \in V[e[1]]) = (lot \notin bid)
      BY <1>21, <2>1, <2>3
    <3> QED
      BY ONLY <2>1, <3>1
  <2> QED
    BY <2>2, <2>3
<1>25. ASSUME NEW list \in {a, c}, NEW i \in DOMAIN list, NEW j \in DOMAIN list, i < j
       PROVE  in.endAt[list[i].sale] <= in.endAt[list[j].sale] /\ list[i].sale # list[j].sale
  <2>1. i \in Nat /\ j \in Nat
    BY <1>4, <1>5
  <2>2. ByEnds(list, in) /\ \A k, l \in DOMAIN list : list[k].sale = list[l].sale => k = l
    BY <1>1 DEF Holds
  <2>3. i # j
    BY ONLY <1>25, <2>1
  <2> QED
    BY <1>25, <2>2, <2>3 DEF ByEnds
<1>26. \A lot \in DOMAIN in.saleOf \ (bid \cup ToSet(in.watched)) :
         Cardinality(Shown(lot, all)) = 0
  BY <1>0, <1>19
<1>27. ShowsLots(in, bids)
  BY <1>22, <1>23, <1>24, <1>25, <1>26 DEF ShowsLots, N, a, c, all
<1> QED
  BY <1>27 DEF bids

\* What the resolver is called with: lots of L, sales of S, no lot watched twice.
Bidder(in, L, S) ==
  /\ in \in [standings : Seq(L), unsynced : Seq(L), registered : Seq(S), watched : Seq(L),
             saleOf : [L -> S], firstSale : [L -> S], listed : SUBSET L, closed : SUBSET S,
             found : SUBSET S, endAt : [S -> Int], position : [L -> Int]]
  /\ \A i, j \in DOMAIN in.watched : in.watched[i] = in.watched[j] => i = j

\* A capped list is the beginning of the list.
LEMMA UpToBegins ==
  ASSUME NEW A, NEW s \in Seq(A), NEW cap \in Nat
  PROVE  /\ UpTo(s, cap) \in Seq(A)
         /\ \A i \in DOMAIN UpTo(s, cap) : i \in DOMAIN s /\ UpTo(s, cap)[i] = s[i]
<1> DEFINE n == IF Len(s) < cap THEN Len(s) ELSE cap
           t == UpTo(s, cap)
<1>1. PICK m \in Nat : Len(s) = m /\ DOMAIN s = 1 .. m
  BY LenProperties
<1>2. n \in 0 .. m
  BY <1>1
<1>3. t = SubSeq(s, 1, n)
  BY DEF UpTo
<1>4. \A i \in 1 .. n : s[i] \in A /\ i \in DOMAIN s
  BY <1>1, <1>2, ElementOfSeq
<1> HIDE DEF n, t
<1>5. /\ t \in Seq(A) /\ Len(t) = n
      /\ \A i \in 1 .. n : t[i] = s[i]
  <2>1. n \in Int /\ 1 \in Int /\ (1 <= n => n - 1 + 1 = n) /\ (~(1 <= n) => n = 0)
    BY <1>2
  <2>2. /\ t \in Seq(A) /\ Len(t) = IF 1 <= n THEN n - 1 + 1 ELSE 0
        /\ \A i \in 1 .. n - 1 + 1 : t[i] = s[1 + i - 1]
    BY <1>3, <1>4, <2>1, SubSeqProperties
  <2>3. \A i \in 1 .. n : i \in 1 .. n - 1 + 1 /\ 1 + i - 1 = i
    BY <2>1
  <2> QED
    BY <2>1, <2>2, <2>3
<1>6. DOMAIN t = 1 .. n
  BY <1>5, LenProperties
<1> QED
  BY <1>4, <1>5, <1>6 DEF t

\* The lists as they come are lists of the same lots and sales.
LEMMA FetchedInput ==
  ASSUME NEW in, NEW L, NEW S, Bidder(in, L, S)
  PROVE  BidInput(AsFetched(in), L, S) /\ AsFetched(in).found = in.found
<1> DEFINE out == AsFetched(in)
           bids == UpTo(UpTo(in.standings, FetchCount), CausalityCap)
           registered == UpTo(in.registered, FetchCount)
           watched == UpTo(in.watched, FetchCount)
<1>1. /\ in.standings \in Seq(L) /\ in.unsynced \in Seq(L) /\ in.registered \in Seq(S)
      /\ in.watched \in Seq(L)
  BY DEF Bidder
<1>2. /\ in.saleOf \in [L -> S] /\ in.firstSale \in [L -> S]
      /\ in.endAt \in [S -> Int] /\ in.position \in [L -> Int]
      /\ \A i, j \in DOMAIN in.watched : in.watched[i] = in.watched[j] => i = j
  BY DEF Bidder
<1>3. /\ out.standings = bids \o in.unsynced
      /\ out.registered = registered /\ out.watched = watched
      /\ out.saleOf = in.saleOf /\ out.firstSale = in.firstSale
      /\ out.endAt = in.endAt /\ out.position = in.position /\ out.found = in.found
  BY DEF AsFetched, Bidder
<1>4. FetchCount \in Nat /\ CausalityCap \in Nat
  BY CapsAssumption
<1>5. UpTo(in.standings, FetchCount) \in Seq(L)
  BY <1>1, <1>4, UpToBegins
<1>6. bids \in Seq(L)
  BY <1>4, <1>5, UpToBegins
<1>7. registered \in Seq(S)
  BY <1>1, <1>4, UpToBegins
<1>8. /\ watched \in Seq(L)
      /\ \A i \in DOMAIN watched : i \in DOMAIN in.watched /\ watched[i] = in.watched[i]
  BY <1>1, <1>4, UpToBegins
<1> HIDE DEF out, bids, registered, watched
<1>9. bids \o in.unsynced \in Seq(L)
  BY <1>1, <1>6, ConcatProperties
<1>10. \A i, j \in DOMAIN watched : watched[i] = watched[j] => i = j
  BY <1>2, <1>8
<1>11. BidInput(out, L, S)
  BY <1>2, <1>3, <1>7, <1>8, <1>9, <1>10 DEF BidInput
<1> QED
  BY <1>3, <1>11 DEF out

\* What a bidder is answered, for any lots, sales and caps: the field fails exactly
\* when a sale that a fetched list names cannot be read; else, of the lots that come
\* with the fetched lists, one with a standing that gravity still lists is shown
\* exactly once, in its own sale, a lot only watched at most once, never in a closed
\* sale, and in an open one whenever anything names the sale, and no other lot at
\* all; sales are listed by their ends (src/src/schema/v2/me/myBids.ts).
THEOREM LotsAreHeld ==
  ASSUME NEW in, NEW L, NEW S, Bidder(in, L, S)
  PROVE  ShowsAllOrNothing(in, ResolveMyBids(in))
<1> DEFINE fetched == AsFetched(in)
           refs == ToSet(CombinedSaleIds(fetched))
           answer == ResolveMyBids(in)
<1>1. BidInput(fetched, L, S) /\ fetched.found = in.found
  BY FetchedInput
<1>2. answer = IF \A ref \in refs : ref.sale \in in.found THEN <<MyBidsOf(fetched)>> ELSE <<>>
  BY DEF ResolveMyBids
<1> HIDE DEF fetched, answer
<1>3. ShowsLots(fetched, MyBidsOf(fetched))
  BY <1>1, FetchedAreShown
<1>4. {r.sale : r \in refs} = Named(fetched)
  BY <1>1, CombinedSalesList
<1> HIDE DEF refs
<1>5. Named(fetched) \subseteq in.found <=> \A ref \in refs : ref.sale \in in.found
  BY <1>4
<1>6. IF Named(fetched) \subseteq in.found
      THEN answer # <<>> /\ ShowsLots(fetched, answer[1])
      ELSE answer = <<>>
  BY <1>2, <1>3, <1>5
<1> QED
  BY <1>6 DEF ShowsAllOrNothing, fetched, answer

LEMMA BidJob ==
  ASSUME NEW j \in BidJobs
  PROVE  Bidder(j.in, Lots, Sales)
<1> DEFINE in == j.in
           Standings == ListsOf(Lots)
           Watched == {<<>>, <<1>>, <<3, 1>>, <<2, 3, 1>>}
<1>1. in \in [standings : Standings, unsynced : {<<>>, <<1>>}, registered : {<<>>, <<1>>},
              watched : Watched, saleOf : {<<1, 1, 2>>, <<1, 2, 2>>},
              firstSale : {<<1, 1, 2>>, <<2, 2, 2>>}, listed : {Lots, {2, 3}},
              closed : {{}, {1}, {1, 2}}, found : {Sales, {1}},
              endAt : {<<1, 2>>, <<2, 1>>}, position : {<<3, 2, 1>>}]
  BY DEF BidJobs
<1>2. \A s \in Standings : s \in Seq(Lots)
  <2> SUFFICES ASSUME NEW s \in Standings PROVE s \in Seq(Lots)
    OBVIOUS
  <2>1. PICK n \in 0 .. 3 : s \in [1 .. n -> Lots]
    BY DEF ListsOf, BoundedSeq, SeqOf
  <2> QED
    BY <2>1, SeqDef
<1>3. \A s \in {<<>>, <<1>>} : s \in Seq(Lots) /\ s \in Seq(Sales)
  <2>1. <<>> \in Seq(Sales) /\ <<>> \in Seq(Lots)
    BY EmptySeq
  <2>2. <<1>> \in Seq(Sales) /\ <<1>> \in Seq(Lots)
    BY DEF Lots, Sales
  <2> QED
    BY <2>1, <2>2
<1>4. \A s \in Watched : s \in Seq(Lots) /\ \A k, l \in DOMAIN s : s[k] = s[l] => k = l
  <2>1. <<2, 3, 1>> \in Seq(Lots) /\ <<3, 1>> \in Seq(Lots)
    BY DEF Lots
  <2>2. \A k, l \in DOMAIN <<2, 3, 1>> : <<2, 3, 1>>[k] = <<2, 3, 1>>[l] => k = l
    OBVIOUS
  <2>3. \A k, l \in DOMAIN <<3, 1>> : <<3, 1>>[k] = <<3, 1>>[l] => k = l
    OBVIOUS
  <2>4. \A s \in {<<>>, <<1>>} : \A k, l \in DOMAIN s : s[k] = s[l] => k = l
    OBVIOUS
  <2> QED
    BY <1>3, <2>1, <2>2, <2>3, <2>4
<1>5. /\ \A f \in {<<1, 1, 2>>, <<1, 2, 2>>, <<2, 2, 2>>} : f \in [Lots -> Sales]
      /\ \A f \in {<<1, 2>>, <<2, 1>>} : f \in [Sales -> Int]
      /\ <<3, 2, 1>> \in [Lots -> Int]
  BY DEF Lots, Sales
<1>6. /\ Lots \subseteq Lots /\ {2, 3} \subseteq Lots
      /\ {} \subseteq Sales /\ {1} \subseteq Sales /\ {1, 2} \subseteq Sales
  BY DEF Lots, Sales
<1> HIDE DEF in, Standings, Watched
<1>7. in \in [standings : Seq(Lots), unsynced : Seq(Lots), registered : Seq(Sales),
              watched : Seq(Lots), saleOf : [Lots -> Sales], firstSale : [Lots -> Sales],
              listed : SUBSET Lots, closed : SUBSET Sales, found : SUBSET Sales,
              endAt : [Sales -> Int], position : [Lots -> Int]]
  BY <1>1, <1>2, <1>3, <1>4, <1>5, <1>6
<1>8. \A k, l \in DOMAIN in.watched : in.watched[k] = in.watched[l] => k = l
  BY <1>1, <1>4
<1> QED
  BY <1>7, <1>8 DEF Bidder, in

\* Every bidder of the runs is shown the auctions as LotsAreHeld says.
THEOREM EveryLotIsHeld == Spec => []MyBidsHoldEveryLot
<1>1. Computed => MyBidsHoldEveryLot
  <2> SUFFICES ASSUME Computed, Returned("bids") PROVE MyBidsHoldEveryLot
    BY DEF MyBidsHoldEveryLot
  <2>1. job \in BidJobs
    BY KindOfJob DEF Computed, Returned
  <2>2. ShowsAllOrNothing(job.in, ResolveMyBids(job.in))
    BY <2>1, BidJob, LotsAreHeld
  <2>3. result[1] = ResolveMyBids(job.in)
    BY DEF Computed
  <2> QED
    BY <2>2, <2>3 DEF MyBidsHoldEveryLot
<1> QED
  BY <1>1, ComputedInvariance, PTL

=============================================================================
