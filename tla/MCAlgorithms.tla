---------------------------- MODULE MCAlgorithms ----------------------------
(***************************************************************************)
(* The pure functions of the repository, each applied to every input of a  *)
(* bounded set and compared with what a caller relies on.                  *)
(***************************************************************************)
EXTENDS Pagination, BidIncrements, QueryDirectives, MyBids

CONSTANTS MaxItems,   \* the longest list that is paged through
          MaxFields   \* the largest document

VARIABLES job,        \* the function to apply and its input
          result      \* what it returned, nothing before that

vars == <<job, result>>

Nothing == <<>>

-----------------------------------------------------------------------------
(* Inputs.                                                                 *)

Sizes == 1 .. 3

Range1(n) == [i \in 1 .. n |-> i]

CursorJobs ==
  [kind : {"cursors"}, page : 1 .. MaxItems, size : Sizes, total : 0 .. MaxItems,
   max : 3 .. 6, cap : {0, 4}]

ConnectionJobs ==
  [kind : {"connection"}, total : {MaxItems},
   args : {ByPage(p, n) : p \in 1 .. MaxItems, n \in Sizes}
          \cup {Forward(n, after) : n \in Sizes, after \in -1 .. MaxItems - 1}
          \cup {Backward(n, before) : n \in Sizes, before \in 1 .. MaxItems}]

\* A list when it is counted and when the rest of its pages are read: one
\* item was put in or taken out.
Later(n) ==
  LET list == Range1(n)
  IN  {list} \cup {InsertAt(list, i, 0) : i \in 1 .. n + 1}
      \cup {RemoveAt(list, i) : i \in 1 .. n}

AllJobs ==
  UNION {[kind : {"all"}, counted : {Range1(n)}, later : Later(n),
          early : SUBSET (1 .. Ceil(n, size)), size : {size}] :
         n \in 0 .. 6, size \in Sizes}

IncrementJobs ==
  [kind : {"increments"}, minimum : 0 .. 12, limit : {12, 20}, count : {3, 100},
   tiers : {<<Tier(a, x), Tier(a + b, y), Tier(a + b + c, z)>> :
              a \in 1 .. 4, b \in 2 .. 4, c \in {3}, x \in 1 .. 3, y \in 1 .. 3, z \in {2, 4}}]

\* Documents: fields in the order of the visit, none deeper than one below the last.
Documents ==
  UNION {{d \in [1 .. n -> [depth : 1 .. 3, name : {"a", "b"}, tagged : BOOLEAN]] :
            /\ d[1].depth = 1
            /\ \A i \in 2 .. n : d[i].depth <= d[i - 1].depth + 1} :
         n \in 1 .. MaxFields}

DirectiveJobs == [kind : {"directives"}, doc : Documents]

Lots == 1 .. 3
Sales == 1 .. 2

\* Lists without repetition, up to one more than the caps let pass.
ListsOf(S) == {s \in BoundedSeq(S, 3) : IsInjective(s)}

\* Lot 1 may have a standing with both services.
BidJobs ==
  [kind : {"bids"},
   in : [standings : ListsOf(Lots), unsynced : {<<>>, <<1>>}, registered : {<<>>, <<1>>},
         watched : {<<>>, <<1>>, <<3, 1>>, <<2, 3, 1>>},
         saleOf : {<<1, 1, 2>>, <<1, 2, 2>>}, firstSale : {<<1, 1, 2>>, <<2, 2, 2>>},
         listed : {Lots, {2, 3}}, closed : {{}, {1}, {1, 2}}, found : {Sales, {1}},
         endAt : {<<1, 2>>, <<2, 1>>}, position : {<<3, 2, 1>>}]]

Jobs == CursorJobs \cup ConnectionJobs \cup AllJobs \cup IncrementJobs \cup DirectiveJobs
        \cup BidJobs
-----------------------------------------------------------------------------
Init == job \in Jobs /\ result = Nothing

Does(kind) == job.kind = kind /\ result = Nothing /\ UNCHANGED job

Paging ==
  /\ Does("cursors")
  /\ result' = <<CreatePageCursors(job.page, job.size, job.total, job.max, job.cap)>>

Connecting ==
  /\ Does("connection")
  /\ result' = <<PageOf(Range1(job.total), ConvertConnectionArgs(job.args))>>

ReadingAll ==
  /\ Does("all")
  /\ result' = <<AllViaLoader(job.counted, job.later, job.early, job.size)>>

Pricing ==
  /\ Does("increments")
  /\ result' = <<BidIncrements(job.minimum, job.tiers, job.limit, job.count)>>

Visiting ==
  /\ Does("directives")
  /\ result' = <<[optional |-> GetOptionalFieldsDirectivePaths(job.doc),
                  principal |-> GetPrincipalFieldDirectivePath(job.doc)]>>

Bidding == Does("bids") /\ result' = <<ResolveMyBids(job.in)>>

Next == Paging \/ Connecting \/ ReadingAll \/ Pricing \/ Visiting \/ Bidding

Spec == Init /\ [][Next]_vars

Returned(kind) == job.kind = kind /\ result # Nothing
-----------------------------------------------------------------------------
(* Properties.                                                             *)

\* The pages a reader is offered: each leads to its own items when its cursor is
\* sent back, the current page is among them, the first and the last can be
\* reached, none twice, and there are no more than asked for.  The current page
\* is one of the list's.
Leads(p) ==
  LET list == Range1(job.total)
      params == ConvertConnectionArgs(Forward(job.size, PageToCursor(p, job.size)))
  IN  /\ params.page = p
      /\ PageOf(list, params) = Slice(list, (p - 1) * job.size, job.size)

\* createPageCursors and convertConnectionArgsToGravityArgs: a page number turned
\* into a cursor and back is the same page, at every edge of the window.
CursorsLeadToPages ==
  Returned("cursors") =>
    LET c == result[1]
        pages == ComputeTotalPages(job.total, job.size, job.cap)
        from == c.around[1]
        to == c.around[2]
        given == {c.first, c.last} \ {0}
        shown == from .. to
    IN  job.page <= Greatest(pages, 1) =>
          /\ {1, Greatest(pages, 1), job.page} \subseteq shown \cup given
          /\ job.page \in shown /\ shown \cap given = {}
          /\ to - from + 1 + Cardinality(given) <= Odd(job.max)
          /\ c.previous = IF job.page = 1 THEN 0 ELSE job.page - 1
          /\ \A p \in shown \cup given : p \in 1 .. Greatest(pages, 1) /\ Leads(p)

Occurrences(item, list) == Cardinality({i \in DOMAIN list : list[i] = item})

PageOfItem(item, list, size) ==
  IF ToSet(list) \cap {item} = {} THEN 0
  ELSE Ceil(CHOOSE i \in DOMAIN list : list[i] = item, size)

\* allViaLoader reads the count and then the pages while the list changes: an
\* item that stays on its page is returned once, in the order of the list; only
\* one that moved over the edge of a page is missed or repeated, and an untouched
\* list is returned as it is.
AllPagesRead ==
  Returned("all") =>
    LET all == result[1]
        page(item, list) == PageOfItem(item, list, job.size)
    IN  /\ job.later = job.counted => all = job.counted
        /\ \A item \in ToSet(job.counted) :
             page(item, job.counted) = page(item, job.later) => Occurrences(item, all) = 1
        /\ ToSet(all) \subseteq ToSet(job.counted) \cup ToSet(job.later)

\* The increment that holds at a price.
AmountAt(tiers, price) ==
  LET holds == {i \in DOMAIN tiers : price <= tiers[i].to}
  IN  IF holds = {} THEN tiers[Len(tiers)].amount
      ELSE tiers[CHOOSE i \in holds : \A j \in holds : i <= j].amount

\* No tier is jumped over.
Widths(tiers) == \A i \in 1 .. Len(tiers) - 1 : tiers[i + 1].to - tiers[i].to >= tiers[i].amount

\* The asking price, and then the regular prices above it, none left out, to the
\* limit or as many as may be listed.
OnGrid(prices, minimum, tiers, limit, count) ==
  LET regular[n \in Nat] == IF n = 0 THEN 0
                            ELSE LET below == regular[n - 1] IN below + AmountAt(tiers, below)
      first == CHOOSE n \in 1 .. minimum + 1 : regular[n - 1] <= minimum /\ minimum < regular[n]
  IN  /\ prices # <<>> /\ prices[1] = minimum
      /\ \A k \in 2 .. Len(prices) : prices[k] = regular[first + k - 2] /\ prices[k] <= limit
      /\ Len(prices) <= count
      /\ Len(prices) < count => limit < regular[first + Len(prices) - 1]

\* bid_increments_calculator: the list is the asking price and then the regular
\* prices above it, each raised by the increment of the tier its predecessor is
\* in, up to the limit or as many as may be listed.
IncrementsAreOnGrid ==
  Returned("increments") /\ Widths(job.tiers) =>
    OnGrid(result[1], job.minimum, job.tiers, job.limit, job.count)

\* The fields from the i-th up to its root.
AncestorsOrSelf(doc, i) ==
  {j \in 1 .. i : \A k \in j + 1 .. i : doc[k].depth > doc[j].depth}

\* The names of fields from the root down.
Names(doc, fields) == [k \in 1 .. Cardinality(fields) |-> doc[Increasing(fields)[k]].name]

Tags(doc) == Increasing({i \in DOMAIN doc : doc[i].tagged})

\* The fields of the m-th tag's path that were entered before the tag before it.
Forgotten(doc, m) ==
  IF m = 1 THEN {} ELSE {j \in AncestorsOrSelf(doc, Tags(doc)[m]) : j <= Tags(doc)[m - 1]}

\* Where fields are tagged, as two visitors tell.
Tagged(doc, optional, principal) ==
  /\ DOMAIN optional = DOMAIN Tags(doc)
  /\ \A m \in DOMAIN Tags(doc) :
       LET path == AncestorsOrSelf(doc, Tags(doc)[m])
       IN  /\ optional[m] = Names(doc, path \ Forgotten(doc, m))
           /\ optional[m] = Names(doc, path) <=> Forgotten(doc, m) = {}
  /\ principal = IF Tags(doc) = <<>> THEN <<>>
                 ELSE Names(doc, AncestorsOrSelf(doc, Tags(doc)[1]))

\* Exactly which paths the two visitors record.  The principal field has its full
\* path, wherever it is.  An optional field has "the full path to the fields
\* tagged with the directive", as getOptionalFieldsDirectivePath.test.ts:46 says,
\* exactly when no ancestor of it was already open at the tag before it;
\* otherwise the emptied array leaves only what was entered since that tag.
DirectivePaths ==
  Returned("directives") => Tagged(job.doc, result[1].optional, result[1].principal)

EntriesOf(sales) == UNION {{<<i, j>> : j \in DOMAIN sales[i].lots} : i \in DOMAIN sales}

\* Where a lot is shown.
Shown(lot, all) == {e \in EntriesOf(all) : all[e[1]].lots[e[2]].lot = lot}

\* The sales that the fetched lists name.
Named(in) ==
  {in.saleOf[l] : l \in ToSet(in.standings)} \cup ToSet(in.registered)
    \cup {in.firstSale[l] : l \in ToSet(in.watched)}

\* Every lot of the fetched lists once, in its sale, no other lot, and the sales by
\* their ends.
ShowsLots(in, bids) ==
  LET all == bids.active \o bids.closed
      bid == ToSet(in.standings) \cap in.listed
      watched == ToSet(in.watched) \ ToSet(in.standings)
  IN  /\ \A lot \in bid : Cardinality(Shown(lot, all)) = 1
      /\ \A lot \in watched :
           Cardinality(Shown(lot, all)) =
             IF in.saleOf[lot] \in Named(in) \ in.closed THEN 1 ELSE 0
      /\ \A lot \in bid \cup watched : \A e \in Shown(lot, all) :
           /\ all[e[1]].sale = in.saleOf[lot]
           /\ all[e[1]].lots[e[2]].isWatching = (lot \notin bid)
      /\ \A lot \in DOMAIN in.saleOf \ (bid \cup ToSet(in.watched)) :
           Cardinality(Shown(lot, all)) = 0
      /\ \A list \in {bids.active, bids.closed} : \A i, j \in DOMAIN list :
           i < j => /\ in.endAt[list[i].sale] <= in.endAt[list[j].sale]
                    /\ list[i].sale # list[j].sale

\* All of that, or nothing: one sale that cannot be read fails the whole field.
ShowsAllOrNothing(in, answer) ==
  LET fetched == AsFetched(in)
  IN  IF Named(fetched) \subseteq in.found
      THEN answer # <<>> /\ ShowsLots(fetched, answer[1])
      ELSE answer = <<>>

\* MyBids: of the lots that come with the fetched lists, one with a standing that
\* gravity still lists is shown exactly once, in its own sale and as bid upon,
\* open or closed; one only watched at most once, never in a closed sale, and it
\* is missing from an open one only when nothing else names the sale.  What the
\* caps cut off is not shown at all, and the field fails as a whole exactly when
\* a sale that some list names cannot be read.  Sales of one list are in the
\* order of their ends.
MyBidsHoldEveryLot == Returned("bids") => ShowsAllOrNothing(job.in, result[1])

\* paginationResolver: the items of a connection are those its arguments name.
ConnectionIsComplete ==
  Returned("connection") =>
    LET params == ConvertConnectionArgs(job.args)
    IN  result[1] = Slice(Range1(job.total), params.offset, params.size)
=============================================================================
