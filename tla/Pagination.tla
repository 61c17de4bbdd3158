----------------------------- MODULE Pagination -----------------------------
(***************************************************************************)
(* Lists in pages: the page cursors of src/src/schema/v2/fields/           *)
(* pagination.ts, the arguments of src/src/lib/helpers.ts that ask gravity *)
(* for a page, and src/src/lib/all.ts, which reads every page.             *)
(*                                                                         *)
(* A cursor stands for an offset; 0 stands for a page that is not given,   *)
(* and around is the first and the last page of a run of pages.            *)
(***************************************************************************)
EXTENDS Integers, Sequences

Ceil(a, b) == (a + b - 1) \div b

\* Math.round of a / b, halves upwards.
Round(a, b) == (2 * a + b) \div (2 * b)

Least(a, b) == IF a < b THEN a ELSE b

Greatest(a, b) == IF a > b THEN a ELSE b

-----------------------------------------------------------------------------
(* Page cursors.                                                           *)

\* No cap is 0.
ComputeTotalPages(total, size, cap) ==
  IF cap = 0 THEN Ceil(total, size) ELSE Least(Ceil(total, size), cap)

PageToCursor(page, size) == (page - 1) * size - 1

Odd(max) == IF max % 2 = 0 THEN max + 1 ELSE max

Cursors(first, from, to, last) ==
  [first |-> first, around |-> <<from, to>>, last |-> last]

\* Mutant: the window near the end starts one page too late.
AroundPagesLate(page, pages, max) ==
  IF pages = 0 THEN Cursors(0, 1, 1, 0)
  ELSE IF pages <= max THEN Cursors(0, 1, pages, 0)
  ELSE IF page <= max \div 2 + 1 THEN Cursors(0, 1, max - 1, pages)
  ELSE IF page >= pages - max \div 2 THEN Cursors(1, pages - max + 4, pages, 0)
  ELSE Cursors(1, page - (max - 3) \div 2, page + (max - 3) \div 2, pages)

AroundPages(page, pages, max) ==
  IF pages = 0 THEN Cursors(0, 1, 1, 0)
  ELSE IF pages <= max THEN Cursors(0, 1, pages, 0)
  ELSE IF page <= max \div 2 + 1 THEN Cursors(0, 1, max - 1, pages)
  ELSE IF page >= pages - max \div 2 THEN Cursors(1, pages - max + 2, pages, 0)
  ELSE Cursors(1, page - (max - 3) \div 2, page + (max - 3) \div 2, pages)

Previous(page, pages) == IF page > 1 /\ pages > 1 THEN page - 1 ELSE 0

CreatePageCursors(page, size, total, max, cap) ==
  LET pages == ComputeTotalPages(total, size, cap)
      cursors == AroundPages(page, pages, Odd(max))
  IN  [first |-> cursors.first, around |-> cursors.around, last |-> cursors.last,
       previous |-> Previous(page, pages)]

-----------------------------------------------------------------------------
(* Connection arguments: a page and a size, the first items after an       *)
(* offset (-1 for none), or the last before one.                           *)

ByPage(page, size) == [kind |-> "page", page |-> page, size |-> size]
Forward(first, after) == [kind |-> "forward", first |-> first, after |-> after]
Backward(last, before) == [kind |-> "backward", last |-> last, before |-> before]

\* getPagingParameters of relay-cursor-paging.
PagingParameters(args) ==
  IF args.kind = "forward" THEN [limit |-> args.first, offset |-> args.after + 1]
  ELSE [limit |-> Least(args.last, args.before),
        offset |-> Greatest(args.before - args.last, 0)]

ConvertConnectionArgs(args) ==
  IF args.kind = "page"
  THEN [size |-> args.size, page |-> args.page, offset |-> (args.page - 1) * args.size]
  ELSE LET p == PagingParameters(args)
       IN  [size |-> p.limit, offset |-> p.offset,
            page |-> IF p.limit = 0 THEN 1 ELSE Round(p.limit + p.offset, p.limit)]

\* The part of a list from an offset.
Slice(list, offset, size) == SubSeq(list, offset + 1, Least(offset + size, Len(list)))

\* What gravity has on the page, which takes precedence over the offset.
PageOf(list, params) == Slice(list, (params.page - 1) * params.size, params.size)

-----------------------------------------------------------------------------
(* allViaLoader: the total, then all pages together.                       *)

\* The pages of `early` are read from the list as it was when it was counted,
\* the others from the list as it is then.
PageRead(counted, later, early, size, page) ==
  Slice(IF page \in early THEN counted ELSE later, (page - 1) * size, size)

\* Mutant: pages are counted from zero.
AllViaLoaderFromZero(counted, later, early, size) ==
  LET upTo[n \in Nat] ==
        IF n = 0 THEN <<>>
        ELSE upTo[n - 1] \o PageRead(counted, later, early, size, Greatest(n - 1, 1))
  IN  upTo[Ceil(Len(counted), size)]

AllViaLoader(counted, later, early, size) ==
  LET upTo[n \in Nat] ==
        IF n = 0 THEN <<>>
        ELSE upTo[n - 1] \o PageRead(counted, later, early, size, n)
  IN  upTo[Ceil(Len(counted), size)]
=============================================================================
