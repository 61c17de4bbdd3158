------------------------------- MODULE MyBids -------------------------------
(***************************************************************************)
(* The auctions of a bidder: MyBids of src/src/schema/v2/me/myBids.ts.     *)
(*                                                                         *)
(* Lots come from three lists, standings (bids), registered sales and      *)
(* watched lots, and sales are named by id in two of them and by slug in   *)
(* the third.  An input record has                                         *)
(*   standings   the lots causality has standings of                       *)
(*   unsynced    the lots whose standings only gravity knows               *)
(*   registered  the sales the bidder is registered in                     *)
(*   watched     the watched lots                                          *)
(*   saleOf      the sale of each lot                                      *)
(*   firstSale   the first sale of each lot's artwork, one that is not     *)
(*               found if its list of sales is empty                       *)
(*   found       the sales that saleLoader and saleArtworksLoader can read *)
(*   listed      the lots gravity returns when asked for by id             *)
(*   closed      the closed sales                                          *)
(*   endAt       when a sale ends                                          *)
(*   position    the position of each lot in its sale                      *)
(***************************************************************************)
EXTENDS Integers, Sequences, SequencesExt

CONSTANTS FetchCount,     \* how much of a list is asked for
          CausalityCap    \* how many standings causality returns at most

ASSUME CapsAssumption == FetchCount \in Nat /\ CausalityCap \in Nat

\* The elements of S one after the other, as before orders them.
Enumeration(S, before) ==
  CHOOSE e \in [1 .. Cardinality(S) -> S] :
    \A a, b \in 1 .. Cardinality(S) : a < b => <<e[a], e[b]>> \in before

Increasing(I) == Enumeration(I, {p \in I \X I : p[1] < p[2]})

\* The elements of s at the positions I, in their order.
InOrder(s, I) == [k \in 1 .. Cardinality(I) |-> s[Increasing(I)[k]]]

\* Array.filter.
Filter(s, test(_)) == InOrder(s, {i \in DOMAIN s : test(s[i])})

\* _.uniq: the first of equal elements.
Uniq(s) == InOrder(s, {i \in DOMAIN s : \A j \in 1 .. i - 1 : s[j] # s[i]})

\* _.sortBy: stable, by a key of each element.
SortBy(s, key(_)) ==
  LET before == {p \in (DOMAIN s) \X (DOMAIN s) :
                   \/ key(s[p[1]]) < key(s[p[2]])
                   \/ key(s[p[1]]) = key(s[p[2]]) /\ p[1] < p[2]}
  IN  [i \in DOMAIN s |-> s[Enumeration(DOMAIN s, before)[i]]]

Map(s, op(_)) == [i \in DOMAIN s |-> op(s[i])]

\* As much of a list as a service returns.
UpTo(s, cap) == SubSeq(s, 1, IF Len(s) < cap THEN Len(s) ELSE cap)

\* The lists as they come: both caps hold for causality's, none for gravity's
\* standings, and the latter are put behind the former.
AsFetched(in) ==
  [in EXCEPT !.standings = UpTo(UpTo(@, FetchCount), CausalityCap) \o in.unsynced,
             !.registered = UpTo(@, FetchCount),
             !.watched = UpTo(@, FetchCount)]

ById(sale) == [name |-> "id", sale |-> sale]
BySlug(sale) == [name |-> "slug", sale |-> sale]

CombinedSaleIds(in) ==
  Uniq(Map(in.standings, LAMBDA lot : ById(in.saleOf[lot]))
       \o Map(in.registered, ById)
       \o Map(in.watched, LAMBDA lot : BySlug(in.firstSale[lot])))

\* Mutant: sales are not made unique again after they were fetched by id and slug.
CombinedSalesTwice(in) == Map(CombinedSaleIds(in), LAMBDA ref : ref.sale)

\* The sale of each id or slug, made unique by slug.
CombinedSales(in) == Uniq(Map(CombinedSaleIds(in), LAMBDA ref : ref.sale))

StandingsIn(in, sale) == Filter(in.standings, LAMBDA lot : in.saleOf[lot] = sale)

\* Gravity returns each lot once, however often its id is asked for.
BidUpon(in, sale) == Filter(Uniq(StandingsIn(in, sale)), LAMBDA lot : lot \in in.listed)

WatchedOnly(in, sale) ==
  Filter(in.watched, LAMBDA lot : in.saleOf[lot] = sale /\ ~Contains(BidUpon(in, sale), lot))

\* A lot with what the bidder has to do with it.
SaleArtwork(in, lot, isWatching) ==
  [lot |-> lot, isWatching |-> isWatching, lotState |-> Contains(in.standings, lot)]

FullyLoaded(in, sale) ==
  [sale |-> sale,
   lots |-> Map(WatchedOnly(in, sale), LAMBDA lot : SaleArtwork(in, lot, TRUE))
            \o Map(BidUpon(in, sale), LAMBDA lot : SaleArtwork(in, lot, FALSE))]

\* By end and position; closed sales keep only the lots with a standing.
SortSales(in, sales) ==
  LET ends == SortBy(sales, LAMBDA s : in.endAt[s.sale])
      placed == Map(ends, LAMBDA s : [s EXCEPT !.lots =
                                        SortBy(@, LAMBDA a : in.position[a.lot])])
      pruned(s) == [s EXCEPT !.lots = Filter(@, LAMBDA a : a.lotState)]
  IN  [active |-> Filter(placed, LAMBDA s : s.sale \notin in.closed),
       closed |-> Map(Filter(placed, LAMBDA s : s.sale \in in.closed), pruned)]

MyBidsOf(in) == SortSales(in, Map(CombinedSales(in), LAMBDA sale : FullyLoaded(in, sale)))

\* The resolver: one sale that cannot be read rejects the Promise.all and with it
\* the whole field.
ResolveMyBids(in) ==
  LET fetched == AsFetched(in)
  IN  IF \A ref \in ToSet(CombinedSaleIds(fetched)) : ref.sale \in in.found
      THEN <<MyBidsOf(fetched)>> ELSE <<>>
=============================================================================
