---------------------------- MODULE BidIncrements ----------------------------
(***************************************************************************)
(* The prices a bidder may choose from: bid_increments_calculator of       *)
(* src/src/schema/v2/sale_artwork.ts.                                      *)
(*                                                                         *)
(* A tier gives the increment of the prices up to its upper end; the last  *)
(* tier holds for all prices beyond.  current climbs from zero, dropping   *)
(* one tier at a time as it passes the tier's end.                         *)
(***************************************************************************)
EXTENDS Integers, Sequences

Tier(to, amount) == [to |-> to, amount |-> amount]

\* The condition of the loop.
Continues(s, limit, count) == Len(s.increments) < count /\ s.current <= limit

\* Mutant: the tier is dropped at its end already.
AdvanceAtEnd(s, minimum) ==
  LET next == s.current + s.tiers[1].amount
  IN  [increments |-> IF s.current > minimum THEN Append(s.increments, s.current)
                      ELSE s.increments,
       current |-> next,
       tiers |-> IF next >= s.tiers[1].to /\ Len(s.tiers) > 1 THEN Tail(s.tiers) ELSE s.tiers]

\* The body of the loop.
Advance(s, minimum) ==
  LET next == s.current + s.tiers[1].amount
  IN  [increments |-> IF s.current > minimum THEN Append(s.increments, s.current)
                      ELSE s.increments,
       current |-> next,
       tiers |-> IF next > s.tiers[1].to /\ Len(s.tiers) > 1 THEN Tail(s.tiers) ELSE s.tiers]

\* The loop; current grows by at least one, so that limit + 1 rounds do.
BidIncrements(minimum, tiers, limit, count) ==
  LET round[n \in Nat] ==
        IF n = 0 THEN [increments |-> <<minimum>>, current |-> 0, tiers |-> tiers]
        ELSE LET s == round[n - 1]
             IN  IF Continues(s, limit, count) THEN Advance(s, minimum) ELSE s
  IN  round[limit + 1].increments
=============================================================================
