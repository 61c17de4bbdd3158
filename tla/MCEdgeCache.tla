----------------------------- MODULE MCEdgeCache -----------------------------
(***************************************************************************)
(* Two requests at a time.  Clients ask for the home query with every way  *)
(* to state an age, with no-cache and with an access token, and for        *)
(* another query with the default age.                                     *)
(***************************************************************************)
EXTENDS EdgeCache, TLC

CONSTANTS r1, r2, home, artist, ada

Plain(body, age) ==
  [body |-> body, user |-> Anonymous, post |-> TRUE, noCache |-> FALSE, maxAge |-> age]

MCAsks ==
  {Plain(home, age) : age \in Ages \cup {NoAge}} \cup
  {Plain(artist, NoAge),
   [Plain(home, NoAge) EXCEPT !.user = ada],
   [Plain(home, NoAge) EXCEPT !.noCache = TRUE]}

RequestSymmetry == Permutations({r1, r2})
=============================================================================
