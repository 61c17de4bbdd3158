--------------------------- MODULE MCCachedLoader ---------------------------
(***************************************************************************)
(* A small instance of CachedLoader: gravity's artwork loader, the same    *)
(* path asked for with headers and with a user's token, and the update of  *)
(* it.                                                                     *)
(***************************************************************************)
EXTENDS CachedLoader, TLC

CONSTANTS r1, r2, r3, force, eigen, artwork, artworkHeaders, myArtwork, updateArtwork, theArtwork, artworkPath

MCResourceOf == [l \in Loaders |-> theArtwork]
MCPathOf == [res \in Resources |-> artworkPath]
MCThrottle == [l \in Loaders |-> IF l = artworkHeaders THEN 2 ELSE 0]

\* The longest lifetime any loader gives.
MCLifetime ==
  [l \in Loaders |->
     CHOOSE n \in {Ttl(m) : m \in Loaders} : \A m \in Loaders : Ttl(m) <= n]

\* The first request comes from another application than the others.
MCAppToken == [r \in Requests |-> IF r = r1 THEN force ELSE eigen]

\* Signs of life of the services that a load with a token waits for, or none.
SignsWithToken == [c \in Requests \X Loaders |-> IF c[2] = myArtwork THEN 1 ELSE 0]
NoSigns == [c \in Requests \X Loaders |-> 0]

\* Queries only: the loads of a mutation request leave memcached alone.
QueryInit == Init /\ \A r \in Requests : ~isMutation[r]
QuerySpec == QueryInit /\ [][Next]_vars /\ Fairness

\* The safety properties treat two requests alike, with their tokens.
RequestSymmetry ==
  {p \in Permutations({r1, r2, force, eigen}) :
     p[r1] \in Requests /\ (p[r1] = r1 <=> p[force] = force)}
=============================================================================
