------------------------ MODULE MCSaleArtworkLoader ------------------------
(***************************************************************************)
(* Two sales; the first artwork is in both, the second in one, and the     *)
(* first is also looked up by its slug.                                    *)
(***************************************************************************)
EXTENDS SaleArtworkLoader

CONSTANTS a, b, aSlug, s, t

MCLots == {<<a, s>>, <<a, t>>, <<b, s>>}
MCSlugOf == [x \in {aSlug} |-> a]
=============================================================================
