---------------------------- MODULE MCRecommendations ----------------------------
(***************************************************************************)
(* Small instances of the recommendation cache for TLC.                    *)
(***************************************************************************)
EXTENDS Recommendations, TLC

CONSTANTS ann, j1, j2, r1, r2

Symmetry == Permutations(Request)
=============================================================================
