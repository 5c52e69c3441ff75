------------------------- MODULE MCWebProcessCache -------------------------
(* Instances of WebProcessCache for TLC. *)
EXTENDS WebProcessCache, TLC

CONSTANTS g1, g2, normal, private

MCOnePrivate == g1 :> private
MCBoth == g1 :> normal @@ g2 :> private

Symmetry == Permutations(Processes)
=============================================================================
