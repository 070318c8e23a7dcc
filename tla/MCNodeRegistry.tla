--------------------------- MODULE MCNodeRegistry ---------------------------
(***************************************************************************)
(* Instances of NodeRegistry for TLC.                                      *)
(***************************************************************************)
EXTENDS NodeRegistry, TLC

CONSTANTS p, q, i1, i2, k1, k2

\* One prefix or two: an administrator extends and narrows a grant.
MCLists == {<<p>>, <<p, q>>}

MCSymmetry == Permutations({i1, i2}) \cup Permutations({k1, k2})

=============================================================================
