-------------------------------- MODULE MCMas --------------------------------
(***************************************************************************)
(* Small instances of MAS sessions and of their revertible writes.         *)
(***************************************************************************)
EXTENDS MasEffects, TLC

CONSTANTS p1, p2, a, b, x, y, r1, r2

\* Paths, contents and results are only compared with each other.
Interchangeable ==
    Permutations({a, b}) \cup Permutations({x, y}) \cup Permutations({r1, r2})
=============================================================================
