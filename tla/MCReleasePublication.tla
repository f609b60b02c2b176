------------------------ MODULE MCReleasePublication ------------------------
(***************************************************************************)
(* Instances of ReleasePublication for TLC.  w1 and w2 publish the same    *)
(* build of commit c1, w3 one that differs in the second asset, and w4 a   *)
(* build of another commit.                                                *)
(***************************************************************************)
EXTENDS ReleasePublication, TLC

CONSTANTS w1, w2, w3, w4, c1, c2, x, y, z

TheCommitOf == [p \in Runs |-> IF p = w4 THEN c2 ELSE c1]

TheBundle == [p \in Runs |->
    CASE p \in {w1, w2} -> (1 :> x) @@ (2 :> x)
      [] p = w3 -> (1 :> x) @@ (2 :> y)
      [] p = w4 -> (1 :> x) @@ (2 :> z)]

RerunSymmetry == Permutations({w1, w2})
=============================================================================
