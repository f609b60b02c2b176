------------------------- MODULE MCLocalReleaseStore -------------------------
(***************************************************************************)
(* Instances of LocalReleaseStore for TLC: one plugin version that pins    *)
(* the sidecar bytes s1, and two candidates for the sidecar version.       *)
(***************************************************************************)
EXTENDS LocalReleaseStore, TLC

CONSTANTS p1, p2, p3, rd, plugin, sidecar, a1, s1, s2

TheKeyOf == (a1 :> plugin) @@ (s1 :> sidecar) @@ (s2 :> sidecar)

ThePins == (a1 :> {s1}) @@ (s1 :> {}) @@ (s2 :> {})

TheRank == (plugin :> 1) @@ (sidecar :> 2)

PublisherSymmetry == Permutations(Publishers)
=============================================================================
