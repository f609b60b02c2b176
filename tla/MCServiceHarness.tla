-------------------------- MODULE MCServiceHarness --------------------------
(***************************************************************************)
(* Instances of ServiceHarness for TLC.                                    *)
(***************************************************************************)
EXTENDS ServiceHarness, TLC

CONSTANTS r1, r2, r3, k1, k2, k3, p1

\* Safety: r1 and r2 are two mutating requests of one key, r3 is read-only.
PairKeyOf == (r1 :> k1) @@ (r2 :> k1) @@ (r3 :> k2)

NoNested == [r \in Reqs |-> None]

\* Liveness: three keys, and r1's mediated call is a self call to mutating r2.
OwnKeyOf == (r1 :> k1) @@ (r2 :> k2) @@ (r3 :> k3)

SelfCall == [r \in Reqs |-> IF r = r1 THEN r2 ELSE None]
=============================================================================
