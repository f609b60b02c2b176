--------------------------- MODULE MCNodeCandidate ---------------------------
(***************************************************************************)
(* An instance of NodeCandidate for TLC: a commit whose committed bundle   *)
(* was built with the bytes a, one that holds a local dependency, and one  *)
(* whose workspace overrides the dependency already.                       *)
(***************************************************************************)
EXTENDS NodeCandidate

CONSTANTS a, b, dep, g1, g2

Commit(source, metadata) ==
    [source |-> source, bundle |-> Bundle(source, a), needs |-> dep, metadata |-> metadata]

AllCommits == {Commit(1, "plain"), Commit(2, "local"), Commit(2, "overridden")}

AllGenerated == {{"bundle"}, {"bundle", "extra"}, {"source", "bundle"}, {"bundle", "package.json"}}
=============================================================================
