----------------------------- MODULE ReleaseGate -----------------------------
(***************************************************************************)
(* The owner gate of a plugin repository                                   *)
(* (release-template/verify-plugin-release.mjs): it runs the owner's own   *)
(* checks, builds the release twice from the working tree                  *)
(* (release-template/build-release.mjs), and moves one of two equal builds *)
(* to the addressed output (release-template/verified-release-output.mjs). *)
(* Gates may overlap and die; a developer edits the tree and checks out    *)
(* other commits; Component Tooling adds its receipt to the output.        *)
(*                                                                         *)
(* A release is what a builder makes of a tree: the commit it was told and *)
(* the bundle main.js it found there.  A bundle is what it was built from: *)
(* a source and the bytes of the one dependency that matters.              *)
(***************************************************************************)
EXTENDS Naturals

CONSTANTS
    Gates,       \* runs of the gate
    Commits,     \* [source, bundle, needs, metadata], needs the dependency
    Sources,     \* the sources an edit may leave
    Bytes,       \* the bytes a version of the dependency may be published as
    None,
    MaxMoves     \* bound: edits, checkouts and publications

VARIABLES
    head,        \* the commit checked out
    tree,        \* the files of the checkout
    published,   \* the dependencies the language registry has: needs -> bytes
    moves,
    gate,        \* run -> where it is, its commit and its first build
    output,      \* the addressed final output, or None
    told,        \* run -> how it ended, or None
    disturbed    \* history: the runs under which the checkout changed

checkout == <<head, tree, published, moves>>
gateVars == <<gate, output, told, disturbed>>

-----------------------------------------------------------------------------
(* The release builder.                                                    *)

Bundle(source, bytes) == [source |-> source, dep |-> bytes]

Files(c) == [source |-> c.source, bundle |-> c.bundle, extra |-> None]

\* Package metadata, lock and workspace settings without a local locator.
NoLocalDependencies(metadata) == metadata \notin {"local", "staged"}

Release(c, bundle) == [commit |-> c, bundle |-> bundle]

Bundles == [source : Sources, dep : Bytes]

Releases == [commit : Commits, bundle : Bundles]

Outputs == [base : Releases, receipt : {"none", "half", "whole"}]

ASSUME GateAssumption ==
    /\ \A c \in Commits : c.source \in Sources /\ c.bundle \in Bundles
    /\ None \notin Bytes \cup Commits \cup Releases \cup Outputs
    /\ MaxMoves \in Nat

-----------------------------------------------------------------------------
Idle == [pc |-> "idle", commit |-> None, first |-> None, state |-> None]

Running(g) == gate[g].pc \notin {"idle", "gone"}

GateInit ==
    /\ head \in Commits /\ tree = Files(head) /\ moves = 0
    /\ published = [d \in {c.needs : c \in Commits} |-> None]
    /\ gate = [g \in Gates |-> Idle] /\ told = [g \in Gates |-> None]
    /\ output = None /\ disturbed = {}

Goto(g, pc) == gate' = [gate EXCEPT ![g].pc = pc] /\ UNCHANGED told

\* The process ends with what it says of its release.
End(g, state, release) ==
    /\ gate' = [gate EXCEPT ![g] = [Idle EXCEPT !.pc = "gone"]]
    /\ told' = [told EXCEPT ![g] = [state |-> state, release |-> release]]

Fail(g) == End(g, "failed", None)

\* The owner's Makefile passes the commit it has checked out.
StartGate(g) ==
    /\ gate[g].pc = "idle"
    /\ gate' = [gate EXCEPT ![g].pc = "verify", ![g].commit = head]
    /\ UNCHANGED <<checkout, output, told, disturbed>>

\* make verify: installs, checks and rebuilds main.js in the tree, or fails.
MakeVerify(g) ==
    /\ gate[g].pc = "verify"
    /\ \/ /\ published[head.needs] # None
          /\ tree' = [tree EXCEPT !.bundle = Bundle(tree.source, published[head.needs])]
          /\ Goto(g, "first") \/ Fail(g)
       \/ UNCHANGED tree /\ Fail(g)
    /\ UNCHANGED <<head, published, moves, output, disturbed>>

\* The builder refuses a local dependency, and much that is the manifest's.
BuildFirst(g) ==
    /\ gate[g].pc = "first"
    /\ \/ /\ NoLocalDependencies(head.metadata)
          /\ gate' = [gate EXCEPT ![g].pc = "second",
                                  ![g].first = Release(gate[g].commit, tree.bundle)]
          /\ UNCHANGED told
       \/ Fail(g)
    /\ UNCHANGED <<checkout, output, disturbed>>

\* The second build, the comparison of the two, and the validators.
BuildSecond(g) ==
    /\ gate[g].pc = "second"
    /\ \/ /\ NoLocalDependencies(head.metadata)
          /\ gate[g].first = Release(gate[g].commit, tree.bundle)
          /\ Goto(g, "publish")
       \/ Fail(g)
    /\ UNCHANGED <<checkout, output, disturbed>>

-----------------------------------------------------------------------------
(* publishVerifiedCandidate: a test and a rename, or a comparison.         *)

TestOutput(g) ==
    /\ gate[g].pc = "publish"
    /\ Goto(g, IF output = None THEN "rename" ELSE "compare")
    /\ UNCHANGED <<checkout, output, disturbed>>

\* Defect: what is there is replaced.
RenameReplaces(g) ==
    /\ gate[g].pc = "rename"
    /\ output' = [base |-> gate[g].first, receipt |-> "none"]
    /\ gate' = [gate EXCEPT ![g].pc = "inspect", ![g].state = "published"]
    /\ UNCHANGED <<checkout, told, disturbed>>

\* A rename does not replace a directory that is not empty.
RenameOutput(g) ==
    /\ gate[g].pc = "rename"
    /\ IF output = None
       THEN /\ output' = [base |-> gate[g].first, receipt |-> "none"]
            /\ gate' = [gate EXCEPT ![g].pc = "inspect", ![g].state = "published"]
            /\ UNCHANGED told
       ELSE Fail(g) /\ UNCHANGED output
    /\ UNCHANGED <<checkout, disturbed>>

\* assertSameVerifiedReleaseBase.
CompareOutput(g) ==
    /\ gate[g].pc = "compare"
    /\ \/ output.receipt = "half" /\ Fail(g)
       \/ /\ output.receipt # "half" /\ output.base # gate[g].first
          /\ End(g, "conflict", gate[g].first)
       \/ /\ output.receipt # "half" /\ output.base = gate[g].first
          /\ gate' = [gate EXCEPT ![g].pc = "inspect", ![g].state = "unchanged"]
          /\ UNCHANGED told
    /\ UNCHANGED <<checkout, output, disturbed>>

\* The validators over the final output, a receipt included.
InspectOutput(g) ==
    /\ gate[g].pc = "inspect"
    /\ Goto(g, "drift") \/ (output.receipt = "half" /\ Fail(g))
    /\ UNCHANGED <<checkout, output, disturbed>>

\* Defect: the bundle in the tree is not compared with the commit.
CheckNoDrift(g) ==
    /\ gate[g].pc = "drift" /\ End(g, gate[g].state, gate[g].first)
    /\ UNCHANGED <<checkout, output, disturbed>>

\* git status of main.js, when the output is long in place.
CheckDrift(g) ==
    /\ gate[g].pc = "drift"
    /\ IF tree.bundle = head.bundle THEN End(g, gate[g].state, gate[g].first) ELSE Fail(g)
    /\ UNCHANGED <<checkout, output, disturbed>>

Kill(g) ==
    /\ Running(g)
    /\ gate' = [gate EXCEPT ![g] = [Idle EXCEPT !.pc = "gone"]]
    /\ UNCHANGED <<checkout, output, told, disturbed>>

GateStep(g) ==
    \/ StartGate(g) \/ MakeVerify(g) \/ BuildFirst(g) \/ BuildSecond(g)
    \/ TestOutput(g) \/ RenameOutput(g) \/ CompareOutput(g) \/ InspectOutput(g)
    \/ CheckDrift(g) \/ Kill(g)

-----------------------------------------------------------------------------
(* The surroundings of the gates.                                          *)

Disturb == disturbed' = disturbed \cup {g \in Gates : Running(g)}

Edit(s) ==
    /\ tree.source # s /\ tree' = [tree EXCEPT !.source = s]
    /\ Disturb /\ UNCHANGED <<head, published>>

Checkout(c) ==
    /\ head # c /\ head' = c /\ tree' = Files(c)
    /\ Disturb /\ UNCHANGED published

\* A registry gives a version of a package once.
PublishDependency(d, b) ==
    /\ published[d] = None /\ published' = [published EXCEPT ![d] = b]
    /\ UNCHANGED <<head, tree, disturbed>>

Developer ==
    /\ moves < MaxMoves /\ moves' = moves + 1
    /\ \/ \E s \in Sources : Edit(s)
       \/ \E c \in Commits : Checkout(c)
       \/ \E d \in DOMAIN published, b \in Bytes : PublishDependency(d, b)
    /\ UNCHANGED <<gate, output, told>>

\* Component Tooling writes its receipt, then names it in release.json.
Attest ==
    /\ output # None /\ output.receipt # "whole"
    /\ output' = [output EXCEPT !.receipt = IF @ = "none" THEN "half" ELSE "whole"]
    /\ UNCHANGED <<checkout, gate, told, disturbed>>

Untouched == \A g \in Gates : gate[g].pc = "idle"

-----------------------------------------------------------------------------
(* Properties                                                              *)

(* Gates that overlap, die and meet a receipt implement a write-once       *)
(* output: it is put in place once and whole, stays what it is, and a gate *)
(* that reports published, unchanged or a conflict says what is true       *)
(* (publishVerifiedCandidate tests and renames in two steps).              *)
OnceStore == INSTANCE WriteOnceStore WITH
    Publishers <- Gates, Keys <- {"output"}, Contents <- Releases,
    KeyOf <- [r \in Releases |-> "output"],
    shelf <- [k \in {"output"} |-> IF output = None THEN None ELSE output.base]

OutputIsWriteOnce == OnceStore!Spec

(* A gate that ends well under an untouched checkout leaves the commit's   *)
(* own bundle in the output, whatever other gates built, published or left *)
(* there: the tree may have been edited before it began                    *)
(* (verify-plugin-release.mjs compares main.js with HEAD last).            *)
OkIsCommitted ==
    \A g \in Gates \ disturbed :
        told[g] # None /\ told[g].release # None /\ told[g].state # "conflict"
            => output.base = Release(told[g].release.commit, told[g].release.commit.bundle)

=============================================================================
