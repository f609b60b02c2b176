------------------------ MODULE NodeCandidate_proofs ------------------------
(***************************************************************************)
(* Proofs about NodeCandidate, for every set of gates and commits and any  *)
(* number of moves.  Of the gates, whatever candidates are built meanwhile:*)
(* the output is written once, and a gate that ends well leaves its        *)
(* commit's own bundle in it.  Of the candidates: their record is true.    *)
(***************************************************************************)
EXTENDS NodeCandidate, TLAPS

Trees == [source : Sources, bundle : Bundles, extra : {None}]

BuiltLabels == {"second", "publish", "rename", "compare", "inspect", "drift"}

GateLabels == {"idle", "gone", "verify", "first"} \cup BuiltLabels

GateRecords == [pc : GateLabels, commit : Commits \cup {None},
                first : Releases \cup {None}, state : {None, "published", "unchanged"}]

\* The checkout and the output have their types, and every gate its record.
GateTyped ==
    /\ head \in Commits /\ tree \in Trees
    /\ published \in [{c.needs : c \in Commits} -> Bytes \cup {None}]
    /\ output \in Outputs \cup {None}
    /\ gate \in [Gates -> GateRecords]
    /\ told \in [Gates ->
          [state : {"failed", "conflict", "published", "unchanged"},
           release : Releases \cup {None}] \cup {None}]
    /\ disturbed \subseteq Gates

\* A gate that has built holds its build; one past the rename holds what is in
\* the output; one that has spoken is gone.
Carried(g) ==
    /\ gate[g].pc \notin {"idle", "gone"} => gate[g].commit \in Commits
    /\ gate[g].pc \in BuiltLabels => gate[g].first \in Releases
    /\ gate[g].pc \in {"compare", "inspect", "drift"} => output # None
    /\ gate[g].pc \in {"inspect", "drift"} =>
          output.base = gate[g].first /\ gate[g].state \in {"published", "unchanged"}
    /\ told[g] # None => gate[g].pc = "gone"

\* What the tree's bundle is once a gate of the untouched checkout has run its
\* checks, whichever gate ran them last.
Rebuilt ==
    /\ published[head.needs] # None
    /\ tree.bundle = Bundle(tree.source, published[head.needs])

\* Under an untouched checkout the tree stays what a gate made of it.
Steady(g) ==
    /\ Running(g) => gate[g].commit = head
    /\ gate[g].pc \in {"first"} \cup BuiltLabels => Rebuilt
    /\ gate[g].pc \in BuiltLabels => gate[g].first = Release(head, tree.bundle)

\* A success that was told is in the output, and there it stays.
Kept(g) ==
    told[g] # None /\ told[g].release # None /\ told[g].state # "conflict"
        => /\ output # None
           /\ output.base = Release(told[g].release.commit, told[g].release.commit.bundle)

GateInv ==
    /\ GateTyped
    /\ \A g \in Gates : Carried(g)
    /\ \A g \in Gates \ disturbed : Steady(g) /\ Kept(g)

-----------------------------------------------------------------------------
LEMMA InitInv == ASSUME Init PROVE GateInv
  <1> USE DEF Init, GateInit, Idle
  <1>1. GateTyped
    BY GateAssumption DEF GateTyped, Trees, Files, GateRecords, GateLabels
  <1>2. \A g \in Gates : Carried(g)
    BY DEF Carried, BuiltLabels
  <1>3. \A g \in Gates : Steady(g) /\ Kept(g)
    BY DEF Steady, Kept, Running, BuiltLabels
  <1> QED BY <1>1, <1>2, <1>3 DEF GateInv

\* What a step of one gate leaves of the others.
Undone(h) ==
    /\ gate'[h] = gate[h] /\ told'[h] = told[h]
    /\ UNCHANGED <<head, published, disturbed>>
    /\ Rebuilt => tree' = tree
    /\ output # None => output' # None /\ output'.base = output.base

LEMMA UndoneKeeps ==
    ASSUME GateInv, NEW h \in Gates, Undone(h)
    PROVE  Carried(h)' /\ (h \notin disturbed' => Steady(h)' /\ Kept(h)')
  <1>1. Carried(h)'
    BY DEF GateInv, Carried, Undone
  <1>2. ASSUME h \notin disturbed' PROVE Steady(h)' /\ Kept(h)'
    <2>1. Steady(h) /\ Kept(h)
      BY <1>2 DEF GateInv, Undone
    <2>2. Steady(h)'
      <3>1. CASE Rebuilt
        BY <2>1, <3>1 DEF Steady, Undone, Running, Rebuilt
      <3>2. CASE ~Rebuilt
        BY <2>1, <3>2 DEF Steady, Undone, Running
      <3> QED BY <3>1, <3>2
    <2>3. Kept(h)'
      BY <2>1 DEF Kept, Undone
    <2> QED BY <2>2, <2>3
  <1> QED BY <1>1, <1>2

\* A step of gate g is judged by what it does to g.
LEMMA OwnStep ==
    ASSUME GateInv, NEW g \in Gates, \A h \in Gates \ {g} : Undone(h),
           GateTyped', Carried(g)', g \notin disturbed' => Steady(g)' /\ Kept(g)'
    PROVE  GateInv'
  <1>1. \A h \in Gates \ {g} : Carried(h)' /\ (h \notin disturbed' => Steady(h)' /\ Kept(h)')
    BY UndoneKeeps
  <1> QED BY <1>1 DEF GateInv

\* Gate g speaks and is gone.
LEMMA EndKeeps ==
    ASSUME GateInv, NEW g \in Gates, UNCHANGED <<head, published, output, disturbed>>,
           Rebuilt => tree' = tree, tree' \in Trees,
           NEW state \in {"failed", "conflict", "published", "unchanged"},
           NEW release \in Releases \cup {None}, End(g, state, release),
           g \notin disturbed /\ release # None /\ state # "conflict"
              => /\ output # None
                 /\ output.base = Release(release.commit, release.commit.bundle)
    PROVE  GateInv'
  <1>1. GateTyped
    BY DEF GateInv
  <1>2. \A h \in Gates \ {g} : Undone(h)
    BY <1>1 DEF End, GateTyped, Undone
  <1>3. /\ gate'[g] = [pc |-> "gone", commit |-> None, first |-> None, state |-> None]
        /\ told'[g] = [state |-> state, release |-> release]
    BY <1>1 DEF End, GateTyped, Idle
  <1>4. gate'[g] \in GateRecords
    BY <1>3 DEF GateRecords, GateLabels
  <1>5. GateTyped'
    BY <1>1, <1>3, <1>4 DEF GateTyped, End, Idle
  <1>6. Carried(g)' /\ Steady(g)'
    BY <1>3 DEF Carried, Steady, Running, BuiltLabels
  <1>7. g \notin disturbed' => Kept(g)'
    BY <1>3 DEF Kept
  <1> QED BY <1>2, <1>5, <1>6, <1>7, OwnStep

LEMMA FailKeeps ==
    ASSUME GateInv, NEW g \in Gates, UNCHANGED <<head, published, output, disturbed>>,
           Rebuilt => tree' = tree, tree' \in Trees, Fail(g)
    PROVE  GateInv'
  BY EndKeeps DEF Fail

\* A gate that goes on to pc without a word.
LEMMA GotoKeeps ==
    ASSUME GateInv, NEW g \in Gates, UNCHANGED <<checkout, output, disturbed, told>>,
           NEW pc \in {"publish", "rename", "compare", "drift"},
           gate' = [gate EXCEPT ![g].pc = pc],
           gate[g].pc \in BuiltLabels,
           pc = "compare" => output # None,
           pc = "drift" => gate[g].pc = "inspect"
    PROVE  GateInv'
  <1>1. GateTyped /\ Carried(g) /\ (g \notin disturbed => Steady(g) /\ Kept(g))
    BY DEF GateInv
  <1>2. \A h \in Gates \ {g} : Undone(h)
    BY <1>1 DEF GateTyped, Undone, checkout
  <1>3. gate'[g] = [gate[g] EXCEPT !.pc = pc] /\ gate[g] \in GateRecords
    BY <1>1 DEF GateTyped
  <1>4. gate'[g] \in GateRecords /\ gate'[g].pc = pc /\ gate'[g].commit = gate[g].commit
        /\ gate'[g].first = gate[g].first /\ gate'[g].state = gate[g].state
    BY <1>3 DEF GateRecords, GateLabels, BuiltLabels
  <1>5. GateTyped'
    BY <1>1, <1>4 DEF GateTyped, checkout
  <1>6. Carried(g)'
    BY <1>1, <1>4 DEF Carried, BuiltLabels
  <1>7. ASSUME g \notin disturbed' PROVE Steady(g)' /\ Kept(g)'
    <2>1. Steady(g)'
      BY <1>1, <1>4, <1>7 DEF Steady, Running, Rebuilt, BuiltLabels, checkout
    <2>2. Kept(g)'
      BY <1>1, <1>7 DEF Kept
    <2> QED BY <2>1, <2>2
  <1> QED BY <1>2, <1>5, <1>6, <1>7, OwnStep

-----------------------------------------------------------------------------
LEMMA StartGateKeeps ==
    ASSUME GateInv, NEW g \in Gates, StartGate(g)
    PROVE  GateInv'
  <1>1. GateTyped /\ Carried(g) /\ (g \notin disturbed => Kept(g)) /\ gate[g].pc = "idle"
    BY DEF GateInv, StartGate
  <1>2. /\ gate' = [gate EXCEPT ![g] = [gate[g] EXCEPT !.pc = "verify", !.commit = head]]
        /\ UNCHANGED <<checkout, output, told, disturbed>> /\ gate[g] \in GateRecords
    BY <1>1 DEF StartGate, GateTyped
  <1>3. \A h \in Gates \ {g} : Undone(h)
    BY <1>1, <1>2 DEF GateTyped, Undone, checkout
  <1>4. gate'[g] \in GateRecords /\ gate'[g].pc = "verify" /\ gate'[g].commit = head
    BY <1>1, <1>2 DEF GateTyped, GateRecords, GateLabels
  <1>5. GateTyped'
    BY <1>1, <1>2, <1>4 DEF GateTyped, checkout
  <1>6. Carried(g)'
    BY <1>1, <1>2, <1>4 DEF Carried, BuiltLabels, GateTyped
  <1>7. Steady(g)' /\ (g \notin disturbed' => Kept(g)')
    BY <1>1, <1>2, <1>4 DEF Steady, Kept, Running, BuiltLabels, checkout
  <1> QED BY <1>3, <1>5, <1>6, <1>7, OwnStep

\* The checks may change the bundle: to what it is, if a gate made it under the
\* same checkout.
LEMMA MakeVerifyKeeps ==
    ASSUME GateInv, NEW g \in Gates, MakeVerify(g)
    PROVE  GateInv'
  <1>1. GateTyped /\ Carried(g) /\ (g \notin disturbed => Steady(g) /\ Kept(g))
    BY DEF GateInv
  <1>2. gate[g].pc = "verify" /\ UNCHANGED <<head, published, output, disturbed>>
    BY DEF MakeVerify
  <1>3. CASE UNCHANGED tree /\ Fail(g)
    BY <1>1, <1>2, <1>3, FailKeeps DEF GateTyped
  <1>4. CASE /\ published[head.needs] # None
             /\ tree' = [tree EXCEPT !.bundle = Bundle(tree.source, published[head.needs])]
             /\ Goto(g, "first") \/ Fail(g)
    <2>1. Rebuilt => tree' = tree
      BY <1>1, <1>4 DEF Rebuilt, GateTyped, Trees
    <2>2. published[head.needs] \in Bytes
      BY <1>1, <1>4 DEF GateTyped
    <2>3. tree' \in Trees /\ tree'.bundle = Bundle(tree'.source, published[head.needs])
      BY <1>1, <1>4, <2>2 DEF GateTyped, Trees, Bundle, Bundles
    <2>4. CASE Fail(g)
      BY <1>2, <2>1, <2>3, <2>4, FailKeeps
    <2>5. CASE Goto(g, "first")
      <3>1. \A h \in Gates \ {g} : Undone(h)
        BY <1>1, <1>2, <2>1, <2>5 DEF Goto, GateTyped, Undone
      <3>2. gate'[g] = [gate[g] EXCEPT !.pc = "first"] /\ gate[g] \in GateRecords
            /\ told' = told
        BY <1>1, <2>5 DEF Goto, GateTyped
      <3>3. gate'[g] \in GateRecords /\ gate'[g].pc = "first"
            /\ gate'[g].commit = gate[g].commit
        BY <3>2 DEF GateRecords, GateLabels
      <3>4. GateTyped'
        BY <1>1, <1>2, <2>3, <2>5, <3>3 DEF GateTyped, Goto
      <3>5. Carried(g)'
        BY <1>1, <1>2, <3>2, <3>3 DEF Carried, BuiltLabels
      <3>6. Rebuilt'
        BY <1>2, <1>4, <2>3 DEF Rebuilt
      <3>7. g \notin disturbed' => Steady(g)' /\ Kept(g)'
        BY <1>1, <1>2, <3>2, <3>3, <3>6 DEF Steady, Kept, Running, BuiltLabels
      <3> QED BY <3>1, <3>4, <3>5, <3>7, OwnStep
    <2> QED BY <1>4, <2>4, <2>5
  <1> QED BY <1>3, <1>4 DEF MakeVerify

LEMMA BuildFirstKeeps ==
    ASSUME GateInv, NEW g \in Gates, BuildFirst(g)
    PROVE  GateInv'
  <1>1. GateTyped /\ Carried(g) /\ (g \notin disturbed => Steady(g) /\ Kept(g))
    BY DEF GateInv
  <1>2. gate[g].pc = "first" /\ UNCHANGED <<checkout, output, disturbed>>
    BY DEF BuildFirst
  <1>3. CASE Fail(g)
    BY <1>1, <1>2, <1>3, FailKeeps DEF GateTyped, checkout
  <1>4. CASE /\ gate' = [gate EXCEPT ![g].pc = "second",
                                     ![g].first = Release(gate[g].commit, tree.bundle)]
             /\ UNCHANGED told
    <2>1. \A h \in Gates \ {g} : Undone(h)
      BY <1>1, <1>2, <1>4 DEF GateTyped, Undone, checkout
    <2>2. gate[g].commit \in Commits /\ tree.bundle \in Bundles
      BY <1>1, <1>2 DEF Carried, GateTyped, Trees
    <2>3. Release(gate[g].commit, tree.bundle) \in Releases
      BY <2>2 DEF Release, Releases
    <2>4. gate[g] \in GateRecords /\ g \in DOMAIN gate
      BY <1>1 DEF GateTyped
    <2>5. /\ gate'[g] \in GateRecords /\ gate'[g].pc = "second"
          /\ gate'[g].commit = gate[g].commit
          /\ gate'[g].first = Release(gate[g].commit, tree.bundle)
      BY <1>4, <2>3, <2>4 DEF GateRecords, GateLabels, BuiltLabels
    <2>6. GateTyped'
      BY <1>1, <1>2, <1>4, <2>5 DEF GateTyped, checkout
    <2>7. Carried(g)'
      BY <1>1, <1>2, <1>4, <2>2, <2>3, <2>5 DEF Carried, BuiltLabels
    <2>8. g \notin disturbed' => Steady(g)' /\ Kept(g)'
      BY <1>1, <1>2, <1>4, <2>5 DEF Steady, Kept, Running, Rebuilt, BuiltLabels, checkout
    <2> QED BY <2>1, <2>6, <2>7, <2>8, OwnStep
  <1> QED BY <1>3, <1>4 DEF BuildFirst

LEMMA BuildSecondKeeps ==
    ASSUME GateInv, NEW g \in Gates, BuildSecond(g)
    PROVE  GateInv'
  <1>1. GateTyped
    BY DEF GateInv
  <1>2. gate[g].pc = "second" /\ UNCHANGED <<checkout, output, disturbed>>
    BY DEF BuildSecond
  <1>3. CASE Fail(g)
    BY <1>1, <1>2, <1>3, FailKeeps DEF GateTyped, checkout
  <1>4. CASE Goto(g, "publish")
    BY <1>2, <1>4, GotoKeeps DEF Goto, BuiltLabels
  <1> QED BY <1>3, <1>4 DEF BuildSecond

LEMMA TestOutputKeeps ==
    ASSUME GateInv, NEW g \in Gates, TestOutput(g)
    PROVE  GateInv'
  <1>1. gate[g].pc = "publish" /\ UNCHANGED <<checkout, output, disturbed>>
    BY DEF TestOutput
  <1>2. CASE output = None
    BY <1>1, <1>2, GotoKeeps DEF TestOutput, Goto, BuiltLabels
  <1>3. CASE output # None
    BY <1>1, <1>3, GotoKeeps DEF TestOutput, Goto, BuiltLabels
  <1> QED BY <1>2, <1>3

\* The one step that puts something in the output: it was empty, so no gate
\* relied on it.
LEMMA RenameOutputKeeps ==
    ASSUME GateInv, NEW g \in Gates, RenameOutput(g)
    PROVE  GateInv'
  <1>1. GateTyped /\ Carried(g) /\ (g \notin disturbed => Steady(g) /\ Kept(g))
    BY DEF GateInv
  <1>2. gate[g].pc = "rename" /\ UNCHANGED <<checkout, disturbed>>
    BY DEF RenameOutput
  <1>3. CASE output # None
    BY <1>1, <1>2, <1>3, FailKeeps DEF RenameOutput, GateTyped, checkout
  <1>4. CASE output = None
    <2>1. /\ output' = [base |-> gate[g].first, receipt |-> "none"]
          /\ gate' = [gate EXCEPT ![g].pc = "inspect", ![g].state = "published"]
          /\ UNCHANGED told
      BY <1>4 DEF RenameOutput
    <2>2. \A h \in Gates \ {g} : Undone(h)
      BY <1>1, <1>2, <1>4, <2>1 DEF GateTyped, Undone, checkout
    <2>3. gate[g].first \in Releases
      BY <1>1, <1>2 DEF Carried, BuiltLabels
    <2>4. output' \in Outputs /\ output' # None /\ output'.base = gate[g].first
      BY <2>1, <2>3, GateAssumption DEF Outputs
    <2>5. gate[g] \in GateRecords /\ g \in DOMAIN gate
      BY <1>1 DEF GateTyped
    <2>6. /\ gate'[g] \in GateRecords /\ gate'[g].pc = "inspect"
          /\ gate'[g].commit = gate[g].commit /\ gate'[g].first = gate[g].first
          /\ gate'[g].state = "published"
      BY <2>1, <2>5 DEF GateRecords, GateLabels, BuiltLabels
    <2>7. GateTyped'
      BY <1>1, <1>2, <2>1, <2>4, <2>6 DEF GateTyped, checkout
    <2>8. Carried(g)'
      BY <1>1, <1>2, <2>1, <2>3, <2>4, <2>6 DEF Carried, BuiltLabels
    <2>9. g \notin disturbed' => Steady(g)' /\ Kept(g)'
      BY <1>1, <1>2, <1>4, <2>1, <2>4, <2>6
         DEF Steady, Kept, Running, Rebuilt, BuiltLabels, checkout
    <2> QED BY <2>2, <2>7, <2>8, <2>9, OwnStep
  <1> QED BY <1>3, <1>4

LEMMA CompareOutputKeeps ==
    ASSUME GateInv, NEW g \in Gates, CompareOutput(g)
    PROVE  GateInv'
  <1>1. GateTyped /\ Carried(g) /\ (g \notin disturbed => Steady(g) /\ Kept(g))
    BY DEF GateInv
  <1>2. gate[g].pc = "compare" /\ UNCHANGED <<checkout, output, disturbed>>
    BY DEF CompareOutput
  <1>3. tree' = tree /\ tree' \in Trees /\ UNCHANGED <<head, published>>
    BY <1>1, <1>2 DEF GateTyped, checkout
  <1>4. CASE Fail(g)
    BY <1>2, <1>3, <1>4, FailKeeps
  <1>5. CASE End(g, "conflict", gate[g].first)
    <2>1. gate[g].first \in Releases
      BY <1>1, <1>2 DEF Carried, BuiltLabels
    <2> QED BY <1>2, <1>3, <1>5, <2>1, EndKeeps
  <1>6. CASE /\ output.base = gate[g].first
             /\ gate' = [gate EXCEPT ![g].pc = "inspect", ![g].state = "unchanged"]
             /\ UNCHANGED told
    <2>1. \A h \in Gates \ {g} : Undone(h)
      BY <1>1, <1>2, <1>3, <1>6 DEF GateTyped, Undone
    <2>2. gate[g] \in GateRecords /\ g \in DOMAIN gate
      BY <1>1 DEF GateTyped
    <2>3. /\ gate'[g] \in GateRecords /\ gate'[g].pc = "inspect"
          /\ gate'[g].commit = gate[g].commit /\ gate'[g].first = gate[g].first
          /\ gate'[g].state = "unchanged"
      BY <1>6, <2>2 DEF GateRecords, GateLabels, BuiltLabels
    <2>4. GateTyped'
      BY <1>1, <1>2, <1>6, <2>3 DEF GateTyped, checkout
    <2>5. Carried(g)'
      BY <1>1, <1>2, <1>6, <2>3 DEF Carried, BuiltLabels
    <2>6. g \notin disturbed' => Steady(g)' /\ Kept(g)'
      BY <1>1, <1>2, <1>6, <2>3 DEF Steady, Kept, Running, Rebuilt, BuiltLabels, checkout
    <2> QED BY <2>1, <2>4, <2>5, <2>6, OwnStep
  <1> QED BY <1>4, <1>5, <1>6 DEF CompareOutput

LEMMA InspectOutputKeeps ==
    ASSUME GateInv, NEW g \in Gates, InspectOutput(g)
    PROVE  GateInv'
  <1>1. GateTyped
    BY DEF GateInv
  <1>2. gate[g].pc = "inspect" /\ UNCHANGED <<checkout, output, disturbed>>
    BY DEF InspectOutput
  <1>3. CASE Fail(g)
    BY <1>1, <1>2, <1>3, FailKeeps DEF GateTyped, checkout
  <1>4. CASE Goto(g, "drift")
    BY <1>2, <1>4, GotoKeeps DEF Goto, BuiltLabels
  <1> QED BY <1>3, <1>4 DEF InspectOutput

\* The bundle that is compared last is the one the release was built from, if
\* nobody touched the checkout.
LEMMA CheckDriftKeeps ==
    ASSUME GateInv, NEW g \in Gates, CheckDrift(g)
    PROVE  GateInv'
  <1>1. GateTyped /\ Carried(g) /\ (g \notin disturbed => Steady(g) /\ Kept(g))
    BY DEF GateInv
  <1>2. gate[g].pc = "drift" /\ UNCHANGED <<checkout, output, disturbed>>
    BY DEF CheckDrift
  <1>3. tree' = tree /\ tree' \in Trees /\ UNCHANGED <<head, published>>
    BY <1>1, <1>2 DEF GateTyped, checkout
  <1>4. CASE Fail(g)
    BY <1>2, <1>3, <1>4, FailKeeps
  <1>5. CASE tree.bundle = head.bundle /\ End(g, gate[g].state, gate[g].first)
    <2>1. /\ gate[g].first \in Releases /\ gate[g].state \in {"published", "unchanged"}
          /\ output # None /\ output.base = gate[g].first
      BY <1>1, <1>2 DEF Carried, BuiltLabels
    <2>2. g \notin disturbed => gate[g].first = Release(head, head.bundle)
      BY <1>1, <1>2, <1>5 DEF Steady, BuiltLabels
    <2>3. g \notin disturbed =>
              output.base = Release(gate[g].first.commit, gate[g].first.commit.bundle)
      BY <2>1, <2>2 DEF Release
    <2> QED BY <1>2, <1>3, <1>5, <2>1, <2>3, EndKeeps
  <1> QED BY <1>4, <1>5 DEF CheckDrift

LEMMA KillKeeps ==
    ASSUME GateInv, NEW g \in Gates, Kill(g)
    PROVE  GateInv'
  <1>1. GateTyped /\ Carried(g) /\ (g \notin disturbed => Steady(g) /\ Kept(g))
    BY DEF GateInv
  <1>2. gate' = [gate EXCEPT ![g] = [Idle EXCEPT !.pc = "gone"]]
        /\ UNCHANGED <<checkout, output, told, disturbed>>
    BY DEF Kill
  <1>3. \A h \in Gates \ {g} : Undone(h)
    BY <1>1, <1>2 DEF GateTyped, Undone, checkout
  <1>4. gate'[g] = [pc |-> "gone", commit |-> None, first |-> None, state |-> None]
    BY <1>1, <1>2 DEF GateTyped, Idle
  <1>5. gate'[g] \in GateRecords
    BY <1>4 DEF GateRecords, GateLabels
  <1>6. GateTyped'
    BY <1>1, <1>2, <1>5 DEF GateTyped, checkout, Idle
  <1>7. Carried(g)' /\ Steady(g)'
    BY <1>4 DEF Carried, Steady, Running, BuiltLabels
  <1>8. g \notin disturbed' => Kept(g)'
    BY <1>1, <1>2 DEF Kept
  <1> QED BY <1>3, <1>6, <1>7, <1>8, OwnStep

LEMMA GateStepKeeps ==
    ASSUME GateInv, NEW g \in Gates, GateStep(g)
    PROVE  GateInv'
  BY StartGateKeeps, MakeVerifyKeeps, BuildFirstKeeps, BuildSecondKeeps, TestOutputKeeps,
     RenameOutputKeeps, CompareOutputKeeps, InspectOutputKeeps, CheckDriftKeeps, KillKeeps
     DEF GateStep

-----------------------------------------------------------------------------
\* A gate that runs while the developer moves is disturbed; one that spoke before
\* spoke of an output that stays.
LEMMA DeveloperKeeps ==
    ASSUME GateInv, Developer
    PROVE  GateInv'
  <1>1. GateTyped /\ UNCHANGED <<gate, output, told>>
    BY DEF GateInv, Developer
  <1>2. \A g \in Gates : Carried(g)'
    BY <1>1 DEF GateInv, Carried
  <1>3. CASE \/ \E s \in Sources : Edit(s)
             \/ \E c \in Commits : Checkout(c)
    <2>1. head' \in Commits /\ tree' \in Trees /\ published' = published /\ Disturb
      <3>1. CASE \E s \in Sources : Edit(s)
        BY <1>1, <3>1 DEF Edit, GateTyped, Trees
      <3>2. CASE \E c \in Commits : Checkout(c)
        BY <1>1, <3>2, GateAssumption DEF Checkout, GateTyped, Trees, Files
      <3> QED BY <1>3, <3>1, <3>2
    <2>2. GateTyped'
      BY <1>1, <2>1 DEF GateTyped, Disturb
    <2>3. \A g \in Gates \ disturbed' : g \notin disturbed /\ ~Running(g)
      BY <2>1 DEF Disturb
    <2>4. \A g \in Gates \ disturbed' : Steady(g)'
      BY <1>1, <2>3 DEF Steady, Running, BuiltLabels
    <2>5. \A g \in Gates \ disturbed' : Kept(g)'
      BY <1>1, <2>3 DEF GateInv, Kept
    <2> QED BY <1>2, <2>2, <2>4, <2>5 DEF GateInv
  <1>4. CASE \E d \in DOMAIN published, b \in Bytes : PublishDependency(d, b)
    <2>1. PICK d \in DOMAIN published, b \in Bytes : PublishDependency(d, b)
      BY <1>4
    <2>2. GateTyped'
      BY <1>1, <2>1 DEF PublishDependency, GateTyped
    <2>3. Rebuilt => Rebuilt'
      BY <1>1, <2>1, GateAssumption DEF PublishDependency, Rebuilt, GateTyped
    <2>4. UNCHANGED <<head, tree, disturbed>>
      BY <2>1 DEF PublishDependency
    <2>5. \A g \in Gates \ disturbed' : Steady(g) /\ Kept(g)
      BY <2>4 DEF GateInv
    <2>6. \A g \in Gates \ disturbed' : Steady(g)'
      BY <1>1, <2>3, <2>4, <2>5 DEF Steady, Running
    <2>7. \A g \in Gates \ disturbed' : Kept(g)'
      BY <1>1, <2>5 DEF Kept
    <2> QED BY <1>2, <2>2, <2>6, <2>7 DEF GateInv
  <1> QED BY <1>3, <1>4 DEF Developer

LEMMA AttestKeeps ==
    ASSUME GateInv, Attest
    PROVE  GateInv'
  <1>1. GateTyped /\ output # None /\ output \in Outputs
        /\ UNCHANGED <<checkout, gate, told, disturbed>>
    BY DEF GateInv, GateTyped, Attest
  <1>2. output' \in Outputs /\ output'.base = output.base /\ output' # None
    BY <1>1, GateAssumption DEF Attest, Outputs
  <1>3. GateTyped'
    BY <1>1, <1>2 DEF GateTyped, checkout
  <1>4. \A h \in Gates : Undone(h)
    BY <1>1, <1>2 DEF Undone, checkout
  <1> QED BY <1>3, <1>4, UndoneKeeps DEF GateInv

LEMMA StutterKeeps ==
    ASSUME GateInv, UNCHANGED <<checkout, gateVars>>
    PROVE  GateInv'
  <1>1. GateTyped'
    BY DEF GateInv, GateTyped, checkout, gateVars
  <1>2. \A h \in Gates : Undone(h)
    BY DEF Undone, checkout, gateVars
  <1> QED BY <1>1, <1>2, UndoneKeeps DEF GateInv

LEMMA StepKeeps ==
    ASSUME GateInv, [Next]_vars
    PROVE  GateInv'
  <1>1. CASE Next
    BY <1>1, DeveloperKeeps, AttestKeeps, GateStepKeeps, StutterKeeps DEF Next
  <1>2. CASE UNCHANGED vars
    BY <1>2, StutterKeeps DEF vars
  <1> QED BY <1>1, <1>2

\* What the runs check of the gates rests on GateInv.
THEOREM GatesInductive == Spec => []GateInv
  BY InitInv, StepKeeps, PTL DEF Spec

\* A gate that ends well under an untouched checkout leaves its commit's own
\* bundle in the output, whatever other gates and developers did before, between
\* and after (verify-plugin-release.mjs, release-template/build-release.mjs).
THEOREM OkGateIsCommitted == Spec => []OkIsCommitted
  <1>1. GateInv => OkIsCommitted
    BY DEF GateInv, Kept, OkIsCommitted
  <1> QED BY <1>1, GatesInductive, PTL

-----------------------------------------------------------------------------
\* What the output is to the promise.
Slot == [k \in {"output"} |-> IF output = None THEN None ELSE output.base]

KeyOfRelease == [r \in Releases |-> "output"]

\* A gate speaks, of no release or of one it says the truth about.
LEMMA TellsTruth ==
    ASSUME GateTyped, NEW g \in Gates, told[g] = None, output' = output,
           NEW state, NEW release, End(g, state, release),
           \/ state = "failed" /\ release = None
           \/ /\ state \in {"published", "unchanged"} /\ release \in Releases
              /\ output # None /\ output.base = release
           \/ /\ state = "conflict" /\ release \in Releases
              /\ output # None /\ output.base # release
    PROVE  OnceStore!Tell(g)
  <1>1. told' = [told EXCEPT ![g] = [state |-> state, release |-> release]]
    BY DEF End
  <1>2. Slot' = Slot
    BY DEF Slot
  <1>3. CASE state = "failed" /\ release = None
    BY <1>1, <1>2, <1>3 DEF OnceStore!Tell, OnceStore!Refusals, Slot
  <1>4. CASE state # "failed"
    <2>1. release \in Releases /\ output # None /\ output.base \in Releases
      BY <1>4 DEF GateTyped, Outputs
    <2>2. output.base # None
      BY <2>1, GateAssumption
    <2>3. KeyOfRelease[release] = "output" /\ Slot["output"] = output.base
      BY <2>1 DEF KeyOfRelease, Slot
    <2>4. OnceStore!TrueOf(state, release)
      BY <1>4, <2>1, <2>2, <2>3 DEF OnceStore!TrueOf, KeyOfRelease, Slot
    <2>5. state \in {"published", "unchanged", "conflict"}
      BY <1>4
    <2> QED BY <1>1, <1>2, <2>1, <2>4, <2>5 DEF OnceStore!Tell, Slot
  <1> QED BY <1>3, <1>4

\* A step of a gate puts its release into an empty output, speaks, or is no step
\* of the promise.
LEMMA GateStepIsOnce ==
    ASSUME GateInv, NEW g \in Gates, GateStep(g)
    PROVE  OnceStore!Next \/ UNCHANGED <<Slot, told>>
  <1>1. GateTyped /\ Carried(g)
    BY DEF GateInv
  <1>2. ASSUME output' = output, told' = told PROVE UNCHANGED <<Slot, told>>
    BY <1>2 DEF Slot
  <1>3. ASSUME gate[g].pc # "gone", output' = output, Fail(g) PROVE OnceStore!Next
    BY <1>1, <1>3, TellsTruth DEF Carried, Fail, OnceStore!Next
  <1>4. CASE StartGate(g) \/ MakeVerify(g) \/ BuildFirst(g) \/ BuildSecond(g)
             \/ TestOutput(g) \/ InspectOutput(g) \/ Kill(g)
    BY <1>2, <1>3, <1>4
       DEF StartGate, MakeVerify, BuildFirst, BuildSecond, TestOutput, InspectOutput, Kill, Goto
  <1>5. CASE RenameOutput(g)
    <2>1. CASE output # None
      BY <1>3, <1>5, <2>1 DEF RenameOutput
    <2>2. CASE output = None
      <3>1. gate[g].first \in Releases /\ output' = [base |-> gate[g].first, receipt |-> "none"]
            /\ told' = told
        BY <1>1, <1>5, <2>2 DEF RenameOutput, Carried, BuiltLabels
      <3>2. output' # None
        BY <3>1, GateAssumption DEF Outputs
      <3>3. Slot["output"] = None /\ KeyOfRelease[gate[g].first] = "output"
            /\ Slot' = [Slot EXCEPT !["output"] = gate[g].first]
        BY <2>2, <3>1, <3>2 DEF Slot, KeyOfRelease
      <3>4. OnceStore!Put(gate[g].first)
        BY <3>1, <3>3 DEF OnceStore!Put, Slot, KeyOfRelease
      <3> QED BY <3>1, <3>4 DEF OnceStore!Next
    <2> QED BY <2>1, <2>2
  <1>6. CASE CompareOutput(g)
    <2>1. gate[g].pc = "compare" /\ output # None /\ gate[g].first \in Releases
          /\ output' = output
      BY <1>1, <1>6 DEF CompareOutput, Carried, BuiltLabels
    <2>2. CASE Fail(g)
      BY <1>3, <2>1, <2>2
    <2>3. CASE output.base # gate[g].first /\ End(g, "conflict", gate[g].first)
      BY <1>1, <2>1, <2>3, TellsTruth DEF Carried, OnceStore!Next
    <2>4. CASE told' = told
      BY <1>2, <2>1, <2>4
    <2> QED BY <1>6, <2>2, <2>3, <2>4 DEF CompareOutput
  <1>7. CASE CheckDrift(g)
    <2>1. /\ gate[g].pc = "drift" /\ output # None /\ gate[g].first \in Releases
          /\ output.base = gate[g].first /\ gate[g].state \in {"published", "unchanged"}
          /\ output' = output
      BY <1>1, <1>7 DEF CheckDrift, Carried, BuiltLabels
    <2>2. CASE Fail(g)
      BY <1>3, <2>1, <2>2
    <2>3. CASE End(g, gate[g].state, gate[g].first)
      BY <1>1, <2>1, <2>3, TellsTruth DEF Carried, OnceStore!Next
    <2> QED BY <1>7, <2>2, <2>3 DEF CheckDrift
  <1> QED BY <1>4, <1>5, <1>6, <1>7 DEF GateStep

LEMMA StepIsOnce ==
    ASSUME GateInv, [Next]_vars
    PROVE  OnceStore!Next \/ UNCHANGED OnceStore!vars
  <1> USE DEF OnceStore!vars
  <1>1. ASSUME UNCHANGED <<output, told>> PROVE UNCHANGED <<Slot, told>>
    BY <1>1 DEF Slot
  <1>2. ASSUME UNCHANGED <<Slot, told>> PROVE UNCHANGED OnceStore!vars
    BY <1>2 DEF Slot
  <1>3. CASE Developer \/ UNCHANGED <<checkout, gateVars>>
    BY <1>1, <1>2, <1>3 DEF Developer, gateVars
  <1>4. CASE Attest
    <2>1. output \in Outputs /\ output # None /\ told' = told
      BY <1>4 DEF GateInv, GateTyped, Attest
    <2>2. output' \in Outputs /\ output'.base = output.base /\ output' # None
      BY <1>4, <2>1, GateAssumption DEF Attest, Outputs
    <2> QED BY <1>2, <2>1, <2>2 DEF Slot
  <1>5. ASSUME NEW g \in Gates, GateStep(g)
        PROVE  OnceStore!Next \/ UNCHANGED OnceStore!vars
    BY <1>2, <1>5, GateStepIsOnce
  <1> QED BY <1>3, <1>4, <1>5 DEF Next, vars

\* For any gates that overlap, die and meet a receipt, the output is put in place
\* once and whole, stays what it is, and what a gate says of it is true
\* (publishVerifiedCandidate of release-template/verified-release-output.mjs).
THEOREM OutputOnce == Spec => OutputIsWriteOnce
  <1>1. Init => OnceStore!Init
    BY DEF Init, GateInit, OnceStore!Init
  <1>2. GateInv /\ [Next]_vars => [OnceStore!Next]_(OnceStore!vars)
    BY StepIsOnce
  <1> QED BY <1>1, <1>2, GatesInductive, PTL DEF Spec, OutputIsWriteOnce, OnceStore!Spec

-----------------------------------------------------------------------------
(* The record of a candidate.                                               *)

StagedFiles == [source : Sources, bundle : Bundles, extra : {None, "made"}]

Stages == [commit : Commits \cup {None}, files : StagedFiles \cup {None},
           metadata : {c.metadata : c \in Commits} \cup {"staged", None},
           input : Bytes \cup {None}, digest : Bytes \cup {None},
           mixed : BOOLEAN, control : BOOLEAN]

StageJobs == [pc : {"extract", "override"}, commit : Commits, digest : Bytes]

BuildJobs == [pc : {"checks", "restore", "judge", "leave", "release", "record"},
              generated : Generated, staged : BOOLEAN]

CandidateTyped ==
    /\ artifact \in Bytes /\ stage \in Stages
    /\ job \in {None} \cup StageJobs \cup BuildJobs
    /\ stage # EmptyStage => stage.commit \in Commits /\ stage.files \in StagedFiles

Building == ~Idling /\ job.pc \in {"checks", "restore", "judge", "leave", "release", "record"}

\* What the checks left: the bundle of the source in the stage and of the bytes
\* the override meant.
Checked ==
    /\ stage.files.bundle.source = stage.files.source
    /\ job.staged /\ ~stage.mixed => stage.files.bundle.dep = stage.digest

Declared(generated) ==
    \A p \in DOMAIN stage.files \ generated :
        stage.files[p] = Files(stage.commit)[p]

Restored == stage.metadata = stage.commit.metadata

\* A stage under control has no output, and the archive of the digest or none.
Controlled ==
    /\ stage # EmptyStage /\ out = None /\ record = None
    /\ ~stage.mixed => stage.input \in {stage.digest, None}

\* Where a command is, and what it has made of the stage.
JobInv ==
    /\ stage = EmptyStage => out = None /\ record = None /\ ~Building /\ ~stage.control
    /\ stage.control => Controlled
    /\ At("extract") => stage = EmptyStage
    /\ At("override") => /\ stage # EmptyStage /\ stage.commit = job.commit
                         /\ ~stage.control /\ out = None /\ record = None
    /\ Building => record = None
    /\ Building /\ job.pc \in {"checks", "restore", "judge", "leave"} => stage.control
    /\ At("checks") /\ job.staged => stage.metadata = "staged"
    /\ Building /\ job.pc # "checks" => Checked
    /\ Building /\ job.pc \notin {"checks", "restore"} => Restored
    /\ Building /\ job.pc \in {"leave", "release", "record"}
          => stage.input = None /\ Declared(job.generated)
    /\ At("release") \/ At("record") => ~stage.control /\ NoLocalDependencies(stage.metadata)
    /\ At("record") => out = Release(stage.commit, stage.files.bundle)

\* After the record nothing works on the stage any more.
RecordInv ==
    record # None => /\ Idling /\ stage # EmptyStage /\ ~stage.control
                     /\ record.commit = stage.commit /\ RecordIsTrue

CandidateInv == CandidateTyped /\ JobInv /\ RecordInv

LEMMA CandidateInit == Init => CandidateInv
  <1> SUFFICES ASSUME Init PROVE CandidateInv
    OBVIOUS
  <1>1. CandidateTyped
    BY DEF Init, CandidateTyped, Stages, EmptyStage
  <1>2. JobInv
    BY DEF Init, JobInv, Building, At, Idling, EmptyStage
  <1> QED BY <1>1, <1>2 DEF Init, RecordInv, CandidateInv

\* Commands that leave the output and the record alone, on a stage without one.
LEMMA StartStageKeeps ==
    ASSUME GateTyped, CandidateInv, StartStage
    PROVE  CandidateInv'
  <1>1. /\ job = None /\ stage = EmptyStage /\ UNCHANGED <<artifact, stage, out, record>>
        /\ job' = [pc |-> "extract", commit |-> head, digest |-> artifact]
        /\ out = None /\ record = None /\ head \in Commits /\ artifact \in Bytes
    BY DEF StartStage, Idling, CandidateInv, JobInv, GateTyped, CandidateTyped
  <1>2. CandidateTyped'
    BY <1>1 DEF CandidateInv, CandidateTyped, StageJobs
  <1>3. job'.pc = "extract" /\ ~stage'.control
    BY <1>1 DEF EmptyStage
  <1> QED BY <1>1, <1>2, <1>3 DEF CandidateInv, JobInv, RecordInv, Building, At

LEMMA ExtractKeeps ==
    ASSUME CandidateInv, Extract
    PROVE  CandidateInv'
  <1>1. /\ job \in StageJobs /\ stage = EmptyStage /\ out = None /\ record = None
        /\ UNCHANGED <<artifact, out, record>>
        /\ job' = [job EXCEPT !.pc = "override"]
        /\ stage' = [EmptyStage EXCEPT !.commit = job.commit, !.files = Files(job.commit),
                                       !.metadata = job.commit.metadata]
    BY DEF Extract, At, Idling, Proceed, CandidateInv, JobInv, CandidateTyped, BuildJobs
  <1>2. /\ job' \in StageJobs /\ job'.pc = "override" /\ job'.commit = job.commit
        /\ job.commit \in Commits /\ Files(job.commit) \in StagedFiles
    BY <1>1, GateAssumption DEF StageJobs, Files, StagedFiles
  <1>3. /\ stage' \in Stages /\ stage'.commit = job.commit /\ ~stage'.control
        /\ stage'.files = Files(job.commit)
    BY <1>1, <1>2 DEF Stages, EmptyStage
  <1>4. stage' # EmptyStage
    BY <1>2, <1>3, GateAssumption DEF EmptyStage
  <1>5. CandidateTyped'
    BY <1>1, <1>2, <1>3 DEF CandidateInv, CandidateTyped
  <1> QED BY <1>1, <1>2, <1>3, <1>4, <1>5 DEF CandidateInv, JobInv, RecordInv, Building, At

LEMMA OverrideKeeps ==
    ASSUME CandidateInv, Override
    PROVE  CandidateInv'
  <1>1. /\ job \in StageJobs /\ stage # EmptyStage /\ stage.commit = job.commit
        /\ out = None /\ record = None /\ artifact \in Bytes /\ ~stage.control
        /\ job' = None /\ UNCHANGED <<artifact, out, record>>
        /\ stage \in Stages /\ stage.commit \in Commits /\ stage.files \in StagedFiles
    BY DEF Override, At, Idling, Stop, CandidateInv, JobInv, CandidateTyped, BuildJobs
  <1>2. /\ stage' \in Stages /\ stage'.commit = stage.commit /\ stage'.files = stage.files
        /\ stage'.control /\ ~stage'.mixed => stage'.input = stage'.digest
    <2>1. CASE job.commit.metadata = "overridden"
      BY <1>1, <2>1 DEF Override, Stages
    <2>2. CASE job.commit.metadata # "overridden"
      <3>1. job.digest \in Bytes
        BY <1>1 DEF StageJobs
      <3>2. CASE artifact = job.digest
        <4>1. stage' = [stage EXCEPT !.input = artifact, !.digest = job.digest, !.mixed = FALSE,
                                     !.metadata = "staged", !.control = TRUE]
          BY <2>2, <3>2 DEF Override
        <4> QED BY <1>1, <3>1, <3>2, <4>1 DEF Stages
      <3>3. CASE artifact # job.digest
        <4>1. stage' = [stage EXCEPT !.input = artifact, !.digest = job.digest, !.mixed = TRUE,
                                     !.metadata = "staged", !.control = TRUE]
          BY <2>2, <3>3 DEF Override
        <4> QED BY <1>1, <3>1, <3>3, <4>1 DEF Stages
      <3> QED BY <3>2, <3>3
    <2> QED BY <2>1, <2>2
  <1>3. stage' # EmptyStage
    BY <1>1, <1>2, GateAssumption DEF EmptyStage
  <1>4. CandidateTyped'
    BY <1>1, <1>2 DEF CandidateInv, CandidateTyped
  <1> QED
    BY <1>1, <1>2, <1>3, <1>4
    DEF CandidateInv, JobInv, RecordInv, Building, At, Idling, Controlled

LEMMA StartBuildKeeps ==
    ASSUME CandidateInv, NEW generated \in Generated, StartBuild(generated)
    PROVE  CandidateInv'
  <1>1. /\ job = None /\ stage.control /\ out = None
        /\ job' = [pc |-> "checks", generated |-> generated,
                   staged |-> stage.metadata = "staged"]
        /\ UNCHANGED <<artifact, stage, out, record>> /\ Controlled
    BY DEF StartBuild, Idling, CandidateInv, JobInv
  <1>2. job' \in BuildJobs /\ job'.pc = "checks" /\ (job'.staged <=> stage.metadata = "staged")
    <2>1. CASE stage.metadata = "staged"
      <3>1. job' = [pc |-> "checks", generated |-> generated, staged |-> TRUE]
        BY <1>1, <2>1
      <3> QED BY <2>1, <3>1 DEF BuildJobs
    <2>2. CASE stage.metadata # "staged"
      <3>1. job' = [pc |-> "checks", generated |-> generated, staged |-> FALSE]
        BY <1>1, <2>2
      <3> QED BY <2>2, <3>1 DEF BuildJobs
    <2> QED BY <2>1, <2>2
  <1>3. CandidateTyped'
    BY <1>1, <1>2 DEF CandidateInv, CandidateTyped
  <1>4. Controlled' /\ stage'.control
    BY <1>1 DEF Controlled
  <1>5. JobInv'
    BY <1>1, <1>2, <1>4 DEF Controlled, JobInv, Building, At
  <1> QED BY <1>1, <1>3, <1>5 DEF Controlled, CandidateInv, RecordInv

\* A command that stops, with no more than the files of the stage touched.
LEMMA StopKeeps ==
    ASSUME CandidateInv, Building, job' = None, NEW files \in StagedFiles,
           stage' = [stage EXCEPT !.files = files], UNCHANGED <<artifact, out, record>>
    PROVE  CandidateInv'
  <1>1. stage # EmptyStage /\ stage \in Stages /\ stage.commit \in Commits /\ record = None
    BY DEF CandidateInv, CandidateTyped, JobInv
  <1>2. /\ stage' \in Stages /\ stage'.commit = stage.commit /\ stage'.files = files
        /\ stage'.metadata = stage.metadata /\ stage'.mixed = stage.mixed
        /\ stage'.input = stage.input /\ stage'.digest = stage.digest
        /\ stage'.control = stage.control
    BY <1>1 DEF Stages
  <1>3. stage' # EmptyStage
    BY <1>1, <1>2, GateAssumption DEF EmptyStage
  <1>4. CandidateTyped'
    BY <1>1, <1>2 DEF CandidateInv, CandidateTyped
  <1> QED
    BY <1>1, <1>2, <1>3, <1>4
    DEF CandidateInv, JobInv, RecordInv, Building, At, Idling, Controlled

LEMMA StopAsIs ==
    ASSUME CandidateInv, Building, job' = None, UNCHANGED <<artifact, stage, out, record>>
    PROVE  CandidateInv'
  <1>1. stage.files \in StagedFiles /\ stage \in Stages
    BY DEF CandidateInv, CandidateTyped, JobInv
  <1>2. stage' = [stage EXCEPT !.files = stage.files]
    BY <1>1 DEF Stages
  <1> QED BY <1>1, <1>2, StopKeeps

LEMMA RunChecksKeeps ==
    ASSUME GateTyped, CandidateInv, RunChecks
    PROVE  CandidateInv'
  <1>1. /\ At("checks") /\ Building /\ job \in BuildJobs /\ job.pc = "checks" /\ stage.control
        /\ Controlled /\ stage \in Stages /\ stage.commit \in Commits
        /\ stage.files \in StagedFiles /\ UNCHANGED <<artifact, out, record>>
    BY DEF RunChecks, At, Idling, Building, CandidateInv, CandidateTyped, JobInv,
       Controlled, StageJobs
  <1>2. CASE UNCHANGED stage /\ Stop
    BY <1>1, <1>2, StopAsIs DEF Stop
  <1>3. ASSUME NEW source \in {stage.files.source} \cup Sources,
               NEW extra \in {stage.files.extra, "made"}, Stop,
               stage' = [stage EXCEPT !.files =
                            [stage.files EXCEPT !.source = source, !.extra = extra]]
        PROVE  CandidateInv'
    <2>1. [stage.files EXCEPT !.source = source, !.extra = extra] \in StagedFiles
      BY <1>1 DEF StagedFiles
    <2> QED BY <1>1, <1>3, <2>1, StopKeeps DEF Stop
  <1>4. ASSUME NEW source \in {stage.files.source} \cup Sources,
               NEW extra \in {stage.files.extra, "made"},
               Installed # None, Proceed("restore"),
               stage' = [stage EXCEPT !.files =
                            [[stage.files EXCEPT !.source = source, !.extra = extra]
                             EXCEPT !.bundle = Bundle(source, Installed)]]
        PROVE  CandidateInv'
    <2> PICK dep : dep = Installed
      OBVIOUS
    <2>1. dep \in Bytes
      BY <1>1, <1>4 DEF Installed, Stages, GateTyped
    <2>2. job.staged /\ ~stage.mixed => dep = stage.digest
      BY <1>1, <1>4 DEF Installed, Controlled, CandidateInv, JobInv
    <2> PICK built : built = Bundle(source, dep)
      OBVIOUS
    <2> PICK files :
          files = [[stage.files EXCEPT !.source = source, !.extra = extra]
                   EXCEPT !.bundle = built]
      OBVIOUS
    <2>3. files \in StagedFiles /\ files.source = source /\ files.bundle = built
      <3>1. source \in Sources /\ extra \in {None, "made"} /\ built \in Bundles
        BY <1>1, <2>1 DEF StagedFiles, Bundle, Bundles
      <3> QED BY <1>1, <3>1 DEF StagedFiles
    <2>4. stage' = [stage EXCEPT !.files = files]
      BY <1>4
    <2>5. /\ stage' \in Stages /\ stage'.commit = stage.commit /\ stage'.files = files
          /\ stage'.metadata = stage.metadata /\ stage'.mixed = stage.mixed
          /\ stage'.input = stage.input /\ stage'.digest = stage.digest
          /\ stage'.control = stage.control
      BY <1>1, <2>3, <2>4 DEF Stages
    <2>6. job' \in BuildJobs /\ job'.pc = "restore" /\ job'.staged = job.staged
      BY <1>1, <1>4 DEF Proceed, BuildJobs
    <2>7. stage' # EmptyStage
      BY <1>1, <2>5, GateAssumption DEF EmptyStage
    <2>8. CandidateTyped'
      BY <1>1, <2>3, <2>5, <2>6 DEF CandidateInv, CandidateTyped
    <2>9. Controlled' /\ Checked'
      <3>1. Controlled'
        BY <1>1, <2>5, <2>7 DEF Controlled
      <3>2. built.source = source /\ built.dep = dep
        BY DEF Bundle
      <3> QED BY <2>2, <2>3, <2>5, <2>6, <3>1, <3>2 DEF Checked
    <2>10. JobInv'
      BY <1>1, <2>5, <2>6, <2>7, <2>9 DEF JobInv, Building, At, Controlled
    <2> QED BY <2>8, <2>9, <2>10 DEF CandidateInv, RecordInv, Controlled
  <1> QED BY <1>2, <1>3, <1>4 DEF RunChecks

\* A command goes on with no more than the metadata, archive or control of its
\* stage changed.
LEMMA ProceedTyped ==
    ASSUME CandidateInv, Building, NEW there \in {"judge", "leave", "release", "record"},
           Proceed(there), stage' \in Stages, UNCHANGED <<artifact>>,
           stage'.commit = stage.commit, stage'.files = stage.files
    PROVE  /\ CandidateTyped' /\ stage' # EmptyStage /\ stage # EmptyStage
           /\ record = None /\ job'.pc = there
           /\ job'.staged = job.staged /\ job'.generated = job.generated
  <1>1. /\ job \in BuildJobs /\ stage.commit \in Commits /\ stage.files \in StagedFiles
        /\ stage # EmptyStage /\ record = None
    BY DEF Building, Idling, CandidateInv, CandidateTyped, JobInv, StageJobs
  <1>2. /\ job' \in BuildJobs /\ job'.pc = there /\ job'.staged = job.staged
        /\ job'.generated = job.generated
    BY <1>1 DEF Proceed, BuildJobs
  <1>3. stage' # EmptyStage
    BY <1>1, GateAssumption DEF EmptyStage
  <1> QED BY <1>1, <1>2, <1>3 DEF CandidateInv, CandidateTyped

LEMMA RestoreKeeps ==
    ASSUME CandidateInv, Restore
    PROVE  CandidateInv'
  <1>1. /\ Building /\ job.pc = "restore" /\ stage.control /\ Controlled /\ Checked
        /\ stage \in Stages /\ stage.commit \in Commits /\ UNCHANGED <<artifact, out, record>>
    BY DEF Restore, At, Building, Idling, CandidateInv, CandidateTyped, JobInv, Controlled
  <1>2. CASE "package.json" \in job.generated
    BY <1>1, <1>2, StopAsIs DEF Restore, Stop
  <1>3. CASE "package.json" \notin job.generated
    <2>1. /\ stage' = [stage EXCEPT !.metadata = stage.commit.metadata] /\ Proceed("judge")
      BY <1>3 DEF Restore
    <2>2. /\ stage' \in Stages /\ stage'.commit = stage.commit /\ stage'.files = stage.files
          /\ stage'.metadata = stage.commit.metadata /\ stage'.mixed = stage.mixed
          /\ stage'.input = stage.input /\ stage'.digest = stage.digest
          /\ stage'.control = stage.control
      BY <1>1, <2>1 DEF Stages
    <2>3. /\ CandidateTyped' /\ stage' # EmptyStage /\ record = None /\ job'.pc = "judge"
          /\ job'.staged = job.staged
      BY <1>1, <2>1, <2>2, ProceedTyped
    <2>4. Controlled' /\ Checked' /\ Restored'
      BY <1>1, <2>2, <2>3 DEF Controlled, Checked, Restored
    <2>5. JobInv'
      BY <1>1, <2>2, <2>3, <2>4 DEF JobInv, Building, At, Controlled
    <2> QED BY <1>1, <2>3, <2>5 DEF CandidateInv, RecordInv
  <1> QED BY <1>2, <1>3

LEMMA JudgeKeeps ==
    ASSUME CandidateInv, Judge
    PROVE  CandidateInv'
  <1>1. /\ Building /\ job.pc = "judge" /\ stage.control /\ Controlled /\ Checked /\ Restored
        /\ stage \in Stages /\ stage.commit \in Commits /\ UNCHANGED <<artifact, out, record>>
    BY DEF Judge, At, Building, Idling, CandidateInv, CandidateTyped, JobInv, Controlled
  <1>2. CASE Undeclared # {}
    BY <1>1, <1>2, StopAsIs DEF Judge, Stop
  <1>3. CASE Undeclared = {}
    <2>1. stage' = [stage EXCEPT !.input = None] /\ Proceed("leave")
      BY <1>3 DEF Judge
    <2>2. /\ stage' \in Stages /\ stage'.commit = stage.commit /\ stage'.files = stage.files
          /\ stage'.metadata = stage.metadata /\ stage'.mixed = stage.mixed
          /\ stage'.input = None /\ stage'.digest = stage.digest
          /\ stage'.control = stage.control
      BY <1>1, <2>1 DEF Stages
    <2>3. /\ CandidateTyped' /\ stage' # EmptyStage /\ record = None /\ job'.pc = "leave"
          /\ job'.staged = job.staged /\ job'.generated = job.generated
      BY <1>1, <2>1, <2>2, ProceedTyped
    <2>4. Controlled' /\ Checked' /\ Restored'
      BY <1>1, <2>2, <2>3 DEF Controlled, Checked, Restored
    <2>5. Declared(job.generated)'
      <3>1. Declared(job.generated)
        BY <1>3 DEF Undeclared, Declared
      <3> QED BY <2>2, <2>3, <3>1 DEF Declared
    <2>6. JobInv'
      BY <1>1, <2>2, <2>3, <2>4, <2>5 DEF JobInv, Building, At, Controlled
    <2> QED BY <1>1, <2>3, <2>6 DEF CandidateInv, RecordInv
  <1> QED BY <1>2, <1>3

LEMMA LeaveKeeps ==
    ASSUME CandidateInv, Leave
    PROVE  CandidateInv'
  <1>1. /\ Building /\ job.pc = "leave" /\ stage.control /\ Checked /\ Restored
        /\ stage.input = None /\ Declared(job.generated)
        /\ stage \in Stages /\ UNCHANGED <<artifact, out, record>>
    BY DEF Leave, At, Building, Idling, CandidateInv, CandidateTyped, JobInv
  <1>2. CASE ~NoLocalDependencies(stage.metadata)
    BY <1>1, <1>2, StopAsIs DEF Leave, Stop
  <1>3. CASE NoLocalDependencies(stage.metadata)
    <2>1. stage' = [stage EXCEPT !.control = FALSE] /\ Proceed("release")
      BY <1>3 DEF Leave
    <2>2. /\ stage' \in Stages /\ stage'.commit = stage.commit /\ stage'.files = stage.files
          /\ stage'.metadata = stage.metadata /\ stage'.mixed = stage.mixed
          /\ stage'.input = stage.input /\ stage'.digest = stage.digest /\ ~stage'.control
      BY <1>1, <2>1 DEF Stages
    <2>3. /\ CandidateTyped' /\ stage' # EmptyStage /\ record = None /\ job'.pc = "release"
          /\ job'.staged = job.staged /\ job'.generated = job.generated
      BY <1>1, <2>1, <2>2, ProceedTyped
    <2>4. Checked' /\ Restored' /\ Declared(job.generated)'
      BY <1>1, <2>2, <2>3 DEF Checked, Restored, Declared
    <2>5. JobInv'
      BY <1>1, <1>3, <2>2, <2>3, <2>4 DEF JobInv, Building, At
    <2> QED BY <1>1, <2>3, <2>5 DEF CandidateInv, RecordInv
  <1> QED BY <1>2, <1>3

LEMMA BuildCandidateKeeps ==
    ASSUME CandidateInv, BuildCandidate
    PROVE  CandidateInv'
  <1>1. /\ Building /\ job.pc = "release" /\ ~stage.control /\ Checked /\ Restored
        /\ stage.input = None /\ Declared(job.generated) /\ NoLocalDependencies(stage.metadata)
        /\ stage \in Stages /\ UNCHANGED <<artifact, stage, record>>
    BY DEF BuildCandidate, At, Building, Idling, CandidateInv, CandidateTyped, JobInv
  <1>2. CASE UNCHANGED out /\ Stop
    BY <1>1, <1>2, StopAsIs DEF Stop
  <1>3. CASE out' = Release(stage.commit, stage.files.bundle) /\ Proceed("record")
    <2>1. /\ CandidateTyped' /\ stage # EmptyStage /\ record = None /\ job'.pc = "record"
          /\ job'.staged = job.staged /\ job'.generated = job.generated
      BY <1>1, <1>3, ProceedTyped
    <2>2. Checked' /\ Restored' /\ Declared(job.generated)'
      BY <1>1, <2>1 DEF Checked, Restored, Declared
    <2>3. JobInv'
      BY <1>1, <1>3, <2>1, <2>2 DEF JobInv, Building, At
    <2> QED BY <1>1, <2>1, <2>3 DEF CandidateInv, RecordInv
  <1> QED BY <1>2, <1>3 DEF BuildCandidate

LEMMA RecordKeeps ==
    ASSUME CandidateInv, Record
    PROVE  CandidateInv'
  <1>1. /\ Building /\ job.pc = "record" /\ ~stage.control /\ Checked /\ Restored
        /\ stage.input = None /\ Declared(job.generated) /\ NoLocalDependencies(stage.metadata)
        /\ out = Release(stage.commit, stage.files.bundle) /\ stage # EmptyStage
        /\ stage \in Stages /\ UNCHANGED <<artifact, stage, out>> /\ job' = None
    BY DEF Record, At, Building, Idling, Stop, CandidateInv, CandidateTyped, JobInv
  <1>2. /\ record'.commit = stage.commit /\ record'.digest = stage.digest
        /\ record'.generated = job.generated /\ (record'.staged <=> job.staged)
        /\ (record'.mixed <=> stage.mixed)
    BY DEF Record
  <1>3. CandidateTyped'
    BY <1>1 DEF CandidateInv, CandidateTyped
  <1>4. JobInv'
    BY <1>1 DEF JobInv, Building, At, Idling
  <1>5. RecordIsTrue'
    <2>1. out.commit = stage.commit /\ out.bundle = stage.files.bundle
      BY <1>1 DEF Release
    <2> QED BY <1>1, <1>2, <2>1 DEF RecordIsTrue, Checked, Restored, Declared
  <1> QED BY <1>1, <1>2, <1>3, <1>4, <1>5 DEF CandidateInv, RecordInv, Idling

LEMMA OperatorKeeps ==
    ASSUME CandidateInv, Operator
    PROVE  CandidateInv'
  <1>1. CASE KillJob
    <2>1. ~Idling /\ job' = None /\ UNCHANGED <<artifact, stage, out, record>>
      BY <1>1 DEF KillJob, Stop
    <2>2. record = None
      BY <2>1 DEF CandidateInv, RecordInv
    <2>3. CandidateTyped'
      BY <2>1 DEF CandidateInv, CandidateTyped
    <2>4. JobInv'
      BY <2>1 DEF CandidateInv, JobInv, Building, At, Idling, Controlled
    <2> QED BY <2>1, <2>2, <2>3, <2>4 DEF CandidateInv, RecordInv
  <1>2. CASE StartOver
    <2>1. /\ job' = None /\ stage' = EmptyStage /\ out' = None /\ record' = None
          /\ artifact' = artifact
      BY <1>2 DEF StartOver, Idling
    <2>2. EmptyStage \in Stages /\ ~EmptyStage.control
      BY DEF EmptyStage, Stages
    <2>3. CandidateTyped'
      BY <2>1, <2>2 DEF CandidateInv, CandidateTyped
    <2>4. JobInv'
      BY <2>1, <2>2 DEF JobInv, Building, At, Idling
    <2> QED BY <2>1, <2>3, <2>4 DEF CandidateInv, RecordInv
  <1>3. CASE Repack
    <2>1. artifact' \in Bytes /\ UNCHANGED <<job, stage, out, record>>
      BY <1>3 DEF Repack
    <2>2. CandidateTyped'
      BY <2>1 DEF CandidateInv, CandidateTyped
    <2>3. JobInv'
      BY <2>1 DEF CandidateInv, JobInv, Building, At, Idling, Controlled, Checked, Restored,
         Declared
    <2>4. RecordInv'
      BY <2>1 DEF CandidateInv, RecordInv, Idling, RecordIsTrue
    <2> QED BY <2>2, <2>3, <2>4 DEF CandidateInv
  <1> QED BY <1>1, <1>2, <1>3 DEF Operator

LEMMA CandidateNext ==
    ASSUME GateTyped, CandidateInv, [Next]_vars
    PROVE  CandidateInv'
  <1>1. CASE UNCHANGED candidateVars
    BY <1>1
    DEF candidateVars, CandidateInv, CandidateTyped, JobInv, RecordInv, RecordIsTrue,
        Building, At, Idling, Controlled, Checked, Restored, Declared
  <1>2. CASE Candidate
    BY <1>2, StartStageKeeps, ExtractKeeps, OverrideKeeps, StartBuildKeeps, RunChecksKeeps,
       RestoreKeeps, JudgeKeeps, LeaveKeeps, BuildCandidateKeeps, RecordKeeps
    DEF Candidate
  <1>3. CASE Operator
    BY <1>3, OperatorKeeps
  <1> QED BY <1>1, <1>2, <1>3 DEF Next, vars

\* What candidate-build.json says of the stage, the output and the dependency
\* is true, whatever commands were killed, refused or started over before.
THEOREM RecordTold == Spec => []RecordIsTrue
  <1>1. GateInv => GateTyped
    BY DEF GateInv
  <1>2. CandidateInv => RecordIsTrue
    BY DEF CandidateInv, RecordInv, RecordIsTrue
  <1> QED
    BY <1>1, <1>2, GatesInductive, CandidateInit, CandidateNext, PTL DEF Spec
=============================================================================
