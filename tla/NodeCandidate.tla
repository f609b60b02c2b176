---------------------------- MODULE NodeCandidate ----------------------------
(***************************************************************************)
(* A candidate built against a dependency that is not published yet, from  *)
(* the checkout the gates use.  stage-node-candidate.mjs copies a clean    *)
(* commit to a stage, the dependency's archive beside it, and points the   *)
(* package manager at that copy; build-node-candidate.mjs runs the checks, *)
(* finalizes the stage (release-template/candidate-stage.mjs) and runs the *)
(* release builder on it (release-template/candidate-build.mjs).           *)
(*                                                                         *)
(* One command works on a stage at a time, as nothing in the code would    *)
(* keep two apart; it may be killed, and be started again with other       *)
(* options.  Archives of the dependency are the bytes they hold; a digest  *)
(* is the bytes it is of.                                                  *)
(***************************************************************************)
EXTENDS ReleaseGate

CONSTANT Generated    \* the sets of paths --generated may name

VARIABLES
    artifact,     \* the bytes in the archive the plan names
    job,          \* the command that runs, or None
    stage,        \* the output checkout of stage-node-candidate
    out,          \* what the release builder wrote to the candidate's output
    record        \* candidate-build.json, or None

candidateVars == <<artifact, job, stage, out, record>>
vars == <<checkout, gateVars, candidateVars>>

EmptyStage == [commit |-> None, files |-> None, metadata |-> None, input |-> None,
               digest |-> None, mixed |-> FALSE, control |-> FALSE]

Init ==
    /\ GateInit
    /\ artifact \in Bytes
    /\ job = None /\ stage = EmptyStage /\ out = None /\ record = None

Idling == job = None

At(pc) == ~Idling /\ job.pc = pc

Proceed(pc) == job' = [job EXCEPT !.pc = pc]

Stop == job' = None

-----------------------------------------------------------------------------
(* stageNodeCandidate                                                      *)

\* The checkout is clean and the archive is the one the plan means.  An
\* unpublished dependency is what the command is for.
StartStage ==
    /\ Idling /\ stage = EmptyStage
    /\ tree = Files(head) /\ published[head.needs] = None
    /\ job' = [pc |-> "extract", commit |-> head, digest |-> artifact]
    /\ UNCHANGED <<artifact, stage, out, record>>

Extract ==
    /\ At("extract")
    /\ stage' = [EmptyStage EXCEPT !.commit = job.commit, !.files = Files(job.commit),
                                   !.metadata = job.commit.metadata]
    /\ Proceed("override")
    /\ UNCHANGED <<artifact, out, record>>

\* The archive is copied, the override written, and the control file last; a
\* workspace that overrides the dependency already is refused in between.
Override ==
    /\ At("override") /\ Stop
    /\ IF job.commit.metadata = "overridden"
       THEN stage' = [stage EXCEPT !.input = artifact]
       ELSE stage' = [stage EXCEPT !.input = artifact, !.digest = job.digest,
                                   !.mixed = artifact # job.digest,
                                   !.metadata = "staged", !.control = TRUE]
    /\ UNCHANGED <<artifact, out, record>>

-----------------------------------------------------------------------------
(* buildNodeCandidate                                                      *)

\* Defect: the metadata is put back before the checks.
StartBuildRestored(generated) ==
    /\ Idling /\ stage.control /\ out = None
    /\ job' = [pc |-> "checks", generated |-> generated, staged |-> stage.metadata = "staged"]
    /\ stage' = [stage EXCEPT !.metadata = stage.commit.metadata]
    /\ UNCHANGED <<artifact, out, record>>

StartBuild(generated) ==
    /\ Idling /\ stage.control /\ out = None
    /\ job' = [pc |-> "checks", generated |-> generated, staged |-> stage.metadata = "staged"]
    /\ UNCHANGED <<artifact, stage, out, record>>

\* What pnpm install finds for the dependency.
Installed ==
    IF stage.metadata = "staged" THEN stage.input ELSE published[stage.commit.needs]

\* The owner's install, checks and build: they may touch files on the way, and
\* may fail with them touched.
RunChecks ==
    /\ At("checks")
    /\ \/ /\ Installed # None
          /\ \E source \in {stage.files.source} \cup Sources, extra \in {stage.files.extra, "made"} :
                 LET touched == [stage.files EXCEPT !.source = source, !.extra = extra] IN
                 \/ /\ stage' = [stage EXCEPT !.files =
                                    [touched EXCEPT !.bundle = Bundle(source, Installed)]]
                    /\ Proceed("restore")
                 \/ stage' = [stage EXCEPT !.files = touched] /\ Stop
       \/ UNCHANGED stage /\ Stop
    /\ UNCHANGED <<artifact, out, record>>

\* finalizeNodeCandidate puts the commit's own metadata back first.
Restore ==
    /\ At("restore")
    /\ IF "package.json" \in job.generated
       THEN UNCHANGED stage /\ Stop
       ELSE /\ stage' = [stage EXCEPT !.metadata = stage.commit.metadata]
            /\ Proceed("judge")
    /\ UNCHANGED <<artifact, out, record>>

Undeclared ==
    {p \in DOMAIN stage.files \ job.generated : stage.files[p] # Files(stage.commit)[p]}

Judge ==
    /\ At("judge")
    /\ IF Undeclared # {}
       THEN UNCHANGED stage /\ Stop
       ELSE stage' = [stage EXCEPT !.input = None] /\ Proceed("leave")
    /\ UNCHANGED <<artifact, out, record>>

Leave ==
    /\ At("leave")
    /\ IF NoLocalDependencies(stage.metadata)
       THEN stage' = [stage EXCEPT !.control = FALSE] /\ Proceed("release")
       ELSE UNCHANGED stage /\ Stop
    /\ UNCHANGED <<artifact, out, record>>

BuildCandidate ==
    /\ At("release")
    /\ \/ /\ NoLocalDependencies(stage.metadata)
          /\ out' = Release(stage.commit, stage.files.bundle) /\ Proceed("record")
       \/ UNCHANGED out /\ Stop
    /\ UNCHANGED <<artifact, stage, record>>

Record ==
    /\ At("record") /\ Stop
    /\ record' = [commit |-> stage.commit, digest |-> stage.digest,
                  generated |-> job.generated, staged |-> job.staged,
                  mixed |-> stage.mixed]
    /\ UNCHANGED <<artifact, stage, out>>

Candidate ==
    \/ StartStage \/ Extract \/ Override
    \/ (\E generated \in Generated : StartBuild(generated))
    \/ RunChecks \/ Restore \/ Judge \/ Leave \/ BuildCandidate \/ Record

-----------------------------------------------------------------------------
(* The operator.                                                           *)

KillJob ==
    /\ ~Idling /\ Stop
    /\ UNCHANGED <<artifact, stage, out, record>>

\* Another stage and another output, empty ones.
StartOver ==
    /\ Idling /\ stage # EmptyStage
    /\ stage' = EmptyStage /\ out' = None /\ record' = None
    /\ UNCHANGED <<artifact, job>>

\* The owner of the dependency packs it again.
Repack ==
    /\ \E b \in Bytes \ {artifact} : artifact' = b
    /\ UNCHANGED <<job, stage, out, record>>

Operator == KillJob \/ StartOver \/ Repack

\* Bound: candidates are built before the gates run.  A candidate reads the
\* checkout in one step, StartStage, and writes nothing a gate reads.
Next ==
    \/ Developer /\ UNCHANGED candidateVars
    \/ Idling /\ stage = EmptyStage /\ (Attest \/ \E g \in Gates : GateStep(g))
       /\ UNCHANGED candidateVars
    \/ Untouched /\ (Candidate \/ Operator) /\ UNCHANGED <<checkout, gateVars>>

Spec == Init /\ [][Next]_vars

-----------------------------------------------------------------------------
(* Properties                                                              *)

(* What candidate-build.json says is true: the stage holds the commit's    *)
(* files but for the declared ones, no staging locator is left, and the    *)
(* bundle in the archive was built from that source and from the very      *)
(* bytes whose digest is recorded, although checks touched files, earlier  *)
(* commands died or were refused, and the dependency was repacked or       *)
(* published meanwhile.  It is said of a stage whose override was in place *)
(* when the build began, and whose archive was not repacked between its    *)
(* digest (candidate-stage.mjs:43) and its copy (173).                     *)
RecordIsTrue ==
    record # None =>
        /\ out.commit = record.commit
        /\ stage.input = None /\ stage.metadata = record.commit.metadata
        /\ NoLocalDependencies(stage.metadata)
        /\ \A p \in DOMAIN stage.files \ record.generated :
               stage.files[p] = Files(record.commit)[p]
        /\ out.bundle.source = stage.files.source
        /\ record.staged /\ ~record.mixed => out.bundle.dep = record.digest
=============================================================================
