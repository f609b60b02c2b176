--------------------- MODULE ReleasePublication_proofs ---------------------
(***************************************************************************)
(* Theorems about ReleasePublication for every number of runs, names,      *)
(* faults and interventions.  What is published is whole because a run     *)
(* publishes only a draft that it saw full of its own bytes, and because   *)
(* GitHub gives a name once: a full draft does not change any more.        *)
(***************************************************************************)
EXTENDS ReleasePublication, TLAPS

Contents == Bytes \cup {None, Cut}

Release == [phase : Phases, assets : [Names -> Contents]]

Labels == {"idle", "getTag", "createTag", "getRelease", "createDraft", "list",
           "upload", "recheck", "publish", "seal", "ended"}

\* The variables of a run have their types.
RunOK ==
    /\ pc \in [Runs -> Labels]
    /\ result \in [Runs -> Success \cup {"failed", None}]
    /\ release \in [Runs -> Nat] /\ wasDraft \in [Runs -> BOOLEAN]
    /\ missing \in [Runs -> SUBSET Names] /\ attempts \in [Runs -> Nat]

\* A run that works on a release works on one that exists.
Placed == \A p \in Runs :
    pc[p] \in {"list", "upload", "recheck", "publish", "seal"}
       => release[p] \in 1..Len(releases)

IInv == TypeOK /\ Placed

\* What a step may do to the releases: names are given once, and a draft
\* becomes public only through a run that is about to publish it.
Grown ==
    /\ releases' \in Seq(Release) /\ Len(releases) <= Len(releases')
    /\ \A i \in 1..Len(releases), n \in Names :
          \/ releases'[i].assets[n] = releases[i].assets[n]
          \/ releases[i].assets[n] = None
    /\ \A i \in 1..Len(releases') : Public(i)' =>
          /\ i \in 1..Len(releases)
          /\ \/ Public(i)
             \/ \E p \in Runs : pc[p] = "publish" /\ release[p] = i

LEMMA InvInit == Init => IInv
  BY DEF Init, IInv, TypeOK, Placed, Success, Release, Contents

-----------------------------------------------------------------------------
(* What the requests do to the releases of the tag. *)

LEMMA AppendOK ==
    ASSUME releases \in Seq(Release), releases' = Append(releases, NewDraft)
    PROVE  /\ releases' \in Seq(Release) /\ Len(releases') = Len(releases) + 1
           /\ \A i \in 1..Len(releases) : releases'[i] = releases[i]
           /\ releases'[Len(releases) + 1] = NewDraft
  <1>1. NewDraft \in Release
    BY DEF NewDraft, Release, Phases, Contents
  <1> QED BY <1>1

LEMMA PublishedOK ==
    ASSUME releases \in Seq(Release), NEW i \in 1..Len(releases),
           releases' = Published(i)
    PROVE  /\ releases' \in Seq(Release) /\ Len(releases') = Len(releases)
           /\ \A j \in 1..Len(releases) : releases'[j].assets = releases[j].assets
           /\ \A j \in 1..Len(releases) : j # i => releases'[j] = releases[j]
  <1>1. releases[i] \in Release
    OBVIOUS
  <1>2. CASE Public(i)
    BY <1>2 DEF Published
  <1>3. CASE ~Public(i)
    <2> DEFINE after == [releases[i] EXCEPT !.phase = IF enforced THEN "sealing" ELSE "open"]
    <2>1. after \in Release /\ after.assets = releases[i].assets
      BY <1>1 DEF Release, Phases
    <2>2. releases' = [releases EXCEPT ![i] = after]
      BY <1>3 DEF Published
    <2> QED BY <2>1, <2>2
  <1> QED BY <1>2, <1>3

LEMMA SealOK ==
    ASSUME releases \in Seq(Release), NEW i \in 1..Len(releases), Seal(i)
    PROVE  /\ releases' \in Seq(Release) /\ Len(releases') = Len(releases)
           /\ \A j \in 1..Len(releases) : releases'[j].assets = releases[j].assets
           /\ \A j \in 1..Len(releases) : j # i => releases'[j] = releases[j]
  <1>1. releases[i] \in Release
    OBVIOUS
  <1> DEFINE after == [releases[i] EXCEPT !.phase = "sealed"]
  <1>2. after \in Release /\ after.assets = releases[i].assets
    BY <1>1 DEF Release, Phases
  <1>3. releases' = [releases EXCEPT ![i] = after]
    BY DEF Seal
  <1> QED BY <1>2, <1>3

-----------------------------------------------------------------------------

LEMMA GrownSame == releases \in Seq(Release) /\ UNCHANGED releases => Grown
  BY DEF Grown, Public

LEMMA GrownAppend ==
    ASSUME releases \in Seq(Release), releases' = Append(releases, NewDraft)
    PROVE  Grown
  BY AppendOK DEF Grown, Public, NewDraft

LEMMA PutOK ==
    ASSUME releases \in Seq(Release), NEW i \in 1..Len(releases), NEW n \in Names,
           NEW content \in Contents, Put(i, n, content)
    PROVE  /\ releases' \in Seq(Release) /\ Len(releases') = Len(releases)
           /\ \A j \in 1..Len(releases) : j # i => releases'[j] = releases[j]
           /\ releases'[i].phase = releases[i].phase
           /\ releases'[i].assets = [releases[i].assets EXCEPT ![n] = content]
  <1>1. releases[i] \in Release
    OBVIOUS
  <1>2. [releases[i].assets EXCEPT ![n] = content] \in [Names -> Contents]
    BY <1>1 DEF Release
  <1> DEFINE after == [releases[i] EXCEPT !.assets = [releases[i].assets EXCEPT ![n] = content]]
  <1>3. /\ after \in Release /\ after.phase = releases[i].phase
        /\ after.assets = [releases[i].assets EXCEPT ![n] = content]
    BY <1>1, <1>2 DEF Release
  <1>4. releases' = [releases EXCEPT ![i] = after]
    BY DEF Put
  <1> HIDE DEF after
  <1> QED BY <1>3, <1>4

LEMMA GrownPut ==
    ASSUME releases \in Seq(Release), NEW i \in 1..Len(releases), NEW n \in Names,
           NEW content \in Contents, Accepts(i, n), Put(i, n, content)
    PROVE  Grown
  <1>1. /\ releases' \in Seq(Release) /\ Len(releases') = Len(releases)
        /\ \A j \in 1..Len(releases) : j # i => releases'[j] = releases[j]
        /\ releases'[i].phase = releases[i].phase
        /\ releases'[i].assets = [releases[i].assets EXCEPT ![n] = content]
    BY PutOK
  <1>2. releases[i] \in Release /\ releases[i].assets[n] = None
    BY DEF Accepts
  <1>3. ASSUME NEW j \in 1..Len(releases), NEW m \in Names
        PROVE  \/ releases'[j].assets[m] = releases[j].assets[m]
               \/ releases[j].assets[m] = None
    <2>1. CASE j = i /\ m = n
      BY <1>2, <2>1
    <2>2. CASE j = i /\ m # n
      BY <1>1, <1>2, <2>2 DEF Release
    <2>3. CASE j # i
      BY <1>1, <2>3
    <2> QED BY <2>1, <2>2, <2>3
  <1>4. \A j \in 1..Len(releases) : releases'[j].phase = releases[j].phase
    BY <1>1
  <1> QED BY <1>1, <1>3, <1>4 DEF Grown, Public

LEMMA GrownPublish ==
    ASSUME releases \in Seq(Release), NEW p \in Runs, pc[p] = "publish",
           release[p] \in 1..Len(releases), releases' = Published(release[p])
    PROVE  Grown
  <1>1. /\ releases' \in Seq(Release) /\ Len(releases') = Len(releases)
        /\ \A j \in 1..Len(releases) : releases'[j].assets = releases[j].assets
        /\ \A j \in 1..Len(releases) : j # release[p] => releases'[j] = releases[j]
    BY PublishedOK
  <1>2. ASSUME NEW i \in 1..Len(releases), Public(i)'
        PROVE  Public(i) \/ (pc[p] = "publish" /\ release[p] = i)
    BY <1>1, <1>2 DEF Public
  <1> QED BY <1>1, <1>2 DEF Grown

LEMMA GrownSeal ==
    ASSUME releases \in Seq(Release), NEW i \in 1..Len(releases), Seal(i)
    PROVE  Grown
  <1>1. /\ releases' \in Seq(Release) /\ Len(releases') = Len(releases)
        /\ \A j \in 1..Len(releases) : releases'[j].assets = releases[j].assets
        /\ \A j \in 1..Len(releases) : j # i => releases'[j] = releases[j]
    BY SealOK, Zenon
  <1>2. Public(i)
    BY DEF Seal, Public
  <1>3. ASSUME NEW j \in 1..Len(releases), Public(j)'
        PROVE  Public(j)
    BY <1>1, <1>2, <1>3 DEF Public
  <1> QED BY <1>1, <1>3 DEF Grown

\* What a step may do to the releases of the tag.
Appended == releases' = Append(releases, NewDraft)

Uploaded == \E i \in 1..Len(releases), n \in Names, content \in Contents :
    Accepts(i, n) /\ Put(i, n, content)

MadePublic == \E p \in Runs :
    /\ pc[p] = "publish" /\ release[p] \in 1..Len(releases)
    /\ CanPublish(release[p]) /\ releases' = Published(release[p])

SealedByGitHub == \E i \in 1..Len(releases) : Seal(i)

LEMMA StepChanges ==
    ASSUME IInv, [Next]_vars
    PROVE  \/ UNCHANGED releases
           \/ Appended \/ Uploaded \/ MadePublic \/ SealedByGitHub
  <1> USE DEF github
  <1>t. releases \in Seq(Release) /\ \A p \in Runs : missing[p] \subseteq Names
    BY DEF IInv, TypeOK, Release, Contents
  <1>b. \A p \in Runs, n \in Names : Bundle[p][n] \in Contents /\ Cut \in Contents
    BY PublicationAssumption DEF PublicationAssumption, Contents
  <1>1. ASSUME NEW p \in Runs, UploadAsset(p) PROVE UNCHANGED releases \/ Uploaded
    <2>1. ASSUME NEW n \in missing[p], Accepts(release[p], n),
                 Put(release[p], n, Bundle[p][n])
          PROVE  Uploaded
      BY <1>1, <2>1, <1>t, <1>b DEF Uploaded, UploadAsset, IInv, Placed
    <2> QED BY <1>1, <2>1 DEF UploadAsset
  <1>2. ASSUME NEW p \in Runs, Fault(p)
        PROVE  UNCHANGED releases \/ Appended \/ Uploaded \/ MadePublic
    <2>1. ASSUME NEW n \in missing[p], pc[p] = "upload", Accepts(release[p], n),
                 Put(release[p], n, Bundle[p][n]) \/ Put(release[p], n, Cut)
          PROVE  Uploaded
      BY <2>1, <1>t, <1>b DEF Uploaded, IInv, Placed
    <2>2. CASE pc[p] = "publish" /\ CanPublish(release[p]) /\ releases' = Published(release[p])
      BY <2>2 DEF MadePublic, IInv, Placed
    <2> QED BY <1>2, <2>1, <2>2 DEF Fault, Effect, Appended
  <1>3. ASSUME NEW p \in Runs, PublishDraft(p) PROVE UNCHANGED releases \/ MadePublic
    BY <1>3 DEF PublishDraft, MadePublic, IInv, Placed
  <1>4. ASSUME NEW p \in Runs, Start(p) \/ Step(p)
        PROVE  UNCHANGED releases \/ Appended \/ Uploaded \/ MadePublic
    BY <1>4, <1>1, <1>3 DEF Step, Start, GetTagCommit, CreateTag, GetRelease, CreateDraft,
       ListAssets, Recheck, ConfirmSealed, Appended
  <1>5. ASSUME NEW i \in DOMAIN releases, Seal(i) PROVE SealedByGitHub
    BY <1>5, <1>t DEF SealedByGitHub
  <1> QED BY <1>2, <1>4, <1>5 DEF Next, vars, MoveTag, StopEnforcing

\* No step takes a name back or fills it twice.
LEMMA StepGrows ==
    ASSUME IInv, [Next]_vars
    PROVE  Grown
  <1>t. releases \in Seq(Release)
    BY DEF IInv, TypeOK, Release, Contents
  <1>1. CASE UNCHANGED releases
    BY <1>1, <1>t, GrownSame
  <1>2. CASE Appended
    BY <1>2, <1>t, GrownAppend DEF Appended
  <1>3. CASE Uploaded
    BY <1>3, <1>t, GrownPut DEF Uploaded
  <1>4. CASE MadePublic
    BY <1>4, <1>t, GrownPublish DEF MadePublic
  <1>5. CASE SealedByGitHub
    BY <1>5, <1>t, GrownSeal DEF SealedByGitHub
  <1> QED BY <1>1, <1>2, <1>3, <1>4, <1>5, StepChanges

LEMMA SeqOK == IInv => releases \in Seq(Release)
  BY DEF IInv, TypeOK, Release, Contents

-----------------------------------------------------------------------------
(* Types, and the place of a run's release in the list. *)

\* The state of a run and what the owner and the bounds count.
Local == /\ RunOK /\ tag \in Commits \cup {None} /\ enforced \in BOOLEAN
         /\ faults \in Nat /\ acts \in Nat

LEMMA LocalStep ==
    ASSUME Local, releases \in Seq(Release), NEW p \in Runs,
           Start(p) \/ Step(p) \/ Fault(p)
    PROVE  Local'
  <1> USE PublicationAssumption DEF PublicationAssumption, Local, RunOK, Labels, Success,
          github, local, Goto
  <1>e. ASSUME NEW how \in Success \cup {"failed"}, End(p, how) PROVE RunOK'
    BY <1>e DEF End
  <1>f. Fail(p) => RunOK'
    BY <1>e DEF Fail
  <1>a. ASSUME AttemptFails(p) PROVE RunOK'
    <2>1. CASE attempts[p] + 1 < SettleAttempts
      <3>1. attempts[p] + 1 \in Nat
        OBVIOUS
      <3>2. attempts' = [attempts EXCEPT ![p] = attempts[p] + 1]
            /\ UNCHANGED <<pc, result, release, wasDraft, missing>>
        BY <1>a, <2>1 DEF AttemptFails
      <3> QED BY <3>1, <3>2
    <2>2. CASE ~(attempts[p] + 1 < SettleAttempts)
      BY <1>a, <2>2, <1>f DEF AttemptFails
    <2> QED BY <2>1, <2>2
  <1> HIDE DEF RunOK
  <1>1. CASE Start(p)
    BY <1>1, <1>f DEF Start, RunOK
  <1>2. CASE GetTagCommit(p)
    BY <1>2, <1>f DEF GetTagCommit, RunOK
  <1>3. CASE CreateTag(p)
    <2>1. CommitOf[p] \in Commits
      OBVIOUS
    <2>2. RunOK'
      BY <1>3, <1>f DEF CreateTag, RunOK
    <2> QED BY <1>3, <2>1, <2>2 DEF CreateTag
  <1>4. CASE GetRelease(p)
    <2>1. CASE Fail(p)
      BY <1>4, <1>f, <2>1 DEF GetRelease
    <2>2. CASE Goto(p, "createDraft") /\ UNCHANGED <<result, local>>
      BY <1>4, <2>2 DEF GetRelease, RunOK
    <2>3. CASE /\ Goto(p, "list") /\ release' = [release EXCEPT ![p] = 1]
               /\ wasDraft' = [wasDraft EXCEPT ![p] = ~Public(1)]
               /\ UNCHANGED <<result, missing, attempts>>
      <3>1. wasDraft' \in [Runs -> BOOLEAN]
        BY <2>3 DEF RunOK, Public
      <3>2. release' \in [Runs -> Nat] /\ pc' \in [Runs -> Labels]
        BY <2>3 DEF RunOK
      <3> QED BY <1>4, <2>3, <3>1, <3>2 DEF GetRelease, RunOK
    <2> QED BY <1>4, <2>1, <2>2, <2>3 DEF GetRelease
  <1>5. CASE CreateDraft(p)
    BY <1>5 DEF CreateDraft, RunOK
  <1>6. CASE ListAssets(p)
    <2>1. CASE pc'[p] = "upload"
      <3>1. missing' = [missing EXCEPT ![p] = Missing(release[p])]
        BY <1>6, <2>1 DEF ListAssets, Fail, End, RunOK
      <3> QED BY <1>6, <1>e, <1>f, <3>1 DEF ListAssets, RunOK, Missing
    <2>2. CASE pc'[p] # "upload"
      BY <1>6, <1>e, <1>f, <2>2 DEF ListAssets, RunOK
    <2> QED BY <2>1, <2>2
  <1>7. CASE UploadAsset(p)
    <2>1. CASE Fail(p)
      BY <1>7, <1>f, <2>1 DEF UploadAsset
    <2>2. CASE Goto(p, "recheck") /\ UNCHANGED <<result, local>>
      BY <1>7, <2>2 DEF UploadAsset, RunOK
    <2>3. ASSUME NEW n, missing' = [missing EXCEPT ![p] = @ \ {n}],
                 UNCHANGED <<pc, result, release, wasDraft, attempts>>
          PROVE  Local'
      <3>1. missing' \in [Runs -> SUBSET Names]
        BY <2>3 DEF RunOK
      <3> QED BY <1>7, <2>3, <3>1 DEF UploadAsset, RunOK
    <2> QED BY <1>7, <2>1, <2>2, <2>3 DEF UploadAsset
  <1>8. CASE Recheck(p)
    BY <1>8, <1>f DEF Recheck, RunOK
  <1>9. CASE PublishDraft(p)
    BY <1>9, <1>f DEF PublishDraft, RunOK
  <1>10. CASE ConfirmSealed(p)
    BY <1>10, <1>e, <1>a DEF ConfirmSealed
  <1>11. CASE Fault(p)
    <2>1. RunOK'
      BY <1>11, <1>f, <1>a DEF Fault
    <2>2. tag' \in Commits \cup {None}
      BY <1>11 DEF Fault, Effect
    <2> QED BY <1>11, <2>1, <2>2 DEF Fault
  <1> QED
    BY <1>1, <1>2, <1>3, <1>4, <1>5, <1>6, <1>7, <1>8, <1>9, <1>10, <1>11 DEF Step

LEMMA PlacedStep ==
    ASSUME IInv, NEW p \in Runs, Start(p) \/ Step(p) \/ Fault(p), Grown
    PROVE  Placed'
  <1> SUFFICES ASSUME NEW q \in Runs, pc'[q] \in {"list", "upload", "recheck", "publish", "seal"}
               PROVE  release'[q] \in 1..Len(releases')
    BY DEF Placed
  <1>g. Len(releases) \in Nat /\ Len(releases') \in Nat /\ Len(releases) <= Len(releases')
    BY DEF Grown, IInv, TypeOK
  <1>t. /\ pc \in [Runs -> Labels] /\ release \in [Runs -> Nat]
    BY DEF IInv, TypeOK, Labels
  <1>k. release'[q] = release[q] /\ release[q] \in 1..Len(releases)
           => release'[q] \in 1..Len(releases')
    BY <1>g
  <1>l. pc[q] \in {"list", "upload", "recheck", "publish", "seal"}
           => release[q] \in 1..Len(releases)
    BY DEF IInv, Placed
  <1> USE DEF local, Goto, Fail, End
  <1>1. CASE Start(p)
    BY <1>1, <1>t, <1>k, <1>l DEF Start
  <1>2. CASE GetTagCommit(p)
    BY <1>2, <1>t, <1>k, <1>l DEF GetTagCommit
  <1>3. CASE CreateTag(p)
    BY <1>3, <1>t, <1>k, <1>l DEF CreateTag
  <1>4. CASE GetRelease(p)
    <2>1. CASE DOMAIN releases = {1} /\ release' = [release EXCEPT ![p] = 1]
      <3>1. 1 \in 1..Len(releases)
        <4>1. DOMAIN releases = 1..Len(releases)
          BY SeqOK
        <4> QED BY <2>1, <4>1
      <3> QED BY <1>4, <1>t, <1>g, <1>k, <1>l, <2>1, <3>1 DEF GetRelease
    <2>2. CASE ~(DOMAIN releases = {1} /\ release' = [release EXCEPT ![p] = 1])
      BY <1>4, <1>t, <1>k, <1>l, <2>2 DEF GetRelease
    <2> QED BY <2>1, <2>2
  <1>5. CASE CreateDraft(p)
    <2>1. Len(releases') = Len(releases) + 1
      BY <1>5, AppendOK DEF CreateDraft, IInv, TypeOK, Release, Contents
    <2> QED BY <1>5, <1>t, <1>g, <1>k, <1>l, <2>1 DEF CreateDraft
  <1>6. CASE ListAssets(p)
    BY <1>6, <1>t, <1>k, <1>l DEF ListAssets
  <1>7. CASE UploadAsset(p)
    BY <1>7, <1>t, <1>k, <1>l DEF UploadAsset
  <1>8. CASE Recheck(p)
    BY <1>8, <1>t, <1>k, <1>l DEF Recheck
  <1>9. CASE PublishDraft(p)
    BY <1>9, <1>t, <1>k, <1>l DEF PublishDraft
  <1>10. CASE ConfirmSealed(p)
    BY <1>10, <1>t, <1>k, <1>l DEF ConfirmSealed, AttemptFails
  <1>11. CASE Fault(p)
    BY <1>11, <1>t, <1>k, <1>l DEF Fault, AttemptFails
  <1> QED
    BY <1>1, <1>2, <1>3, <1>4, <1>5, <1>6, <1>7, <1>8, <1>9, <1>10, <1>11 DEF Step

LEMMA InvNext == IInv /\ [Next]_vars => IInv'
  <1> SUFFICES ASSUME IInv, [Next]_vars PROVE IInv'
    OBVIOUS
  <1>g. Grown
    BY StepGrows
  <1>t. TypeOK <=> Local /\ releases \in Seq(Release)
    BY DEF TypeOK, Local, RunOK, Labels, Release, Contents
  <1>u. TypeOK' <=> Local' /\ releases' \in Seq(Release)
    BY DEF TypeOK, Local, RunOK, Labels, Release, Contents
  <1>r. releases' \in Seq(Release) /\ Len(releases) <= Len(releases')
    BY <1>g DEF Grown
  <1>1. ASSUME NEW p \in Runs, Start(p) \/ Step(p) \/ Fault(p) PROVE IInv'
    BY <1>1, <1>g, <1>t, <1>u, <1>r, LocalStep, PlacedStep DEF IInv
  <1>2. CASE UNCHANGED <<pc, result, local>> /\ Local'
    <2>1. Placed'
      BY <1>2, <1>r DEF IInv, TypeOK, Placed, local
    <2> QED BY <1>2, <1>u, <1>r, <2>1 DEF IInv
  <1>3. CASE UNCHANGED vars
    BY <1>2, <1>3, <1>t DEF vars, github, local, IInv, Local, RunOK
  <1>4. ASSUME NEW i \in DOMAIN releases, Seal(i) PROVE IInv'
    BY <1>2, <1>4, <1>t DEF Seal, local, IInv, Local, RunOK
  <1>5. ASSUME NEW c \in Commits \cup {None}, MoveTag(c) PROVE IInv'
    BY <1>2, <1>5, <1>t DEF MoveTag, local, IInv, Local, RunOK
  <1>6. CASE StopEnforcing
    <2>1. /\ UNCHANGED <<pc, result, local>> /\ tag' = tag /\ faults' = faults
          /\ acts' = acts + 1
      BY <1>6 DEF StopEnforcing
    <2>e. enforced' = FALSE
      BY <1>6 DEF StopEnforcing
    <2>2. RunOK'
      BY <1>t, <2>1 DEF RunOK, Local, local, IInv
    <2>f. enforced' \in BOOLEAN
      BY <2>e, Zenon
    <2>3. tag' \in Commits \cup {None} /\ faults' \in Nat /\ acts' \in Nat
      BY <1>t, <2>1 DEF Local, IInv
    <2>4. Local'
      BY <2>2, <2>f, <2>3 DEF Local
    <2> QED BY <1>2, <2>1, <2>4
  <1> QED BY <1>1, <1>3, <1>4, <1>5, <1>6 DEF Next

\* Every variable keeps its type.
THEOREM TypeCorrect == Spec => []TypeOK
  BY InvInit, InvNext, PTL DEF Spec, IInv

-----------------------------------------------------------------------------
(* What is published is whole. *)

\* A run that is about to publish has its bundle in its release.
Verified == \A p \in Runs : pc[p] = "publish" => HasBundle(release[p], p)

\* A release full of a run's bytes stays as it is.
LEMMA FullStays ==
    ASSUME IInv, Grown, NEW i \in 1..Len(releases), NEW p \in Runs, HasBundle(i, p)
    PROVE  HasBundle(i, p)'
  <1>1. releases[i] \in Release /\ releases'[i] \in Release
    BY SeqOK DEF Grown
  <1>2. \A n \in Names : releases[i].assets[n] = Bundle[p][n] /\ Bundle[p][n] # None
    <2>1. Bundle[p] \in [Names -> Bytes] /\ None \notin Bytes
      BY PublicationAssumption DEF PublicationAssumption
    <2> QED BY <2>1 DEF HasBundle
  <1>3. \A n \in Names : releases'[i].assets[n] = Bundle[p][n]
    BY <1>2 DEF Grown
  <1>4. /\ Bundle[p] = [n \in Names |-> Bundle[p][n]]
        /\ releases'[i].assets = [n \in Names |-> releases'[i].assets[n]]
    BY <1>1, PublicationAssumption DEF PublicationAssumption, Release
  <1> QED BY <1>3, <1>4 DEF HasBundle

\* A list that agrees with a run and misses nothing is its bundle.
LEMMA HoldsBundle ==
    ASSUME IInv, NEW p \in Runs, NEW i \in 1..Len(releases), Holds(i, p)
    PROVE  HasBundle(i, p)
  <1>1. releases[i] \in Release
    BY SeqOK
  <1>2. \A n \in Names : releases[i].assets[n] = Bundle[p][n]
    BY DEF Holds, Agrees, Missing
  <1>3. /\ Bundle[p] = [n \in Names |-> Bundle[p][n]]
        /\ releases[i].assets = [n \in Names |-> releases[i].assets[n]]
    BY <1>1, PublicationAssumption DEF PublicationAssumption, Release
  <1> QED BY <1>2, <1>3 DEF HasBundle

LEMMA VerifiedNext ==
    ASSUME IInv, Verified, [Next]_vars
    PROVE  Verified'
  <1> SUFFICES ASSUME NEW q \in Runs, pc'[q] = "publish"
               PROVE  HasBundle(release[q], q)' /\ release'[q] = release[q]
    BY DEF Verified, HasBundle
  <1>g. Grown
    BY StepGrows
  <1>t. pc \in [Runs -> Labels] /\ DOMAIN release = Runs
    BY DEF IInv, TypeOK, Labels
  <1> USE DEF local, Goto, Fail, End
  <1>k. CASE pc[q] = "publish" /\ release'[q] = release[q]
    BY <1>k, <1>g, FullStays DEF Verified, IInv, Placed, HasBundle
  <1>1. ASSUME NEW p \in Runs, p # q, Start(p) \/ Step(p) \/ Fault(p)
        PROVE  pc[q] = "publish" /\ release'[q] = release[q]
    BY <1>1, <1>t
    DEF Step, Start, GetTagCommit, CreateTag, GetRelease, CreateDraft, ListAssets,
        UploadAsset, Recheck, PublishDraft, ConfirmSealed, AttemptFails, Fault
  <1>2. CASE Start(q) \/ Step(q) \/ Fault(q)
    <2>1. Recheck(q)
      BY <1>2, <1>t
      DEF Step, Start, GetTagCommit, CreateTag, GetRelease, CreateDraft, ListAssets,
          UploadAsset, Recheck, PublishDraft, ConfirmSealed, AttemptFails, Fault
    <2>2. UNCHANGED <<releases, release>> /\ Holds(release[q], q) /\ pc[q] = "recheck"
      BY <2>1, <1>t DEF Recheck, github
    <2>3. HasBundle(release[q], q)
      BY <2>2, HoldsBundle DEF IInv, Placed
    <2> QED BY <2>2, <2>3 DEF HasBundle
  <1>3. CASE UNCHANGED <<pc, release>>
    BY <1>k, <1>3
  <1> QED
    BY <1>k, <1>1, <1>2, <1>3 DEF Next, vars, Seal, MoveTag, StopEnforcing

LEMMA WholeNext ==
    ASSUME IInv, Verified, PublishedIsWhole, [Next]_vars
    PROVE  PublishedIsWhole'
  <1>g. Grown
    BY StepGrows
  <1>d. DOMAIN releases = 1..Len(releases) /\ DOMAIN releases' = 1..Len(releases')
    BY <1>g, SeqOK DEF Grown
  <1> SUFFICES ASSUME NEW i \in 1..Len(releases'), Public(i)'
               PROVE  \E p \in Runs : HasBundle(i, p)'
    BY <1>d DEF PublishedIsWhole
  <1>1. i \in 1..Len(releases)
    BY <1>g DEF Grown
  <1>2. \E p \in Runs : HasBundle(i, p)
    BY <1>g, <1>d, <1>1 DEF Grown, Verified, PublishedIsWhole
  <1> QED BY <1>g, <1>1, <1>2, FullStays

\* What is public under the tag is the complete bundle of one run, whatever
\* overlapped, failed, was cut short or was moved by hand.
THEOREM Wholeness == Spec => []PublishedIsWhole
  <1>1. Init => IInv /\ Verified /\ PublishedIsWhole
    BY InvInit DEF Init, Verified, PublishedIsWhole
  <1>2. IInv /\ Verified /\ PublishedIsWhole /\ [Next]_vars
           => (IInv /\ Verified /\ PublishedIsWhole)'
    BY InvNext, VerifiedNext, WholeNext
  <1> QED BY <1>1, <1>2, PTL DEF Spec

-----------------------------------------------------------------------------
(* Success is reported of a sealed release, which nothing changes. *)

\* A run that was answered has ended.
Done == \A p \in Runs : result[p] \in Success => pc[p] = "ended"

OnlyOne == \A i, j \in 1..Len(releases) : Public(i) /\ Public(j) => i = j

IsSealed(i) == releases[i].phase = "sealed"

\* What is public stays so, and a draft becomes public only when no other
\* release is, through a run that is about to publish it.
Kept ==
    /\ \A i \in 1..Len(releases) :
          (Public(i) => Public(i)') /\ (IsSealed(i) => IsSealed(i)')
    /\ \/ \A i \in 1..Len(releases') : Public(i)' => i \in 1..Len(releases) /\ Public(i)
       \/ \E p \in Runs :
             /\ pc[p] = "publish" /\ release[p] \in 1..Len(releases)
             /\ \A i \in 1..Len(releases') : Public(i)' => i = release[p]

LEMMA KeptPublish ==
    ASSUME releases \in Seq(Release), MadePublic
    PROVE  Kept
  <1> PICK p \in Runs :
         /\ pc[p] = "publish" /\ release[p] \in 1..Len(releases)
         /\ CanPublish(release[p]) /\ releases' = Published(release[p])
    BY DEF MadePublic
  <1>1. /\ Len(releases') = Len(releases)
        /\ \A j \in 1..Len(releases) : j # release[p] => releases'[j] = releases[j]
    BY PublishedOK
  <1>2. \A j \in 1..Len(releases) : Public(j) => j = release[p]
    BY DEF CanPublish
  <1>3. \A j \in 1..Len(releases) : Public(j)' => j = release[p]
    BY <1>1, <1>2 DEF Public
  <1>4. ASSUME NEW j \in 1..Len(releases), Public(j)
        PROVE  releases' = releases
    BY <1>2, <1>4 DEF Published
  <1>5. \A j \in 1..Len(releases) : IsSealed(j) => Public(j)
    BY DEF IsSealed, Public
  <1>6. \A j \in 1..Len(releases) : (Public(j) => Public(j)') /\ (IsSealed(j) => IsSealed(j)')
    BY <1>4, <1>5 DEF IsSealed, Public
  <1> QED BY <1>1, <1>3, <1>6 DEF Kept

LEMMA StepKeeps ==
    ASSUME IInv, [Next]_vars
    PROVE  Kept
  <1>t. releases \in Seq(Release)
    BY SeqOK
  <1> USE DEF Public, IsSealed
  <1>1. CASE UNCHANGED releases
    BY <1>1 DEF Kept
  <1>2. CASE Appended
    BY <1>2, <1>t, AppendOK DEF Appended, Kept, NewDraft
  <1>3. CASE Uploaded
    <2> PICK i \in 1..Len(releases), n \in Names, content \in Contents : Put(i, n, content)
      BY <1>3 DEF Uploaded
    <2>1. /\ Len(releases') = Len(releases)
          /\ \A j \in 1..Len(releases) : releases'[j].phase = releases[j].phase
      BY <1>t, PutOK
    <2> QED BY <2>1 DEF Kept
  <1>4. CASE MadePublic
    BY <1>4, <1>t, KeptPublish
  <1>5. CASE SealedByGitHub
    <2> PICK i \in 1..Len(releases) : Seal(i)
      BY <1>5 DEF SealedByGitHub
    <2>1. /\ Len(releases') = Len(releases)
          /\ \A j \in 1..Len(releases) : j # i => releases'[j] = releases[j]
      BY <1>t, SealOK, Zenon
    <2>2. releases[i].phase = "sealing" /\ releases'[i].phase = "sealed"
      <3>1. releases[i] \in Release
        BY <1>t
      <3>2. releases[i].phase = "sealing"
            /\ releases' = [releases EXCEPT ![i] = [releases[i] EXCEPT !.phase = "sealed"]]
        BY DEF Seal
      <3> QED BY <1>t, <3>1, <3>2 DEF Release
    <2> QED BY <2>1, <2>2 DEF Kept
  <1> QED BY <1>1, <1>2, <1>3, <1>4, <1>5, StepChanges

LEMMA OnlyOneNext ==
    ASSUME IInv, OnlyOne, [Next]_vars
    PROVE  OnlyOne'
  BY StepKeeps DEF OnlyOne, Kept

\* What a run does to its result: it keeps it, ends without success, or reports
\* what it has just read of a sealed release.
NewSuccess(p) ==
    /\ result[p] \notin Success /\ result'[p] \in Success /\ pc'[p] = "ended"
    /\ UNCHANGED <<tag, releases>>
    /\ \E i \in 1..Len(releases) : IsSealed(i) /\ HasBundle(i, p)
    /\ result'[p] = "published" => tag = CommitOf[p]

Unsaid(p) == result'[p] = result[p] \/ {result[p], result'[p]} \cap Success = {}

LEMMA Answer ==
    ASSUME IInv, Done, NEW p \in Runs, Start(p) \/ Step(p) \/ Fault(p)
    PROVE  /\ \A q \in Runs \ {p} : result'[q] = result[q] /\ pc'[q] = pc[q]
           /\ result[p] \notin Success
           /\ result'[p] \notin Success \/ NewSuccess(p)
  <1>t. DOMAIN pc = Runs /\ DOMAIN result = Runs
    BY DEF IInv, TypeOK
  <1>n. None \notin Success /\ "failed" \notin Success
    BY PublicationAssumption DEF PublicationAssumption, Success
  <1> USE DEF local, github, Goto, Fail, End
  <1>1. CASE ListAssets(p)
    <2>1. result[p] \notin Success
      BY <1>1 DEF ListAssets, Done
    <2>2. \A q \in Runs \ {p} : result'[q] = result[q] /\ pc'[q] = pc[q]
      BY <1>1, <1>t DEF ListAssets
    <2>3. release[p] \in 1..Len(releases)
      BY <1>1 DEF ListAssets, IInv, Placed
    <2>4. CASE Holds(release[p], p) /\ IsSealed(release[p]) /\ End(p, "already-published")
      <3>1. HasBundle(release[p], p)
        BY <2>3, <2>4, HoldsBundle
      <3>2. pc'[p] = "ended" /\ result'[p] = "already-published"
        BY <1>t, <2>4
      <3> QED BY <1>1, <2>1, <2>2, <2>3, <2>4, <3>1, <3>2 DEF NewSuccess, ListAssets, Success
    <2>5. CASE ~(Holds(release[p], p) /\ IsSealed(release[p]) /\ End(p, "already-published"))
      BY <1>1, <1>t, <1>n, <2>1, <2>2, <2>5 DEF ListAssets, Holds, IsSealed
    <2> QED BY <2>4, <2>5
  <1>2. CASE ConfirmSealed(p)
    <2>1. result[p] \notin Success
      BY <1>2 DEF ConfirmSealed, Done
    <2>2. \A q \in Runs \ {p} : result'[q] = result[q] /\ pc'[q] = pc[q]
      BY <1>2, <1>t DEF ConfirmSealed, AttemptFails
    <2>3. CASE Sealed(p)
      <3>1. 1 \in 1..Len(releases)
        <4>1. DOMAIN releases = 1..Len(releases)
          BY SeqOK
        <4> QED BY <2>3, <4>1 DEF Sealed
      <3>2. HasBundle(1, p) /\ IsSealed(1) /\ tag = CommitOf[p]
        BY <2>3, <3>1, HoldsBundle DEF Sealed, IsSealed
      <3>3. pc'[p] = "ended" /\ result'[p] = "published"
        BY <1>2, <1>t, <2>3 DEF ConfirmSealed
      <3> QED BY <1>2, <2>1, <2>2, <3>1, <3>2, <3>3 DEF NewSuccess, ConfirmSealed, Success
    <2>4. CASE ~Sealed(p)
      BY <1>2, <1>t, <1>n, <2>1, <2>2, <2>4 DEF ConfirmSealed, AttemptFails
    <2> QED BY <2>3, <2>4
  <1>3. CASE Start(p)
    BY <1>3, <1>t, <1>n DEF Start, Done
  <1>4. CASE Fault(p)
    BY <1>4, <1>t, <1>n DEF Fault, Busy, AttemptFails, Done
  <1>5. CASE Step(p) /\ ~ListAssets(p) /\ ~ConfirmSealed(p)
    BY <1>5, <1>t, <1>n DEF Step, GetTagCommit, CreateTag, GetRelease, CreateDraft,
       UploadAsset, Recheck, PublishDraft, Done
  <1> QED BY <1>1, <1>2, <1>3, <1>4, <1>5

\* One run at most has something new to say, and then nothing else changes.
LEMMA StepAnswers ==
    ASSUME IInv, Done, [Next]_vars
    PROVE  \/ \A p \in Runs : Unsaid(p)
           \/ \E p \in Runs : NewSuccess(p) /\ \A q \in Runs \ {p} : Unsaid(q)
  <1>1. ASSUME NEW p \in Runs, Start(p) \/ Step(p) \/ Fault(p)
        PROVE  \/ \A q \in Runs : Unsaid(q)
               \/ NewSuccess(p) /\ \A q \in Runs \ {p} : Unsaid(q)
    BY <1>1, Answer DEF Unsaid
  <1>2. CASE UNCHANGED result
    BY <1>2 DEF Unsaid
  <1> QED
    BY <1>1, <1>2 DEF Next, vars, Seal, MoveTag, StopEnforcing

LEMMA DoneNext ==
    ASSUME IInv, Done, [Next]_vars
    PROVE  Done'
  <1>1. ASSUME NEW p \in Runs, Start(p) \/ Step(p) \/ Fault(p) PROVE Done'
    BY <1>1, Answer DEF Done, NewSuccess
  <1>2. CASE UNCHANGED <<pc, result>>
    BY <1>2 DEF Done
  <1> QED
    BY <1>1, <1>2 DEF Next, vars, Seal, MoveTag, StopEnforcing

\* The tag of a sealed release stays where it is.
LEMMA TagStays ==
    ASSUME IInv, [Next]_vars, NEW i \in 1..Len(releases), IsSealed(i), tag # None
    PROVE  tag' = tag
  <1> USE DEF github
  <1>1. ASSUME NEW p \in Runs, Start(p) \/ Step(p) PROVE tag' = tag
    BY <1>1 DEF Start, Step, GetTagCommit, CreateTag, GetRelease, CreateDraft, ListAssets,
       UploadAsset, Recheck, PublishDraft, ConfirmSealed
  <1>2. ASSUME NEW p \in Runs, Fault(p) PROVE tag' = tag
    BY <1>2 DEF Fault, Effect
  <1>3. ASSUME NEW c \in Commits \cup {None}, MoveTag(c) PROVE FALSE
    BY <1>3, SeqOK DEF MoveTag, IsSealed
  <1> QED BY <1>1, <1>2, <1>3 DEF Next, vars, Seal, StopEnforcing

LEMMA SuccessNext ==
    ASSUME IInv, Done, SuccessIsTrue, [Next]_vars
    PROVE  SuccessIsTrue'
  <1>g. Grown /\ Kept
    BY StepGrows, StepKeeps
  <1>d. DOMAIN releases = 1..Len(releases) /\ DOMAIN releases' = 1..Len(releases')
    BY <1>g, SeqOK DEF Grown
  <1>c. \A p \in Runs : CommitOf[p] # None
    BY PublicationAssumption DEF PublicationAssumption
  <1> SUFFICES ASSUME NEW p \in Runs, result'[p] \in Success
               PROVE  /\ \E i \in 1..Len(releases') : IsSealed(i)' /\ HasBundle(i, p)'
                      /\ result'[p] = "published" => tag' = CommitOf[p]
    BY <1>d DEF SuccessIsTrue, IsSealed
  <1>1. CASE NewSuccess(p)
    BY <1>1 DEF NewSuccess, IsSealed, HasBundle
  <1>2. CASE ~NewSuccess(p)
    <2>1. result'[p] = result[p]
      BY <1>2, StepAnswers DEF Unsaid
    <2>2. PICK i \in 1..Len(releases) : IsSealed(i) /\ HasBundle(i, p)
      BY <1>d, <2>1 DEF SuccessIsTrue, IsSealed
    <2>3. i \in 1..Len(releases') /\ IsSealed(i)' /\ HasBundle(i, p)'
      BY <1>g, <2>2, FullStays, SeqOK DEF Kept, Grown
    <2>4. result[p] = "published" => tag' = CommitOf[p]
      BY <1>c, <2>1, <2>2, TagStays DEF SuccessIsTrue
    <2> QED BY <2>1, <2>3, <2>4
  <1> QED BY <1>1, <1>2

\* A run that reports success has its bundle in a sealed release, and the tag at
\* its commit if it reports that it published, for as long as it says so.
THEOREM TruthOfSuccess == Spec => []SuccessIsTrue
  <1>1. Init => IInv /\ Done /\ SuccessIsTrue
    BY InvInit, PublicationAssumption DEF Init, Done, SuccessIsTrue, Success, PublicationAssumption
  <1>2. IInv /\ Done /\ SuccessIsTrue /\ [Next]_vars => (IInv /\ Done /\ SuccessIsTrue)'
    BY InvNext, DoneNext, SuccessNext
  <1> QED BY <1>1, <1>2, PTL DEF Spec

-----------------------------------------------------------------------------
(* The releases of the tag are a write-once store. *)

WholeInv == IInv /\ Verified /\ PublishedIsWhole /\ OnlyOne /\ Done

LEMMA ShelfHolds ==
    ASSUME IInv, OnlyOne, NEW i \in 1..Len(releases), Public(i)
    PROVE  PublishedAssets = releases[i].assets
  <1>1. DOMAIN releases = 1..Len(releases)
    BY SeqOK
  <1>2. \A j \in DOMAIN releases : Public(j) <=> j = i
    BY <1>1 DEF OnlyOne
  <1>3. (CHOOSE j \in DOMAIN releases : Public(j)) = i
    BY <1>1, <1>2
  <1> QED BY <1>1, <1>3 DEF PublishedAssets

\* The same of the next state.
LEMMA ShelfHoldsNext ==
    ASSUME IInv', OnlyOne', NEW i \in 1..Len(releases'), Public(i)'
    PROVE  PublishedAssets' = releases'[i].assets
  <1>1. DOMAIN releases' = 1..Len(releases')
    BY DEF IInv, TypeOK
  <1>2. \A j \in DOMAIN releases' : Public(j)' <=> j = i
    BY <1>1 DEF OnlyOne
  <1>3. (CHOOSE j \in DOMAIN releases' : Public(j)') = i
    BY <1>1, <1>2
  <1> QED BY <1>1, <1>3 DEF PublishedAssets

LEMMA ShelfEmpty ==
    ASSUME IInv, \A i \in 1..Len(releases) : ~Public(i)
    PROVE  PublishedAssets = None
  <1>1. DOMAIN releases = 1..Len(releases)
    BY SeqOK
  <1> QED BY <1>1 DEF PublishedAssets

\* What is public stays on the shelf; what is put there is a whole bundle, put
\* on an empty shelf by a run that is about to publish it.
LEMMA ShelfStep ==
    ASSUME WholeInv, WholeInv', [Next]_vars
    PROVE  \/ UNCHANGED PublishedAssets
           \/ /\ PublishedAssets = None /\ releases' # releases
              /\ \E p \in Runs : PublishedAssets' = Bundle[p]
  <1>g. Grown /\ Kept
    BY StepGrows, StepKeeps DEF WholeInv
  <1>d. DOMAIN releases = 1..Len(releases) /\ DOMAIN releases' = 1..Len(releases')
    BY SeqOK, <1>g DEF Grown, WholeInv
  <1>1. CASE \E i \in 1..Len(releases) : Public(i)
    <2> PICK i \in 1..Len(releases) : Public(i)
      BY <1>1
    <2>1. PICK p \in Runs : HasBundle(i, p)
      BY <1>d DEF WholeInv, PublishedIsWhole
    <2>2. HasBundle(i, p)'
      BY <1>g, <2>1, FullStays DEF WholeInv
    <2>3. i \in 1..Len(releases') /\ Public(i)'
      BY <1>g, SeqOK DEF Kept, Grown, WholeInv
    <2>4. PublishedAssets = releases[i].assets
      BY ShelfHolds DEF WholeInv
    <2>5. PublishedAssets' = releases'[i].assets
      BY <2>3, ShelfHoldsNext DEF WholeInv
    <2> QED BY <2>1, <2>2, <2>4, <2>5 DEF HasBundle
  <1>2. CASE \A i \in 1..Len(releases) : ~Public(i)
    <2>1. PublishedAssets = None
      BY <1>2, ShelfEmpty DEF WholeInv
    <2>2. CASE \A i \in 1..Len(releases') : ~Public(i)'
      BY <1>d, <2>1, <2>2 DEF PublishedAssets
    <2>3. CASE \E i \in 1..Len(releases') : Public(i)'
      <3> PICK i \in 1..Len(releases') : Public(i)'
        BY <2>3
      <3>1. PublishedAssets' = releases'[i].assets
        BY ShelfHoldsNext DEF WholeInv
      <3>2. \E p \in Runs : HasBundle(i, p)'
        BY <1>d DEF WholeInv, PublishedIsWhole
      <3>3. releases' # releases
        BY <1>2 DEF Public
      <3> QED BY <2>1, <3>1, <3>2, <3>3 DEF HasBundle
    <2> QED BY <2>2, <2>3
  <1> QED BY <1>1, <1>2

ToldOf(p) ==
    IF result[p] \notin Success THEN None
    ELSE [state |-> IF result[p] = "published" THEN "published" ELSE "unchanged",
          release |-> Bundle[p]]

LEMMA ToldIs == Told = [p \in Runs |-> ToldOf(p)]
  BY DEF Told, ToldOf

LEMMA UnsaidTold ==
    ASSUME NEW p \in Runs, Unsaid(p)
    PROVE  ToldOf(p)' = ToldOf(p)
  BY DEF Unsaid, ToldOf

LEMMA UnsaidAll ==
    ASSUME \A p \in Runs : Unsaid(p)
    PROVE  Told' = Told
  BY UnsaidTold DEF Told, ToldOf

LEMMA TellsTruth ==
    ASSUME WholeInv, NEW p \in Runs, NewSuccess(p), \A q \in Runs \ {p} : Unsaid(q)
    PROVE  Promise!Tell(p)
  <1> DEFINE state == IF result'[p] = "published" THEN "published" ELSE "unchanged"
  <1> DEFINE answer == [state |-> state, release |-> Bundle[p]]
  <1>1. Told[p] = None
    BY DEF Told, NewSuccess
  <1>2. ToldOf(p)' = answer
    BY DEF ToldOf, NewSuccess
  <1>3. Told' = [q \in Runs |-> ToldOf(q)']
    BY DEF Told, ToldOf
  <1>4. Told' = [Told EXCEPT ![p] = answer]
    <2> HIDE DEF answer
    <2> QED BY <1>2, <1>3, UnsaidTold, ToldIs
  <1>5. PublishedAssets = Bundle[p]
    <2> PICK i \in 1..Len(releases) : IsSealed(i) /\ HasBundle(i, p)
      BY DEF NewSuccess
    <2>1. Public(i)
      BY DEF IsSealed, Public
    <2> QED BY <2>1, ShelfHolds DEF WholeInv, HasBundle
  <1>6. Bundle[p] \in Bundles /\ VersionOf[Bundle[p]] = Version
    BY DEF Bundles, VersionOf
  <1>7. state \in {"published", "unchanged", "conflict"} /\ Promise!TrueOf(state, Bundle[p])
    BY <1>5, <1>6 DEF Promise!TrueOf
  <1>8. UNCHANGED PublishedAssets
    BY DEF NewSuccess, PublishedAssets, Public
  <1> HIDE DEF state
  <1> QED BY <1>1, <1>4, <1>6, <1>7, <1>8 DEF Promise!Tell

LEMMA RefinesNext ==
    ASSUME WholeInv, WholeInv', [Next]_vars
    PROVE  Promise!Next \/ UNCHANGED Promise!vars
  <1>1. ASSUME NEW p \in Runs, NewSuccess(p), \A q \in Runs \ {p} : Unsaid(q)
        PROVE  Promise!Next
    BY <1>1, TellsTruth DEF Promise!Next
  <1>2. CASE \A p \in Runs : Unsaid(p)
    <2>1. Told' = Told
      BY <1>2, UnsaidAll
    <2>2. CASE UNCHANGED PublishedAssets
      BY <2>1, <2>2 DEF Promise!vars
    <2>3. ASSUME NEW p \in Runs, PublishedAssets = None, PublishedAssets' = Bundle[p]
          PROVE  Promise!Next
      <3>1. Bundle[p] \in Bundles /\ VersionOf[Bundle[p]] = Version
        BY DEF Bundles, VersionOf
      <3>2. Promise!Put(Bundle[p])
        BY <2>1, <2>3, <3>1 DEF Promise!Put
      <3> QED BY <3>1, <3>2 DEF Promise!Next
    <2> QED BY <2>2, <2>3, ShelfStep
  <1> QED BY <1>1, <1>2, StepAnswers DEF WholeInv

\* The releases of a tag are put there once and whole and never change or go
\* away, and success is reported of what is there, for any number of runs.
THEOREM Implementation == Spec => ImplementsWriteOnce
  <1>1. Init => WholeInv
    BY InvInit, PublicationAssumption
    DEF Init, WholeInv, Verified, PublishedIsWhole, OnlyOne, Done, Success, PublicationAssumption
  <1>2. WholeInv /\ [Next]_vars => WholeInv'
    BY InvNext, VerifiedNext, WholeNext, OnlyOneNext, DoneNext DEF WholeInv
  <1>3. Init => Promise!Init
    <2> SUFFICES ASSUME Init PROVE Promise!Init
      OBVIOUS
    <2>1. PublishedAssets = None
      BY DEF Init, PublishedAssets
    <2>2. Told = [p \in Runs |-> None]
      BY PublicationAssumption DEF Init, Told, Success, PublicationAssumption
    <2> QED BY <2>1, <2>2 DEF Promise!Init
  <1>4. WholeInv /\ WholeInv' /\ [Next]_vars => [Promise!Next]_(Promise!vars)
    BY RefinesNext
  <1> QED
    BY <1>1, <1>2, <1>3, <1>4, PTL DEF Spec, ImplementsWriteOnce, Promise!Spec
=============================================================================
