------------------------- MODULE ReleasePublication -------------------------
(***************************************************************************)
(* publish-release.mjs: runs of publishImmutableRelease that publish one   *)
(* tag of a repository on GitHub.  A request is one step.  It is answered, *)
(* or it fails, with or without its effect; a run that ends without a      *)
(* result, whether it threw or was killed, is "failed" and may be started  *)
(* again.  Runs may overlap, unless Serial.                                *)
(*                                                                         *)
(* External: GitHub, as far as the code relies on it.  A tag and an asset  *)
(* name are given once, a release list may hold several drafts of a tag,   *)
(* at most one is published, and a published release is sealed some time   *)
(* after the request that published it and never changes from then on.     *)
(*                                                                         *)
(* The runs publish one version, so their bundles have the same file       *)
(* names; their bytes differ when a build is not reproduced.  A name is    *)
(* its position in the sorted list that is uploaded.                       *)
(***************************************************************************)
EXTENDS Naturals, Sequences

CONSTANTS
    Runs,         \* runs of the publisher
    Commits, Names,
    Bytes,        \* what one asset can contain
    CommitOf,     \* run -> the commit it releases
    Bundle,       \* run -> its bytes for each name
    None,
    Cut,          \* an asset whose upload was cut short: not "uploaded"
    Serial,       \* are runs serialized (release.yml: concurrency)?
    CutsUploads,  \* can an upload be cut short?
    SettleAttempts,
    MaxFaults,    \* bound: requests that fail
    MaxActs       \* bound: interventions of the owner

ASSUME PublicationAssumption ==
    /\ CommitOf \in [Runs -> Commits] /\ Bundle \in [Runs -> [Names -> Bytes]]
    /\ Names \subseteq Nat /\ Names # {}
    /\ None \notin Commits \cup Bytes \cup {Cut, "published", "already-published"}
    /\ Cut \notin Bytes
    \* release.json names the commit it was built from.
    /\ \A p, q \in Runs : Bundle[p] = Bundle[q] => CommitOf[p] = CommitOf[q]
    /\ Serial \in BOOLEAN /\ CutsUploads \in BOOLEAN
    /\ SettleAttempts \in Nat \ {0} /\ MaxFaults \in Nat /\ MaxActs \in Nat

VARIABLES
    tag,        \* the commit the tag points to
    releases,   \* the releases of the tag, oldest first
    enforced,   \* immutable releases are enforced by the owner
    faults, acts,
    pc, result,
    release,    \* run -> the release it works on
    wasDraft,   \* run -> release.draft, as it was read
    missing,    \* run -> the names it still has to upload
    attempts    \* run -> attempts of pollUntilSealed

github == <<tag, releases, enforced>>
local == <<release, wasDraft, missing, attempts>>
vars == <<github, faults, acts, pc, result, local>>

Phases == {"draft", "open", "sealing", "sealed"}

Success == {"published", "already-published"}

Init ==
    /\ tag = None /\ releases = <<>> /\ enforced = TRUE
    /\ faults = 0 /\ acts = 0
    /\ pc = [p \in Runs |-> "idle"] /\ result = [p \in Runs |-> None]
    /\ release = [p \in Runs |-> 0] /\ wasDraft = [p \in Runs |-> FALSE]
    /\ missing = [p \in Runs |-> {}] /\ attempts = [p \in Runs |-> 0]

Goto(p, there) == pc' = [pc EXCEPT ![p] = there]

\* A run takes what it knew with it.
End(p, how) ==
    /\ Goto(p, "ended") /\ result' = [result EXCEPT ![p] = how]
    /\ release' = [release EXCEPT ![p] = 0]
    /\ wasDraft' = [wasDraft EXCEPT ![p] = FALSE]
    /\ missing' = [missing EXCEPT ![p] = {}]
    /\ attempts' = [attempts EXCEPT ![p] = 0]

Fail(p) == End(p, "failed")

Busy(p) == pc[p] \notin {"idle", "ended"}

Public(i) == releases[i].phase # "draft"

HasBundle(i, p) == releases[i].assets = Bundle[p]

\* compareRemoteAssets: the names not there yet; what is there must be uploaded
\* and have the bytes of this run.
Missing(i) == {n \in Names : releases[i].assets[n] = None}

\* Defect: the state of an asset is not looked at.
AgreesWhenCut(i, p) ==
    \A n \in Names \ Missing(i) : releases[i].assets[n] \in {Bundle[p][n], Cut}

Agrees(i, p) == \A n \in Names \ Missing(i) : releases[i].assets[n] = Bundle[p][n]

Holds(i, p) == Agrees(i, p) /\ Missing(i) = {}

-----------------------------------------------------------------------------
(* publishImmutableRelease *)

\* assertImmutable
Start(p) ==
    /\ \/ pc[p] = "idle"
       \/ pc[p] = "ended" /\ result[p] = "failed"
    /\ Serial => \A q \in Runs : ~Busy(q)
    /\ IF enforced
       THEN Goto(p, "getTag") /\ result' = [result EXCEPT ![p] = None] /\ UNCHANGED local
       ELSE Fail(p)
    /\ UNCHANGED <<github, faults, acts>>

GetTagCommit(p) ==
    /\ pc[p] = "getTag"
    /\ \/ tag = None /\ Goto(p, "createTag") /\ UNCHANGED <<result, local>>
       \/ tag = CommitOf[p] /\ Goto(p, "getRelease") /\ UNCHANGED <<result, local>>
       \/ tag \notin {None, CommitOf[p]} /\ Fail(p)
    /\ UNCHANGED <<github, faults, acts>>

CreateTag(p) ==
    /\ pc[p] = "createTag"
    /\ \/ tag = None /\ tag' = CommitOf[p]
          /\ Goto(p, "getRelease") /\ UNCHANGED <<result, local>>
       \/ tag # None /\ Fail(p) /\ UNCHANGED tag
    /\ UNCHANGED <<releases, enforced, faults, acts>>

\* validateRelease refuses a release in the middle of its seal, or lets it
\* pass, depending on the moment.
GetRelease(p) ==
    LET found == DOMAIN releases
    IN /\ pc[p] = "getRelease"
       /\ \/ found = {} /\ Goto(p, "createDraft") /\ UNCHANGED <<result, local>>
          \/ found = {1} /\ Goto(p, "list")
             /\ release' = [release EXCEPT ![p] = 1]
             /\ wasDraft' = [wasDraft EXCEPT ![p] = ~Public(1)]
             /\ UNCHANGED <<result, missing, attempts>>
          \/ (found \notin {{}, {1}} \/ (found = {1} /\ releases[1].phase = "sealing"))
             /\ Fail(p)
       /\ UNCHANGED <<github, faults, acts>>

\* Defect: the release is created without saying that it is a draft.
NewRelease == [phase |-> None, assets |-> [n \in Names |-> None]]

NewDraft == [phase |-> "draft", assets |-> [n \in Names |-> None]]

CreateDraft(p) ==
    /\ pc[p] = "createDraft" /\ Goto(p, "list")
    /\ releases' = Append(releases, NewDraft)
    /\ release' = [release EXCEPT ![p] = Len(releases) + 1]
    /\ wasDraft' = [wasDraft EXCEPT ![p] = TRUE]
    /\ UNCHANGED <<tag, enforced, faults, acts, result, missing, attempts>>

\* Defect: a published release is taken as it is found.
ListAssetsTrusting(p) ==
    /\ pc[p] = "list"
    /\ IF wasDraft[p]
       THEN /\ missing' = [missing EXCEPT ![p] = Missing(release[p])]
            /\ Goto(p, "upload") /\ UNCHANGED <<result, release, wasDraft, attempts>>
       ELSE End(p, "already-published")
    /\ UNCHANGED <<github, faults, acts>>

\* Defect: a draft that lacks assets is refused like a release.
ListAssetsOfNone(p) ==
    LET i == release[p]
    IN /\ pc[p] = "list"
       /\ IF Agrees(i, p) /\ Missing(i) \in {{}, Names} /\ wasDraft[p]
          THEN /\ missing' = [missing EXCEPT ![p] = Missing(i)]
               /\ Goto(p, "upload") /\ UNCHANGED <<result, release, wasDraft, attempts>>
          ELSE Fail(p)
       /\ UNCHANGED <<github, faults, acts>>

\* A draft may lack assets, a published release may not.
ListAssets(p) ==
    LET i == release[p]
    IN /\ pc[p] = "list"
       /\ \/ ~Agrees(i, p) /\ Fail(p)
          \/ Agrees(i, p) /\ wasDraft[p]
             /\ missing' = [missing EXCEPT ![p] = Missing(i)]
             /\ Goto(p, "upload") /\ UNCHANGED <<result, release, wasDraft, attempts>>
          \/ Agrees(i, p) /\ ~wasDraft[p]
             /\ IF Missing(i) = {} /\ releases[i].phase = "sealed"
                THEN End(p, "already-published")
                ELSE Fail(p)
       /\ UNCHANGED <<github, faults, acts>>

Put(i, n, content) ==
    releases' = [releases EXCEPT ![i].assets = [@ EXCEPT ![n] = content]]

Accepts(i, n) ==
    releases[i].phase \in {"draft", "open"} /\ releases[i].assets[n] = None

\* The next asset in order; GitHub refuses a name that is taken and any upload
\* to a release that is sealed or being sealed.
UploadAsset(p) ==
    /\ pc[p] = "upload"
    /\ \/ missing[p] = {} /\ Goto(p, "recheck") /\ UNCHANGED <<releases, result, local>>
       \/ \E n \in missing[p] :
             /\ \A m \in missing[p] : n <= m
             /\ IF Accepts(release[p], n)
                THEN /\ Put(release[p], n, Bundle[p][n])
                     /\ missing' = [missing EXCEPT ![p] = @ \ {n}]
                     /\ UNCHANGED <<pc, result, release, wasDraft, attempts>>
                ELSE Fail(p) /\ UNCHANGED releases
    /\ UNCHANGED <<tag, enforced, faults, acts>>

Recheck(p) ==
    /\ pc[p] = "recheck"
    /\ IF Holds(release[p], p) THEN Goto(p, "publish") /\ UNCHANGED <<result, local>>
                               ELSE Fail(p)
    /\ UNCHANGED <<github, faults, acts>>

\* GitHub publishes one release of a tag; publishing it again changes nothing.
CanPublish(i) == \A j \in DOMAIN releases : Public(j) => j = i

Published(i) ==
    IF Public(i) THEN releases
    ELSE [releases EXCEPT ![i].phase = IF enforced THEN "sealing" ELSE "open"]

PublishDraft(p) ==
    /\ pc[p] = "publish"
    /\ IF CanPublish(release[p])
       THEN /\ releases' = Published(release[p]) /\ Goto(p, "seal")
            /\ UNCHANGED <<result, local>>
       ELSE Fail(p) /\ UNCHANGED releases
    /\ UNCHANGED <<tag, enforced, faults, acts>>

\* Defect: the tag is not read again.
SealedAnywhere(p) ==
    /\ DOMAIN releases = {1} /\ releases[1].phase = "sealed"
    /\ Holds(1, p) /\ enforced

\* confirmSealed.  Nothing it reads changes once it has read a sealed release,
\* so its requests are one step.
Sealed(p) ==
    /\ DOMAIN releases = {1} /\ releases[1].phase = "sealed"
    /\ tag = CommitOf[p] /\ Holds(1, p) /\ enforced

AttemptFails(p) ==
    IF attempts[p] + 1 < SettleAttempts
    THEN /\ attempts' = [attempts EXCEPT ![p] = @ + 1]
         /\ UNCHANGED <<pc, result, release, wasDraft, missing>>
    ELSE Fail(p)

ConfirmSealed(p) ==
    /\ pc[p] = "seal"
    /\ IF Sealed(p) THEN End(p, "published")
                    ELSE AttemptFails(p)
    /\ UNCHANGED <<github, faults, acts>>

\* What a request that failed or was not answered may have done.
Effect(p) ==
    \/ /\ pc[p] = "createTag" /\ tag = None
       /\ tag' = CommitOf[p] /\ UNCHANGED releases
    \/ /\ pc[p] = "createDraft"
       /\ releases' = Append(releases, NewDraft) /\ UNCHANGED tag
    \/ /\ pc[p] = "upload" /\ UNCHANGED tag
       /\ \E n \in missing[p] :
             /\ \A m \in missing[p] : n <= m
             /\ Accepts(release[p], n)
             /\ \/ Put(release[p], n, Bundle[p][n])
                \/ CutsUploads /\ Put(release[p], n, Cut)
    \/ /\ pc[p] = "publish" /\ CanPublish(release[p])
       /\ releases' = Published(release[p]) /\ UNCHANGED tag
    \/ UNCHANGED <<tag, releases>>

\* A request fails or the run is killed during it.
Fault(p) ==
    /\ Busy(p) /\ faults < MaxFaults /\ faults' = faults + 1
    /\ Effect(p)
    /\ Fail(p) \/ (pc[p] = "seal" /\ AttemptFails(p))
    /\ UNCHANGED <<enforced, acts>>

Step(p) ==
    \/ GetTagCommit(p) \/ CreateTag(p) \/ GetRelease(p) \/ CreateDraft(p)
    \/ ListAssets(p) \/ UploadAsset(p) \/ Recheck(p) \/ PublishDraft(p)
    \/ ConfirmSealed(p)

-----------------------------------------------------------------------------
(* GitHub and the owner of the repository. *)

Seal(i) ==
    /\ releases[i].phase = "sealing"
    /\ releases' = [releases EXCEPT ![i].phase = "sealed"]
    /\ UNCHANGED <<tag, enforced, faults, acts, pc, result, local>>

\* The tag of an immutable release is locked.
MoveTag(c) ==
    /\ acts < MaxActs /\ acts' = acts + 1
    /\ c # tag /\ tag' = c
    /\ \A i \in DOMAIN releases : releases[i].phase \in {"draft", "open"}
    /\ UNCHANGED <<releases, enforced, faults, pc, result, local>>

StopEnforcing ==
    /\ acts < MaxActs /\ acts' = acts + 1
    /\ enforced /\ enforced' = FALSE
    /\ UNCHANGED <<tag, releases, faults, pc, result, local>>

Next ==
    \/ \E p \in Runs : Start(p) \/ Step(p) \/ Fault(p)
    \/ \E i \in DOMAIN releases : Seal(i)
    \/ \E c \in Commits \cup {None} : MoveTag(c)
    \/ StopEnforcing

Spec == Init /\ [][Next]_vars

\* Runs that fail are started again, requests are answered or fail, and GitHub
\* seals what it publishes.
RetrySpec ==
    /\ Spec
    /\ \A p \in Runs : SF_vars(Start(p)) /\ WF_vars(Step(p))
    /\ WF_vars(\E i \in DOMAIN releases : Seal(i))

-----------------------------------------------------------------------------
(* Properties *)

\* Every variable has its type.
TypeOK ==
    /\ tag \in Commits \cup {None} /\ enforced \in BOOLEAN
    /\ releases \in Seq([phase : Phases, assets : [Names -> Bytes \cup {None, Cut}]])
    /\ faults \in Nat /\ acts \in Nat
    /\ pc \in [Runs -> {"idle", "getTag", "createTag", "getRelease", "createDraft",
           "list", "upload", "recheck", "publish", "seal", "ended"}]
    /\ result \in [Runs -> Success \cup {"failed", None}]
    /\ release \in [Runs -> Nat] /\ wasDraft \in [Runs -> BOOLEAN]
    /\ missing \in [Runs -> SUBSET Names] /\ attempts \in [Runs -> Nat]

\* What is published for a tag is the complete bundle of one run, never a part
\* of one or a mixture of two, whatever overlapped or was cut short.
PublishedIsWhole ==
    \A i \in DOMAIN releases : Public(i) => \E p \in Runs : HasBundle(i, p)

\* A run that reports success has its bundle in a sealed release; one that
\* reports that it published also has the tag at its commit.
SuccessIsTrue == \A p \in Runs : result[p] \in Success =>
    /\ \E i \in DOMAIN releases : releases[i].phase = "sealed" /\ HasBundle(i, p)
    /\ result[p] = "published" => tag = CommitOf[p]

Version == "the version"

Bundles == {Bundle[p] : p \in Runs}

VersionOf == [b \in Bundles |-> Version]

PublishedAssets ==
    IF \E i \in DOMAIN releases : Public(i)
    THEN releases[CHOOSE i \in DOMAIN releases : Public(i)].assets
    ELSE None

\* A run that failed may be started again: it has not been answered.
Told == [p \in Runs |->
    IF result[p] \notin Success THEN None
    ELSE [state |-> IF result[p] = "published" THEN "published" ELSE "unchanged",
          release |-> Bundle[p]]]

Promise == INSTANCE WriteOnceStore WITH
    Publishers <- Runs, Keys <- {Version}, Contents <- Bundles,
    KeyOf <- VersionOf,
    shelf <- [k \in {Version} |-> PublishedAssets], told <- Told

\* The releases of a repository are a write-once store: what is public under
\* a tag was put there at once and stays, and success is reported of it alone.
ImplementsWriteOnce == Promise!Spec

\* Serialized runs that are retried publish the version: some run reports
\* success, and so does every run whose bundle was sealed.
RetriesPublish ==
    /\ <>(\E p \in Runs : result[p] \in Success)
    /\ \A p \in Runs :
          (\E i \in DOMAIN releases : releases[i].phase = "sealed" /\ HasBundle(i, p))
             ~> result[p] \in Success
=============================================================================
