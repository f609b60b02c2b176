# Verification of soksak-spec

TLA+ models, TLC runs and TLAPS proofs for the code in this repository: the
protocol types, reference harness, runtime validators and release tools that
Soksak, its plugins and its services share. Paths below are relative to the
repository; `pr/` stands for `src/packages/plugin-spec/`, `svc/` for
`src/crates/soksak-spec-service/src/`.

## 1. Inventory

| Component | State it keeps | Operations | What is hard | What makes it correct |
|---|---|---|---|---|
| Service serve harness, `svc/serve.rs` | stdin/stdout pipes, in-flight join handles, mutation mutex, result cache by key, pending mediated calls | `serve` reader loop, one thread per request, `Emit::{progress,activity,call}`, push threads, drain | threads interleave with the reader; poisoned mutex; calls that wait on the reader; shutdown with ops in flight | mutating ops serialize, a res is final, a retry is never executed again, the drain loses nothing, read-only ops and pushes never wait |
| Service wire and ledger, `svc/lib.rs` | none (types, constants) | `judge_hello`, `ops_match`, paths | version floors, absent = 0 | verdict agrees with the floor rule in both directions |
| Runtime session validator, `pr/src/pluginRuntime.ts` | last sequence per direction, used request ids, pending requests, subscriptions, released resources, DOM node authority and revision, streams, provider and context state | `accept`, `close` | two directions interleave; some checks change state before a later check rejects; ids are retired; limits | at most one response per request, streams deliver exactly their bytes, revisions only grow, authority over a DOM node ends with its revision |
| Runtime pending tracker, same file | pending records with deadlines, used ids | `begin`, `settle`, `close` | late answers, ids never reused, expired records still count | one settlement per id, never after the deadline |
| Envelope parser and dispatch policy, same file | none | `parsePluginRuntimeEnvelope`, `authorizePluginRuntimeEnvelope` | direction x role x kind tables | no role is granted a message in a direction it does not own |
| GitHub publication, `pr/release-template/publish-release.mjs`, `src/scripts/publish-release.mjs` | the remote tag, the draft or published release, its assets | immutability check, tag, draft, upload, re-list, publish, poll | crash between any two calls, two publishers, asynchronous sealing | a sealed release has exactly the local assets and the tag commit |
| Local release store, `pr/release-template/local-release-store.mjs` | published directories, staging `~next.<pid>` directories, `.publish-lock` | `publishLocalRelease`, `inspectLocalRelease`, `verifyLocalReleaseStore` | check before lock, crash between write and rename, reads that are no snapshot | a published release never changes and its dependencies are there |
| Registry trust, `pr/src/registry.ts` | the client's high-water mark | `certifyRegistry`, `parseRegistry` | rollback and equivocation across retries | the accepted index never goes back or forks |
| Registry closure, `pr/src/registryPublication.ts`, `pr/release-template/compose-runtime-dependencies.mjs` | documents read, visited and active releases, the pins of a build | `verifyReleaseClosure`, `buildRegistry`, `authenticateRegistry`, `composeGroup` | awaits between reads while releases appear; diamonds whose sides pin different digests | an accepted index is closed, refuses nothing sound, and the walk ends |
| Plugin gate, `pr/release-template/{verify-plugin-release,verified-release-output,build-release}.mjs` | the checkout, the addressed output | verify, build twice, test and rename, compare, look for drift | gates that overlap or die; a tree that is edited meanwhile; a receipt added to the output | the output is written once, and a gate that ends well left what the commit holds |
| Candidate stage, `pr/release-template/{stage-node-candidate,build-node-candidate,candidate-stage,candidate-build}.mjs` | the stage, its override, control file and record | stage, build, finalize, record | a kill or a refusal between the steps of leaving the stage; a dependency repacked or published meanwhile | the record of a candidate is true of its bytes |
| Semver and contracts, `pr/src/{semver,contracts}.ts`, `src/crates/soksak-spec-contract`, `src/go/platformspec/semver.go` | none | parse, compare, range, satisfaction | three implementations of one rule, one of them on strings of digits | a requirement means the same in each and agrees with the order of versions |
| Socket compatibility, `src/crates/soksak-spec-socket` | none | `evaluate_compat` | absent, floor, newer peer | a service is bound only in its range |
| Manifest parser and validation, `pr/src/{spec,service,uiSurfaces,permissions,transparency,localizedText,util}.ts`, `pr/bin/validate.mjs` | none | one pass over a JSON document, then rules across its sections | entry parsers that blame or drop; defaults, trimming; rules that span sections | what is accepted is kept whole, is stable, and what it offers is carried out |
| Build dependencies, receipts, distribution, `pr/src/{buildDependencies,componentBuildReceipt,conformanceWire,distribution,release,release-primitives}.ts` | none | parse and certify documents | canonical bytes | field rules |
| Release builders and archives, `pr/release-template/{build-release,build-portable-release,archive,...}.mjs`, `sidecar/*` | files | pack, hash | byte layout | deterministic bytes |
| Release verification, `src/scripts/*.mjs`, CLI `pr/bin/validate.mjs`, Go `platformspec` | none | drive the parts above | - | - |

How they interact. The core (not in this repository) and a service exchange
NDJSON frames over two pipes; the core frames its side with the types of
`lib.rs`, a service runs `serve`. The core and a plugin frame exchange
envelopes over a message port, each side able to put a session validator on
it. The release tools share files and remote GitHub objects with other runs of
themselves, other publishers and with the platform that seals a release. A
build pins the releases it reads; an index pins releases; a client trusts the
index. A manifest declares the service whose binary later says hello.

The hazards of each part are in `PROJECT.json` under `hazards`, each at its
line with the properties that catch it.

## 2. Plan

Modules are listed in the order of what would hurt most. `done` is on disk.

| # | Module | Abstract specification | Models | State |
|---|---|---|---|---|
| 1 | `ServiceHarness` | `ServiceContract` | `svc/serve.rs` with the core and the handlers around it | done, proofs in `ServiceHarness_proofs` |
| 2 | `RuntimeSession` | - | `PluginRuntimeSessionValidator`, with any endpoints | done, proofs in `RuntimeSession_proofs` |
| 3 | `LocalReleaseStore` | `WriteOnceStore` | `local-release-store.mjs`: processes on one file system | done, proofs in `LocalReleaseStore_proofs` |
| 4 | `ReleasePublication` | `WriteOnceStore` | `publish-release.mjs`: runs against GitHub | done, proofs in `ReleasePublication_proofs` |
| 5 | `ReleaseClosure` | reachability (`Reach`) as its reference | pins of a build, `verifyReleaseClosure` | done, proofs in `RegistryTrust_proofs` |
| 6 | `RegistryTrust` | - | extends `ReleaseClosure` by the owner who signs and the clients who certify | done, proofs in `RegistryTrust_proofs` |
| 7 | `ReleaseGate` | `WriteOnceStore` | the plugin gate, its builder and the output | done, proofs in `NodeCandidate_proofs` |
| 8 | `NodeCandidate` | - | extends `ReleaseGate` by candidates from the same checkout | done, the gates proved beside it |
| 9 | `VersionRules` | the order of versions (`Precedes`) and the ladder in `PluginAdmission` | versions and ranges in TypeScript, Go and Rust | done, proofs in `VersionRules_proofs` |
| 10 | `ManifestRules`, `PluginAdmission` | - | `parseManifest`, `validatePlugins`, and the hello of the service | done, proofs in `PluginAdmission_proofs` |
| 11 | `PendingTracker` | one settlement per id | `PluginRuntimePendingTracker` | planned |

Composition. A detailed module instantiates its abstract specification with a
refinement mapping (`Contract == INSTANCE ServiceContract WITH ...`,
`Promise == INSTANCE WriteOnceStore WITH ...`, `OnceStore` in `ReleaseGate`) and
the abstract `Spec` is a property of its safety run. `WriteOnceStore` is shared:
the local store, the GitHub releases and the output of the gates promise the
same thing by three different means (a lock and a rename, names that are given
once, one rename that replaces nothing). `RegistryTrust`, `NodeCandidate` and
`PluginAdmission` compose a component with the one before it in its life.

What the plan has left is `PendingTracker`.

## 3. The modules

### 3.1 `ServiceHarness`, `ServiceContract`

State. `stdin` and `open` are the pipe from the core, `out` the lines on
stdout; `reader` and `cur` are the program counter and the request of the
reader thread; `inflight` the `JoinHandle`s it keeps; `pc[r]` the thread of a
request; `mutation` and `poisoned` the mutex; `idem` the result cache; `cmdSeq`,
`pending`, `callId`, `reply` the mediated calls. `sent`, `replies`, `bad` and
`retried` belong to the core: what it has sent, and which requests it sent
after a res of their key was on the wire.

Actions. The reader arms are `ReadSkip`, `ReadShutdown`, `ReadEof`,
`ReadCmdRes`, `ReadPush`, `ReadReplay`, `ReadMiss`; `Spawn` is apart from
`ReadMiss` because the cache is unlocked before the thread is spawned. A
request's thread is `Start` (the mutex, for mutating ops), the handler's steps
`Progress`, `Return`, `Panic` and the three steps of `Emit::call`
(`CallAlloc`, `CallRegister`, `CallSend`, then `CallReturn`), and `CacheRes`,
`EmitRes`. `OnPush` is a detached thread. `Exit` joins. The core is external:
`CoreReq`, `CoreReply`, `CorePush`, `CoreBad`, `CoreShutdown`, `CoreClose`.

Which ops call and which stream are the constants `Callers` and `Streamers`.

An outcome is abstracted to the request whose execution produced it (`by` of a
res frame): enough to tell a replay from an execution.

`ServiceContract` has no threads: a request is asked, executed or replayed, and
answered once by an execution of its own key.

### 3.2 `RuntimeSession`

State: the fields of the validator (`lastSequence`, `requestIds`, `pending`,
`subscriptions`, `releasedResources`, `nodeIds`, `domRevision`, `streams`,
`retiredStreamIds`, `bootstrapped`, `ready`, `providerState`,
`contextRevision`, `closed`) and histories that the properties read: `asked`
and `answers` (requests accepted and how often they were answered), `shown`
(the revision of the last result that named a node), `tape` (what a stream
carried).

Actions: one per envelope kind that `accept` lets through, with the policy row
(`Admits`), the state check and the commit in one step, as the code does them,
since `accept` runs to its end before anything else arrives;
an `accept` that answers not ok changes nothing and is no action. `close()` is
`Close`. Endpoints and transport are external: any envelope comes at any time,
so gaps, duplicates and every interleaving of the two directions are included.

### 3.3 `LocalReleaseStore`, `WriteOnceStore`

State: `stored[k]`, `staging[p]` and `lock` are the directories; a directory
holds a release (its complete bytes) or `Torn`, which is the distinction
`canonical()` makes by reading every file. `input[p]` is what a publisher's
input directory holds, `source[p]` what the publisher read from it. `pc`,
`result`, `todo`, `saw` are local to a process. `named` is what refusals have
named to the operator. `present`, `author`, `began`, `unclosed` are histories.

Actions: a file system call is a step. `Begin` and `Look` are the walk for
leftovers, version by version in the order of the kinds; a publisher then goes
through `Lock`, `ReadInput`, `FindStored`, `Stage`, `Copy`, `VerifyCopy`,
`Rename`, and on any path that leaves `withStoreLock` through `Unlock`;
`IoError` is a call that throws, `Cleanup` the removal of the staging directory,
which may itself fail; `Crash` ends a process anywhere. The removal of the lock
may fail as well: it stands in a `finally`, so its error replaces the answer,
also that of a publication that has renamed its version into place, and the lock
stays. A reader goes through
`Inspect`, or `StartVerify`, `Visit`, `Conclude`. External: `Rebuild` rewrites
an input, `RemoveLeftover` and `RemoveLock` are the operator, who removes only
what a dead process left unless `TrustsRefusals`.

`WriteOnceStore` has a shelf and answers: a version is put once and whole,
nothing on the shelf changes, and an answer is true of the shelf when given.

### 3.4 `ReleasePublication`

State: `tag`, `releases` (drafts and the published release, each with its
assets: bytes, nothing, or `Cut`), `enforced`; per run `pc`, `result`,
`release`, `wasDraft`, `missing`, `attempts`.

Actions: an HTTP request is a step. `Start` (`assertImmutable`),
`GetTagCommit`, `CreateTag`, `GetRelease`, `CreateDraft`, `ListAssets`
(`compareRemoteAssets`), `UploadAsset`, `Recheck`, `PublishDraft`,
`ConfirmSealed` (polled `SettleAttempts` times). `Fault` is any request that
fails, is never answered, or whose process is killed, with or without the
effect of the request; a run that ended without success may start again.
External: `Seal` (a published release becomes immutable some time later),
`MoveTag`, `StopEnforcing`, and what GitHub itself refuses (a tag or an asset
name given twice, a second published release of a tag).

### 3.5 `ReleaseClosure`, `RegistryTrust`

State. `shelf` maps `id@version` to the bytes of its release.json. A build keeps
`builder` (its intents and the pins composed so far). A verification keeps
`wish` (the plugins of the registry directory), `memo` (`remoteReleases`), the
`roots` resolved, the `cursor` of the root loop, `stack` (the calls of `visit`
that have not returned, hence the active set), `done` and `verdict`. The owner
keeps the `drafts` that `registry-build` wrote and the `issued` documents, a
client its `mark`.

Actions. A read is a step, because it is awaited: `StartBuild`, `Compose`,
`PublishBuilt`; `StartWalk`, `Resolve`, then per call of `visit` one of
`EnterActive` (a cycle), `EnterDone` (visited: the digests must agree),
`EnterNew`, followed by `Fetch` and `Leave`; `Finish`. `WriteRegistry`
writes the unsigned index of an accepted walk. `Authenticate` signs any index that
parses: `registry-authenticate` verifies no release, so what it is given is one of
the drafts or an index the owner wrote (`HandWritten`, in the run one whose digest
is of another kind of document). What a client learns of releases
(`AcceptedResolves`) is therefore said of indices that were not written by hand.
`Certify` is `certifyRegistry` with the client that stores the answer. External: `PublishJunk`, replacement of a release (at most
`MaxReplaced`), and documents that are old, duplicated, damaged, or signed by
another key. A digest is the bytes it is of, a signature what was signed.

### 3.6 `ReleaseGate`, `NodeCandidate`

State. `head` and `tree` are the checkout, `published` the dependencies the
package registry has, `gate[g]` where a gate is and its first build, `output`
the addressed output with its receipt, `told` what gates reported. A candidate
has `stage` (files, metadata, the copied archive, its digest, the control file),
`job` (the command that runs), `out` and `record`.

Actions of a gate, in order: `StartGate`, `MakeVerify`, `BuildFirst`,
`BuildSecond`, `TestOutput`, `RenameOutput` or `CompareOutput`,
`InspectOutput`, `CheckDrift`; `Kill` ends it anywhere. `Developer` edits, checks
out or publishes a dependency; `Attest` adds the receipt in two writes. A
candidate goes through `StartStage`, `Extract`, `Override`; then `StartBuild`,
`RunChecks` (the owner's own commands, which may touch files and fail),
`Restore`, `Judge`, `Leave` (the steps of `finalizeNodeCandidate`),
`BuildCandidate`, `Record`. `KillJob`, `StartOver` and `Repack` are the operator.

Two bounds. Candidates are built before the gates start: a candidate reads the
checkout in one step and writes nothing a gate reads, so the order is no loss.
One command works on a stage at a time.

### 3.7 `VersionRules`, `ManifestRules`, `PluginAdmission`

`VersionRules` has the order of versions and the range grammar three times:
TypeScript compares and counts in integers and parses the bound it computed for ^
and ~ again, under the limit on the length of a version (`SemverSatisfies`,
`BoundReadable`); Rust compares and counts in strings of digits and measures no
bound (`RustSatisfies`); Go counts in integers and hands the texts to
`golang.org/x/mod/semver`, which looks for the place where they part
(`DependencyRequirementSatisfied`; the library is external). `MaxLength` is the
limit, 256 in the code. `ManifestRules` begins with what a document is (`IsDocument`):
the interfaces of `spec.ts`, `service.ts`, `uiSurfaces.ts` and `contracts.ts`,
each field also holding what is wrong there. Texts, ids and paths are classes of
values the code treats alike: absent, blank, padded, good, bad. Then come, section
by section, what `parseManifest` keeps (`...Kept`) in which normal form
(`Normal...`) and what it blames (`...Blamed`), one operator per parser of a list
(`Libraries`, `Views`, `Commands`, ...), the manifest that comes of it (`Manifest`),
the rules across sections, and where it throws. `normalizeText` is what it does to
values nobody looked into: a number becomes an empty map, a list the map of its
entries (`AsText`), and `null` or an entry that is no text makes it throw (`Trips`).

`PluginAdmission` is the life of a document: `Declare` changes one field,
`Judge` is `validatePlugins`. A manifest is compared with its document field by
field (`WhollyKept`): each entry is there in its place with the values that were
written, without space around a text and with what the code documents for a field
that is absent. `Read` is the document as `parseManifest` reads it, in which four
things are not there or are something else; section 6 names them. `Hello` is the first frame of the binary, which the
host (external) binds if `judge_hello`, the contract requirement and `ops_match`
say so.

## 4. The runs

| Run | Instance | Shows |
|---|---|---|
| `harness_safety` | two mutating requests of one key, one read-only; one mutating and the read-only op make two calls between them, each answered up to twice; the other one streams; two frames in the pipe | serialization, res last, retry safety, a call gets its own answer, complete drain, `ServiceContract` is implemented |
| `harness_liveness` | three keys, a self call, a pushed event, a bad line | what never waits for the mutex, what ends, what the drain waits for |
| `session` | a controller, a preview, a view and a file viewer, each with the methods of its part; four ids of which three may be used, two of them pending at once, one subscription of two topics, one resource, three nodes with a limit of two, two revisions, two stream ids of which one is active, three bytes | one fate per request, node authority, subscriptions, every limit, whole streams |
| `store_safety` | two publishers, one reader, a plugin that pins one of two candidate sidecars, one rewritten input, any call may fail | stored releases are whole, answers are true, who fails or dies after the rename leaves the lock behind, `WriteOnceStore` is implemented |
| `publication_safety` | three overlapping runs, two of one build and one of another commit; two faults, cut uploads, one intervention of the owner | what is published is whole, success is true, `WriteOnceStore` is implemented |
| `publication_retry` | three serialized runs, one of them with other bytes, six faults, no cut upload | retries publish the version |
| `registry` | plugins p and q pin a sidecar of two builds that may itself pin p; four publications, one of them a replacement, junk bytes; one client, two signed documents, of one sequence or one of them a later one written by hand, three clock values | an accepted index is closed and resolves, refusals are real, no client forks or goes back, the walk ends |
| `builds` | two gates, three commits (plain, with a local dependency, with an override of its own), two builds of the dependency, two moves of the developer, four sets of generated files | the output is written once, a gate that ends well left its commit's bundle, the record of a candidate is true |
| `rules` | documents with every section and without code, one or two declarations changed; every requirement at six boundaries against a ladder of twenty-two versions, of which one is longer than the six characters a version may have; hellos of every shape | what is accepted is kept field by field, offered things are carried out, ranges agree |
| `harness_dup_key`, `harness_drain`, `store_leftover` | as above | the findings of section 6 |

Why the bounds are enough. Harness: the races are between a pair of requests
(of one key, or for the mutex) and the reader; the third request is there to be
read-only. `MaxStdin` 2 lets a frame wait behind another; two calls, of one
op or of two at once, each answered up to twice, let an answer be another call's, a
repeated one or one of a call that has long returned, and interleave with the drain
and the mutex. The safety theorems hold for every
bound. Session: more ids, topics, nodes and active streams contend than each limit
admits, so each is reached with requests in flight; only `MaxStreams` cannot be
exceeded by the two stream ids there are, and is left to the theorem; a stream of up to three bytes in
chunks of one to three has, among others, a short last chunk; a role runs the
methods of one part only, as the parts share nothing but the correlation of
requests, and the theorems hold for any methods, roles and limits. Store: two publishers are the smallest set
with a race, one pin the smallest closure, and the theorems hold for any
number. Publication: two assets are the smallest bundle that can be mixed; three
runs allow one to fail, one to overlap and one of other bytes. Registry: two
plugins over two builds of a sidecar make a diamond with different digests, and a sidecar that pins p
a cycle of identities; four publications with a
replacement let a release change under a walk, and of two signed documents one
may be of the same sequence as the other or of an earlier one. Builds: two gates race for one
output; a third would meet what the second meets. Rules: a rule across sections
reads two fields, so two edits reach each; the ladder has the neighbours of
every boundary an operator computes, carries through nines included. With six
characters to a version `99.0.0` is one and the bound that follows it, `100.0.0`,
is not, which is the case of 256 characters in small. In
`publication_retry` six faults are two for each run, so the run that succeeds
may follow several that did not.

`CHECK_DEADLOCK FALSE` everywhere: a service exits, a session closes, a process
ends.

Symmetry (`IdSymmetry`, `PublisherSymmetry`, `RerunSymmetry`) is used in safety
runs only, over values the configuration does not tell apart. The refinement
properties of those runs have no fairness.

Each property has a mutant in `PROJECT.json`: a definition next to the real one
(marked `Defect:`) that changes it the way a bug would, under which the run
finds the property violated.

## 5. Fairness

- `HarnessFairness`: the reader, every request thread and every `OnPush` thread
  are threads of the operating system; one that can run will run. Weak fairness
  is enough for all but the mutex, and for that too: the requests are finite,
  so it is taken only finitely often.
- `HandlerFairness` (a handler returns or panics) and `CoreFairness` (the core
  answers mediated calls, and sends the request a call depends on) are premises
  about code outside the harness. `ReadsAndPushesRunFree` holds without them
  and is checked without them; the other liveness properties carry them in
  their statement.
- `FairSpec` of `RegistryTrust`: weak fairness of the walk, one asynchronous
  function whose reads are answered, with bytes, with none or with junk.
- `RetrySpec`: a run that failed is started again (strong fairness, since
  serialized runs keep each other from starting), every request is answered or
  fails, and GitHub seals a published release. They are premises: who reruns a
  failed job is a person or a workflow.

## 6. Where the code and its documentation part

Each is a run that expects a violation.

- `harness_dup_key`. `lib.rs` says that the service deduplicates by key. The
  cache is filled after an op has run, so two requests of a key in flight
  together both run. What does hold is `RetryNeverRuns`: a request sent after an
  answer of its key was written is never executed.
- `harness_drain`. Shutdown should finish in-flight ops and exit. The reader
  leaves its loop and joins; an op inside a mediated call waits for a `cmdRes`
  nobody reads. `DrainEndsUnlessCalling` says this is the only such case.
- `store_leftover`. A refusal names a `~next.<pid>` directory as a leftover
  also when its publisher is alive; an operator who follows it removes files
  after they were verified, and an incomplete version is published. With an
  operator who removes only what dead processes left, `store_safety` and the
  theorems show that this is impossible.

Met while modelling, without a run of their own:

- "A failed publication exposes no final directory" (`BUILD-AND-RELEASE.md:144`), but
  the lock is removed after the rename, in a `finally` (`local-release-store.mjs:145`):
  when that fails, the publication is reported as failed with its version in place.
  `WritersSayOrBlock` says that the lock then stays, so that the next publisher does
  not pass it unnoticed.
- The Rust crate says that it mirrors TypeScript exactly, limits included
  (`soksak-spec-contract/src/lib.rs:4`). TypeScript parses the bound it computed for ^
  and ~ again (`semver.ts:127`); where a carry through nines makes it longer than 256
  characters, the requirement matches nothing there, and its family in Rust and Go.
  `RangesAgree` says that this is the only difference a manifest can meet.
- No manifest is accepted in part (`spec.ts:9`), yet four things are read in part: a
  view whose `icon` is blank is dropped without an error (`spec.ts:955`); further keys
  of `contributes.skill` (`spec.ts:1184`) and of a schedule's trigger
  (`service.ts:301`) are left behind; and a description or a label of a setting that is
  no text becomes a map of its entries (`spec.ts:860`). `AcceptedIsKept` says that all
  else is kept.
- `BUILD-AND-RELEASE.md` (English and Korean) names
  `LOCAL_RELEASE_REPLACEMENT_INTERRUPTED` and a replacement by two renames; the
  code has `LOCAL_RELEASE_PUBLICATION_INTERRUPTED`, one rename, and no
  operation that replaces or deletes.
- An upload that is cut short leaves an asset that is not `uploaded`, and every
  later run refuses the draft: `RetriesPublish` fails with `CutsUploads = TRUE`
  although a test names resumption.
- Overlapping runs can each create a draft of a tag, which the code then
  refuses to choose from: `RetriesPublish` needs `Serial`.
- `already-published` does not say where the tag is; an owner who moves it
  during the run makes it name another commit. `SuccessIsTrue` therefore
  promises the commit for `published` alone.
- Session requests that overlap: a test calls release terminal
  (`pr/test/pluginRuntime.test.ts:471`), yet an open accepted before the release
  was acknowledged is answered after it; a second unsubscribe result ends a
  subscription that was granted again in between.
- `parseManifest` is to report its reasons (`spec.ts:562`), but throws on
  permissions that are no list beside a sidecar dependency (`spec.ts:646`), and on
  texts it trims without having looked into them: a library's label or a setting's
  title that is a map with an entry that is no text, and a description or an enum
  label of a setting that is `null` or has such an entry. `ManifestRules.Throws`
  has these cases; an entry that is not kept is not trimmed.
- A number's default is not held against its own `min` and `max` (`spec.ts:815`),
  and a program may name a view nobody declares.
- The Rust crate also accepts the requirement `*`, and its JSON names the field
  `range` where TypeScript has `requirement`. No manifest can carry `*`, so
  `RangesAgree` holds.
- `finalizeNodeCandidate` puts the metadata back before it looks for
  undeclared changes (`candidate-stage.mjs:201`). After a refusal the stage has no
  override, a release builder accepts it although `VERSIONING.md:254` says it
  rejects one, and a retry installs what the registry has by then while the
  record names the staged digest. `RecordIsTrue` is stated for builds that
  began with the override in place.
- The archive of a dependency is digested (`candidate-stage.mjs:43`) and copied
  later (`:173`); bytes replaced in between are filed under the old digest.
- The plugin gate compares only `main.js` with the commit, takes `--commit`
  without comparing it with HEAD, and looks for drift when the output is in
  place already: a gate that fails then leaves its output.

## 7. What is proved

The proofs hold for every value of the constants that satisfies the module's
named assumption, of which each says only that the constants have their types
and that the special values are none of the others. `StoreAssumption` and
`PublicationAssumption` add nothing about the code but that `release.json`
names the commit it was built from.

**Harness** (`ServiceHarness_proofs`, from `HarnessAssumption`). `TypeCorrect`,
`Serialized`, `RetrySafe`, `ResOnceAndLast`, `Drained`, all from `Inductive`.
None of the four invariants is inductive alone. `IInv` adds: a mutating op in
its handler holds the mutex (`MutexInv`); a request is in one place, the pipe,
the reader or a thread (`PlaceInv`), without which a request could be spawned
twice; a key with a res on the wire, or about to be, is cached (`CacheInv`),
which is what `RetryNeverRuns` rests on; a res is on the wire exactly when its
thread has written it (`ResInv`), which gives `ResIsLast`; the reader keeps the
handle of every unfinished thread (`JoinInv`), which gives the drain.

Its second half has `Implementation` (`Spec => ImplementsContract`) and
`OwnReplies` (`CallGetsItsOwnReply`), which also use `SentAssumption`: a request
is neither a pushed event nor the shutdown frame. A step maps to `Ask` when the
core writes a request, to `Execute` when the reader spawns its thread, to
`Complete` when the handler returns or panics, to `Answer` when its res is
written, to `Replay` when the reader writes a cached one, and to a stutter
otherwise. It rests on `OutcomeInv`: what is cached under a key is the outcome
of an execution of that key that returned, and a request that was executed is
answered by its own. `CallInv` is the invariant of mediated calls: ids are given
out once (`IdInv`), the cmd with the id a handler waits for is its latest
(`InCallInv`), a reply channel is the one of the call its request is in and empty
(`ChannelInv`), and every answer in the pipe names a cmd that was written
(`PipeInv`). Without `ChannelInv` a repeated answer could fill the channel of a
later call.

**Store** (`LocalReleaseStore_proofs`, from `StoreAssumption`). `TypeCorrect`
and `Exclusion` without further assumption; `Wholeness` and `Implementation`
(`Spec => ImplementsWriteOnce`) under `~TrustsRefusals`, the condition the
finding shows to be needed. The invariant is `TypeOK`, `WorkInv` (who is under
the lock holds it and has read its source) and `Truth` (what was verified is
still what was read; what is stored is whole; what was answered is true). The
refinement proof takes a step to `Put` (`Rename`), to `Tell` (a step that ends a
publisher) or to a stutter.

Its second half has `Stopped` (`LeftoversStopEveryone`) and, under
`~TrustsRefusals`, `Answered` (`AnswersAreTrue`). `LeftInv`: a process stages
once, so what a walk has passed does not come back, and what it has not reached
is at a version it still has to look at. `AuthorInv`: a version has an author
only when it is stored, so none takes another's place. `ReaderInv`: a reader
visits versions in the order of their kinds, what it read stays stored, and while
every pin resolves a pin of a later kind was read or is still before it; so a
mismatch at the end means that some pin did not resolve, or is of no later kind.
`Answered` covers every call that may fail, so it says of a failure only that
nothing is claimed; what a failure leaves behind is said by `Accountable`
(`WritersSayOrBlock`, without further assumption): who has put a version in place
is at its unlock with the answer `published` and holds the lock (`AuthorInv`,
`WorkInv`), and from there a step that ends it says so or keeps the lock.

**Publication** (`ReleasePublication_proofs`, from `PublicationAssumption`).
`TypeCorrect` and `Wholeness` (`PublishedIsWhole`). `IInv` is `TypeOK` with the
place of each run; `Grown` is what a step does to the releases (a name is given
once and never changes), from which a bundle that is complete stays complete
(`FullStays`); `Verified` says that a run about to publish has its bundle in its
release. `TruthOfSuccess` (`SuccessIsTrue`) and `Implementation`
(`Spec => ImplementsWriteOnce`) rest on it: a release in which a run's bundle is
complete and sealed stays so, the tag of a sealed release does not move, and at
most one release of the tag is public. The step that publishes a draft is `Put`,
a step that ends a run with success is `Tell`, every other step a stutter.
Faults, overlaps and the owner are all covered.

**Session** (`RuntimeSession_proofs`, from `SessionAssumption` and
`NoneAssumption`). All six invariants of the run, from `SessionInductive`. The
inductive invariant is a conjunction of parts, `WireInv`, `DomInv`, `StreamInv`,
`GrantsTyped`, `LifeTyped`, the limits and `AskedFor`; a step moves the wire and
one other part, so each part has its kinds of step (`WireStep`, `DomStep`, ...),
one lemma that every step of the session is of these kinds, and one that they
keep the part. What the properties lack alone: what is pending is what was
asked (`PendingIsAsked`), without which a subscribe result could name any
topic; a node's revision is at most the current one; and the tape of an active
stream is what its state says (`Recorded`), while a stream neither active nor
retired has none. The subscription limits count finite sets: a result that adds
a subscription also adds an answered request.

**Registry** (`RegistryTrust_proofs`, from `ClosureAssumption`,
`TrustAssumption` and `PinsAreOlder`). `ClosureTypeCorrect` (the types are proved
here and no run repeats them), `AcceptedIsClosed` (`VerifiedIsClosed`) and
`ClientsNeverFork` (`TrustNeverForks`). The walk is a stack of calls:
`ClosureInv` says that they are on distinct keys, each at the pin of the one
above it; that the pins behind the variable of each loop are settled; and
settled pins stay so, because `done` only grows during a walk. An accepted
walk has an empty stack and every root behind the cursor. `TrustInv`: a
client's mark is the last index it accepted.

`RefusesForAReason` (`RefusalIsReal`) and `AcceptedCanBeResolved`
(`AcceptedResolves`) compare the walk with `Reach`, the least set of pins closed
under the pins of its documents. `Reach` is a function defined by recursion over
documents, and that it is that set (`ReachIsLeast`) needs the recursion to end:
`PinsAreOlder`, a pin holds the digest of what was written before it. `SeenInv`
ties the walk to the shelf and to `Reach`: what was read is still there while no
release was replaced (`OnShelf`), and calls and settled pins are among what the
roots reach (`WithinReach`). From there a verified index goes through the drafts to
the signed documents (`DraftsResolve`, `IssuedResolves`), except for what the owner
wrote by hand.

**Gates** (`NodeCandidate_proofs`, from `GateAssumption`). `OkGateIsCommitted`
and `OutputOnce` (`Spec => OutputIsWriteOnce`, in the specification with
candidates). `GateInv` has four parts: types; `Carried`, what a gate holds
between its steps, among it that the output is the gate's own build once it is
past the rename or the comparison; `Steady`, while nobody disturbs the checkout
the tree is what the gate's checks made of it, which overlapping gates only make
again; `Kept`, a gate that ended well left its commit's own bundle.
`RecordTold` (`RecordIsTrue`) has its own invariant, `CandidateInv`: where a
command is, and what it has made of the stage (`JobInv`), which also says that
a stage under control has no output and holds the archive of its digest or none
(`Controlled`), unless it was repacked in between; and that after the record
nothing works on the stage any more (`RecordInv`).

**Versions** (`VersionRules_proofs`, from `ClausesAssumption`).
`ComparedAsOrdered`: `semverCompare` is the order of versions as semver.org words
it (`Precedes`), a definition that compares nothing. `RequirementCounted`: Rust's
and Go's strings of digits decide every requirement alike, of any length up to the
limit on a version, and as TypeScript's integers do where the bounds of ^ and ~ fit
that limit; where one does not, TypeScript matches nothing.
It rests on two facts about `Digits`, a function defined by recursion: of two
numbers the less has the shorter digits, or as many and a lesser one where they
first differ (`DigitsOrdered`), and counting up the digits gives those of the next
number, through any run of nines (`IncrementIsNext`). Both are proved with the
least number they could fail for. Go looks for the place where two texts part,
which is where the digits do (`ComparedAsText`).

**Admission** (`PluginAdmission_proofs`, from `DocumentsAssumption`,
`AbsenceAssumption` and `LadderAssumption`). The first says that what authors write
is of the types `IsDocument` names, however wrong; the second that the values for
"absent" and "no list" are no part of a document. `Admitted` is the invariant
(`AdmittedInductive`): the document stays one, and a manifest is that of a document
which was accepted (`Judged`).

`KeptAsWritten` (`AcceptedIsKept`) needs each parser to settle what it keeps. An
entry that is kept has a normal form, and the normal form is kept and is its own
normal form (`LibrarySettles`, `CommandSettles`, ...); for a command that is an
operation this goes down to its parameters, for origins to the order in which they
are listed (`Canonical`). A list of settled entries is parsed to itself and blames
nothing (`SectionSettles`, `SectionAgain`), so all sections do (`SectionsSettle`),
the other fields too (`FieldsSettle`), and with them the manifest
(`ManifestSettles`, `ManifestAccepted`): the rules across sections read only what
did not change. Header actions and status items are settled for the commands of
the manifest, since they must name one of them. That nothing is lost (`KeptWhole`)
goes field by field: each `...Settles` lemma also says that the normal form of an
entry keeps it (`EntryKept`), from what trimming and the defaults do to one value
(`TrimKept`, `ValueStays`); an accepted section blames no entry and so has one for
each that was read, in its place (`SectionKept`); and what is no list keeps its
value (`FieldsKept`). It is stated of the document as `parseManifest` reads it
(`Read`), which leaves every other part as it was written (`ReadIs`).

`CarriedOut` (`OfferedIsCarriedOut`) follows from what an accepted manifest's
sections are: every action, item and schedule names a command, the rules of
services leave a document without an entry nothing but operations, and `ops_match`
held when the host bound it.

`AllAnswerAlike` (`RangesAgree`): the requirement in a manifest can be read
(`ServiceKept`), Rust and Go agree on it, TypeScript too where it can read the bounds
it computes, and each clause says what
the ladder shows (`ClauseOnLadder`): the upper bound of ^ and ~ is the least release
that is above the boundary and of another family (`UpperLeavesFamily`,
`BelowUpperIsFamily`). `LadderAssumption` says which ladders the property can be
read off: one in order that has all versions in question and the releases that
follow a family. Any finite set of versions is on such a ladder.

**Model-checked only**: the liveness properties (`ReadsAndPushesRunFree`,
`EveryOpRuns`, `EveryOpEnds`, `DrainEndsUnlessCalling`, `RetriesPublish`, `WalkEnds`)
under the fairness of section 5, which is outside what the proof system handles, as
are `ENABLED` and induction over data. The three findings are counterexamples. Every
invariant and every other action property a passing run checks is a theorem. No
module has a RECURSIVE operator.

## 8. What is not modelled

- The core itself and plugins: they are not in this repository and appear as
  external actions that may do anything the wire allows.
- Supervision by the core (restart back-off, SIGKILL, call deadlines), and pipes
  that fill up: stdout is taken to accept a line at once.
- Handlers that spawn threads of their own and use `Emit` after they returned;
  `act` frames, which are ordinary stream frames to the harness.
- The syntax of envelopes and release documents: parsing is a guard that passes
  or fails. Of manifests the grammar of ids, paths, versions and translated
  texts is a class of values; what the parser then does with it is modelled.
- Two commands at work on one candidate stage, which nothing in the code
  prevents; more than one local dependency.
- Process ids that are used again; a crash of the machine, which may lose writes
  that were made (a process dies here, the file system does not).
- Pages of GitHub lists, and validation of fields GitHub returns. All runs of
  one version are taken to declare the same file names; the bytes may differ.
- A snapshot in `verifyLocalReleaseStore`: it reads version by version, so
  `AnswersAreTrue` says that a mismatch is real for pins of a kind that is walked
  later.
- The parts marked `not_modelled` in `PROJECT.json`: certification of a plugin's
  runtime, the collection of release assets, release documents, build
  dependencies and receipts, the repository's verification scripts and the Go
  validation of documents are single passes over one document or drive other
  programs, and keep no state. The pending tracker is in the plan.
