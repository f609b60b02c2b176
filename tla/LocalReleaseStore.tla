-------------------------- MODULE LocalReleaseStore --------------------------
(***************************************************************************)
(* local-release-store.mjs: publishers, readers and an operator on one     *)
(* local release store.  A file system call is one step; the directories   *)
(* are                                                                     *)
(*   stored[k]    <store>/<kind>s/<id>/<version>                           *)
(*   staging[p]   <version>~next.<pid> of the publisher process p          *)
(*   lock         <store>/.publish-lock                                    *)
(* A directory holds the complete bytes of a release (a member of          *)
(* Contents) or anything else (Torn: files missing, mixed or changed),     *)
(* which is what canonical() tells apart: it reads every file and compares *)
(* it with release.json.                                                   *)
(*                                                                         *)
(* A process is one run of local-release.mjs and may die at any step.      *)
(* External: the build that owns the release input and may rewrite it, and *)
(* the operator who removes what a dead process left.                      *)
(***************************************************************************)
EXTENDS Naturals, FiniteSets

CONSTANTS
    Publishers, Readers,  \* processes
    Keys,                 \* kind, id and version
    Contents,             \* complete release bytes
    KeyOf,                \* release bytes -> the version they name
    Pins,                 \* release bytes -> the bytes of their dependencies
    Rank,                 \* version -> position of its kind in KIND_DIRECTORY
    Torn, None,
    TrustsRefusals,       \* does the operator remove what a refusal names?
    MaxRebuilds           \* bound: how often inputs are rewritten

\* How a process can end.
Outcomes == {"interrupted", "busy", "published", "unchanged", "conflict", "failed",
             "crashed", "missing", "corrupt", "inspected", "invalid", "verified",
             "mismatch"}

ASSUME StoreAssumption ==
    /\ KeyOf \in [Contents -> Keys] /\ Pins \in [Contents -> SUBSET Contents]
    /\ Rank \in [Keys -> Nat]
    /\ {Torn, None} \cap (Contents \cup Keys \cup Publishers \cup Outcomes) = {}
    /\ Torn # None
    /\ Publishers \cap Readers = {}
    /\ TrustsRefusals \in BOOLEAN /\ MaxRebuilds \in Nat

VARIABLES
    input,      \* publisher -> what its release input directory holds
    rebuilds,
    stored, staging, lock,
    pc, result, \* process -> where it is, and how it ended
    todo,       \* process -> the versions its walk has not reached
    source,     \* publisher -> sourceState: the bytes read from the input
    saw,        \* reader -> the releases it read
    named,      \* the staging directories a refusal has named
    present,    \* history: process -> the staging directories at its start
    author,     \* history: version -> the publisher that renamed it in place
    began,      \* history: reader -> the releases stored when it began to verify
    unclosed    \* history: reader -> a pin did not resolve while it verified

directories == <<stored, staging, lock>>
ghosts == <<present, author, began, unclosed>>
vars == <<input, rebuilds, directories, pc, result, todo, source, saw, named, ghosts>>

Processes == Publishers \cup Readers

Staged == {p \in Publishers : staging[p] # None}

StagedAt(k) == {p \in Staged : KeyOf[source[p]] = k}

\* Steps under withStoreLock.
Holding == {"locked", "read", "absent", "copying", "copied", "verified",
            "cleaning", "unlocking"}

\* Every pin of a set of releases is a member of it.
Closed(S) == \A c \in S : Pins[c] \subseteq S

OnShelf(s) == {s[k] : k \in Keys} \cap Contents

Init ==
    /\ input \in [Publishers -> Contents] /\ rebuilds = 0
    /\ stored = [k \in Keys |-> None]
    /\ staging = [p \in Publishers |-> None] /\ lock = None
    /\ pc = [o \in Processes |-> "idle"]
    /\ result = [o \in Processes |-> None]
    /\ todo = [o \in Processes |-> Keys]
    /\ source = [p \in Publishers |-> None]
    /\ saw = [r \in Readers |-> {}]
    /\ named = {}
    /\ present = [o \in Processes |-> {}]
    /\ author = [k \in Keys |-> None]
    /\ began = [r \in Readers |-> {}]
    /\ unclosed = [r \in Readers |-> FALSE]

Goto(o, there) == pc' = [pc EXCEPT ![o] = there]

End(o, how) == Goto(o, "ended") /\ result' = [result EXCEPT ![o] = how]

-----------------------------------------------------------------------------
(* assertNoPublicationLeftovers: the walk at the entry of every operation   *)
(* reads one directory after the other, kind by kind.                       *)

Begin(o) ==
    /\ pc[o] = "idle" /\ Goto(o, "walk")
    /\ present' = [present EXCEPT ![o] = Staged]
    /\ UNCHANGED <<input, rebuilds, directories, result, todo, source, saw, named,
                   author, began, unclosed>>

Reaches(o, k) == k \in todo[o] /\ \A other \in todo[o] : Rank[k] <= Rank[other]

\* Defect: a publisher looks for leftovers of its own version only.
LookAtSiblings(o, k) ==
    LET mine == o \in Readers \/ (input[o] # Torn /\ KeyOf[input[o]] = k)
    IN /\ pc[o] = "walk" /\ Reaches(o, k)
       /\ IF mine /\ StagedAt(k) # {}
          THEN End(o, "interrupted") /\ UNCHANGED <<todo, named>>
          ELSE /\ todo' = [todo EXCEPT ![o] = @ \ {k}]
               /\ Goto(o, IF todo[o] = {k} THEN "walked" ELSE "walk")
               /\ UNCHANGED <<result, named>>
       /\ UNCHANGED <<input, rebuilds, directories, source, saw, ghosts>>

Look(o, k) ==
    /\ pc[o] = "walk" /\ Reaches(o, k)
    /\ IF StagedAt(k) # {}
       THEN /\ End(o, "interrupted")
            /\ \E p \in StagedAt(k) : named' = named \cup {p}
            /\ UNCHANGED todo
       ELSE /\ todo' = [todo EXCEPT ![o] = @ \ {k}]
            /\ Goto(o, IF todo[o] = {k} THEN "walked" ELSE "walk")
            /\ UNCHANGED <<result, named>>
    /\ UNCHANGED <<input, rebuilds, directories, source, saw, ghosts>>

-----------------------------------------------------------------------------
(* publishLocalRelease *)

Rest == <<input, rebuilds, todo, saw, named, present, began, unclosed>>

\* Defect: the lock directory is made with recursive, so an existing one is no error.
LockAlways(p) ==
    /\ p \in Publishers /\ pc[p] = "walked"
    /\ lock' = p /\ Goto(p, "locked")
    /\ UNCHANGED <<stored, staging, result, source, author, Rest>>

Lock(p) ==
    /\ p \in Publishers /\ pc[p] = "walked"
    /\ \/ lock = None /\ lock' = p /\ Goto(p, "locked") /\ UNCHANGED result
       \/ lock # None /\ End(p, "busy") /\ UNCHANGED lock
    /\ UNCHANGED <<stored, staging, source, author, Rest>>

Leave(p, how) == Goto(p, "unlocking") /\ result' = [result EXCEPT ![p] = how]

\* Defect: the input is taken as it is.
ReadInputUnchecked(p) ==
    /\ pc[p] = "locked" /\ Goto(p, "read")
    /\ source' = [source EXCEPT ![p] = input[p]]
    /\ UNCHANGED <<directories, result, author, Rest>>

ReadInput(p) ==
    /\ pc[p] = "locked"
    /\ IF input[p] = Torn
       THEN Leave(p, "failed") /\ UNCHANGED source
       ELSE /\ source' = [source EXCEPT ![p] = input[p]]
            /\ Goto(p, "read") /\ UNCHANGED result
    /\ UNCHANGED <<directories, author, Rest>>

\* Defect: other bytes replace the stored version.
FindStoredReplaces(p) ==
    LET there == stored[KeyOf[source[p]]]
    IN /\ pc[p] = "read"
       /\ IF there = source[p] THEN Leave(p, "unchanged") /\ UNCHANGED stored
          ELSE /\ stored' = [stored EXCEPT ![KeyOf[source[p]]] = None]
               /\ Goto(p, "absent") /\ UNCHANGED result
       /\ UNCHANGED <<staging, lock, source, author, Rest>>

FindStored(p) ==
    LET there == stored[KeyOf[source[p]]]
    IN /\ pc[p] = "read"
       /\ \/ there = None /\ Goto(p, "absent") /\ UNCHANGED result
          \/ there = Torn /\ Leave(p, "failed")
          \/ there = source[p] /\ Leave(p, "unchanged")
          \/ there \notin {None, Torn, source[p]} /\ Leave(p, "conflict")
       /\ UNCHANGED <<directories, source, author, Rest>>

Stage(p) ==
    /\ pc[p] = "absent" /\ Goto(p, "copying")
    /\ staging' = [staging EXCEPT ![p] = Torn]
    /\ UNCHANGED <<stored, lock, result, source, author, Rest>>

\* The input is read again; rewritten under the copy, it may leave a mixture.
Copy(p) ==
    /\ pc[p] = "copying" /\ staging[p] # None /\ Goto(p, "copied")
    /\ \E bytes \in {input[p], Torn} : staging' = [staging EXCEPT ![p] = bytes]
    /\ UNCHANGED <<stored, lock, result, source, author, Rest>>

\* Defect: the copy is not compared with the bytes that were validated.
VerifyNothing(p) ==
    /\ pc[p] = "copied" /\ Goto(p, "verified")
    /\ UNCHANGED <<directories, result, source, author, Rest>>

VerifyCopy(p) ==
    /\ pc[p] = "copied"
    /\ Goto(p, IF staging[p] = source[p] THEN "verified" ELSE "cleaning")
    /\ UNCHANGED <<directories, result, source, author, Rest>>

\* Defect: the release is read back after the rename, which may fail.
RenameReadsBack(p) ==
    LET k == KeyOf[source[p]]
    IN /\ pc[p] = "verified" /\ staging[p] # None /\ stored[k] = None
       /\ stored' = [stored EXCEPT ![k] = staging[p]]
       /\ staging' = [staging EXCEPT ![p] = None]
       /\ author' = [author EXCEPT ![k] = p]
       /\ unclosed' = [r \in Readers |-> unclosed[r] \/
              (pc[r] = "verify" /\ ~Closed(OnShelf(stored')))]
       /\ \E how \in {"published", "failed"} : Leave(p, how)
       /\ UNCHANGED <<lock, source, input, rebuilds, todo, saw, named, present,
                      began>>

\* rename moves whatever the staging directory holds by then.
Rename(p) ==
    LET k == KeyOf[source[p]]
    IN /\ pc[p] = "verified" /\ staging[p] # None /\ stored[k] = None
       /\ stored' = [stored EXCEPT ![k] = staging[p]]
       /\ staging' = [staging EXCEPT ![p] = None]
       /\ author' = [author EXCEPT ![k] = p]
       /\ unclosed' = [r \in Readers |-> unclosed[r] \/
              (pc[r] = "verify" /\ ~Closed(OnShelf(stored')))]
       /\ Leave(p, "published")
       /\ UNCHANGED <<lock, source, input, rebuilds, todo, saw, named, present,
                      began>>

\* A file system call fails: disk full, a permission, or a directory that was
\* listed and is gone.  The removal of the lock stands in a finally: when it
\* fails, its error replaces what the action returned, and the lock stays.
IoError(o) ==
    /\ \/ pc[o] \in {"walk", "walked", "verify"} /\ End(o, "failed")
       \/ pc[o] \in {"locked", "read", "absent"} /\ Leave(o, "failed")
       \/ /\ pc[o] \in {"copying", "copied", "verified"} /\ Goto(o, "cleaning")
          /\ UNCHANGED result
       \/ pc[o] = "unlocking" /\ End(o, "failed")
    /\ UNCHANGED <<directories, source, author, Rest>>

\* rmSync of the staging directory, which may fail in turn.
Cleanup(p) ==
    /\ pc[p] = "cleaning" /\ Leave(p, "failed")
    /\ \/ staging' = [staging EXCEPT ![p] = None]
       \/ staging[p] # None /\ staging' = [staging EXCEPT ![p] = Torn]
    /\ UNCHANGED <<stored, lock, source, author, Rest>>

Unlock(p) ==
    /\ pc[p] = "unlocking" /\ Goto(p, "ended") /\ lock' = None
    /\ UNCHANGED <<stored, staging, result, source, author, Rest>>

\* The process dies; what it made stays.
Crash(p) ==
    /\ pc[p] \notin {"idle", "ended"} /\ End(p, "crashed")
    /\ UNCHANGED <<directories, source, author, Rest>>

Publish(p) ==
    \/ Lock(p) \/ ReadInput(p) \/ FindStored(p) \/ Stage(p) \/ Copy(p)
    \/ VerifyCopy(p) \/ Rename(p) \/ Cleanup(p) \/ Unlock(p) \/ Crash(p)

-----------------------------------------------------------------------------
(* inspectLocalRelease, verifyLocalReleaseStore: no lock is taken.         *)

Inspect(r, k) ==
    /\ r \in Readers /\ pc[r] = "walked"
    /\ End(r, CASE stored[k] = None -> "missing"
                [] stored[k] = Torn -> "corrupt"
                [] OTHER -> "inspected")
    /\ saw' = [saw EXCEPT ![r] = {stored[k]} \cap Contents]
    /\ UNCHANGED <<input, rebuilds, directories, todo, source, named, ghosts>>

StartVerify(r) ==
    /\ r \in Readers /\ pc[r] = "walked" /\ Goto(r, "verify")
    /\ todo' = [todo EXCEPT ![r] = Keys]
    /\ began' = [began EXCEPT ![r] = OnShelf(stored)]
    /\ unclosed' = [unclosed EXCEPT ![r] = ~Closed(OnShelf(stored))]
    /\ UNCHANGED <<input, rebuilds, directories, result, source, saw, named, present,
                   author>>

\* storedReleases: a staging directory is no version, a torn one is corrupt.
Visit(r, k) ==
    /\ pc[r] = "verify" /\ Reaches(r, k)
    /\ \/ StagedAt(k) # {} /\ End(r, "invalid") /\ UNCHANGED <<todo, saw>>
       \/ stored[k] = Torn /\ End(r, "corrupt") /\ UNCHANGED <<todo, saw>>
       \/ /\ StagedAt(k) = {} /\ stored[k] # Torn
          /\ todo' = [todo EXCEPT ![r] = @ \ {k}]
          /\ saw' = [saw EXCEPT ![r] = @ \cup ({stored[k]} \cap Contents)]
          /\ UNCHANGED <<pc, result>>
    /\ UNCHANGED <<input, rebuilds, directories, source, named, ghosts>>

\* Defect: a pin is taken for resolved when its version is stored.
ConcludeByName(r) ==
    LET versions == {KeyOf[c] : c \in saw[r]}
    IN /\ pc[r] = "verify" /\ todo[r] = {}
       /\ End(r, IF \A c \in saw[r] : {KeyOf[d] : d \in Pins[c]} \subseteq versions
                 THEN "verified" ELSE "mismatch")
       /\ UNCHANGED <<input, rebuilds, directories, todo, source, saw, named, ghosts>>

\* verifyDependencies
Conclude(r) ==
    /\ pc[r] = "verify" /\ todo[r] = {}
    /\ End(r, IF Closed(saw[r]) THEN "verified" ELSE "mismatch")
    /\ UNCHANGED <<input, rebuilds, directories, todo, source, saw, named, ghosts>>

Read(r) ==
    \/ StartVerify(r) \/ Conclude(r)
    \/ \E k \in Keys : Inspect(r, k) \/ Visit(r, k)

-----------------------------------------------------------------------------
(* The build and the operator. *)

\* Between the walk and the copy; at other times nobody reads the input.
Rebuild(p) ==
    /\ rebuilds < MaxRebuilds /\ rebuilds' = rebuilds + 1
    /\ pc[p] \in {"walked", "locked", "read", "absent", "copying"}
    /\ \E bytes \in (Contents \cup {Torn}) \ {input[p]} :
          input' = [input EXCEPT ![p] = bytes]
    /\ UNCHANGED <<directories, pc, result, todo, source, saw, named, ghosts>>

\* A recursive removal takes one file after the other.
RemoveLeftover(p) ==
    /\ staging[p] # None
    /\ pc[p] = "ended" \/ (TrustsRefusals /\ p \in named)
    /\ staging' = [staging EXCEPT ![p] = IF @ = Torn THEN None ELSE Torn]
    /\ UNCHANGED <<input, rebuilds, stored, lock, pc, result, todo, source, saw,
                   named, ghosts>>

RemoveLock ==
    /\ lock # None /\ pc[lock] = "ended" /\ lock' = None
    /\ UNCHANGED <<input, rebuilds, stored, staging, pc, result, todo, source, saw,
                   named, ghosts>>

Next ==
    \/ \E o \in Processes : Begin(o) \/ IoError(o) \/ \E k \in Keys : Look(o, k)
    \/ \E p \in Publishers : Publish(p) \/ Rebuild(p) \/ RemoveLeftover(p)
    \/ \E r \in Readers : Read(r)
    \/ RemoveLock

Spec == Init /\ [][Next]_vars

-----------------------------------------------------------------------------
(* Properties *)

\* Every variable has its type.
TypeOK ==
    /\ input \in [Publishers -> Contents \cup {Torn}] /\ rebuilds \in Nat
    /\ stored \in [Keys -> Contents \cup {Torn, None}]
    /\ staging \in [Publishers -> Contents \cup {Torn, None}]
    /\ lock \in Publishers \cup {None}
    /\ pc \in [Processes -> Holding \cup {"idle", "walk", "walked", "verify", "ended"}]
    /\ result \in [Processes -> Outcomes \cup {None}]
    /\ todo \in [Processes -> SUBSET Keys]
    /\ source \in [Publishers -> Contents \cup {None}]
    /\ saw \in [Readers -> SUBSET Contents]
    /\ named \subseteq Publishers
    /\ present \in [Processes -> SUBSET Publishers]
    /\ author \in [Keys -> Publishers \cup {None}]
    /\ began \in [Readers -> SUBSET Contents]
    /\ unclosed \in [Readers -> BOOLEAN]

\* A version directory holds the complete bytes of the release it is named
\* for, whatever process died, failed or had its input rewritten ("a failed
\* publication exposes no final directory").
StoredReleasesAreWhole ==
    \A k \in Keys : stored[k] # None => stored[k] \in Contents /\ KeyOf[stored[k]] = k

\* One publisher works in a store at a time, also when a dead one left its lock.
OnePublisherWorks ==
    \A p, q \in Publishers : pc[p] \in Holding /\ pc[q] \in Holding => p = q

\* An operation goes on only if no staging directory that was there when it
\* began is still there: an interrupted publication stops every later one.
LeftoversStopEveryone ==
    \A o \in Processes :
        pc[o] \in Holding \cup {"walked", "verify"} => present[o] \cap Staged = {}

Wrote(p) == \E k \in Keys : author[k] = p

\* What a publisher is told is true when it is told: published and unchanged
\* releases are stored with its bytes, a conflict with others, and who put a
\* version in place is not told that it was there, or that it could not begin.
OutcomesAreTrue == \A p \in Publishers : pc[p] = "ended" =>
    LET there == stored[KeyOf[source[p]]]
    IN /\ result[p] \in {"published", "unchanged"} => there = source[p]
       /\ result[p] = "conflict" => there \notin {None, source[p]}
       /\ result[p] = "published" => Wrote(p)
       /\ Wrote(p) => result[p] \in {"published", "crashed", "failed"}

\* A publisher that put a version in place ends by saying so, or leaves its
\* lock behind: no run that failed or died after its rename goes unnoticed by
\* the next publisher ("the publisher holds the directory for its duration").
WritersSayOrBlock == [][\A p \in Publishers :
    Wrote(p) /\ pc[p] # "ended" /\ pc'[p] = "ended" =>
        result'[p] = "published" \/ lock' = p]_vars

\* A verification that passes has read every release that was stored when it
\* began, and every pin of those it read resolves, then and ever after.
VerifiedStoreIsClosed == \A r \in Readers : result[r] = "verified" =>
    /\ began[r] \subseteq saw[r]
    /\ \A c \in saw[r] : \A d \in Pins[c] : stored[KeyOf[d]] = d

\* A dependency mismatch is reported only if a pin did not resolve while the
\* store was verified, as long as every pin is of a kind that is walked later.
MismatchIsReal == \A r \in Readers : result[r] = "mismatch" =>
    \/ unclosed[r]
    \/ \E c \in saw[r] : \E d \in Pins[c] : Rank[KeyOf[d]] <= Rank[KeyOf[c]]

\* Whatever rewrites, deaths and other processes intervene, each answer of
\* publish and verify says what is true of the store.
AnswersAreTrue == OutcomesAreTrue /\ VerifiedStoreIsClosed /\ MismatchIsReal

\* What a process that was not killed has printed.
Told == [p \in Publishers |->
    IF pc[p] # "ended" \/ result[p] = "crashed" THEN None
    ELSE [state |-> result[p],
          release |-> IF result[p] \in {"published", "unchanged", "conflict"}
                      THEN source[p] ELSE None]]

Promise == INSTANCE WriteOnceStore WITH shelf <- stored, told <- Told

\* The store implements the write-once store.
ImplementsWriteOnce == Promise!Spec
=============================================================================
