---------------------- MODULE LocalReleaseStore_proofs ----------------------
(***************************************************************************)
(* Theorems about LocalReleaseStore for every set of processes, versions   *)
(* and releases.  The inductive invariant IInv follows one publisher from  *)
(* the lock to its answer: what it read, what it staged, what it says.     *)
(* The second half is about what the operations refuse and answer: an      *)
(* interrupted publication stops whoever begins after it, and what publish *)
(* and verify print is true.                                               *)
(***************************************************************************)
EXTENDS LocalReleaseStore, TLAPS

PcLabels == Holding \cup {"idle", "walk", "walked", "verify", "ended"}

\* How a publisher that held the lock can end, short of dying.
Final == {"published", "unchanged", "conflict", "failed"}

\* A publisher between the lock and its answer.
WorkOf(p) ==
    /\ pc[p] \in Holding => lock = p
    /\ pc[p] \in {"read", "absent", "copying", "copied", "verified"}
          => source[p] \in Contents
    /\ pc[p] \notin {"unlocking", "ended"} => result[p] = None
    /\ pc[p] = "unlocking" => result[p] \in Final

WorkInv == \A p \in Publishers : WorkOf(p)

\* What it staged after verification, and what it says when it ends.
TruthOf(p) ==
    /\ pc[p] = "verified" => staging[p] = source[p]
    /\ result[p] \in {"published", "unchanged"} =>
          source[p] \in Contents /\ stored[KeyOf[source[p]]] = source[p]
    /\ result[p] = "conflict" =>
          source[p] \in Contents /\ stored[KeyOf[source[p]]] \notin {None, source[p]}

Truth == StoredReleasesAreWhole /\ \A p \in Publishers : TruthOf(p)

LEMMA TypeInit == Init => TypeOK
  BY StoreAssumption DEF StoreAssumption, Init, TypeOK, Processes, Holding

LEMMA TypeWalk ==
    ASSUME TypeOK, NEW o \in Processes,
           Begin(o) \/ IoError(o) \/ \E k \in Keys : Look(o, k)
    PROVE  TypeOK'
  <1> USE DEF TypeOK, Outcomes, Goto, End, Leave, directories, ghosts
  <1>1. CASE Begin(o)
    BY <1>1 DEF Begin, Staged
  <1>2. CASE IoError(o)
    BY <1>2 DEF IoError, Rest, Holding
  <1>3. ASSUME NEW k \in Keys, Look(o, k) PROVE TypeOK'
    <2>1. CASE StagedAt(k) # {}
      BY <1>3, <2>1 DEF Look, StagedAt, Staged
    <2>2. CASE StagedAt(k) = {}
      BY <1>3, <2>2 DEF Look
    <2> QED BY <2>1, <2>2
  <1> QED BY <1>1, <1>2, <1>3

LEMMA TypePublish ==
    ASSUME TypeOK, NEW p \in Publishers, Publish(p)
    PROVE  TypeOK'
  <1> USE DEF TypeOK, Outcomes, Goto, End, Leave, directories, Rest, Holding, Processes
  <1>1. CASE Lock(p)
    <2>1. CASE lock = None
      BY <1>1, <2>1 DEF Lock
    <2>2. CASE lock # None
      BY <1>1, <2>2 DEF Lock
    <2> QED BY <2>1, <2>2
  <1>2. CASE ReadInput(p)
    <2>1. CASE input[p] = Torn
      BY <1>2, <2>1 DEF ReadInput
    <2>2. CASE input[p] # Torn
      BY <1>2, <2>2 DEF ReadInput
    <2> QED BY <2>1, <2>2
  <1>3. CASE FindStored(p)
    <2>1. pc' \in [Processes -> PcLabels] /\ result' \in [Processes -> Outcomes \cup {None}]
      BY <1>3 DEF FindStored, PcLabels
    <2>2. UNCHANGED <<directories, source, author, Rest>>
      BY <1>3 DEF FindStored
    <2> QED BY <2>1, <2>2 DEF PcLabels
  <1>4. CASE Stage(p)
    BY <1>4 DEF Stage
  <1>5. CASE Copy(p)
    BY <1>5 DEF Copy
  <1>6. CASE VerifyCopy(p)
    BY <1>6 DEF VerifyCopy
  <1>7. CASE Rename(p)
    BY <1>7, StoreAssumption DEF Rename, StoreAssumption
  <1>8. CASE Cleanup(p)
    BY <1>8 DEF Cleanup
  <1>9. CASE Unlock(p)
    BY <1>9 DEF Unlock
  <1>10. CASE Crash(p)
    BY <1>10 DEF Crash
  <1> QED
    BY <1>1, <1>2, <1>3, <1>4, <1>5, <1>6, <1>7, <1>8, <1>9, <1>10 DEF Publish

LEMMA TypeRead ==
    ASSUME TypeOK, NEW r \in Readers, Read(r)
    PROVE  TypeOK'
  <1> USE DEF TypeOK, Outcomes, Goto, End, directories, ghosts, Processes
  <1>1. ASSUME NEW k \in Keys, Inspect(r, k) PROVE TypeOK'
    BY <1>1 DEF Inspect
  <1>2. CASE StartVerify(r)
    BY <1>2 DEF StartVerify, OnShelf
  <1>3. ASSUME NEW k \in Keys, Visit(r, k) PROVE TypeOK'
    <2>1. CASE UNCHANGED <<todo, saw>>
      <3>1. pc' \in [Processes -> PcLabels] /\ result' \in [Processes -> Outcomes \cup {None}]
        BY <1>3, SMTT(30) DEF Visit, PcLabels
      <3>2. UNCHANGED <<input, rebuilds, directories, source, named, ghosts>>
        BY <1>3 DEF Visit
      <3> QED BY <2>1, <3>1, <3>2 DEF PcLabels
    <2>2. ASSUME UNCHANGED <<pc, result>>,
                 todo' = [todo EXCEPT ![r] = @ \ {k}],
                 saw' = [saw EXCEPT ![r] = @ \cup ({stored[k]} \cap Contents)]
          PROVE  TypeOK'
      <3>1. todo' \in [Processes -> SUBSET Keys]
        BY <2>2
      <3>2. saw' \in [Readers -> SUBSET Contents]
        BY <2>2
      <3> QED
        BY <1>3, <2>2, <3>1, <3>2 DEF Visit
    <2> QED BY <1>3, <2>1, <2>2 DEF Visit
  <1>4. CASE Conclude(r)
    BY <1>4 DEF Conclude
  <1> QED
    BY <1>1, <1>2, <1>3, <1>4 DEF Read

LEMMA TypeOutside ==
    ASSUME TypeOK, RemoveLock \/ \E p \in Publishers : Rebuild(p) \/ RemoveLeftover(p)
    PROVE  TypeOK'
  <1> USE DEF TypeOK, directories, ghosts
  <1>1. CASE RemoveLock
    BY <1>1 DEF RemoveLock
  <1>2. ASSUME NEW p \in Publishers, Rebuild(p) PROVE TypeOK'
    BY <1>2 DEF Rebuild
  <1>3. ASSUME NEW p \in Publishers, RemoveLeftover(p) PROVE TypeOK'
    BY <1>3 DEF RemoveLeftover
  <1> QED
    BY <1>1, <1>2, <1>3

LEMMA TypeNext == TypeOK /\ [Next]_vars => TypeOK'
  <1>1. ASSUME TypeOK, UNCHANGED vars PROVE TypeOK'
    BY <1>1 DEF TypeOK, vars, directories, ghosts
  <1> QED
    BY <1>1, TypeWalk, TypePublish, TypeRead, TypeOutside DEF Next

\* Every variable keeps its type.
THEOREM TypeCorrect == Spec => []TypeOK
  BY TypeInit, TypeNext, PTL DEF Spec

-----------------------------------------------------------------------------
(* The lock, the phases of a publication and its outcome. *)

LEMMA WorkInit == Init => WorkInv
  BY DEF Init, WorkInv, WorkOf, Holding, Processes

LEMMA WorkNext ==
    ASSUME TypeOK, WorkInv, [Next]_vars
    PROVE  WorkInv'
  <1> SUFFICES ASSUME NEW q \in Publishers PROVE WorkOf(q)'
    BY DEF WorkInv
  <1>q. WorkOf(q)
    BY DEF WorkInv
  <1> USE <1>q, StoreAssumption DEF StoreAssumption, WorkOf, Holding, directories,
          ghosts, Goto, End, Leave, Rest
  <1>t. /\ pc \in [Processes -> PcLabels] /\ DOMAIN result = Processes
        /\ DOMAIN source = Publishers /\ q \in Processes
    BY DEF TypeOK, PcLabels, Processes
  <1> USE <1>t
  <1>1. CASE UNCHANGED vars
    BY <1>1 DEF vars
  <1>2. ASSUME NEW o \in Processes, Begin(o) PROVE WorkOf(q)'
    BY <1>2 DEF Begin
  <1>3. ASSUME NEW o \in Processes, IoError(o) PROVE WorkOf(q)'
    BY <1>3 DEF IoError, Final
  <1>4. ASSUME NEW o \in Processes, NEW k \in Keys, Look(o, k) PROVE WorkOf(q)'
    <2>1. CASE StagedAt(k) # {}
      BY <1>4, <2>1 DEF Look
    <2>2. CASE StagedAt(k) = {}
      BY <1>4, <2>2 DEF Look
    <2> QED BY <2>1, <2>2
  <1>5. ASSUME NEW p \in Publishers, Publish(p) PROVE WorkOf(q)'
    <2>p. WorkOf(p) /\ p \in Processes
      BY DEF WorkInv, Processes
    <2> USE <2>p
    <2>1. CASE Lock(p)
      BY <1>5, <2>1 DEF Lock
    <2>2. CASE ReadInput(p)
      BY <1>5, <2>2 DEF ReadInput, Final, TypeOK
    <2>3. CASE FindStored(p)
      BY <1>5, <2>3 DEF FindStored, Final
    <2>4. CASE Stage(p)
      BY <1>5, <2>4 DEF Stage
    <2>5. CASE Copy(p)
      BY <1>5, <2>5 DEF Copy
    <2>6. CASE VerifyCopy(p)
      BY <1>5, <2>6 DEF VerifyCopy
    <2>7. CASE Rename(p)
      BY <1>5, <2>7 DEF Rename, Final
    <2>8. CASE Cleanup(p)
      BY <1>5, <2>8 DEF Cleanup, Final
    <2>9. CASE Unlock(p)
      BY <1>5, <2>9 DEF Unlock
    <2>10. CASE Crash(p)
      BY <1>5, <2>10 DEF Crash
    <2> QED
      BY <1>5, <2>1, <2>2, <2>3, <2>4, <2>5, <2>6, <2>7, <2>8, <2>9, <2>10
      DEF Publish
  <1>6. ASSUME NEW r \in Readers, Read(r) PROVE WorkOf(q)'
    <2>1. r # q /\ r \in Processes
      BY DEF Processes
    <2>2. lock' = lock /\ source' = source /\ pc'[q] = pc[q] /\ result'[q] = result[q]
      BY <1>6, <2>1 DEF Read, Inspect, StartVerify, Visit, Conclude
    <2> QED BY <2>2
  <1>7. ASSUME NEW p \in Publishers, Rebuild(p) \/ RemoveLeftover(p)
        PROVE  WorkOf(q)'
    BY <1>7 DEF Rebuild, RemoveLeftover
  <1>8. CASE RemoveLock
    BY <1>8 DEF RemoveLock
  <1> QED
    BY <1>1, <1>2, <1>3, <1>4, <1>5, <1>6, <1>7, <1>8 DEF Next

\* One publisher works in a store at a time: the lock directory is exclusive,
\* and only its holder or the operator, after the holder died, removes it.
THEOREM Exclusion == Spec => []OnePublisherWorks
  <1>1. TypeOK /\ WorkInv => OnePublisherWorks
    BY DEF WorkInv, WorkOf, OnePublisherWorks
  <1> QED
    BY <1>1, TypeInit, TypeNext, WorkInit, WorkNext, PTL DEF Spec

-----------------------------------------------------------------------------
(* What is stored, and what is said of it, as long as the operator leaves   *)
(* the staging directories of living publishers alone.                      *)

LEMMA TruthInit == Init => Truth
  BY StoreAssumption DEF StoreAssumption, Outcomes, Init, Truth, TruthOf,
     StoredReleasesAreWhole, Processes

\* A step that leaves the stored versions alone keeps them whole.
LEMMA WholeKept ==
    ASSUME StoredReleasesAreWhole, UNCHANGED stored
    PROVE  StoredReleasesAreWhole'
  BY DEF StoredReleasesAreWhole

\* A rename fills an empty place with the bytes that were verified.
LEMMA TruthRename ==
    ASSUME TypeOK, WorkInv, Truth, NEW p \in Publishers, Rename(p)
    PROVE  Truth'
  <1> DEFINE c == source[p]
  <1>1. /\ c \in Contents /\ staging[p] = c /\ stored[KeyOf[c]] = None
        /\ KeyOf[c] \in Keys
    BY StoreAssumption DEF StoreAssumption, WorkInv, WorkOf, Truth, TruthOf, Rename,
       Holding
  <1>2. stored' = [stored EXCEPT ![KeyOf[c]] = c] /\ source' = source
    BY <1>1 DEF Rename
  <1>3. StoredReleasesAreWhole'
    BY <1>1, <1>2 DEF TypeOK, Truth, StoredReleasesAreWhole
  <1>4. ASSUME NEW q \in Publishers PROVE TruthOf(q)'
    <2>1. CASE q = p
      BY <1>1, <1>2, <2>1 DEF Rename, Leave, Goto, TypeOK, TruthOf, Processes
    <2>2. CASE q # p
      <3>1. pc'[q] = pc[q] /\ result'[q] = result[q] /\ staging'[q] = staging[q]
        BY <2>2 DEF Rename, Leave, Goto, TypeOK, Processes
      <3>2. source[q] \in Contents => KeyOf[source[q]] \in Keys
        BY StoreAssumption DEF StoreAssumption
      <3>3. None \notin Contents
        BY StoreAssumption DEF StoreAssumption
      <3>4. ASSUME source[q] \in Contents, stored[KeyOf[source[q]]] # None
            PROVE  stored'[KeyOf[source[q]]] = stored[KeyOf[source[q]]]
        BY <1>1, <1>2, <3>2, <3>4 DEF TypeOK
      <3> QED BY <1>2, <3>1, <3>3, <3>4 DEF Truth, TruthOf
    <2> QED BY <2>1, <2>2
  <1> QED BY <1>3, <1>4 DEF Truth

LEMMA TruthNext ==
    ASSUME ~TrustsRefusals, TypeOK, WorkInv, Truth, [Next]_vars
    PROVE  Truth'
  <1>r. ASSUME NEW p \in Publishers, Rename(p) PROVE Truth'
    BY <1>r, TruthRename
  <1>s. CASE ~ \E p \in Publishers : Rename(p)
    <2>1. UNCHANGED stored
      BY <1>s DEF Next, Publish, Read, vars, directories, ghosts, Rest, Begin, IoError,
         Look, Lock, ReadInput, FindStored, Stage, Copy, VerifyCopy, Cleanup, Unlock,
         Crash, Inspect, StartVerify, Visit, Conclude, Rebuild, RemoveLeftover,
         RemoveLock
    <2>2. StoredReleasesAreWhole'
      BY <2>1, WholeKept DEF Truth
    <2>3. ASSUME NEW q \in Publishers PROVE TruthOf(q)'
      <3>q. TruthOf(q) /\ WorkOf(q)
        BY DEF Truth, WorkInv
      <3>t. /\ DOMAIN pc = Processes /\ DOMAIN result = Processes
            /\ DOMAIN source = Publishers /\ DOMAIN staging = Publishers
            /\ q \in Processes
        BY DEF TypeOK, Processes
      <3> USE <2>1, <3>q, <3>t, StoreAssumption DEF StoreAssumption, TruthOf,
              directories, ghosts, Goto, End, Leave, Rest
      <3>1. CASE UNCHANGED vars
        BY <3>1 DEF vars
      <3>2. ASSUME NEW o \in Processes, Begin(o) PROVE TruthOf(q)'
        BY <3>2 DEF Begin
      <3>3. ASSUME NEW o \in Processes, IoError(o) PROVE TruthOf(q)'
        BY <3>3 DEF IoError
      <3>4. ASSUME NEW o \in Processes, NEW k \in Keys, Look(o, k) PROVE TruthOf(q)'
        <4>1. CASE StagedAt(k) # {}
          BY <3>4, <4>1 DEF Look
        <4>2. CASE StagedAt(k) = {}
          BY <3>4, <4>2 DEF Look
        <4> QED BY <4>1, <4>2
      <3>5. ASSUME NEW p \in Publishers, Publish(p) PROVE TruthOf(q)'
        <4>p. WorkOf(p) /\ TruthOf(p) /\ p \in Processes
          BY DEF WorkInv, Truth, Processes
        <4> USE <4>p DEF WorkOf
        <4>1. CASE Lock(p)
          BY <4>1 DEF Lock
        <4>2. CASE ReadInput(p)
          BY <4>2 DEF ReadInput, Outcomes
        <4>3. CASE FindStored(p)
          BY <4>3 DEF FindStored
        <4>4. CASE Stage(p)
          BY <4>4 DEF Stage
        <4>5. CASE Copy(p)
          BY <4>5 DEF Copy
        <4>6. CASE VerifyCopy(p)
          BY <4>6 DEF VerifyCopy
        <4>7. CASE Cleanup(p)
          BY <4>7 DEF Cleanup
        <4>8. CASE Unlock(p)
          BY <4>8 DEF Unlock
        <4>9. CASE Crash(p)
          BY <4>9 DEF Crash
        <4> QED
          BY <1>s, <3>5, <4>1, <4>2, <4>3, <4>4, <4>5, <4>6, <4>7, <4>8, <4>9
          DEF Publish
      <3>6. ASSUME NEW r \in Readers, Read(r) PROVE TruthOf(q)'
        <4>1. r # q /\ r \in Processes
          BY DEF Processes
        <4>2. /\ source' = source /\ staging' = staging
              /\ pc'[q] = pc[q] /\ result'[q] = result[q]
          BY <3>6, <4>1 DEF Read, Inspect, StartVerify, Visit, Conclude
        <4> QED BY <4>2
      <3>7. ASSUME NEW p \in Publishers, Rebuild(p) PROVE TruthOf(q)'
        BY <3>7 DEF Rebuild
      <3>8. ASSUME NEW p \in Publishers, RemoveLeftover(p) PROVE TruthOf(q)'
        BY <3>8 DEF RemoveLeftover
      <3>9. CASE RemoveLock
        BY <3>9 DEF RemoveLock
      <3> QED
        BY <3>1, <3>2, <3>3, <3>4, <3>5, <3>6, <3>7, <3>8, <3>9 DEF Next
    <2> QED BY <2>2, <2>3 DEF Truth
  <1> QED BY <1>r, <1>s

\* A version directory holds the complete bytes of its release, whatever died,
\* failed or was rewritten, if refusals are not taken for permission to remove.
THEOREM Wholeness == ASSUME ~TrustsRefusals PROVE Spec => []StoredReleasesAreWhole
  <1>1. Init => TypeOK /\ WorkInv /\ Truth
    BY TypeInit, WorkInit, TruthInit
  <1>2. TypeOK /\ WorkInv /\ Truth /\ [Next]_vars => (TypeOK /\ WorkInv /\ Truth)'
    BY TypeNext, WorkNext, TruthNext
  <1>3. Truth => StoredReleasesAreWhole
    BY DEF Truth
  <1> QED
    BY <1>1, <1>2, <1>3, PTL DEF Spec

-----------------------------------------------------------------------------
(* The store implements WriteOnceStore: a rename is Put, the end of a       *)
(* publisher that was not killed is Tell, everything else is a stutter.     *)

\* What a publisher keeps when another process takes a step.
Same(q) == pc'[q] = pc[q] /\ result'[q] = result[q] /\ source'[q] = source[q]

\* A step that ends no publisher, except by death, tells nothing.
LEMMA Silent ==
    ASSUME \A q \in Publishers :
              \/ Same(q)
              \/ pc[q] # "ended" /\ (pc'[q] # "ended" \/ result'[q] = "crashed")
    PROVE  Told' = Told
  BY Zenon DEF Told, Same

\* A publisher that ends tells how, and what it says is true.
LEMMA Answers ==
    ASSUME NEW p \in Publishers, pc[p] # "ended", pc'[p] = "ended",
           UNCHANGED <<stored, source>>,
           \A q \in Publishers \ {p} : Same(q),
           \/ result'[p] \in {"busy", "interrupted", "failed"}
           \/ result'[p] \in Final \ {"failed"} /\ source[p] \in Contents
              /\ Promise!TrueOf(result'[p], source[p])
    PROVE  Promise!Tell(p)
  <1> DEFINE said == [state |-> result'[p],
                      release |-> IF result'[p] \in {"published", "unchanged", "conflict"}
                                  THEN source[p] ELSE None]
  <1>1. Told[p] = None
    BY DEF Told
  <1>2. Told' = [Told EXCEPT ![p] = said]
    <2>1. result'[p] # "crashed" /\ source' = source
      BY DEF Final
    <2>2. ASSUME NEW q \in Publishers
          PROVE  Told'[q] = IF q = p THEN said ELSE Told[q]
      BY <2>1 DEF Told, Same
    <2>3. Told' = [q \in Publishers |-> Told'[q]] /\ Told = [q \in Publishers |-> Told[q]]
      BY DEF Told
    <2> QED BY <2>2, <2>3
  <1>3. CASE result'[p] \in {"busy", "interrupted", "failed"}
    BY <1>1, <1>2, <1>3 DEF Promise!Tell, Promise!Refusals
  <1>4. CASE result'[p] \in Final \ {"failed"} /\ source[p] \in Contents
             /\ Promise!TrueOf(result'[p], source[p])
    BY <1>1, <1>2, <1>4 DEF Promise!Tell, Final
  <1> QED BY <1>3, <1>4

LEMMA RefinesWalk ==
    ASSUME TypeOK, WorkInv, NEW o \in Processes,
           Begin(o) \/ IoError(o) \/ \E k \in Keys : Look(o, k)
    PROVE  Promise!Next \/ UNCHANGED Promise!vars
  <1> USE DEF Goto, End, Leave, directories, ghosts, Rest, Promise!vars
  <1>t. DOMAIN pc = Processes /\ DOMAIN result = Processes /\ Publishers \subseteq Processes
    BY DEF TypeOK, Processes
  <1>1. CASE Begin(o)
    BY <1>1, <1>t, Silent DEF Begin, Same
  <1>2. CASE pc'[o] = "ended" /\ (IoError(o) \/ \E k \in Keys : Look(o, k))
    <2>1. /\ UNCHANGED <<stored, source>> /\ pc[o] # "ended"
          /\ \A q \in Publishers \ {o} : Same(q)
          /\ result'[o] \in {"interrupted", "failed"}
      <3>1. CASE IoError(o)
        BY <1>2, <1>t, <3>1 DEF IoError, Same
      <3>2. ASSUME NEW k \in Keys, Look(o, k)
            PROVE  /\ UNCHANGED <<stored, source>> /\ pc[o] # "ended"
                   /\ \A q \in Publishers \ {o} : Same(q)
                   /\ result'[o] \in {"interrupted", "failed"}
        <4>1. CASE StagedAt(k) # {}
          BY <1>t, <3>2, <4>1 DEF Look, Same
        <4>2. CASE StagedAt(k) = {}
          BY <1>2, <1>t, <3>2, <4>2 DEF Look
        <4> QED BY <4>1, <4>2
      <3> QED BY <1>2, <3>1, <3>2
    <2>2. CASE o \in Publishers
      BY <1>2, <2>1, <2>2, Answers DEF Promise!Next
    <2>3. CASE o \notin Publishers
      BY <2>1, <2>3, Silent
    <2> QED BY <2>2, <2>3
  <1>3. CASE pc'[o] # "ended" /\ (IoError(o) \/ \E k \in Keys : Look(o, k))
    <2>1. UNCHANGED stored /\ pc[o] # "ended" /\ \A q \in Publishers \ {o} : Same(q)
      <3>1. CASE IoError(o)
        BY <1>3, <1>t, <3>1 DEF IoError, Same
      <3>2. ASSUME NEW k \in Keys, Look(o, k)
            PROVE  UNCHANGED stored /\ pc[o] # "ended" /\ \A q \in Publishers \ {o} : Same(q)
        <4>1. CASE StagedAt(k) # {}
          BY <1>t, <3>2, <4>1 DEF Look, Same
        <4>2. CASE StagedAt(k) = {}
          BY <1>t, <3>2, <4>2 DEF Look, Same
        <4> QED BY <4>1, <4>2
      <3> QED BY <1>3, <3>1, <3>2
    <2> QED BY <1>3, <2>1, Silent
  <1> QED BY <1>1, <1>2, <1>3

LEMMA RefinesPublish ==
    ASSUME TypeOK, WorkInv, Truth, NEW p \in Publishers, Publish(p)
    PROVE  Promise!Next \/ UNCHANGED Promise!vars
  <1> USE DEF Goto, End, Leave, directories, Rest, Promise!vars
  <1>t. /\ DOMAIN pc = Processes /\ DOMAIN result = Processes
        /\ DOMAIN source = Publishers /\ Publishers \subseteq Processes
    BY DEF TypeOK, Processes
  <1>1. CASE Lock(p)
    <2>1. CASE lock = None
      BY <1>1, <1>t, <2>1, Silent DEF Lock, Same
    <2>2. CASE lock # None
      <3>1. /\ UNCHANGED <<stored, source>> /\ pc[p] # "ended" /\ pc'[p] = "ended"
            /\ \A q \in Publishers \ {p} : Same(q)
            /\ result'[p] = "busy"
        BY <1>1, <1>t, <2>2 DEF Lock, Same
      <3> QED BY <3>1, Answers DEF Promise!Next
    <2> QED BY <2>1, <2>2
  <1>2. CASE Rename(p)
    <2>1. source[p] \in Contents /\ staging[p] = source[p]
      BY <1>2 DEF WorkInv, WorkOf, Truth, TruthOf, Rename
    <2>2. Told' = Told
      BY <1>2, <1>t, Silent DEF Rename, Same
    <2> QED BY <1>2, <2>1, <2>2 DEF Rename, Promise!Put, Promise!Next
  <1>3. CASE Unlock(p)
    <2>1. /\ UNCHANGED <<stored, source>> /\ pc[p] = "unlocking" /\ pc'[p] = "ended"
          /\ \A q \in Publishers \ {p} : Same(q)
          /\ result'[p] = result[p]
      BY <1>3, <1>t DEF Unlock, Same
    <2>2. result[p] \in Final
      BY <2>1 DEF WorkInv, WorkOf
    <2>3. result[p] # "failed" =>
             source[p] \in Contents /\ Promise!TrueOf(result[p], source[p])
      BY <2>2 DEF Final, Truth, TruthOf, Promise!TrueOf
    <2>4. CASE result[p] = "failed"
      BY <2>1, <2>4, Answers DEF Promise!Next
    <2>5. CASE result[p] # "failed"
      BY <2>1, <2>2, <2>3, <2>5, Answers DEF Promise!Next
    <2> QED BY <2>4, <2>5
  <1>4. CASE ReadInput(p) \/ FindStored(p) \/ Stage(p) \/ Copy(p) \/ VerifyCopy(p)
             \/ Cleanup(p) \/ Crash(p)
    <2>1. /\ UNCHANGED stored /\ pc[p] # "ended"
          /\ pc'[p] # "ended" \/ result'[p] = "crashed"
          /\ \A q \in Publishers \ {p} : Same(q)
      BY <1>4, <1>t DEF ReadInput, FindStored, Stage, Copy, VerifyCopy, Cleanup, Crash, Same
    <2> QED BY <2>1, Silent
  <1> QED BY <1>1, <1>2, <1>3, <1>4 DEF Publish

LEMMA RefinesNext ==
    ASSUME TypeOK, WorkInv, Truth, [Next]_vars
    PROVE  Promise!Next \/ UNCHANGED Promise!vars
  <1> USE DEF directories, ghosts, Promise!vars
  <1>1. CASE UNCHANGED vars
    BY <1>1, Silent DEF vars, Same
  <1>2. ASSUME NEW r \in Readers, Read(r) PROVE UNCHANGED Promise!vars
    <2>1. \A q \in Publishers : q # r
      BY StoreAssumption DEF StoreAssumption
    <2>2. stored' = stored /\ \A q \in Publishers : Same(q)
      BY <1>2, <2>1 DEF Read, Inspect, StartVerify, Visit, Conclude, Goto, End, Same,
         TypeOK, Processes
    <2> QED BY <2>2, Silent
  <1>3. ASSUME NEW p \in Publishers, Rebuild(p) \/ RemoveLeftover(p)
        PROVE  UNCHANGED Promise!vars
    BY <1>3, Silent DEF Rebuild, RemoveLeftover, Same
  <1>4. CASE RemoveLock
    BY <1>4, Silent DEF RemoveLock, Same
  <1> QED
    BY <1>1, <1>2, <1>3, <1>4, RefinesWalk, RefinesPublish DEF Next

\* A version is put on the shelf once and whole, never changes or goes away,
\* and what publishers are told of it is true, for any number of them.
THEOREM Implementation == ASSUME ~TrustsRefusals PROVE Spec => ImplementsWriteOnce
  <1>1. Init => TypeOK /\ WorkInv /\ Truth
    BY TypeInit, WorkInit, TruthInit
  <1>2. TypeOK /\ WorkInv /\ Truth /\ [Next]_vars => (TypeOK /\ WorkInv /\ Truth)'
    BY TypeNext, WorkNext, TruthNext
  <1>3. Init => Promise!Init
    BY DEF Init, Promise!Init, Told, Processes
  <1>4. TypeOK /\ WorkInv /\ Truth /\ [Next]_vars => [Promise!Next]_(Promise!vars)
    BY RefinesNext
  <1> QED
    BY <1>1, <1>2, <1>3, <1>4, PTL DEF Spec, ImplementsWriteOnce, Promise!Spec

-----------------------------------------------------------------------------
(* Leftovers.  A process stages once, so a directory a walk has passed does *)
(* not come back, and one it has not reached is at a version it still has   *)
(* to look at.                                                              *)

\* Where a publisher is from its staging on.
HasStaged == {"copying", "copied", "verified", "cleaning", "unlocking", "ended"}

StagedOnce ==
    \A p \in Staged : pc[p] \in HasStaged /\ source[p] \in Contents

PresentOf(o) ==
    /\ \A p \in present[o] : pc[p] \in HasStaged
    /\ pc[o] = "idle" => todo[o] = Keys
    /\ pc[o] = "walk" => \A p \in present[o] \cap Staged : KeyOf[source[p]] \in todo[o]
    /\ pc[o] \in Holding \cup {"walked", "verify"} => present[o] \cap Staged = {}

LeftInv == StagedOnce /\ \A o \in Processes : PresentOf(o)

LEMMA LeftInit == Init => LeftInv
  BY DEF Init, LeftInv, StagedOnce, PresentOf, Staged, Holding, Processes

\* What a step does to the staging directories and to those who made them.
Keeps(p) ==
    /\ p \in Staged' => p \in Staged \/ pc[p] = "absent"
    /\ pc[p] \in HasStaged => pc'[p] \in HasStaged /\ source'[p] = source[p]
    /\ p \in Staged' => pc'[p] \in HasStaged /\ source'[p] \in Contents

LEMMA StepKeeps ==
    ASSUME TypeOK, WorkInv, StagedOnce, [Next]_vars, NEW q \in Publishers
    PROVE  Keeps(q)
  <1>t. /\ DOMAIN pc = Processes /\ DOMAIN staging = Publishers
        /\ DOMAIN source = Publishers /\ q \in Processes
    BY DEF TypeOK, Processes
  <1>s. q \in Staged => pc[q] \in HasStaged /\ source[q] \in Contents
    BY DEF StagedOnce
  <1>w. WorkOf(q)
    BY DEF WorkInv
  <1> USE <1>t, <1>s, <1>w DEF Keeps, Staged, HasStaged, directories, ghosts, Goto, End,
          Leave, Rest
  <1>1. CASE UNCHANGED vars
    BY <1>1 DEF vars
  <1>2. ASSUME NEW o \in Processes, Begin(o) PROVE Keeps(q)
    BY <1>2 DEF Begin
  <1>3. ASSUME NEW o \in Processes, IoError(o) PROVE Keeps(q)
    BY <1>3 DEF IoError
  <1>4. ASSUME NEW o \in Processes, NEW k \in Keys, Look(o, k) PROVE Keeps(q)
    <2>1. CASE pc' = [pc EXCEPT ![o] = "ended"]
      BY <1>4, <2>1 DEF Look
    <2>2. CASE pc'[o] \in {"walk", "walked"} /\ \A x \in Processes \ {o} : pc'[x] = pc[x]
      BY <1>4, <2>2 DEF Look
    <2> QED BY <1>4, <2>1, <2>2 DEF Look, StagedAt
  <1>5. ASSUME NEW p \in Publishers, Publish(p) PROVE Keeps(q)
    <2>p. WorkOf(p) /\ p \in Processes
      BY DEF WorkInv, Processes
    <2> USE <2>p
    <2>1. CASE Lock(p)
      BY <2>1 DEF Lock
    <2>2. CASE ReadInput(p)
      BY <2>2 DEF ReadInput
    <2>3. CASE FindStored(p)
      BY <2>3 DEF FindStored
    <2>4. CASE Stage(p)
      BY <2>4 DEF Stage, WorkOf
    <2>5. CASE Copy(p)
      BY <2>5 DEF Copy
    <2>6. CASE VerifyCopy(p)
      BY <2>6 DEF VerifyCopy
    <2>7. CASE Rename(p)
      BY <2>7 DEF Rename
    <2>8. CASE Cleanup(p)
      BY <2>8 DEF Cleanup
    <2>9. CASE Unlock(p)
      BY <2>9 DEF Unlock
    <2>10. CASE Crash(p)
      BY <2>10 DEF Crash
    <2> QED
      BY <1>5, <2>1, <2>2, <2>3, <2>4, <2>5, <2>6, <2>7, <2>8, <2>9, <2>10
      DEF Publish
  <1>6. ASSUME NEW r \in Readers, Read(r) PROVE Keeps(q)
    <2>1. r # q
      BY StoreAssumption DEF StoreAssumption
    <2>2. UNCHANGED <<source, staging>> /\ pc'[q] = pc[q]
      BY <1>6, <2>1 DEF Read, Inspect, StartVerify, Visit, Conclude
    <2> QED BY <2>2
  <1>7. ASSUME NEW p \in Publishers, Rebuild(p) \/ RemoveLeftover(p) PROVE Keeps(q)
    BY <1>7 DEF Rebuild, RemoveLeftover
  <1>8. CASE RemoveLock
    BY <1>8 DEF RemoveLock
  <1> QED
    BY <1>1, <1>2, <1>3, <1>4, <1>5, <1>6, <1>7, <1>8 DEF Next

LEMMA StagedOnceNext ==
    ASSUME TypeOK, WorkInv, StagedOnce, [Next]_vars
    PROVE  StagedOnce'
  <1>1. \A p \in Publishers : Keeps(p)
    BY StepKeeps
  <1> QED BY <1>1 DEF Keeps, StagedOnce, Staged

\* How a process moves: it begins, passes a version, or is where its walk does
\* not matter any more.
Moves(o) ==
    \/ /\ pc[o] = "idle" /\ pc'[o] = "walk" /\ todo'[o] = todo[o]
       /\ present'[o] = Staged /\ staging' = staging
    \/ /\ present'[o] = present[o] /\ pc[o] = "walk" /\ staging' = staging
       /\ \E k \in Keys : StagedAt(k) = {} /\ todo'[o] = todo[o] \ {k}
       /\ pc'[o] = IF todo'[o] = {} THEN "walked" ELSE "walk"
    \/ /\ present'[o] = present[o]
       /\ \/ pc'[o] = pc[o] /\ (pc[o] \in {"idle", "walk"} => todo'[o] = todo[o])
          \/ pc[o] \in Holding \cup {"walked", "verify"} /\ pc'[o] \notin {"idle", "walk"}
          \/ pc'[o] = "ended"

LEMMA StepMoves ==
    ASSUME TypeOK, WorkInv, [Next]_vars, NEW q \in Processes
    PROVE  Moves(q)
  <1>t. /\ DOMAIN pc = Processes /\ DOMAIN todo = Processes /\ DOMAIN present = Processes
        /\ pc[q] \in Holding \cup {"idle", "walk", "walked", "verify", "ended"}
        /\ todo[q] \subseteq Keys
    BY DEF TypeOK
  <1> USE <1>t DEF Moves, Holding, directories, ghosts, Goto, End, Leave, Rest
  <1>1. CASE UNCHANGED vars
    BY <1>1 DEF vars
  <1>2. ASSUME NEW o \in Processes, Begin(o) PROVE Moves(q)
    BY <1>2 DEF Begin
  <1>3. ASSUME NEW o \in Processes, IoError(o) PROVE Moves(q)
    BY <1>3 DEF IoError
  <1>4. ASSUME NEW o \in Processes, NEW k \in Keys, Look(o, k) PROVE Moves(q)
    <2>1. CASE StagedAt(k) # {}
      BY <1>4, <2>1 DEF Look
    <2>2. CASE StagedAt(k) = {}
      <3>1. /\ k \in todo[o] /\ todo' = [todo EXCEPT ![o] = @ \ {k}]
            /\ pc[o] = "walk" /\ UNCHANGED <<staging, present>>
            /\ pc' = [pc EXCEPT ![o] = IF todo[o] = {k} THEN "walked" ELSE "walk"]
        BY <1>4, <2>2 DEF Look, Reaches
      <3>2. CASE q # o
        BY <3>1, <3>2
      <3>3. CASE q = o
        <4>1. todo'[q] = todo[q] \ {k} /\ (todo'[q] = {} <=> todo[q] = {k})
          BY <3>1, <3>3
        <4> QED BY <2>2, <3>1, <3>3, <4>1
      <3> QED BY <3>2, <3>3
    <2> QED BY <2>1, <2>2
  <1>5. ASSUME NEW p \in Publishers, Publish(p) PROVE Moves(q)
    <2>p. p \in Processes
      BY DEF Processes
    <2> USE <2>p
    <2>1. CASE Lock(p)
      BY <2>1 DEF Lock
    <2>2. CASE ReadInput(p)
      BY <2>2 DEF ReadInput
    <2>3. CASE FindStored(p)
      BY <2>3 DEF FindStored
    <2>4. CASE Stage(p)
      BY <2>4 DEF Stage
    <2>5. CASE Copy(p)
      BY <2>5 DEF Copy
    <2>6. CASE VerifyCopy(p)
      BY <2>6 DEF VerifyCopy
    <2>7. CASE Rename(p)
      BY <2>7 DEF Rename
    <2>8. CASE Cleanup(p)
      BY <2>8 DEF Cleanup
    <2>9. CASE Unlock(p)
      BY <2>9 DEF Unlock
    <2>10. CASE Crash(p)
      BY <2>10 DEF Crash
    <2> QED
      BY <1>5, <2>1, <2>2, <2>3, <2>4, <2>5, <2>6, <2>7, <2>8, <2>9, <2>10
      DEF Publish
  <1>6. ASSUME NEW r \in Readers, Read(r) PROVE Moves(q)
    <2>p. r \in Processes
      BY DEF Processes
    <2>1. CASE StartVerify(r)
      BY <2>p, <2>1 DEF StartVerify
    <2>2. CASE Conclude(r)
      BY <2>p, <2>2 DEF Conclude
    <2>3. ASSUME NEW k \in Keys, Inspect(r, k) PROVE Moves(q)
      BY <2>p, <2>3 DEF Inspect
    <2>4. ASSUME NEW k \in Keys, Visit(r, k) PROVE Moves(q)
      BY <2>p, <2>4 DEF Visit
    <2> QED BY <1>6, <2>1, <2>2, <2>3, <2>4 DEF Read
  <1>7. ASSUME NEW p \in Publishers, Rebuild(p) \/ RemoveLeftover(p) PROVE Moves(q)
    BY <1>7 DEF Rebuild, RemoveLeftover
  <1>8. CASE RemoveLock
    BY <1>8 DEF RemoveLock
  <1> QED
    BY <1>1, <1>2, <1>3, <1>4, <1>5, <1>6, <1>7, <1>8 DEF Next

LEMMA LeftNext ==
    ASSUME TypeOK, WorkInv, LeftInv, [Next]_vars
    PROVE  LeftInv'
  <1>1. \A p \in Publishers : Keeps(p)
    BY StepKeeps DEF LeftInv
  <1>2. ASSUME NEW o \in Processes PROVE PresentOf(o)'
    <2>1. Moves(o) /\ PresentOf(o)
      BY StepMoves DEF LeftInv
    <2>2. present[o] \subseteq Publishers /\ Staged \subseteq Publishers
      BY DEF TypeOK, Staged
    <2>3. \A p \in Staged : pc[p] \in HasStaged /\ source[p] \in Contents
      BY DEF LeftInv, StagedOnce
    \* What was there at the beginning does not come back.
    <2>4. \A p \in present[o] : /\ p \in Staged' => p \in Staged
                                /\ pc'[p] \in HasStaged /\ source'[p] = source[p]
      BY <1>1, <2>1, <2>2 DEF Keeps, PresentOf, HasStaged
    <2>5. CASE /\ pc[o] = "idle" /\ pc'[o] = "walk" /\ todo'[o] = todo[o]
               /\ present'[o] = Staged /\ staging' = staging
      <3>1. \A p \in Staged : pc'[p] \in HasStaged /\ source'[p] = source[p]
        BY <1>1, <2>2, <2>3 DEF Keeps
      <3>2. \A p \in Staged : KeyOf[source[p]] \in Keys
        BY <2>3, StoreAssumption DEF StoreAssumption
      <3> QED BY <2>1, <2>5, <3>1, <3>2 DEF PresentOf, Holding
    <2>6. CASE /\ present'[o] = present[o] /\ pc[o] = "walk" /\ staging' = staging
               /\ \E k \in Keys : StagedAt(k) = {} /\ todo'[o] = todo[o] \ {k}
               /\ pc'[o] = IF todo'[o] = {} THEN "walked" ELSE "walk"
      <3> PICK k \in Keys : StagedAt(k) = {} /\ todo'[o] = todo[o] \ {k}
        BY <2>6
      <3>1. \A p \in present'[o] \cap Staged' : KeyOf[source'[p]] \in todo'[o]
        BY <2>1, <2>4, <2>6 DEF PresentOf, StagedAt
      <3> QED BY <2>4, <2>6, <3>1 DEF PresentOf, Holding
    <2>7. CASE /\ present'[o] = present[o]
               /\ \/ pc'[o] = pc[o] /\ (pc[o] \in {"idle", "walk"} => todo'[o] = todo[o])
                  \/ /\ pc[o] \in Holding \cup {"walked", "verify"}
                     /\ pc'[o] \notin {"idle", "walk"}
                  \/ pc'[o] = "ended"
      BY <2>1, <2>4, <2>7 DEF PresentOf, Holding
    <2> QED BY <2>1, <2>5, <2>6, <2>7 DEF Moves
  <1> QED BY <1>2, StagedOnceNext DEF LeftInv

\* A process that walks past the leftovers, locks or verifies does so only when
\* every staging directory that was there when it began is gone.
THEOREM Stopped == Spec => []LeftoversStopEveryone
  <1>1. LeftInv => LeftoversStopEveryone
    BY DEF LeftInv, PresentOf, LeftoversStopEveryone
  <1> QED
    BY <1>1, TypeInit, TypeNext, WorkInit, WorkNext, LeftInit, LeftNext, PTL DEF Spec

-----------------------------------------------------------------------------
(* What a publisher is told.  Besides Truth: a version has an author only   *)
(* when it is stored, so no later publisher takes its place.                *)

AuthorOf(p) ==
    /\ Wrote(p) => \/ pc[p] = "unlocking" /\ result[p] = "published"
                   \/ pc[p] = "ended" /\ result[p] \in {"published", "crashed", "failed"}
    /\ result[p] = "published" => Wrote(p)

AuthorInv ==
    /\ \A k \in Keys : author[k] # None => stored[k] # None
    /\ \A p \in Publishers : AuthorOf(p)

LEMMA AuthorInit == Init => AuthorInv
  <1> SUFFICES ASSUME Init PROVE AuthorInv
    OBVIOUS
  <1>1. None \notin Publishers /\ None # "published"
    BY StoreAssumption DEF StoreAssumption, Outcomes
  <1>2. \A k \in Keys : author[k] = None
    BY DEF Init
  <1>3. \A p \in Publishers : result[p] = None /\ ~Wrote(p)
    BY <1>1, <1>2 DEF Init, Wrote, Processes
  <1> QED BY <1>1, <1>2, <1>3 DEF AuthorInv, AuthorOf

LEMMA AuthorRename ==
    ASSUME TypeOK, WorkInv, AuthorInv, NEW p \in Publishers, Rename(p)
    PROVE  AuthorInv'
  <1> PICK k \in Keys : k = KeyOf[source[p]]
    BY StoreAssumption DEF StoreAssumption, WorkInv, WorkOf, Rename
  <1>1. /\ author' = [author EXCEPT ![k] = p] /\ author[k] = None
        /\ stored' = [stored EXCEPT ![k] = staging[p]] /\ staging[p] # None
        /\ pc' = [pc EXCEPT ![p] = "unlocking"]
        /\ result' = [result EXCEPT ![p] = "published"]
    BY DEF Rename, AuthorInv, Leave, Goto
  <1>t. /\ DOMAIN author = Keys /\ DOMAIN stored = Keys /\ DOMAIN pc = Processes
        /\ DOMAIN result = Processes /\ Publishers \subseteq Processes
        /\ None \notin Publishers
    BY StoreAssumption DEF StoreAssumption, TypeOK, Processes
  <1>2. \A j \in Keys : author'[j] # None => stored'[j] # None
    BY <1>1, <1>t DEF AuthorInv
  <1>3. ASSUME NEW q \in Publishers PROVE AuthorOf(q)'
    <2>1. CASE q = p
      BY <1>1, <1>t, <2>1 DEF AuthorOf, Wrote
    <2>2. CASE q # p
      <3>1. Wrote(q)' <=> Wrote(q)
        BY <1>1, <1>t, <2>2 DEF Wrote
      <3>2. pc'[q] = pc[q] /\ result'[q] = result[q]
        BY <1>1, <1>t, <2>2
      <3> QED BY <3>1, <3>2 DEF AuthorInv, AuthorOf
    <2> QED BY <2>1, <2>2
  <1> QED BY <1>2, <1>3 DEF AuthorInv

\* How a publisher's result changes in a step that renames nothing.
Ends(q) ==
    \/ result'[q] = result[q] /\ pc'[q] = pc[q]
    \/ pc[q] \notin {"unlocking", "ended"} /\ result'[q] # "published"
    \/ /\ pc[q] = "unlocking" /\ pc'[q] = "ended"
       /\ \/ result'[q] = result[q]
          \/ result'[q] \in {"crashed", "failed"} /\ lock' = lock

LEMMA StepEnds ==
    ASSUME TypeOK, WorkInv, [Next]_vars, ~ \E p \in Publishers : Rename(p),
           NEW q \in Publishers
    PROVE  Ends(q)
  <1>t. /\ DOMAIN pc = Processes /\ DOMAIN result = Processes /\ q \in Processes
        /\ None \notin Outcomes
    BY StoreAssumption DEF StoreAssumption, TypeOK, Processes
  <1>w. pc[q] \notin {"unlocking", "ended"} => result[q] # "published"
    BY <1>t DEF WorkInv, WorkOf, Outcomes
  <1> USE <1>t, <1>w DEF Ends, directories, ghosts, Goto, End, Leave, Rest
  <1>1. CASE UNCHANGED vars
    BY <1>1 DEF vars
  <1>2. ASSUME NEW o \in Processes, Begin(o) PROVE Ends(q)
    BY <1>2 DEF Begin
  <1>3. ASSUME NEW o \in Processes, IoError(o) PROVE Ends(q)
    BY <1>3 DEF IoError
  <1>4. ASSUME NEW o \in Processes, NEW k \in Keys, Look(o, k) PROVE Ends(q)
    BY <1>4 DEF Look
  <1>5. ASSUME NEW p \in Publishers, Publish(p) PROVE Ends(q)
    <2>p. p \in Processes
      BY DEF Processes
    <2> USE <2>p
    <2>1. CASE Lock(p)
      BY <2>1 DEF Lock
    <2>2. CASE ReadInput(p)
      BY <2>2 DEF ReadInput
    <2>3. CASE FindStored(p)
      BY <2>3 DEF FindStored
    <2>4. CASE Stage(p)
      BY <2>4 DEF Stage
    <2>5. CASE Copy(p)
      BY <2>5 DEF Copy
    <2>6. CASE VerifyCopy(p)
      BY <2>6 DEF VerifyCopy
    <2>7. CASE Cleanup(p)
      BY <2>7 DEF Cleanup
    <2>8. CASE Unlock(p)
      BY <2>8 DEF Unlock
    <2>9. CASE Crash(p)
      BY <2>9 DEF Crash
    <2> QED
      BY <1>5, <2>1, <2>2, <2>3, <2>4, <2>5, <2>6, <2>7, <2>8, <2>9 DEF Publish
  <1>6. ASSUME NEW r \in Readers, Read(r) PROVE Ends(q)
    <2>1. r # q
      BY StoreAssumption DEF StoreAssumption
    <2> QED BY <1>6, <2>1 DEF Read, Inspect, StartVerify, Visit, Conclude
  <1>7. ASSUME NEW p \in Publishers, Rebuild(p) \/ RemoveLeftover(p) PROVE Ends(q)
    BY <1>7 DEF Rebuild, RemoveLeftover
  <1>8. CASE RemoveLock
    BY <1>8 DEF RemoveLock
  <1> QED
    BY <1>1, <1>2, <1>3, <1>4, <1>5, <1>6, <1>7, <1>8 DEF Next

\* Only a rename writes to the shelf, and it fills an empty place.
LEMMA ShelfStays ==
    ASSUME [Next]_vars, ~ \E p \in Publishers : Rename(p)
    PROVE  UNCHANGED <<stored, author>>
  BY DEF Next, Publish, Read, vars, directories, ghosts, Rest, Begin, IoError,
     Look, Lock, ReadInput, FindStored, Stage, Copy, VerifyCopy, Cleanup, Unlock,
     Crash, Inspect, StartVerify, Visit, Conclude, Rebuild, RemoveLeftover,
     RemoveLock

LEMMA StoredStays ==
    ASSUME TypeOK, [Next]_vars, NEW k \in Keys, stored[k] # None
    PROVE  stored'[k] = stored[k]
  <1>1. ASSUME NEW p \in Publishers, Rename(p) PROVE stored'[k] = stored[k]
    BY <1>1 DEF Rename, TypeOK
  <1> QED BY <1>1, ShelfStays

LEMMA AuthorNext ==
    ASSUME TypeOK, WorkInv, AuthorInv, [Next]_vars
    PROVE  AuthorInv'
  <1>1. ASSUME NEW p \in Publishers, Rename(p) PROVE AuthorInv'
    BY <1>1, AuthorRename
  <1>2. CASE ~ \E p \in Publishers : Rename(p)
    <2>1. UNCHANGED <<stored, author>>
      BY <1>2, ShelfStays
    <2>2. ASSUME NEW q \in Publishers PROVE AuthorOf(q)'
      <3>1. Ends(q) /\ AuthorOf(q)
        BY <1>2, StepEnds DEF AuthorInv
      <3>2. Wrote(q)' <=> Wrote(q)
        BY <2>1 DEF Wrote
      <3> QED BY <3>1, <3>2 DEF Ends, AuthorOf
    <2> QED BY <2>1, <2>2 DEF AuthorInv
  <1> QED BY <1>1, <1>2

LEMMA OutcomesHold == Truth /\ AuthorInv => OutcomesAreTrue
  BY DEF Truth, TruthOf, AuthorInv, AuthorOf, Wrote, OutcomesAreTrue

-----------------------------------------------------------------------------
(* What a reader is told.  A reader passes the versions in the order of     *)
(* their kinds; while nothing it could miss is open, the pins of what it    *)
(* has read are read already or still before it, if their kind comes later. *)

\* What was read or was there is stored under its name.
Shelved(S) == \A c \in S : stored[KeyOf[c]] = c

Ordered(r) == \A j \in Keys \ todo[r], k \in todo[r] : Rank[j] <= Rank[k]

\* Pins of a later kind than c.
Later(c) == {d \in Pins[c] : Rank[KeyOf[c]] < Rank[KeyOf[d]]}

Caught(r) ==
    ~unclosed[r] => /\ Closed(OnShelf(stored))
                    /\ \A c \in saw[r] : \A d \in Later(c) :
                          d \in saw[r] \/ KeyOf[d] \in todo[r]

ReaderOf(r) ==
    /\ Shelved(saw[r]) /\ Shelved(began[r])
    /\ pc[r] \in {"idle", "walk", "walked", "verify", "ended"}
    /\ pc[r] \in {"idle", "walk", "walked"} => saw[r] = {}
    /\ pc[r] # "ended" => result[r] = None
    /\ pc[r] = "verify" =>
          /\ \A c \in began[r] : c \in saw[r] \/ KeyOf[c] \in todo[r]
          /\ Ordered(r) /\ Caught(r)
    /\ result[r] = "verified" => began[r] \subseteq saw[r] /\ Closed(saw[r])
    /\ result[r] = "mismatch" =>
          unclosed[r] \/ \E c \in saw[r] : \E d \in Pins[c] : d \notin Later(c)

ReaderInv == \A r \in Readers : ReaderOf(r)

LEMMA ReaderInit == Init => ReaderInv
  BY StoreAssumption DEF StoreAssumption, Outcomes, Init, ReaderInv, ReaderOf, Shelved, Processes

LEMMA ShelfFacts ==
    ASSUME TypeOK, Truth
    PROVE  /\ \A c \in Contents : KeyOf[c] \in Keys /\ Pins[c] \subseteq Contents
           /\ Rank \in [Keys -> Nat] /\ None \notin Contents
           /\ OnShelf(stored) \subseteq Contents
           /\ \A c \in Contents : c \in OnShelf(stored) <=> stored[KeyOf[c]] = c
           /\ \A c \in Contents : Later(c) \subseteq Pins[c]
  <1>1. /\ \A c \in Contents : KeyOf[c] \in Keys /\ Pins[c] \subseteq Contents
        /\ Rank \in [Keys -> Nat] /\ None \notin Contents
    BY StoreAssumption DEF StoreAssumption
  <1>2. \A k \in Keys : stored[k] \in Contents => KeyOf[stored[k]] = k
    BY <1>1 DEF Truth, StoredReleasesAreWhole
  <1> QED BY <1>1, <1>2 DEF OnShelf, Later

\* A step of another process leaves a reader alone, and what it read stored.
Still(r) ==
    UNCHANGED <<pc[r], result[r], todo[r], saw[r], began[r]>>

LEMMA ShelvedStays ==
    ASSUME TypeOK, Truth, [Next]_vars, NEW S, S \subseteq Contents, Shelved(S)
    PROVE  \A c \in S : stored'[KeyOf[c]] = c
  BY ShelfFacts, StoredStays DEF Shelved

LEMMA ReaderRename ==
    ASSUME TypeOK, WorkInv, Truth, [Next]_vars, NEW r \in Readers, ReaderOf(r),
           NEW p \in Publishers, Rename(p)
    PROVE  ReaderOf(r)'
  <1>1. Still(r)
    <2>1. r # p
      BY StoreAssumption DEF StoreAssumption
    <2> QED BY <2>1 DEF Still, Rename, Leave, Goto, TypeOK
  <1>2. saw[r] \subseteq Contents /\ began[r] \subseteq Contents
    BY DEF TypeOK
  <1>3. Shelved(saw[r])' /\ Shelved(began[r])'
    BY <1>1, <1>2, ShelvedStays DEF Still, ReaderOf, Shelved
  <1>4. unclosed'[r] <=> unclosed[r] \/ (pc[r] = "verify" /\ ~Closed(OnShelf(stored')))
    BY DEF Rename
  <1>5. pc[r] = "verify" => Ordered(r)' /\ Caught(r)'
    BY <1>1, <1>4 DEF Still, ReaderOf, Ordered, Caught, Later
  <1> QED BY <1>1, <1>3, <1>4, <1>5 DEF Still, ReaderOf, Closed, Later

LEMMA ReaderStill ==
    ASSUME TypeOK, Truth, [Next]_vars, NEW r \in Readers, ReaderOf(r),
           UNCHANGED stored, Still(r), unclosed'[r] = unclosed[r]
    PROVE  ReaderOf(r)'
  BY DEF Still, ReaderOf, Shelved, Ordered, Caught, Later, Closed, OnShelf

\* The reader looks at the place of one version.
LEMMA ReaderVisit ==
    ASSUME TypeOK, Truth, Truth', NEW r \in Readers, ReaderOf(r), NEW k \in Keys, Visit(r, k)
    PROVE  ReaderOf(r)'
  <1>t. /\ saw[r] \subseteq Contents /\ began[r] \subseteq Contents /\ todo[r] \subseteq Keys
        /\ DOMAIN pc = Processes /\ DOMAIN result = Processes /\ r \in Processes
        /\ DOMAIN saw = Readers /\ DOMAIN todo = Processes
    BY DEF TypeOK, Processes
  <1>u. UNCHANGED <<stored, began, unclosed>>
    BY DEF Visit, directories, ghosts
  <1>n. pc[r] = "verify" /\ result[r] = None /\ {None, "invalid", "corrupt"} \cap {"verified", "mismatch"} = {}
    BY StoreAssumption DEF StoreAssumption, Outcomes, Visit, ReaderOf
  <1>1. CASE pc' = [pc EXCEPT ![r] = "ended"] /\ UNCHANGED <<todo, saw>>
             /\ result' \in {[result EXCEPT ![r] = how] : how \in {"invalid", "corrupt"}}
    <2>1. pc'[r] = "ended" /\ result'[r] \in {"invalid", "corrupt"}
      BY <1>1, <1>t
    <2> QED BY <1>1, <1>u, <1>n, <2>1 DEF ReaderOf, Shelved
  <1>2. CASE /\ todo' = [todo EXCEPT ![r] = @ \ {k}] /\ UNCHANGED <<pc, result>>
             /\ saw' = [saw EXCEPT ![r] = @ \cup ({stored[k]} \cap Contents)]
    <2>1. todo'[r] = todo[r] \ {k} /\ saw'[r] = saw[r] \cup ({stored[k]} \cap Contents)
      BY <1>2, <1>t
    <2>2. /\ k \in todo[r] /\ \A j \in todo[r] : Rank[k] <= Rank[j]
      BY DEF Visit, Reaches
    <2>3. \A c \in Contents : KeyOf[c] = k /\ stored[KeyOf[c]] = c => c \in saw'[r]
      BY <2>1
    <2>4. Shelved(saw[r])' /\ Shelved(began[r])'
      BY <1>u, <2>1, ShelfFacts DEF Shelved, ReaderOf, Truth, StoredReleasesAreWhole
    <2>5. \A c \in began[r] : c \in saw'[r] \/ KeyOf[c] \in todo'[r]
      BY <1>n, <1>t, <2>1, <2>3 DEF ReaderOf, Shelved
    <2>6. Ordered(r)'
      BY <1>n, <1>t, <2>1, <2>2, ShelfFacts DEF Ordered, ReaderOf
    <2>7. Caught(r)'
      <3> SUFFICES ASSUME ~unclosed[r], NEW c \in saw'[r], NEW d \in Later(c)
                   PROVE  d \in saw'[r] \/ KeyOf[d] \in todo'[r]
        BY <1>n, <1>u DEF Caught, ReaderOf, Later
      <3>0. Closed(OnShelf(stored)) /\ c \in Contents /\ d \in Pins[c] /\ d \in Contents
        BY <1>n, <1>t, <2>1, ShelfFacts DEF Caught, ReaderOf
      <3>1. stored[KeyOf[c]] = c
        BY <1>u, <2>4 DEF Shelved
      <3>2. stored[KeyOf[d]] = d
        BY <3>0, <3>1, ShelfFacts DEF Closed
      <3>3. CASE c \in saw[r]
        BY <1>n, <2>1, <2>3, <3>0, <3>2, <3>3 DEF ReaderOf, Caught
      <3>4. CASE c \notin saw[r]
        <4>1. KeyOf[c] = k
          BY <2>1, <3>0, <3>4, ShelfFacts DEF Truth, StoredReleasesAreWhole
        <4>2. Rank[k] < Rank[KeyOf[d]]
          BY <4>1 DEF Later
        <4>3. Rank[k] \in Nat /\ KeyOf[d] \in Keys /\ Rank[KeyOf[d]] \in Nat
          BY <3>0, ShelfFacts
        <4>4. KeyOf[d] \in todo[r]
          BY <1>n, <2>2, <4>2, <4>3 DEF ReaderOf, Ordered
        <4>5. KeyOf[d] # k
          BY <4>2, <4>3
        <4> QED BY <2>1, <4>4, <4>5
      <3> QED BY <3>3, <3>4
    <2> QED BY <1>2, <1>u, <1>n, <2>4, <2>5, <2>6, <2>7 DEF ReaderOf
  <1> QED BY <1>1, <1>2 DEF Visit, End, Goto

\* The last comparison: with nothing left to visit, a pin that is not read is
\* of no later kind, or did not resolve.
LEMMA ReaderConclude ==
    ASSUME TypeOK, Truth, NEW r \in Readers, ReaderOf(r), Conclude(r)
    PROVE  ReaderOf(r)'
  <1>t. /\ DOMAIN pc = Processes /\ DOMAIN result = Processes /\ r \in Processes
    BY DEF TypeOK, Processes
  <1>1. /\ pc[r] = "verify" /\ todo[r] = {} /\ pc'[r] = "ended"
        /\ result'[r] = (IF Closed(saw[r]) THEN "verified" ELSE "mismatch")
        /\ UNCHANGED <<stored, saw, began, unclosed>>
    BY <1>t DEF Conclude, End, Goto, directories, ghosts
  <1>2. Shelved(saw[r])' /\ Shelved(began[r])'
    BY <1>1 DEF ReaderOf, Shelved
  <1>3. CASE Closed(saw[r])
    <2>1. began[r] \subseteq saw[r]
      BY <1>1 DEF ReaderOf
    <2> QED BY <1>1, <1>2, <1>3, <2>1 DEF ReaderOf, Closed
  <1>4. CASE ~Closed(saw[r])
    <2>1. unclosed[r] \/ \E c \in saw[r] : \E d \in Pins[c] : d \notin Later(c)
      BY <1>1, <1>4 DEF Closed, ReaderOf, Caught
    <2>2. (unclosed[r] \/ \E c \in saw[r] : \E d \in Pins[c] : d \notin Later(c))'
      BY <1>1, <2>1 DEF Later
    <2> QED BY <1>1, <1>2, <1>4, <2>2 DEF ReaderOf
  <1> QED BY <1>3, <1>4

LEMMA ReaderStart ==
    ASSUME TypeOK, Truth, NEW r \in Readers, ReaderOf(r), StartVerify(r)
    PROVE  ReaderOf(r)'
  <1>t. /\ DOMAIN pc = Processes /\ r \in Processes /\ DOMAIN todo = Processes
        /\ DOMAIN began = Readers /\ DOMAIN unclosed = Readers
    BY DEF TypeOK, Processes
  <1>1. /\ pc[r] = "walked" /\ pc'[r] = "verify" /\ todo'[r] = Keys
        /\ began'[r] = OnShelf(stored) /\ UNCHANGED <<stored, saw, result>>
    BY <1>t DEF StartVerify, Goto, directories
  <1>c. unclosed'[r] <=> ~Closed(OnShelf(stored))
    BY <1>t, Zenon DEF StartVerify
  <1>2. saw[r] = {} /\ result[r] = None /\ None \notin {"verified", "mismatch"}
    BY <1>1, StoreAssumption DEF StoreAssumption, Outcomes, ReaderOf
  <1>3. Shelved(began[r])' /\ \A c \in began'[r] : KeyOf[c] \in todo'[r]
    BY <1>1, ShelfFacts DEF Shelved
  <1>4. Ordered(r)' /\ Caught(r)'
    BY <1>1, <1>2, <1>c DEF Ordered, Caught, Closed, OnShelf
  <1> QED BY <1>1, <1>2, <1>3, <1>4 DEF ReaderOf, Shelved

LEMMA ReaderInspect ==
    ASSUME TypeOK, Truth, NEW r \in Readers, ReaderOf(r), NEW k \in Keys, Inspect(r, k)
    PROVE  ReaderOf(r)'
  <1>t. /\ DOMAIN pc = Processes /\ DOMAIN result = Processes /\ r \in Processes
        /\ DOMAIN saw = Readers
    BY DEF TypeOK, Processes
  <1>1. /\ pc'[r] = "ended" /\ result'[r] \in {"missing", "corrupt", "inspected"}
        /\ saw'[r] = {stored[k]} \cap Contents /\ UNCHANGED <<stored, began>>
    BY <1>t DEF Inspect, End, Goto, directories, ghosts
  <1>2. Shelved(saw[r])'
    BY <1>1, ShelfFacts DEF Shelved, Truth, StoredReleasesAreWhole
  <1> QED BY <1>1, <1>2 DEF ReaderOf, Shelved

\* A reader at its own walk, before it reads anything.
LEMMA ReaderWalk ==
    ASSUME TypeOK, NEW r \in Readers, ReaderOf(r),
           Begin(r) \/ IoError(r) \/ \E k \in Keys : Look(r, k)
    PROVE  ReaderOf(r)'
  <1>t. /\ DOMAIN pc = Processes /\ DOMAIN result = Processes /\ r \in Processes
    BY DEF TypeOK, Processes
  <1>1. UNCHANGED <<stored, saw, began, unclosed>>
    BY DEF Begin, IoError, Look, directories, ghosts, Rest
  <1>2. \/ /\ pc[r] \in {"idle", "walk"} /\ pc'[r] \in {"walk", "walked"}
           /\ result'[r] = result[r]
        \/ pc'[r] = "ended" /\ result'[r] \in {"failed", "interrupted"}
    <2>1. CASE Begin(r)
      BY <1>t, <2>1 DEF Begin, Goto
    <2>2. CASE IoError(r)
      BY <1>t, <2>2 DEF IoError, End, Goto, ReaderOf
    <2>3. ASSUME NEW k \in Keys, Look(r, k)
          PROVE  \/ /\ pc[r] \in {"idle", "walk"} /\ pc'[r] \in {"walk", "walked"}
                    /\ result'[r] = result[r]
                 \/ pc'[r] = "ended" /\ result'[r] \in {"failed", "interrupted"}
      BY <1>t, <2>3 DEF Look, End, Goto
    <2> QED BY <2>1, <2>2, <2>3
  <1> QED BY <1>1, <1>2 DEF ReaderOf, Shelved

LEMMA ReaderNext ==
    ASSUME TypeOK, WorkInv, Truth, Truth', ReaderInv, [Next]_vars
    PROVE  ReaderInv'
  <1> SUFFICES ASSUME NEW r \in Readers PROVE ReaderOf(r)'
    BY DEF ReaderInv
  <1>r. ReaderOf(r)
    BY DEF ReaderInv
  <1>t. /\ DOMAIN pc = Processes /\ DOMAIN result = Processes /\ DOMAIN todo = Processes
        /\ DOMAIN saw = Readers /\ DOMAIN began = Readers /\ DOMAIN unclosed = Readers
        /\ r \in Processes
    BY DEF TypeOK, Processes
  <1>s. UNCHANGED stored /\ Still(r) /\ unclosed'[r] = unclosed[r] => ReaderOf(r)'
    BY <1>r, ReaderStill
  <1> USE <1>t, <1>s DEF Still, directories, ghosts, Goto, End, Leave, Rest
  <1>1. CASE UNCHANGED vars
    BY <1>1 DEF vars
  <1>2. ASSUME NEW o \in Processes, Begin(o) \/ IoError(o) \/ \E k \in Keys : Look(o, k)
        PROVE  ReaderOf(r)'
    <2>1. CASE o = r
      BY <1>2, <1>r, <2>1, ReaderWalk
    <2>2. CASE o # r
      <3>1. CASE Begin(o)
        BY <2>2, <3>1 DEF Begin
      <3>2. CASE IoError(o)
        BY <2>2, <3>2 DEF IoError
      <3>3. ASSUME NEW k \in Keys, Look(o, k) PROVE ReaderOf(r)'
        BY <2>2, <3>3 DEF Look
      <3> QED BY <1>2, <3>1, <3>2, <3>3
    <2> QED BY <2>1, <2>2
  <1>3. ASSUME NEW p \in Publishers, Publish(p) PROVE ReaderOf(r)'
    <2>p. p # r
      BY StoreAssumption DEF StoreAssumption
    <2> USE <2>p
    <2>1. CASE Rename(p)
      BY <1>r, <2>1, ReaderRename
    <2>2. CASE Lock(p)
      BY <2>2 DEF Lock
    <2>3. CASE ReadInput(p)
      BY <2>3 DEF ReadInput
    <2>4. CASE FindStored(p)
      BY <2>4 DEF FindStored
    <2>5. CASE Stage(p)
      BY <2>5 DEF Stage
    <2>6. CASE Copy(p)
      BY <2>6 DEF Copy
    <2>7. CASE VerifyCopy(p)
      BY <2>7 DEF VerifyCopy
    <2>8. CASE Cleanup(p)
      BY <2>8 DEF Cleanup
    <2>9. CASE Unlock(p)
      BY <2>9 DEF Unlock
    <2>10. CASE Crash(p)
      BY <2>10 DEF Crash
    <2> QED
      BY <1>3, <2>1, <2>2, <2>3, <2>4, <2>5, <2>6, <2>7, <2>8, <2>9, <2>10
      DEF Publish
  <1>4. ASSUME NEW q \in Readers, Read(q) PROVE ReaderOf(r)'
    <2>1. CASE q = r
      BY <1>4, <1>r, <2>1, ReaderStart, ReaderConclude, ReaderInspect, ReaderVisit DEF Read
    <2>2. CASE q # r
      <3>1. CASE StartVerify(q)
        BY <2>2, <3>1 DEF StartVerify
      <3>2. CASE Conclude(q)
        BY <2>2, <3>2 DEF Conclude
      <3>3. ASSUME NEW k \in Keys, Inspect(q, k) PROVE ReaderOf(r)'
        BY <2>2, <3>3 DEF Inspect
      <3>4. ASSUME NEW k \in Keys, Visit(q, k) PROVE ReaderOf(r)'
        BY <2>2, <3>4 DEF Visit
      <3> QED BY <1>4, <3>1, <3>2, <3>3, <3>4 DEF Read
    <2> QED BY <2>1, <2>2
  <1>5. ASSUME NEW p \in Publishers, Rebuild(p) \/ RemoveLeftover(p) PROVE ReaderOf(r)'
    BY <1>5 DEF Rebuild, RemoveLeftover
  <1>6. CASE RemoveLock
    BY <1>6 DEF RemoveLock
  <1> QED
    BY <1>1, <1>2, <1>3, <1>4, <1>5, <1>6 DEF Next

LEMMA AnswersHold ==
    ASSUME TypeOK, Truth, AuthorInv, ReaderInv
    PROVE  AnswersAreTrue
  <1>1. VerifiedStoreIsClosed
    <2> SUFFICES ASSUME NEW r \in Readers, result[r] = "verified"
                 PROVE  /\ began[r] \subseteq saw[r]
                        /\ \A c \in saw[r] : \A d \in Pins[c] : stored[KeyOf[d]] = d
      BY DEF VerifiedStoreIsClosed
    <2> QED BY DEF ReaderInv, ReaderOf, Closed, Shelved
  <1>2. MismatchIsReal
    <2> SUFFICES ASSUME NEW r \in Readers, result[r] = "mismatch", ~unclosed[r]
                 PROVE  \E c \in saw[r] : \E d \in Pins[c] : Rank[KeyOf[d]] <= Rank[KeyOf[c]]
      BY DEF MismatchIsReal
    <2>1. PICK c \in saw[r] : \E d \in Pins[c] : d \notin Later(c)
      BY DEF ReaderInv, ReaderOf
    <2>2. PICK d \in Pins[c] : d \notin Later(c)
      BY <2>1
    <2>3. c \in Contents /\ d \in Contents
      BY ShelfFacts DEF TypeOK
    <2>4. Rank[KeyOf[c]] \in Nat /\ Rank[KeyOf[d]] \in Nat
      BY <2>3, ShelfFacts
    <2> QED BY <2>2, <2>4 DEF Later
  <1> QED BY <1>1, <1>2, OutcomesHold DEF AnswersAreTrue

\* What publish and verify answer is true of the store, whatever is rewritten,
\* dies or overlaps, if refusals are not taken for permission to remove.
THEOREM Answered == ASSUME ~TrustsRefusals PROVE Spec => []AnswersAreTrue
  <1> DEFINE All == TypeOK /\ WorkInv /\ Truth /\ AuthorInv /\ ReaderInv
  <1>1. Init => All
    BY TypeInit, WorkInit, TruthInit, AuthorInit, ReaderInit
  <1>2. All /\ [Next]_vars => All'
    BY TypeNext, WorkNext, TruthNext, AuthorNext, ReaderNext
  <1>3. All => AnswersAreTrue
    BY AnswersHold
  <1> QED BY <1>1, <1>2, <1>3, PTL DEF Spec
\* A publisher that put a version in place says so, or its lock stays behind
\* when it ends, whatever fails or kills it (withStoreLock's finally).
THEOREM Accountable == Spec => WritersSayOrBlock
  <1> DEFINE Step == \A p \in Publishers :
                Wrote(p) /\ pc[p] # "ended" /\ pc'[p] = "ended" =>
                    result'[p] = "published" \/ lock' = p
             All == TypeOK /\ WorkInv /\ AuthorInv
  <1>1. Init => All
    BY TypeInit, WorkInit, AuthorInit
  <1>2. All /\ [Next]_vars => All'
    BY TypeNext, WorkNext, AuthorNext
  <1>3. All /\ [Next]_vars => [Step]_vars
    <2> SUFFICES ASSUME All, [Next]_vars, NEW p \in Publishers,
                        Wrote(p), pc[p] # "ended", pc'[p] = "ended"
                 PROVE  result'[p] = "published" \/ lock' = p
      OBVIOUS
    <2>1. pc[p] = "unlocking" /\ result[p] = "published" /\ lock = p
      BY DEF AuthorInv, AuthorOf, WorkInv, WorkOf, Holding
    <2>2. ASSUME NEW q \in Publishers, Rename(q) PROVE FALSE
      BY <2>1, <2>2 DEF Rename, Leave, Goto, TypeOK
    <2>3. Ends(p)
      BY <2>2, StepEnds
    <2> QED BY <2>1, <2>3 DEF Ends
  <1> QED BY <1>1, <1>2, <1>3, PTL DEF Spec, WritersSayOrBlock
=============================================================================
