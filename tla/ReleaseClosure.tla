--------------------------- MODULE ReleaseClosure ---------------------------
(***************************************************************************)
(* How pinned releases come about and how a registry index over them is    *)
(* verified.  A builder reads the release.json of each dependency its       *)
(* manifest names and pins the bytes it read                               *)
(* (release-template/compose-runtime-dependencies.mjs); buildRegistry      *)
(* walks the closure of the pins, awaiting a read for every release it     *)
(* meets (src/registryPublication.ts).                                     *)
(*                                                                         *)
(* A digest is abstracted to the bytes it is of, so a reference carries    *)
(* the document it pins, and a document the documents it pins.  What       *)
(* publishes releases is external: it gives a version once, or replaces    *)
(* it when the owner of a repository may (MaxReplaced).                    *)
(***************************************************************************)
EXTENDS Integers, Sequences, FiniteSets

CONSTANTS
    Keys,          \* id@version of a component
    Docs,          \* the release documents parseReleaseManifest accepts
    Junk,          \* bytes it refuses
    Botched,       \* the keys junk may be published as
    Manifests,     \* key -> the sequences of intents its manifests may have
    None,
    MaxPublished,  \* bound: releases published
    MaxReplaced    \* bound: of these, replacements of another

Kinds == {"plugin", "sidecar"}

Refs == [kind : Kinds, key : Keys, doc : Docs \cup Junk]

ASSUME ClosureAssumption ==
    /\ \A d \in Docs : d.key \in Keys /\ d.kind \in Kinds /\ d.deps \in Seq(Refs)
    /\ \A k \in Keys : \A m \in Manifests[k] : m \in Seq([kind : Kinds, key : Keys])
    /\ Botched \subseteq Keys /\ None \notin Docs \cup Junk /\ Docs \cap Junk = {}
    /\ MaxPublished \in Nat /\ MaxReplaced \in Nat

Pins(d) == {d.deps[i] : i \in DOMAIN d.deps}

\* A pin holds the digest of a release.json that was already written, so of any
\* documents one was written first and pins none of them.
ASSUME PinsAreOlder ==
    \A T \in SUBSET Docs : T # {} => \E d \in T : \A r \in Pins(d) : r.doc \notin T

VARIABLES
    shelf,         \* key -> the bytes of its release.json, or None
    builder,       \* the build that composes its pins, or None
    wish,          \* the plugins of the registry directory: <<key, ...>>
    memo,          \* remoteReleases: <<kind, key>> -> the bytes read, or None
    roots,         \* their references, resolved so far
    cursor,        \* the root it is at
    stack,         \* the calls of visit that have not returned
    done,          \* key -> the document of a visited release, or None
    verdict,       \* "idle", "resolving", "running", "ok", or why it threw
    published,     \* history: every <<key, bytes>> ever on the shelf
    replaced,      \* history: how often a release was replaced
    disturbed      \* history: the shelf changed since the command began

built == <<builder>>
walk == <<wish, memo, roots, cursor, stack, done, verdict>>
store == <<shelf, published, replaced>>
closureVars == <<built, walk, store, disturbed>>

Unread == [m \in Kinds \X Keys |-> None]

ClosureInit ==
    /\ shelf = [k \in Keys |-> None] /\ published = {} /\ replaced = 0
    /\ builder = None /\ disturbed = FALSE
    /\ wish = <<>> /\ memo = Unread /\ roots = <<>> /\ cursor = 1 /\ stack = <<>>
    /\ done = [k \in Keys |-> None] /\ verdict = "idle"

-----------------------------------------------------------------------------
(* Building a release.                                                     *)

\* What a resolver returns for an identity; GitHub's looks at no kind.
Read(key) == shelf[key]

Intent(kind, key) == [kind |-> kind, key |-> key]

\* A valid document of the kind and identity that are asked for.
Names(bytes, asked) ==
    bytes \in Docs /\ bytes.kind = asked.kind /\ bytes.key = asked.key

StartBuild(key) ==
    /\ builder = None /\ Cardinality(published) < MaxPublished
    /\ \E intents \in Manifests[key] :
          builder' = [key |-> key, intents |-> intents, pins |-> <<>>]
    /\ UNCHANGED <<walk, store, disturbed>>

\* composeGroup: the next intent is read, parsed, compared and pinned.
Compose ==
    /\ builder # None /\ Len(builder.pins) < Len(builder.intents)
    /\ LET intent == builder.intents[Len(builder.pins) + 1]
           doc == Read(intent.key)
       IN builder' =
            IF Names(doc, intent)
            THEN [builder EXCEPT !.pins = Append(@,
                     [kind |-> intent.kind, key |-> intent.key, doc |-> doc])]
            ELSE None
    /\ UNCHANGED <<walk, store, disturbed>>

\* External: bytes get on the shelf; a release whose pins are composed, or junk.
Put(key, bytes) ==
    /\ bytes # shelf[key] /\ Cardinality(published) < MaxPublished
    /\ shelf[key] # None => replaced < MaxReplaced
    /\ shelf' = [shelf EXCEPT ![key] = bytes]
    /\ published' = published \cup {<<key, bytes>>}
    /\ replaced' = IF shelf[key] = None THEN replaced ELSE replaced + 1
    /\ disturbed' = TRUE
    /\ UNCHANGED walk

PublishBuilt ==
    /\ builder # None /\ Len(builder.pins) = Len(builder.intents)
    /\ \E d \in Docs :
          /\ d.key = builder.key /\ d.deps = builder.pins
          /\ Put(builder.key, d)
    /\ builder' = None

PublishJunk == \E k \in Botched, bytes \in Junk : Put(k, bytes) /\ UNCHANGED built

-----------------------------------------------------------------------------
(* Verifying the closure of an index.                                      *)

Frame(ref) == [ref |-> ref, doc |-> None, next |-> 1]

Top == stack[Len(stack)]

Below == SubSeq(stack, 1, Len(stack) - 1)

\* Defect: no key is taken out again.
ActiveForever ==
    {stack[i].ref.key : i \in DOMAIN stack} \cup {k \in Keys : done[k] # None}

Active == {stack[i].ref.key : i \in DOMAIN stack}

Keep == UNCHANGED <<built, store, disturbed>>

\* registry-build or registry-verify starts, in a process of its own.
StartWalk(keys) ==
    /\ verdict \notin {"resolving", "running"}
    /\ wish' = keys /\ memo' = Unread /\ roots' = <<>>
    /\ cursor' = 1 /\ stack' = <<>> /\ done' = [k \in Keys |-> None]
    /\ verdict' = "resolving" /\ disturbed' = FALSE
    /\ UNCHANGED <<built, store>>

\* The index was taken, the process is gone.
WalkIdle ==
    /\ wish' = <<>> /\ memo' = Unread /\ roots' = <<>>
    /\ cursor' = 1 /\ stack' = <<>> /\ done' = [k \in Keys |-> None]
    /\ verdict' = "idle"

\* The command fails; what it read is gone with it.
Refuse(why) ==
    /\ verdict' = why
    /\ memo' = Unread /\ cursor' = 1 /\ stack' = <<>> /\ done' = [k \in Keys |-> None]
    /\ UNCHANGED <<wish, roots>> /\ Keep

\* readRemoteRelease: one read per identity and process.
Answer(kind, key) ==
    IF memo[<<kind, key>>] # None THEN memo[<<kind, key>>] ELSE Read(key)

\* resolveRegistryPlugins: the next plugin is read, and its bytes are digested.
Resolve ==
    /\ verdict = "resolving"
    /\ LET key == wish[Len(roots) + 1]
           bytes == Answer("plugin", key)
       IN \/ Refuse("unread")
          \/ /\ bytes # None
             /\ memo' = [memo EXCEPT ![<<"plugin", key>>] = bytes]
             /\ roots' = Append(roots, [kind |-> "plugin", key |-> key, doc |-> bytes])
             /\ verdict' = IF Len(roots') = Len(wish) THEN "running" ELSE verdict
             /\ UNCHANGED <<wish, cursor, stack, done>> /\ Keep

\* Defect: the caller visits the reference again.
AdvancedNowhere(frames) == frames

\* The loop of the caller goes on to the next reference.
Advanced(frames) ==
    IF frames = <<>> THEN frames
    ELSE [frames EXCEPT ![Len(frames)].next = @ + 1]

CursorAfter(frames) == IF frames = <<>> THEN cursor + 1 ELSE cursor

\* The reference visit is called with next: a root, or the next pin of the
\* document on top.
Wanted == IF stack = <<>> THEN roots[cursor] ELSE Top.doc.deps[Top.next]

MoreToVisit ==
    /\ verdict = "running"
    /\ IF stack = <<>> THEN cursor <= Len(roots)
       ELSE Top.doc # None /\ Top.next <= Len(Top.doc.deps)

Settled(ref) == done[ref.key] = ref.doc /\ done[ref.key].kind = ref.kind

EnterActive ==
    /\ MoreToVisit /\ Wanted.key \in Active
    /\ Refuse("cycle")

\* Defect: a release that was visited is not compared with the reference.
EnterDoneTrusting ==
    /\ MoreToVisit /\ Wanted.key \notin Active /\ done[Wanted.key] # None
    /\ stack' = Advanced(stack) /\ cursor' = CursorAfter(stack)
    /\ UNCHANGED <<wish, memo, roots, done, verdict>> /\ Keep

EnterDone ==
    /\ MoreToVisit /\ Wanted.key \notin Active /\ done[Wanted.key] # None
    /\ IF Settled(Wanted)
       THEN /\ stack' = Advanced(stack) /\ cursor' = CursorAfter(stack)
            /\ UNCHANGED <<wish, memo, roots, done, verdict>> /\ Keep
       ELSE Refuse("pinned twice")

EnterNew ==
    /\ MoreToVisit /\ Wanted.key \notin Active /\ done[Wanted.key] = None
    /\ stack' = Append(stack, Frame(Wanted))
    /\ UNCHANGED <<wish, memo, roots, cursor, done, verdict>> /\ Keep

\* The awaited read fails, or answers: digest, parse, kind and identity.
Fetch ==
    /\ verdict = "running" /\ stack # <<>> /\ Top.doc = None
    /\ LET bytes == Answer(Top.ref.kind, Top.ref.key)
           read == [memo EXCEPT ![<<Top.ref.kind, Top.ref.key>>] = bytes]
       IN \/ memo # read /\ Refuse("unread")
          \/ bytes # Top.ref.doc /\ Refuse("digest")
          \/ bytes = Top.ref.doc /\ ~Names(bytes, Top.ref) /\ Refuse("document")
          \/ /\ bytes = Top.ref.doc /\ Names(bytes, Top.ref) /\ memo' = read
             /\ stack' = [stack EXCEPT ![Len(stack)].doc = bytes]
             /\ UNCHANGED <<wish, roots, cursor, done, verdict>> /\ Keep

Leave ==
    /\ verdict = "running" /\ stack # <<>> /\ Top.doc # None
    /\ Top.next > Len(Top.doc.deps)
    /\ done' = [done EXCEPT ![Top.ref.key] = Top.doc]
    /\ stack' = Advanced(Below) /\ cursor' = CursorAfter(Below)
    /\ UNCHANGED <<wish, memo, roots, verdict>> /\ Keep

Finish ==
    /\ verdict = "running" /\ stack = <<>> /\ cursor > Len(roots)
    /\ verdict' = "ok"
    /\ UNCHANGED <<wish, memo, roots, cursor, stack, done>> /\ Keep

Walk == Resolve \/ EnterActive \/ EnterDone \/ EnterNew \/ Fetch \/ Leave \/ Finish

Building == (\E k \in Keys : StartBuild(k)) \/ Compose \/ PublishBuilt \/ PublishJunk
-----------------------------------------------------------------------------
(* Properties *)

Refusals == {"cycle", "pinned twice", "digest", "document"}

\* What a document pins, and what that pins in turn.
PinnedBy[d \in Docs] ==
    Pins(d) \cup UNION {PinnedBy[r.doc] : r \in {x \in Pins(d) : x.doc \in Docs}}

Reach(index) ==
    LET named == {index[i] : i \in DOMAIN index}
    IN named \cup UNION {PinnedBy[r.doc] : r \in {x \in named : x.doc \in Docs}}

\* Every pin names a document of its identity, and no identity is pinned to two
\* documents.
Sound(refs) ==
    /\ \A r \in refs : Names(r.doc, r)
    /\ \A r, t \in refs : r.key = t.key => r.doc = t.doc

\* Every variable has its type.
ClosureTypeOK ==
    /\ shelf \in [Keys -> Docs \cup Junk \cup {None}]
    /\ builder # None =>
          /\ builder.key \in Keys /\ builder.intents \in Manifests[builder.key]
          /\ Len(builder.pins) <= Len(builder.intents)
          /\ \A i \in DOMAIN builder.pins : builder.pins[i] \in Refs
    /\ wish \in Seq(Keys) /\ memo \in [Kinds \X Keys -> Docs \cup Junk \cup {None}]
    /\ roots \in Seq(Refs) /\ Len(roots) <= Len(wish) /\ cursor \in 1 .. Len(roots) + 1
    /\ \A i \in DOMAIN stack :
          /\ stack[i].ref \in Refs /\ stack[i].doc \in Docs \cup {None}
          /\ stack[i].next \in Nat
    /\ done \in [Keys -> Docs \cup {None}]
    /\ verdict \in Refusals \cup {"unread", "idle", "resolving", "running", "ok"}
    /\ published \subseteq Keys \X (Docs \cup Junk)
    /\ replaced \in 0 .. MaxReplaced /\ disturbed \in BOOLEAN

\* What verifyReleaseClosure accepts has been visited as pinned, root by root and
\* pin by pin: its visited releases are closed under their dependencies.
VerifiedIsClosed == verdict = "ok" =>
    /\ \A i \in DOMAIN roots : Settled(roots[i])
    /\ \A k \in Keys : done[k] # None =>
          /\ done[k].key = k
          /\ \A i \in DOMAIN done[k].deps : Settled(done[k].deps[i])

\* An index is not refused for nothing: unless the shelf changed meanwhile, it
\* reaches two documents of an identity, one of another identity, or one that
\* is not on the shelf.  A cycle of identities is a case of the first.
RefusalIsReal == verdict \in Refusals /\ ~disturbed =>
    \/ ~Sound(Reach(roots))
    \/ \E r \in Reach(roots) : shelf[r.key] # r.doc
=============================================================================
