---------------------------- MODULE RegistryTrust ---------------------------
(***************************************************************************)
(* From a verified closure to the index a client trusts: registry-build    *)
(* writes the unsigned index of a closure it verified, registry-authen-    *)
(* ticate signs an unsigned index that parses, one of these or one written *)
(* by hand (authenticateRegistry of src/registryPublication.ts),           *)
(* documents travel, late, old, damaged or signed by another key, and a    *)
(* client certifies one against the mark it kept (certifyRegistry of       *)
(* src/registry.ts).                                                       *)
(*                                                                         *)
(* A signature is what was signed and by which key; a digest is the        *)
(* payload.  Transport, clock and the client that keeps the mark are       *)
(* external: a client certifies one document at a time and stores the high *)
(* water it is answered, so a certification is one step.                   *)
(***************************************************************************)
EXTENDS ReleaseClosure

CONSTANTS
    Clients,
    Before(_, _),   \* the order of the plugin ids buildRegistry sorts by
    TrustedKey,
    Malformed,      \* what parseRegistry refuses
    Foreign,        \* a document another key signed
    Periods,        \* the <<issuedAt, expiresAt>> the owner chooses from
    Sequences,      \* the sequence numbers the owner chooses from
    HandWritten,    \* indices that parse, which the owner signs unverified
    MaxIssued,      \* bound: documents signed
    MaxTime         \* bound: the clocks of the clients

Payloads == [sequence : Nat \ {0}, period : Periods, plugins : Seq(Refs)]

ASSUME TrustAssumption ==
    /\ Foreign.keyId # TrustedKey
    /\ \A period \in Periods : period[1] < period[2]
    /\ Sequences \subseteq Nat \ {0} /\ {MaxIssued, MaxTime} \subseteq Nat
    /\ None \notin [sequence : Nat \ {0}, digest : Payloads]
    /\ HandWritten \subseteq Payloads

VARIABLES
    drafts,     \* the indices registry-build wrote, not signed yet
    issued,     \* the signed documents
    mark,       \* client -> its high water [sequence, digest], or None
    accepted    \* history: client -> the documents accepted, in order

trust == <<drafts, issued, mark, accepted>>
vars == <<closureVars, trust>>

Payload(sequence, period, plugins) ==
    [sequence |-> sequence, period |-> period, plugins |-> plugins]

Init ==
    /\ ClosureInit
    /\ drafts = {} /\ issued = {}
    /\ mark = [c \in Clients |-> None]
    /\ accepted = [c \in Clients |-> <<>>]

-----------------------------------------------------------------------------
\* registryPlugins: one plugin per id, in order.
Wishes == {<<k>> : k \in Keys} \cup {two \in Keys \X Keys : Before(two[1], two[2])}

BuildRegistry == (\E keys \in Wishes : StartWalk(keys)) /\ UNCHANGED trust

\* The owner chooses the sequence, also one that was used before.
WriteRegistry ==
    /\ verdict = "ok" /\ Cardinality(drafts) + Cardinality(issued) < MaxIssued
    /\ \E sequence \in Sequences, period \in Periods :
          drafts' = drafts \cup {Payload(sequence, period, roots)}
    /\ WalkIdle
    /\ UNCHANGED <<built, store, disturbed, issued, mark, accepted>>

\* Nothing is verified here.  A second signature of an index is the first one.
Authenticate ==
    /\ Cardinality(issued) < MaxIssued
    /\ \E payload \in drafts \cup HandWritten :
          /\ issued' = issued \cup
                 {[payload |-> payload, keyId |-> TrustedKey, signed |-> payload]}
          /\ drafts' = drafts \ {payload}
    /\ UNCHANGED <<closureVars, mark, accepted>>

\* A document that lost its list of plugins on the way.
Damaged(document) == [document EXCEPT !.payload.plugins = <<>>]

InCirculation == issued \cup {Damaged(d) : d \in issued} \cup {Malformed, Foreign}

\* certifyRegistry, without the verdict on continuity.
Trusted(document, time) ==
    /\ document # Malformed
    /\ document.keyId = TrustedKey
    /\ document.signed = document.payload
    /\ document.payload.period[1] <= time /\ time < document.payload.period[2]

\* Defect: the index of an equal sequence is taken whatever its digest.
ContinuesAnyDigest(payload, highWater) ==
    highWater # None => payload.sequence >= highWater.sequence

\* Neither a rollback nor an equivocation.
Continues(payload, highWater) ==
    highWater # None =>
        \/ payload.sequence > highWater.sequence
        \/ payload.sequence = highWater.sequence /\ payload = highWater.digest

Certify(c, document, time) ==
    /\ Trusted(document, time) /\ Continues(document.payload, mark[c])
    /\ mark' = [mark EXCEPT ![c] = [sequence |-> document.payload.sequence,
                                    digest |-> document.payload]]
    /\ accepted' = [accepted EXCEPT ![c] =
           IF mark'[c] = mark[c] THEN @ ELSE Append(@, document.payload)]
    /\ UNCHANGED <<closureVars, drafts, issued>>

Next ==
    \/ (Walk \/ Building) /\ UNCHANGED trust
    \/ BuildRegistry \/ WriteRegistry \/ Authenticate
    \/ \E c \in Clients, document \in InCirculation, time \in 0 .. MaxTime :
          Certify(c, document, time)

Spec == Init /\ [][Next]_vars

\* The walk is one asynchronous function whose reads are answered.
FairSpec == Spec /\ WF_vars(Walk /\ UNCHANGED trust)

-----------------------------------------------------------------------------
(* Properties *)

\* Over everything a client ever accepted, old documents and reused sequences
\* included, every index was signed by the trusted key, the sequence never went
\* back and one sequence never meant two indices.
TrustNeverForks == \A c \in Clients :
    LET taken == accepted[c]
    IN /\ \A i, j \in DOMAIN taken : i < j => taken[i].sequence < taken[j].sequence
       /\ \A i \in DOMAIN taken : \E d \in issued : d.signed = taken[i]

\* What a client accepts, unless the owner wrote it by hand, reaches one document
\* of each identity, over every path, and while no release is ever replaced
\* everything it reaches can be resolved.
AcceptedResolves == \A c \in Clients : \A i \in DOMAIN accepted[c] :
    LET reached == Reach(accepted[c][i].plugins)
    IN accepted[c][i] \notin HandWritten =>
           Sound(reached) /\ (replaced = 0 => \A r \in reached : shelf[r.key] = r.doc)

\* Every verification of an index that starts comes to a verdict.
WalkEnds == verdict \in {"resolving", "running"} ~> verdict \notin {"resolving", "running"}
=============================================================================
