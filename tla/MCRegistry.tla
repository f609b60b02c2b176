----------------------------- MODULE MCRegistry -----------------------------
(***************************************************************************)
(* An instance of RegistryTrust for TLC: plugins p and q pin sidecar s,    *)
(* which has two builds and, after a change of its manifest, pins p.       *)
(***************************************************************************)
EXTENDS RegistryTrust

CONSTANTS s, p, q, junk, c1, own, other

Document(kind, key, deps, build) ==
    [kind |-> kind, key |-> key, deps |-> deps, build |-> build]

Pin(d) == [kind |-> d.kind, key |-> d.key, doc |-> d]

Sidecars == {Document("sidecar", s, <<>>, b) : b \in 1 .. 2}

Plugins == {Document("plugin", k, <<Pin(d)>>, 1) : k \in {p, q}, d \in Sidecars}

OnPlugin == {Document("sidecar", s, <<Pin(d)>>, 1) : d \in {e \in Plugins : e.key = p}}

Circular == {Document("plugin", p, <<Pin(d)>>, 1) : d \in OnPlugin}

AllDocs == Sidecars \cup Plugins \cup OnPlugin \cup Circular

AllManifests ==
    [k \in Keys |-> IF k = s THEN {<<>>, <<Intent("plugin", p)>>}
                    ELSE {<<Intent("sidecar", s)>>}]

\* The ids in order; no index lists the sidecar beside a plugin.
IdBefore(k, l) == k = p /\ l = q

\* A document of another key, whose payload nothing reads.
AnothersDocument == [keyId |-> other, payload |-> junk, signed |-> junk]

OnePeriod == {<<1, 2>>}

\* An index that parses and was never verified: its digest is of a sidecar.
OneByHand == {[sequence |-> 2, period |-> <<1, 2>>,
               plugins |-> <<[kind |-> "plugin", key |-> q,
                              doc |-> Document("sidecar", s, <<>>, 1)]>>]}
=============================================================================
