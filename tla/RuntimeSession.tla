--------------------------- MODULE RuntimeSession ---------------------------
(***************************************************************************)
(* PluginRuntimeSessionValidator of                                        *)
(* src/packages/plugin-spec/src/pluginRuntime.ts: the state one validator  *)
(* keeps about the two directions of a plugin runtime session, and what    *)
(* accept() lets through.  Each action is one accept() that answers ok.    *)
(*                                                                         *)
(* The two endpoints and the transport are external: any envelope may      *)
(* arrive in any direction at any time, lost and duplicated ones included  *)
(* (a gap in seq, a seq not newer than the last).  An accept() that        *)
(* answers not ok is no action: it leaves the state alone, because every   *)
(* check that follows a state change inside it cannot fail (DomPageFits).  *)
(*                                                                         *)
(* Envelopes keep what a later check reads: direction, seq, request id,    *)
(* method, and the topic, subscription, resource, node, revision or byte   *)
(* count named in params or value.                                         *)
(***************************************************************************)
EXTENDS Naturals, Sequences, FiniteSets

CONSTANTS
    Roles,             \* the roles a principal of the instance may have
    Methods,           \* bound: role -> the methods its endpoints use
    Ids,               \* request ids
    Topics,            \* the granted event topics
    SubIds,            \* subscription ids
    Resources,         \* the resource handles of the session
    Nodes,             \* DOM node ids
    StreamIds,
    None,
    MaxPending, MaxRequests, MaxSubscriptions, MaxActiveStreams, MaxStreams,
    MaxOwnedNodes, MaxPageNodes,
    MaxSeq,            \* bound: role -> envelopes per direction
    MaxRevision,       \* bound: context and DOM revisions
    MaxBytes           \* bound: bytes of a stream

AllRoles == {"controller", "view", "file-viewer", "overlay", "preview"}

ASSUME SessionAssumption ==
    /\ Roles \subseteq AllRoles
    /\ None \notin Topics \cup SubIds \cup Resources \cup {"undefined"}
    /\ \A S \in {Ids, SubIds, Nodes, StreamIds} : IsFiniteSet(S)
    /\ {MaxPending, MaxRequests, MaxSubscriptions, MaxActiveStreams, MaxStreams,
        MaxOwnedNodes, MaxPageNodes, MaxRevision, MaxBytes} \subseteq Nat
    /\ MaxSeq \in [Roles -> Nat]

\* A page that starts a new revision fits, so a result that cleared the nodes
\* is never rejected after it did.
ASSUME DomPageFits == MaxPageNodes <= MaxOwnedNodes

VARIABLES
    role,             \* of the principal, fixed
    lastSequence,     \* per direction
    requestIds,       \* every request id accepted
    pending,          \* request id -> the request waiting for a response, or None
    subscriptions,    \* subscription id -> topic, or None
    releasedResources,
    nodeIds,          \* the DOM nodes the host may address
    domRevision,
    streams,          \* stream id -> state of the active stream, or None
    retiredStreamIds,
    bootstrapped, ready, providerState, contextRevision, closed,
    asked,            \* history: the accepted request of an id, or None
    answers,          \* history: accepted responses, per request id
    shown,            \* history: the revision of the last result naming a node
    tape              \* history: what an accepted stream carried

wire == <<lastSequence, requestIds, pending, asked, answers>>
grants == <<subscriptions, releasedResources>>
dom == <<nodeIds, domRevision, shown>>
streaming == <<streams, retiredStreamIds, tape>>
life == <<bootstrapped, ready, providerState, contextRevision>>
vars == <<role, wire, grants, dom, streaming, life, closed>>

-----------------------------------------------------------------------------
(* REQUEST_POLICY and SIGNAL_POLICY.                                       *)

Host == "host-to-plugin"
Plugin == "plugin-to-host"
Directions == {Host, Plugin}

Opposite(d) == IF d = Host THEN Plugin ELSE Host

HostRequests == {"runtime.bootstrap", "context.update", "provider.mount",
                 "provider.update", "provider.unmount", "plugin-command.invoke",
                 "dom.query", "dom.snapshot", "dom.measure", "dom.input"}

PluginRequests == {"command.execute", "event.subscribe", "event.unsubscribe",
                   "resource.open", "resource.release"}

HostSignals == {"plugin-command.cancel", "event.deliver"}

PluginSignals == {"lifecycle.ready", "plugin-command.result",
                  "plugin-command.progress", "dom.revision", "runtime.fault"}

SharedSignals == {"runtime.teardown", "stream.open", "stream.chunk",
                  "stream.ack", "stream.close"}

DirectionsOf(m) ==
    CASE m \in HostRequests \cup HostSignals -> {Host}
      [] m \in PluginRequests \cup PluginSignals -> {Plugin}
      [] OTHER -> Directions

RolesOf(m) ==
    CASE m \in {"runtime.bootstrap", "context.update", "runtime.teardown",
                "lifecycle.ready", "runtime.fault"} -> AllRoles
      [] m \in {"provider.mount", "provider.update", "provider.unmount",
                "dom.query", "dom.snapshot", "dom.measure", "dom.revision"} ->
            AllRoles \ {"controller"}
      [] m = "dom.input" -> AllRoles \ {"controller", "preview"}
      [] m \in {"plugin-command.invoke", "plugin-command.result",
                "plugin-command.progress", "plugin-command.cancel"} ->
            {"controller"}
      [] OTHER -> AllRoles \ {"preview"}

-----------------------------------------------------------------------------
Request(d, m, arg) == [by |-> d, method |-> m, arg |-> arg]

Requests == [by : Directions, method : HostRequests \cup PluginRequests,
             arg : Topics \cup SubIds \cup Resources \cup {None}]

StreamStates == [owner : Directions, totalBytes : Nat, chunkBytes : Nat,
                 nextIndex : Nat, transferredBytes : Nat, inFlight : BOOLEAN]

ASSUME NoneAssumption == None \notin Requests /\ None \notin StreamStates

Waiting == {id \in Ids : pending[id] # None}

Active == {s \in StreamIds : streams[s] # None}

Subscribed == {s \in SubIds : subscriptions[s] # None}

NoTape == [opens |-> 0, total |-> 0, indices |-> <<>>, acks |-> 0, bytes |-> 0]

Init ==
    /\ role \in Roles
    /\ lastSequence = [d \in Directions |-> 0]
    /\ requestIds = {}
    /\ pending = [id \in Ids |-> None]
    /\ subscriptions = [s \in SubIds |-> None]
    /\ releasedResources = {}
    /\ nodeIds = {} /\ domRevision = 0
    /\ streams = [s \in StreamIds |-> None] /\ retiredStreamIds = {}
    /\ bootstrapped = FALSE /\ ready = FALSE /\ providerState = "idle"
    /\ contextRevision = 0 /\ closed = FALSE
    /\ asked = [id \in Ids |-> None]
    /\ answers = [id \in Ids |-> 0]
    /\ shown = [n \in Nodes |-> 0]
    /\ tape = [s \in StreamIds |-> NoTape]

-----------------------------------------------------------------------------
(* What every accepted envelope passes: the session is open, the policy     *)
(* admits the method in the direction for the role, and seq is newer.       *)

Admits(d, m) ==
    /\ ~closed /\ m \in Methods[role]
    /\ d \in DirectionsOf(m) /\ role \in RolesOf(m)
    /\ \E seq \in lastSequence[d] + 1 .. MaxSeq[role] :
          lastSequence' = [lastSequence EXCEPT ![d] = seq]
    /\ UNCHANGED role

AcceptRequest(id, m, arg) ==
    LET d == IF m \in HostRequests THEN Host ELSE Plugin
    IN /\ Admits(d, m)
       /\ bootstrapped <=> m # "runtime.bootstrap"
       /\ id \notin requestIds /\ Cardinality(requestIds) < MaxRequests
       /\ Cardinality(Waiting) < MaxPending
       /\ requestIds' = requestIds \cup {id}
       /\ pending' = [pending EXCEPT ![id] = Request(d, m, arg)]
       /\ asked' = [asked EXCEPT ![id] = Request(d, m, arg)]
       /\ UNCHANGED answers

\* A response comes from the endpoint that was asked, for the method asked.
AcceptResponse(id, m) ==
    /\ bootstrapped /\ pending[id] # None /\ pending[id].method = m
    /\ ~closed /\ m \in Methods[role] /\ role \in RolesOf(m)
    /\ LET d == Opposite(pending[id].by)
       IN \E seq \in lastSequence[d] + 1 .. MaxSeq[role] :
             lastSequence' = [lastSequence EXCEPT ![d] = seq]
    /\ pending' = [pending EXCEPT ![id] = None]
    /\ answers' = [answers EXCEPT ![id] = @ + 1]
    /\ UNCHANGED <<role, requestIds, asked>>

AcceptSignal(d, m) ==
    /\ Admits(d, m) /\ bootstrapped
    /\ UNCHANGED <<requestIds, pending, asked, answers>>

-----------------------------------------------------------------------------
(* Requests.                                                               *)

Bootstrap(id, revision) ==
    /\ AcceptRequest(id, "runtime.bootstrap", None)
    /\ bootstrapped' = TRUE /\ contextRevision' = revision
    /\ UNCHANGED <<ready, providerState, grants, dom, streaming, closed>>

ContextUpdate(id, revision) ==
    /\ AcceptRequest(id, "context.update", None)
    /\ revision > contextRevision /\ contextRevision' = revision
    /\ UNCHANGED <<bootstrapped, ready, providerState, grants, dom, streaming,
                   closed>>

\* A provider request names the accepted context revision.
ProviderRequest(id, m, from, to) ==
    /\ AcceptRequest(id, m, None)
    /\ ready /\ providerState = from /\ providerState' = to
    /\ UNCHANGED <<bootstrapped, ready, contextRevision, grants, dom, streaming,
                   closed>>

ProviderMount(id) == ProviderRequest(id, "provider.mount", "idle", "mounted")

ProviderUpdate(id) == ProviderRequest(id, "provider.update", "mounted", "mounted")

ProviderUnmount(id) == ProviderRequest(id, "provider.unmount", "mounted", "unmounted")

\* Requests that no session state is checked for.
PlainRequest(id, m) ==
    /\ m \in {"command.execute", "plugin-command.invoke", "dom.query", "dom.snapshot"}
    /\ AcceptRequest(id, m, None)
    /\ UNCHANGED <<life, grants, dom, streaming, closed>>

Subscribe(id, topic) ==
    /\ AcceptRequest(id, "event.subscribe", topic)
    /\ UNCHANGED <<life, grants, dom, streaming, closed>>

Unsubscribe(id, s) ==
    /\ AcceptRequest(id, "event.unsubscribe", s)
    /\ subscriptions[s] # None
    /\ UNCHANGED <<life, grants, dom, streaming, closed>>

ResourceRequest(id, m, resource) ==
    /\ m \in {"resource.open", "resource.release"}
    /\ AcceptRequest(id, m, resource)
    /\ resource \notin releasedResources
    /\ UNCHANGED <<life, grants, dom, streaming, closed>>

\* dom.input at a node, dom.measure of some, dom.query by node id.
DomTarget(id, m, targets) ==
    /\ m \in {"dom.query", "dom.measure", "dom.input"}
    /\ AcceptRequest(id, m, None)
    /\ targets # {} /\ targets \subseteq nodeIds
    /\ UNCHANGED <<life, grants, dom, streaming, closed>>

-----------------------------------------------------------------------------
(* Responses.                                                              *)

\* plugin-command.invoke is answered by a signal, never by a result or error.
Error(id) ==
    /\ pending[id] # None /\ pending[id].method # "plugin-command.invoke"
    /\ AcceptResponse(id, pending[id].method)
    /\ UNCHANGED <<life, grants, dom, streaming, closed>>

PlainResult(id, m) ==
    /\ m \in {"runtime.bootstrap", "context.update", "provider.mount",
              "provider.update", "provider.unmount", "command.execute"}
    /\ AcceptResponse(id, m)
    /\ UNCHANGED <<life, grants, dom, streaming, closed>>

\* Defect: the invocation stays pending after its result.
CommandResultKeepsPending(id) ==
    /\ pending[id] # None /\ pending[id].method = "plugin-command.invoke"
    /\ Admits(Plugin, "plugin-command.result")
    /\ answers' = [answers EXCEPT ![id] = @ + 1]
    /\ UNCHANGED <<requestIds, pending, asked, life, grants, dom, streaming, closed>>

CommandResult(id) ==
    /\ "plugin-command.result" \in Methods[role]
    /\ AcceptResponse(id, "plugin-command.invoke")
    /\ UNCHANGED <<life, grants, dom, streaming, closed>>

\* Defect: the request is retired before its topic is read.
SubscribeResultAfterCommit(id, s) ==
    /\ AcceptResponse(id, "event.subscribe")
    /\ subscriptions[s] = None /\ Cardinality(Subscribed) < MaxSubscriptions
    /\ subscriptions' = [subscriptions EXCEPT ![s] =
           IF pending'[id] = None THEN "undefined" ELSE pending'[id].arg]
    /\ UNCHANGED <<life, releasedResources, dom, streaming, closed>>

SubscribeResult(id, s) ==
    /\ AcceptResponse(id, "event.subscribe")
    /\ subscriptions[s] = None /\ Cardinality(Subscribed) < MaxSubscriptions
    /\ subscriptions' = [subscriptions EXCEPT ![s] = pending[id].arg]
    /\ UNCHANGED <<life, releasedResources, dom, streaming, closed>>

UnsubscribeResult(id) ==
    /\ AcceptResponse(id, "event.unsubscribe")
    /\ subscriptions' = [subscriptions EXCEPT ![pending[id].arg] = None]
    /\ UNCHANGED <<life, releasedResources, dom, streaming, closed>>

ResourceOpened(id) ==
    /\ AcceptResponse(id, "resource.open")
    /\ UNCHANGED <<life, grants, dom, streaming, closed>>

ResourceReleased(id) ==
    /\ AcceptResponse(id, "resource.release")
    /\ releasedResources' = releasedResources \cup {pending[id].arg}
    /\ UNCHANGED <<life, subscriptions, dom, streaming, closed>>

\* Defect: a newer revision does not end the authority over older nodes.
DomResultKeepsNodes(id, m, revision, nodes) ==
    /\ AcceptResponse(id, m)
    /\ revision >= domRevision
    /\ Cardinality(nodeIds \cup nodes) <= MaxOwnedNodes
    /\ nodeIds' = nodeIds \cup nodes
    /\ domRevision' = revision
    /\ shown' = [n \in Nodes |-> IF n \in nodes THEN revision ELSE shown[n]]
    /\ UNCHANGED <<life, grants, streaming, closed>>

\* Defect: the node limit is compared before the page is added.
DomResultCountsBefore(id, m, revision, nodes) ==
    LET kept == IF revision > domRevision THEN {} ELSE nodeIds
    IN /\ AcceptResponse(id, m)
       /\ revision >= domRevision
       /\ nodes \subseteq kept \/ Cardinality(kept) < MaxOwnedNodes
       /\ nodeIds' = kept \cup nodes
       /\ domRevision' = revision
       /\ shown' = [n \in Nodes |-> IF n \in nodes THEN revision ELSE shown[n]]
       /\ UNCHANGED <<life, grants, streaming, closed>>

\* Only dom.snapshot and dom.query name nodes: a page, or at most one.
DomResult(id, m, revision, nodes) ==
    LET kept == IF revision > domRevision THEN {} ELSE nodeIds
    IN /\ AcceptResponse(id, m)
       /\ revision >= domRevision
       /\ Cardinality(kept \cup nodes) <= MaxOwnedNodes
       /\ nodeIds' = kept \cup nodes
       /\ domRevision' = revision
       /\ shown' = [n \in Nodes |-> IF n \in nodes THEN revision ELSE shown[n]]
       /\ UNCHANGED <<life, grants, streaming, closed>>

DomPage(m) ==
    CASE m = "dom.snapshot" -> {S \in SUBSET Nodes : Cardinality(S) <= MaxPageNodes}
      [] m = "dom.query"    -> {{}} \cup {{n} : n \in Nodes}
      [] OTHER              -> {{}}

-----------------------------------------------------------------------------
(* Signals.                                                                *)

Ready ==
    /\ AcceptSignal(Plugin, "lifecycle.ready")
    /\ ~ready /\ ready' = TRUE
    /\ UNCHANGED <<bootstrapped, providerState, contextRevision, grants, dom,
                   streaming, closed>>

\* Signals that only have to be admitted.
Fault ==
    /\ AcceptSignal(Plugin, "runtime.fault")
    /\ UNCHANGED <<life, grants, dom, streaming, closed>>

\* Progress comes from the endpoint that was asked, cancel from the one that asked.
CommandSignal(id, d, m) ==
    /\ m \in {"plugin-command.progress", "plugin-command.cancel"}
    /\ pending[id] # None /\ pending[id].method = "plugin-command.invoke"
    /\ d = pending[id].by <=> m = "plugin-command.cancel"
    /\ AcceptSignal(d, m)
    /\ UNCHANGED <<life, grants, dom, streaming, closed>>

Deliver(s, topic) ==
    /\ AcceptSignal(Host, "event.deliver")
    /\ subscriptions[s] = topic
    /\ UNCHANGED <<life, grants, dom, streaming, closed>>

DomRevision(revision) ==
    /\ AcceptSignal(Plugin, "dom.revision")
    /\ revision > domRevision
    /\ nodeIds' = {} /\ domRevision' = revision
    /\ UNCHANGED <<shown, life, grants, streaming, closed>>

\* Accepting teardown from either direction closes the pair.
Teardown(d) ==
    /\ AcceptSignal(d, "runtime.teardown")
    /\ closed' = TRUE
    /\ UNCHANGED <<life, grants, dom, streaming>>

StreamOpen(d, s, total, chunk) ==
    /\ AcceptSignal(d, "stream.open")
    /\ streams[s] = None /\ s \notin retiredStreamIds
    /\ Cardinality(Active) < MaxActiveStreams
    /\ Cardinality(Active) + Cardinality(retiredStreamIds) < MaxStreams
    /\ streams' = [streams EXCEPT ![s] =
           [owner |-> d, totalBytes |-> total, chunkBytes |-> chunk,
            nextIndex |-> 0, transferredBytes |-> 0, inFlight |-> FALSE]]
    /\ tape' = [tape EXCEPT ![s].opens = @ + 1, ![s].total = total]
    /\ UNCHANGED <<retiredStreamIds, life, grants, dom, closed>>

\* Defect: the bound on the chunk ignores what was transferred before it.
ChunkIgnoresTotal(d, s, index, bytes) ==
    /\ AcceptSignal(d, "stream.chunk")
    /\ streams[s] # None /\ d = streams[s].owner /\ ~streams[s].inFlight
    /\ index = streams[s].nextIndex
    /\ bytes <= streams[s].chunkBytes /\ bytes <= streams[s].totalBytes
    /\ streams' = [streams EXCEPT ![s].transferredBytes = @ + bytes,
                                  ![s].nextIndex = @ + 1, ![s].inFlight = TRUE]
    /\ tape' = [tape EXCEPT ![s].indices = Append(@, index), ![s].bytes = @ + bytes]
    /\ UNCHANGED <<retiredStreamIds, life, grants, dom, closed>>

StreamChunk(d, s, index, bytes) ==
    /\ AcceptSignal(d, "stream.chunk")
    /\ streams[s] # None /\ d = streams[s].owner /\ ~streams[s].inFlight
    /\ index = streams[s].nextIndex
    /\ bytes <= streams[s].chunkBytes
    /\ streams[s].transferredBytes + bytes <= streams[s].totalBytes
    /\ streams' = [streams EXCEPT ![s].transferredBytes = @ + bytes,
                                  ![s].nextIndex = @ + 1, ![s].inFlight = TRUE]
    /\ tape' = [tape EXCEPT ![s].indices = Append(@, index), ![s].bytes = @ + bytes]
    /\ UNCHANGED <<retiredStreamIds, life, grants, dom, closed>>

StreamAck(d, s, nextIndex) ==
    /\ AcceptSignal(d, "stream.ack")
    /\ streams[s] # None /\ d # streams[s].owner
    /\ streams[s].inFlight /\ nextIndex = streams[s].nextIndex
    /\ streams' = [streams EXCEPT ![s].inFlight = FALSE]
    /\ tape' = [tape EXCEPT ![s].acks = @ + 1]
    /\ UNCHANGED <<retiredStreamIds, life, grants, dom, closed>>

StreamClose(d, s) ==
    /\ AcceptSignal(d, "stream.close")
    /\ streams[s] # None /\ d = streams[s].owner /\ ~streams[s].inFlight
    /\ streams[s].transferredBytes = streams[s].totalBytes
    /\ streams' = [streams EXCEPT ![s] = None]
    /\ retiredStreamIds' = retiredStreamIds \cup {s}
    /\ UNCHANGED <<tape, life, grants, dom, closed>>

-----------------------------------------------------------------------------
\* The host's own close().
Close ==
    /\ closed' = TRUE
    /\ pending' = [id \in Ids |-> None]
    /\ subscriptions' = [s \in SubIds |-> None]
    /\ streams' = [s \in StreamIds |-> None]
    /\ UNCHANGED <<role, lastSequence, requestIds, asked, answers,
                   releasedResources, dom, retiredStreamIds, tape, life>>

HostSteps(id) ==
    \/ \E v \in 1 .. MaxRevision : Bootstrap(id, v) \/ ContextUpdate(id, v)
    \/ ProviderMount(id) \/ ProviderUpdate(id) \/ ProviderUnmount(id)
    \/ \E m \in HostRequests, S \in SUBSET Nodes : DomTarget(id, m, S)

PluginSteps(id) ==
    \/ \E t \in Topics : Subscribe(id, t)
    \/ \E s \in SubIds : Unsubscribe(id, s)
    \/ \E m \in PluginRequests, r \in Resources : ResourceRequest(id, m, r)

Responses(id) ==
    \/ Error(id) \/ CommandResult(id)
    \/ \E m \in HostRequests \cup PluginRequests : PlainResult(id, m)
    \/ \E s \in SubIds : SubscribeResult(id, s)
    \/ UnsubscribeResult(id) \/ ResourceOpened(id) \/ ResourceReleased(id)
    \/ \E m \in {"dom.query", "dom.snapshot", "dom.measure", "dom.input"} :
          \E v \in 1 .. MaxRevision, page \in DomPage(m) : DomResult(id, m, v, page)

Signals ==
    \/ Ready \/ Fault
    \/ \E v \in 1 .. MaxRevision : DomRevision(v)
    \/ \E s \in SubIds, t \in Topics : Deliver(s, t)
    \/ \E d \in Directions : Teardown(d)

StreamSignals == \E d \in Directions, s \in StreamIds :
    \/ \E total \in 0 .. MaxBytes, chunk \in 1 .. MaxBytes : StreamOpen(d, s, total, chunk)
    \/ \E i \in 0 .. MaxBytes, bytes \in 1 .. MaxBytes : StreamChunk(d, s, i, bytes)
    \/ \E i \in 1 .. MaxBytes : StreamAck(d, s, i)
    \/ StreamClose(d, s)

Next ==
    \/ \E id \in Ids :
          \/ HostSteps(id) \/ PluginSteps(id) \/ Responses(id)
          \/ \E m \in HostRequests \cup PluginRequests : PlainRequest(id, m)
          \/ \E d \in Directions, m \in PluginSignals \cup HostSignals :
                CommandSignal(id, d, m)
    \/ Signals
    \/ StreamSignals
    \/ Close

Spec == Init /\ [][Next]_vars

-----------------------------------------------------------------------------
(* Properties *)

Tapes == [opens : Nat, total : Nat, indices : Seq(Nat), acks : Nat, bytes : Nat]

\* Every variable has its type.
TypeOK ==
    /\ role \in Roles
    /\ lastSequence \in [Directions -> Nat]
    /\ requestIds \subseteq Ids
    /\ pending \in [Ids -> Requests \cup {None}]
    /\ subscriptions \in [SubIds -> Topics \cup {None}]
    /\ releasedResources \subseteq Resources
    /\ nodeIds \subseteq Nodes /\ domRevision \in Nat
    /\ streams \in [StreamIds -> StreamStates \cup {None}]
    /\ retiredStreamIds \subseteq StreamIds
    /\ {bootstrapped, ready, closed} \subseteq BOOLEAN
    /\ providerState \in {"idle", "mounted", "unmounted"}
    /\ contextRevision \in Nat
    /\ asked \in [Ids -> Requests \cup {None}]
    /\ answers \in [Ids -> Nat]
    /\ shown \in [Nodes -> Nat]
    /\ tape \in [StreamIds -> Tapes]

\* While the session is open, a request that was accepted is waiting for its
\* response or has had exactly one, over the whole life of the session: an id
\* is never reused and a response never answers twice (accept, commitCorrelation).
EveryRequestHasOneFate ==
    /\ \A id \in Ids : answers[id] <= 1
    /\ ~closed => \A id \in Ids :
          IF id \in requestIds THEN (pending[id] # None) <=> (answers[id] = 0)
          ELSE pending[id] = None /\ answers[id] = 0

\* The host may address exactly the nodes a result of the current DOM revision
\* has named: authority ends with its revision and none is lost inside it.
NodeAuthorityIsCurrent ==
    nodeIds = {n \in Nodes : shown[n] = domRevision /\ domRevision # 0}

\* An active subscription has the granted topic of a subscribe request that was
\* answered, and no more subscriptions are active than were answered for.
SubscriptionsAreAskedFor ==
    LET For(t) == {id \in Ids : /\ asked[id] # None /\ answers[id] = 1
                                /\ asked[id].method = "event.subscribe"
                                /\ asked[id].arg = t}
    IN \A t \in Topics \cup {"undefined"} :
          LET on == {s \in SubIds : subscriptions[s] = t}
          IN on # {} => t \in Topics /\ Cardinality(on) <= Cardinality(For(t))

\* No limit is passed: the limits are checked on acceptance, and what is
\* already in flight when one is reached must not push a set over it.
LimitsHold ==
    /\ Cardinality(Waiting) <= MaxPending
    /\ Cardinality(requestIds) <= MaxRequests
    /\ Cardinality(Subscribed) <= MaxSubscriptions
    /\ Cardinality(nodeIds) <= MaxOwnedNodes
    /\ Cardinality(Active) <= MaxActiveStreams
    /\ Cardinality(Active) + Cardinality(retiredStreamIds) <= MaxStreams

\* The chunks of a stream are accepted in index order, at most one of them not
\* acknowledged by the consumer, never more bytes than were declared, and a
\* closed stream has carried every declared byte.  An id names one stream, also
\* after that is closed: a late chunk or acknowledgement meets no other.
StreamsCarryTheirBytes == \A s \in StreamIds :
    LET t == tape[s]
    IN /\ t.opens <= 1
       /\ \A i \in DOMAIN t.indices : t.indices[i] = i - 1
       /\ Len(t.indices) \in {t.acks, t.acks + 1}
       /\ t.bytes <= t.total
       /\ s \in retiredStreamIds => t.bytes = t.total /\ Len(t.indices) = t.acks

=============================================================================
