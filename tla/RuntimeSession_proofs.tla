------------------------ MODULE RuntimeSession_proofs -----------------------
(***************************************************************************)
(* Proofs about RuntimeSession: for every instance and whatever the two    *)
(* endpoints send, a request has one fate, authority over a DOM node ends  *)
(* with its revision, streams carry their bytes, and no limit is passed.   *)
(*                                                                         *)
(* An accepted envelope moves the correlation of requests and one other    *)
(* part of the session.  Each part has its invariant and its kinds of      *)
(* step; one lemma per part says that every step is of these kinds.        *)
(***************************************************************************)
EXTENDS RuntimeSession, FiniteSetTheorems, TLAPS

RequestMethods == HostRequests \cup PluginRequests

Arguments == Topics \cup SubIds \cup Resources \cup {None}

\* The argument of a request is of the kind its method takes.
Fits(m, arg) ==
    /\ m = "event.subscribe" => arg \in Topics
    /\ m = "resource.release" => arg \in Resources

-----------------------------------------------------------------------------
(* The parts of the invariant.                                             *)

WireTyped ==
    /\ requestIds \subseteq Ids
    /\ pending \in [Ids -> Requests \cup {None}]
    /\ asked \in [Ids -> Requests \cup {None}]
    /\ answers \in [Ids -> Nat]

\* What is pending is what was asked.
PendingIsAsked == \A id \in Ids : pending[id] # None =>
    asked[id] = pending[id] /\ Fits(pending[id].method, pending[id].arg)

\* What is needed of the correlation.
WireInv == WireTyped /\ PendingIsAsked /\ EveryRequestHasOneFate

\* No node has been named by a later revision than the current one.
DomInv ==
    /\ nodeIds \subseteq Nodes /\ domRevision \in Nat /\ shown \in [Nodes -> Nat]
    /\ \A n \in Nodes : shown[n] <= domRevision
    /\ NodeAuthorityIsCurrent

\* What an active stream has done is what its tape says, and a stream that is
\* neither active nor retired has done nothing.
Recorded(s) ==
    LET t == tape[s]
        x == streams[s]
    IN /\ x # None =>
             /\ s \notin retiredStreamIds
             /\ t.opens = 1 /\ t.total = x.totalBytes /\ t.bytes = x.transferredBytes
             /\ Len(t.indices) = x.nextIndex
             /\ x.inFlight => Len(t.indices) = t.acks + 1
             /\ ~x.inFlight => Len(t.indices) = t.acks
       /\ x = None /\ s \notin retiredStreamIds /\ ~closed => t = NoTape

StreamInv ==
    /\ streams \in [StreamIds -> StreamStates \cup {None}]
    /\ retiredStreamIds \subseteq StreamIds
    /\ tape \in [StreamIds -> Tapes]
    /\ \A s \in StreamIds : Recorded(s)
    /\ StreamsCarryTheirBytes

GrantsTyped ==
    /\ subscriptions \in [SubIds -> Topics \cup {None}]
    /\ releasedResources \subseteq Resources

LifeTyped ==
    /\ role \in Roles /\ lastSequence \in [Directions -> Nat]
    /\ {bootstrapped, ready, closed} \subseteq BOOLEAN
    /\ providerState \in {"idle", "mounted", "unmounted"}
    /\ contextRevision \in Nat

-----------------------------------------------------------------------------
(* The kinds of step.                                                      *)

WireStep ==
    \/ \E id \in Ids, m \in RequestMethods, arg \in Arguments :
          AcceptRequest(id, m, arg) /\ Fits(m, arg) /\ UNCHANGED closed
    \/ \E id \in Ids, m \in RequestMethods : AcceptResponse(id, m) /\ UNCHANGED closed
    \/ UNCHANGED <<requestIds, pending, asked, answers>> /\ closed' \in {closed, TRUE}
    \/ Close

DomStep ==
    \/ UNCHANGED dom
    \/ \E v \in 1 .. MaxRevision :
          v > domRevision /\ nodeIds' = {} /\ domRevision' = v /\ UNCHANGED shown
    \/ \E id \in Ids, m \in RequestMethods, v \in 1 .. MaxRevision, page \in SUBSET Nodes :
          DomResult(id, m, v, page)

StreamStep ==
    \/ UNCHANGED streaming /\ closed' \in {closed, TRUE}
    \/ StreamSignals
    \/ Close

GrantStep ==
    \/ UNCHANGED grants
    \/ \E id \in Ids, s \in SubIds : SubscribeResult(id, s)
    \/ \E id \in Ids : UnsubscribeResult(id) \/ ResourceReleased(id)
    \/ Close

LifeStep ==
    /\ UNCHANGED role
    /\ lastSequence' \in [Directions -> Nat]
    /\ bootstrapped' \in {bootstrapped, TRUE} /\ ready' \in {ready, TRUE}
    /\ closed' \in {closed, TRUE}
    /\ providerState' \in {providerState, "mounted", "unmounted"}
    /\ contextRevision' \in {contextRevision} \cup Nat

\* The sequence numbers of what is accepted.
LEMMA SeqTyped ==
    ASSUME LifeTyped, NEW d \in Directions,
           \E seq \in lastSequence[d] + 1 .. MaxSeq[role] :
               lastSequence' = [lastSequence EXCEPT ![d] = seq]
    PROVE  lastSequence' \in [Directions -> Nat]
  BY SessionAssumption DEF LifeTyped, SessionAssumption

LEMMA RequestLife ==
    ASSUME LifeTyped, NEW id, NEW m \in RequestMethods, NEW arg, AcceptRequest(id, m, arg)
    PROVE  UNCHANGED role /\ lastSequence' \in [Directions -> Nat]
  <1>1. Host \in Directions /\ Plugin \in Directions
    BY DEF Directions
  <1> QED BY <1>1, SeqTyped DEF AcceptRequest, Admits

LEMMA ResponseLife ==
    ASSUME LifeTyped, WireTyped, NEW id \in Ids, NEW m, AcceptResponse(id, m)
    PROVE  UNCHANGED role /\ lastSequence' \in [Directions -> Nat]
  <1>1. pending[id] \in Requests
    BY DEF AcceptResponse, WireTyped
  <1>2. Opposite(pending[id].by) \in Directions
    BY DEF Opposite, Directions
  <1> QED BY <1>2, SeqTyped DEF AcceptResponse

LEMMA SignalLife ==
    ASSUME LifeTyped, NEW d \in Directions, NEW m, AcceptSignal(d, m)
    PROVE  UNCHANGED role /\ lastSequence' \in [Directions -> Nat]
  BY SeqTyped DEF AcceptSignal, Admits

\* Every step is of these kinds.
Kinds == WireStep /\ DomStep /\ StreamStep /\ GrantStep

LEMMA RequestKinds ==
    ASSUME NEW id \in Ids, HostSteps(id) \/ PluginSteps(id)
    PROVE  Kinds
  <1> USE DEF life, grants, dom, streaming, RequestMethods, HostRequests, PluginRequests
  <1>1. ASSUME NEW m \in RequestMethods, NEW arg \in Arguments,
               AcceptRequest(id, m, arg), Fits(m, arg),
               UNCHANGED <<grants, dom, streaming, closed>>
        PROVE  Kinds
    BY <1>1 DEF Kinds, WireStep, DomStep, StreamStep, GrantStep
  <1>2. None \in Arguments
    BY DEF Arguments
  <1>3. ASSUME NEW v, Bootstrap(id, v) \/ ContextUpdate(id, v) PROVE Kinds
    BY <1>1, <1>2, <1>3 DEF Bootstrap, ContextUpdate, Fits
  <1>4. ASSUME NEW m \in {"provider.mount", "provider.update", "provider.unmount"}, NEW from,
               NEW to, ProviderRequest(id, m, from, to)
        PROVE  Kinds
    BY <1>1, <1>2, <1>4 DEF ProviderRequest, Fits
  <1>5. ASSUME NEW m \in HostRequests, NEW S, DomTarget(id, m, S) PROVE Kinds
    BY <1>1, <1>2, <1>5 DEF DomTarget, Fits
  <1>6. ASSUME NEW t \in Topics, Subscribe(id, t) PROVE Kinds
    BY <1>1, <1>6 DEF Subscribe, Fits, Arguments
  <1>7. ASSUME NEW s \in SubIds, Unsubscribe(id, s) PROVE Kinds
    BY <1>1, <1>7 DEF Unsubscribe, Fits, Arguments
  <1>8. ASSUME NEW m \in PluginRequests, NEW r \in Resources, ResourceRequest(id, m, r)
        PROVE  Kinds
    BY <1>1, <1>8 DEF ResourceRequest, Fits, Arguments
  <1>9. CASE HostSteps(id)
    BY <1>3, <1>4, <1>5, <1>9 DEF HostSteps, ProviderMount, ProviderUpdate, ProviderUnmount
  <1>10. CASE PluginSteps(id)
    BY <1>6, <1>7, <1>8, <1>10 DEF PluginSteps
  <1> QED BY <1>9, <1>10

LEMMA PlainKinds ==
    ASSUME NEW id \in Ids, NEW m \in RequestMethods, PlainRequest(id, m)
    PROVE  Kinds
  <1>1. AcceptRequest(id, m, None) /\ Fits(m, None) /\ None \in Arguments
    BY DEF PlainRequest, Fits, Arguments
  <1>2. UNCHANGED <<grants, dom, streaming, closed>>
    BY DEF PlainRequest
  <1> QED BY <1>1, <1>2 DEF Kinds, WireStep, DomStep, StreamStep, GrantStep

LEMMA ResponseKinds ==
    ASSUME NEW id \in Ids, WireTyped, Responses(id)
    PROVE  Kinds
  <1> USE DEF RequestMethods, HostRequests, PluginRequests
  <1>1. ASSUME NEW m \in RequestMethods, AcceptResponse(id, m),
               UNCHANGED <<streaming, closed>>, DomStep, GrantStep
        PROVE  Kinds
    BY <1>1 DEF Kinds, WireStep, StreamStep
  <1>2. CASE Error(id)
    <2>1. pending[id].method \in RequestMethods
      BY <1>2 DEF WireTyped, Error, Requests
    <2> QED BY <1>1, <1>2, <2>1 DEF Error, DomStep, GrantStep
  <1>3. CASE CommandResult(id) \/ ResourceOpened(id)
    BY <1>1, <1>3 DEF CommandResult, ResourceOpened, DomStep, GrantStep
  <1>4. ASSUME NEW m \in RequestMethods, PlainResult(id, m) PROVE Kinds
    BY <1>1, <1>4 DEF PlainResult, DomStep, GrantStep
  <1>5. ASSUME NEW s \in SubIds, SubscribeResult(id, s) PROVE Kinds
    <2>1. GrantStep
      BY <1>5 DEF GrantStep
    <2> QED BY <1>1, <1>5, <2>1 DEF SubscribeResult, DomStep
  <1>6. CASE UnsubscribeResult(id) \/ ResourceReleased(id)
    <2>1. GrantStep
      BY <1>6 DEF GrantStep
    <2> QED BY <1>1, <1>6, <2>1 DEF UnsubscribeResult, ResourceReleased, DomStep
  <1>7. ASSUME NEW m \in {"dom.query", "dom.snapshot", "dom.measure", "dom.input"},
               NEW v \in 1 .. MaxRevision, NEW page \in DomPage(m), DomResult(id, m, v, page)
        PROVE  Kinds
    <2>1. page \in SUBSET Nodes
      BY <1>7 DEF DomPage
    <2>2. DomStep
      BY <1>7, <2>1 DEF DomStep
    <2> QED BY <1>1, <1>7, <2>2 DEF DomResult, GrantStep
  <1> QED BY <1>2, <1>3, <1>4, <1>5, <1>6, <1>7 DEF Responses

LEMMA SignalKinds ==
    ASSUME Signals \/ StreamSignals
           \/ \E id \in Ids, d \in Directions, m \in PluginSignals \cup HostSignals :
                 CommandSignal(id, d, m)
    PROVE  Kinds
  <1>1. ASSUME NEW d, NEW m, AcceptSignal(d, m), closed' \in {closed, TRUE}, DomStep,
               UNCHANGED grants, StreamStep
        PROVE  Kinds
    BY <1>1 DEF AcceptSignal, Kinds, WireStep, GrantStep
  <1>2. ASSUME NEW id, NEW d, NEW m, CommandSignal(id, d, m) PROVE Kinds
    BY <1>1, <1>2 DEF CommandSignal, DomStep, StreamStep
  <1>3. CASE Signals
    <2>1. CASE Ready \/ Fault
      BY <1>1, <2>1 DEF Ready, Fault, DomStep, StreamStep
    <2>2. ASSUME NEW v \in 1 .. MaxRevision, DomRevision(v) PROVE Kinds
      BY <1>1, <2>2 DEF DomRevision, DomStep, StreamStep
    <2>3. ASSUME NEW s, NEW t, Deliver(s, t) PROVE Kinds
      BY <1>1, <2>3 DEF Deliver, DomStep, StreamStep
    <2>4. ASSUME NEW d, Teardown(d) PROVE Kinds
      BY <1>1, <2>4 DEF Teardown, DomStep, StreamStep
    <2> QED BY <1>3, <2>1, <2>2, <2>3, <2>4 DEF Signals
  <1>4. CASE StreamSignals
    <2>1. StreamStep
      BY <1>4 DEF StreamStep
    <2>2. PICK d \in Directions, s \in StreamIds :
              \/ \E total \in 0 .. MaxBytes, chunk \in 1 .. MaxBytes :
                    StreamOpen(d, s, total, chunk)
              \/ \E i \in 0 .. MaxBytes, bytes \in 1 .. MaxBytes : StreamChunk(d, s, i, bytes)
              \/ \E i \in 1 .. MaxBytes : StreamAck(d, s, i)
              \/ StreamClose(d, s)
      BY <1>4 DEF StreamSignals
    <2>3. \E m : AcceptSignal(d, m) /\ UNCHANGED <<grants, dom, closed>>
      BY <2>2 DEF StreamOpen, StreamChunk, StreamAck, StreamClose
    <2> QED BY <1>1, <2>1, <2>3 DEF DomStep
  <1> QED BY <1>2, <1>3, <1>4

LEMMA CloseKinds ==
    ASSUME Close
    PROVE  Kinds
  BY DEF Close, Kinds, WireStep, DomStep, StreamStep, GrantStep

LEMMA NextKinds ==
    ASSUME Next, WireTyped
    PROVE  Kinds
  BY RequestKinds, PlainKinds, ResponseKinds, SignalKinds, CloseKinds DEF Next, RequestMethods

LEMMA StutterKinds ==
    ASSUME UNCHANGED vars
    PROVE  Kinds
  BY DEF vars, wire, Kinds, WireStep, DomStep, StreamStep, GrantStep

-----------------------------------------------------------------------------
(* The correlation of requests and responses.                              *)

LEMMA RequestFacts ==
    ASSUME NEW id \in Ids, NEW m \in RequestMethods, NEW arg \in Arguments,
           AcceptRequest(id, m, arg)
    PROVE  \E r \in Requests :
              /\ r # None /\ r.method = m /\ r.arg = arg
              /\ ~closed /\ id \notin requestIds
              /\ requestIds' = requestIds \cup {id}
              /\ pending' = [pending EXCEPT ![id] = r]
              /\ asked' = [asked EXCEPT ![id] = r]
              /\ answers' = answers
  <1> DEFINE r == Request(IF m \in HostRequests THEN Host ELSE Plugin, m, arg)
  <1>1. r \in Requests /\ r.method = m /\ r.arg = arg
    BY DEF Request, Requests, Directions, RequestMethods, Arguments
  <1>2. r # None
    BY <1>1, NoneAssumption
  <1>3. ~closed
    BY DEF AcceptRequest, Admits
  <1> QED BY <1>1, <1>2, <1>3 DEF AcceptRequest

LEMMA WireKeeps ==
    ASSUME WireInv, WireStep
    PROVE  WireInv'
  <1> USE DEF WireInv, WireTyped, PendingIsAsked, EveryRequestHasOneFate
  <1>1. ASSUME NEW id \in Ids, NEW m \in RequestMethods, NEW arg \in Arguments,
               AcceptRequest(id, m, arg), Fits(m, arg)
        PROVE  WireInv'
    <2>1. PICK r \in Requests :
              /\ r # None /\ r.method = m /\ r.arg = arg
              /\ ~closed /\ id \notin requestIds
              /\ requestIds' = requestIds \cup {id}
              /\ pending' = [pending EXCEPT ![id] = r]
              /\ asked' = [asked EXCEPT ![id] = r]
              /\ answers' = answers
      BY <1>1, RequestFacts
    <2>2. /\ \A q \in Ids \ {id} : /\ pending'[q] = pending[q] /\ asked'[q] = asked[q]
                                   /\ q \in requestIds' <=> q \in requestIds
          /\ pending'[id] = r /\ asked'[id] = r /\ answers[id] = 0
      BY <2>1
    <2>3. WireTyped'
      BY <2>1
    <2>4. PendingIsAsked'
      BY <1>1, <2>1, <2>2
    <2>5. EveryRequestHasOneFate'
      BY <2>1, <2>2
    <2> QED BY <2>3, <2>4, <2>5
  <1>2. ASSUME NEW id \in Ids, NEW m, AcceptResponse(id, m)
        PROVE  WireInv'
    <2>1. /\ pending[id] # None /\ ~closed
          /\ pending' = [pending EXCEPT ![id] = None]
          /\ answers' = [answers EXCEPT ![id] = @ + 1]
          /\ UNCHANGED <<requestIds, asked>>
      BY <1>2 DEF AcceptResponse
    <2>2. id \in requestIds /\ answers[id] = 0
      BY <2>1
    <2>3. /\ \A q \in Ids \ {id} : pending'[q] = pending[q] /\ answers'[q] = answers[q]
          /\ pending'[id] = None /\ answers'[id] = 1
      BY <2>1, <2>2
    <2>4. WireTyped'
      BY <2>1
    <2>5. PendingIsAsked'
      BY <2>1, <2>3
    <2>6. EveryRequestHasOneFate'
      BY <2>1, <2>2, <2>3
    <2> QED BY <2>4, <2>5, <2>6
  <1>3. CASE UNCHANGED <<requestIds, pending, asked, answers>> /\ closed' \in {closed, TRUE}
    BY <1>3
  <1>4. CASE Close
    <2>1. /\ closed' = TRUE /\ pending' = [id \in Ids |-> None]
          /\ UNCHANGED <<requestIds, asked, answers>>
      BY <1>4 DEF Close
    <2> QED BY <2>1
  <1> QED BY <1>1, <1>2, <1>3, <1>4 DEF WireStep

-----------------------------------------------------------------------------
(* The authority over DOM nodes.                                           *)

LEMMA DomKeeps ==
    ASSUME DomInv, DomStep
    PROVE  DomInv'
  <1> USE DEF DomInv, NodeAuthorityIsCurrent
  <1>0. MaxRevision \in Nat
    BY SessionAssumption
  <1>1. CASE UNCHANGED dom
    BY <1>1 DEF dom
  <1>2. ASSUME NEW v \in 1 .. MaxRevision,
               v > domRevision /\ nodeIds' = {} /\ domRevision' = v /\ UNCHANGED shown
        PROVE  DomInv'
    BY <1>0, <1>2
  <1>3. ASSUME NEW id \in Ids, NEW m, NEW v \in 1 .. MaxRevision, NEW page \in SUBSET Nodes,
               DomResult(id, m, v, page)
        PROVE  DomInv'
    <2>1. /\ v >= domRevision /\ domRevision' = v /\ v \in Nat /\ v # 0
          /\ nodeIds' = (IF v > domRevision THEN {} ELSE nodeIds) \cup page
          /\ shown' = [n \in Nodes |-> IF n \in page THEN v ELSE shown[n]]
      BY <1>0, <1>3 DEF DomResult
    <2>2. CASE v > domRevision
      BY <2>1, <2>2
    <2>3. CASE v = domRevision
      BY <2>1, <2>3
    <2> QED BY <2>1, <2>2, <2>3
  <1> QED BY <1>1, <1>2, <1>3 DEF DomStep

-----------------------------------------------------------------------------
(* The streams.                                                            *)

\* What StreamsCarryTheirBytes says of one stream.
Carries(s) ==
    LET t == tape[s]
    IN /\ t.opens <= 1
       /\ \A i \in DOMAIN t.indices : t.indices[i] = i - 1
       /\ Len(t.indices) \in {t.acks, t.acks + 1}
       /\ t.bytes <= t.total
       /\ s \in retiredStreamIds => t.bytes = t.total /\ Len(t.indices) = t.acks

\* A step at stream s is judged by what it does to s.
LEMMA StreamAt ==
    ASSUME StreamInv, NEW s \in StreamIds, ~closed, closed' = closed,
           NEW x \in StreamStates \cup {None}, NEW t \in Tapes,
           streams' = [streams EXCEPT ![s] = x], tape' = [tape EXCEPT ![s] = t],
           retiredStreamIds' \in {retiredStreamIds, retiredStreamIds \cup {s}},
           Recorded(s)', Carries(s)'
    PROVE  StreamInv'
  <1>1. /\ streams' \in [StreamIds -> StreamStates \cup {None}]
        /\ tape' \in [StreamIds -> Tapes] /\ retiredStreamIds' \subseteq StreamIds
    BY DEF StreamInv
  <1>2. \A q \in StreamIds \ {s} :
            /\ streams'[q] = streams[q] /\ tape'[q] = tape[q]
            /\ q \in retiredStreamIds' <=> q \in retiredStreamIds
    BY DEF StreamInv
  <1>3. \A q \in StreamIds : Recorded(q) /\ Carries(q)
    BY DEF StreamInv, StreamsCarryTheirBytes, Carries
  <1>4. \A q \in StreamIds \ {s} : Recorded(q)'
    BY <1>2, <1>3 DEF Recorded
  <1>5. \A q \in StreamIds \ {s} : Carries(q)'
    BY <1>2, <1>3 DEF Carries
  <1> QED BY <1>1, <1>4, <1>5 DEF StreamInv, StreamsCarryTheirBytes, Carries

\* The parts of a tape, and what the steps write on it.
LEMMA TapeFacts ==
    ASSUME NEW t \in Tapes
    PROVE  /\ t.opens \in Nat /\ t.total \in Nat /\ t.acks \in Nat /\ t.bytes \in Nat
           /\ t.indices \in Seq(Nat) /\ Len(t.indices) \in Nat
           /\ DOMAIN t.indices = 1 .. Len(t.indices)
  BY DEF Tapes

LEMMA NoTapeFacts ==
    /\ NoTape \in Tapes /\ NoTape.opens = 0 /\ NoTape.bytes = 0 /\ NoTape.acks = 0
    /\ NoTape.indices = <<>>
  <1>1. NoTape \in Tapes
    BY DEF NoTape, Tapes
  <1>2. NoTape.opens = 0 /\ NoTape.bytes = 0 /\ NoTape.acks = 0 /\ NoTape.indices = <<>>
    BY DEF NoTape
  <1> QED BY <1>1, <1>2

LEMMA AcknowledgedTape ==
    ASSUME NEW was \in Tapes, NEW acks \in Nat
    PROVE  LET t == [was EXCEPT !.acks = acks]
           IN /\ t \in Tapes /\ t.opens = was.opens /\ t.total = was.total
              /\ t.bytes = was.bytes /\ t.acks = acks /\ t.indices = was.indices
  <1> DEFINE t == [was EXCEPT !.acks = acks]
  <1>1. t \in Tapes
    BY DEF Tapes
  <1>2. t.opens = was.opens /\ t.total = was.total /\ t.bytes = was.bytes
        /\ t.acks = acks /\ t.indices = was.indices
    BY DEF Tapes
  <1> QED BY <1>1, <1>2

LEMMA StreamOpenKeeps ==
    ASSUME StreamInv, NEW d \in Directions, NEW s \in StreamIds,
           NEW total \in 0 .. MaxBytes, NEW chunk \in 1 .. MaxBytes,
           StreamOpen(d, s, total, chunk)
    PROVE  StreamInv'
  <1> DEFINE x == [owner |-> d, totalBytes |-> total, chunkBytes |-> chunk,
                   nextIndex |-> 0, transferredBytes |-> 0, inFlight |-> FALSE]
  <1> DEFINE opens == NoTape.opens + 1
  <1> DEFINE t == [NoTape EXCEPT !.opens = opens, !.total = total]
  <1>1. total \in Nat /\ chunk \in Nat
    BY SessionAssumption
  <1>2. x \in StreamStates
    <2>1. 0 \in Nat /\ FALSE \in BOOLEAN
      OBVIOUS
    <2> QED BY <1>1, <2>1, Zenon DEF StreamStates
  <1>3. /\ x.totalBytes = total /\ x.nextIndex = 0 /\ x.transferredBytes = 0
        /\ x.inFlight = FALSE
    BY Zenon
  <1>4. ~closed /\ closed' = closed /\ streams[s] = None /\ s \notin retiredStreamIds
        /\ streams' = [streams EXCEPT ![s] = x] /\ retiredStreamIds' = retiredStreamIds
    BY Zenon DEF StreamOpen, AcceptSignal, Admits
  <1>5. tape[s] = NoTape
    BY <1>4 DEF StreamInv, Recorded
  <1>6. tape' = [tape EXCEPT ![s] = t]
    <2>1. tape' = [tape EXCEPT ![s] = [tape[s] EXCEPT !.opens = tape[s].opens + 1,
                                                      !.total = total]]
      BY Zenon DEF StreamOpen
    <2> QED BY <1>5, <2>1, Zenon
  <1>7. /\ t \in Tapes /\ t.opens = 1 /\ t.total = total /\ t.bytes = 0 /\ t.acks = 0
        /\ t.indices = <<>>
    <2>1. opens \in Nat /\ opens = 1
      BY NoTapeFacts
    <2> HIDE DEF opens
    <2>2. t \in Tapes
      BY <1>1, <2>1, NoTapeFacts DEF Tapes
    <2>3. t.opens = opens /\ t.total = total
      BY <1>1, <2>1, NoTapeFacts DEF Tapes
    <2>4. t.bytes = NoTape.bytes /\ t.acks = NoTape.acks /\ t.indices = NoTape.indices
      BY <1>1, <2>1, NoTapeFacts DEF Tapes
    <2> QED BY <2>1, <2>2, <2>3, <2>4, NoTapeFacts
  <1>8. x # None
    BY <1>2, NoneAssumption
  <1> HIDE DEF x, t
  <1>9. streams'[s] = x /\ tape'[s] = t
    BY <1>4, <1>6 DEF StreamInv
  <1>10. Recorded(s)'
    BY <1>3, <1>4, <1>7, <1>8, <1>9 DEF Recorded
  <1>11. Carries(s)'
    BY <1>1, <1>4, <1>7, <1>9 DEF Carries
  <1> QED BY <1>2, <1>4, <1>6, <1>7, <1>10, <1>11, StreamAt

LEMMA StreamChunkKeeps ==
    ASSUME StreamInv, NEW d \in Directions, NEW s \in StreamIds,
           NEW index \in 0 .. MaxBytes, NEW bytes \in 1 .. MaxBytes,
           StreamChunk(d, s, index, bytes)
    PROVE  StreamInv'
  <1> DEFINE old == streams[s]
  <1> DEFINE x == [old EXCEPT !.transferredBytes = old.transferredBytes + bytes,
                              !.nextIndex = old.nextIndex + 1, !.inFlight = TRUE]
  <1> DEFINE was == tape[s]
  <1> DEFINE longer == Append(was.indices, index)
  <1> DEFINE more == was.bytes + bytes
  <1> DEFINE t == [was EXCEPT !.indices = longer, !.bytes = more]
  <1>1. index \in Nat /\ bytes \in Nat
    BY SessionAssumption
  <1>2. /\ ~closed /\ closed' = closed /\ retiredStreamIds' = retiredStreamIds
        /\ old # None /\ ~old.inFlight /\ index = old.nextIndex
        /\ old.transferredBytes + bytes <= old.totalBytes
    BY Zenon DEF StreamChunk, AcceptSignal, Admits
  <1>3. old \in StreamStates /\ was \in Tapes /\ Recorded(s) /\ Carries(s)
    BY <1>2 DEF StreamInv, StreamsCarryTheirBytes, Carries
  <1>4. streams' = [streams EXCEPT ![s] = x] /\ tape' = [tape EXCEPT ![s] = t]
    BY Zenon DEF StreamChunk
  <1>5. /\ s \notin retiredStreamIds /\ was.opens = 1 /\ was.total = old.totalBytes
        /\ was.bytes = old.transferredBytes /\ Len(was.indices) = old.nextIndex
        /\ Len(was.indices) = was.acks
    BY <1>2, <1>3 DEF Recorded
  <1> HIDE DEF old, was
  <1>6. old.transferredBytes + bytes \in Nat /\ old.nextIndex + 1 \in Nat
    BY <1>1, <1>3 DEF StreamStates
  <1>7. x \in StreamStates
    BY <1>3, <1>6 DEF StreamStates
  <1>8. /\ x.totalBytes = old.totalBytes /\ x.nextIndex = old.nextIndex + 1
        /\ x.transferredBytes = old.transferredBytes + bytes
    BY <1>3, <1>6 DEF StreamStates
  <1>9. x.inFlight
    BY <1>3, <1>6 DEF StreamStates
  <1>10. /\ t \in Tapes /\ t.opens = was.opens /\ t.total = was.total
         /\ t.bytes = was.bytes + bytes /\ t.acks = was.acks
         /\ t.indices = Append(was.indices, index)
    <2>1. longer \in Seq(Nat) /\ more \in Nat
      BY <1>1, <1>3, TapeFacts
    <2> HIDE DEF longer, more
    <2>2. t \in Tapes
      BY <1>3, <2>1 DEF Tapes
    <2>3. t.opens = was.opens /\ t.total = was.total /\ t.acks = was.acks
      BY <1>3, <2>1 DEF Tapes
    <2>4. t.bytes = more /\ t.indices = longer
      BY <1>3, <2>1 DEF Tapes
    <2> QED BY <2>2, <2>3, <2>4 DEF longer, more
  <1>11. /\ Len(t.indices) = Len(was.indices) + 1 /\ Len(was.indices) \in Nat
         /\ DOMAIN t.indices = 1 .. Len(was.indices) + 1
         /\ \A i \in 1 .. Len(was.indices) : t.indices[i] = was.indices[i]
         /\ t.indices[Len(was.indices) + 1] = index
    <2>1. was.indices \in Seq(Nat)
      BY <1>3, TapeFacts
    <2> QED BY <1>1, <1>10, <2>1
  <1>12. x # None
    BY <1>7, NoneAssumption
  <1> HIDE DEF x, t
  <1>13. streams'[s] = x /\ tape'[s] = t
    BY <1>4 DEF StreamInv
  <1>14. Recorded(s)'
    BY <1>2, <1>5, <1>8, <1>9, <1>10, <1>11, <1>12, <1>13 DEF Recorded
  <1>15. \A i \in DOMAIN t.indices : t.indices[i] = i - 1
    <2>1. \A i \in 1 .. Len(was.indices) : was.indices[i] = i - 1
      BY <1>3, TapeFacts DEF Carries, was
    <2>2. index = (Len(was.indices) + 1) - 1
      BY <1>2, <1>5, <1>11
    <2>3. \A i \in DOMAIN t.indices :
              i \in 1 .. Len(was.indices) \/ i = Len(was.indices) + 1
      BY <1>11
    <2> QED BY <1>11, <2>1, <2>2, <2>3
  <1>16. Carries(s)'
    <2>1. t.bytes <= t.total
      BY <1>2, <1>5, <1>10
    <2>2. Len(t.indices) = t.acks + 1
      BY <1>5, <1>10, <1>11
    <2>3. t.opens <= 1
      BY <1>5, <1>10
    <2> QED BY <1>2, <1>5, <1>13, <1>15, <2>1, <2>2, <2>3 DEF Carries
  <1> QED BY <1>2, <1>4, <1>7, <1>10, <1>14, <1>16, StreamAt DEF old, was

LEMMA StreamAckKeeps ==
    ASSUME StreamInv, NEW d \in Directions, NEW s \in StreamIds, NEW i, StreamAck(d, s, i)
    PROVE  StreamInv'
  <1> DEFINE old == streams[s]
  <1> DEFINE x == [old EXCEPT !.inFlight = FALSE]
  <1> DEFINE was == tape[s]
  <1> DEFINE t == [was EXCEPT !.acks = was.acks + 1]
  <1>1. /\ ~closed /\ closed' = closed /\ retiredStreamIds' = retiredStreamIds
        /\ old # None /\ old.inFlight
    BY Zenon DEF StreamAck, AcceptSignal, Admits
  <1>2. old \in StreamStates /\ was \in Tapes /\ Recorded(s) /\ Carries(s)
    BY <1>1 DEF StreamInv, StreamsCarryTheirBytes, Carries
  <1>3. streams' = [streams EXCEPT ![s] = x] /\ tape' = [tape EXCEPT ![s] = t]
    BY Zenon DEF StreamAck
  <1>4. /\ s \notin retiredStreamIds /\ was.opens = 1 /\ was.total = old.totalBytes
        /\ was.bytes = old.transferredBytes /\ Len(was.indices) = old.nextIndex
        /\ Len(was.indices) = was.acks + 1
    BY <1>1, <1>2 DEF Recorded
  <1>5. \A n \in DOMAIN was.indices : was.indices[n] = n - 1
    BY <1>2 DEF Carries
  <1>6. was.bytes <= was.total
    BY <1>2 DEF Carries
  <1> HIDE DEF old, was
  <1>7. x \in StreamStates
    BY <1>2 DEF StreamStates
  <1>8. /\ x.totalBytes = old.totalBytes /\ x.nextIndex = old.nextIndex
        /\ x.transferredBytes = old.transferredBytes
    BY <1>2 DEF StreamStates
  <1>9. ~x.inFlight
    BY <1>2 DEF StreamStates
  <1>10. /\ t \in Tapes /\ t.opens = was.opens /\ t.total = was.total
         /\ t.bytes = was.bytes /\ t.acks = was.acks + 1 /\ t.indices = was.indices
    <2>1. was.acks + 1 \in Nat
      BY <1>2, TapeFacts
    <2> QED BY <1>2, <2>1, AcknowledgedTape, Zenon
  <1>11. x # None
    BY <1>7, NoneAssumption
  <1> HIDE DEF x, t
  <1>12. streams'[s] = x /\ tape'[s] = t
    BY <1>3 DEF StreamInv
  <1>13. Recorded(s)'
    BY <1>1, <1>4, <1>8, <1>9, <1>10, <1>11, <1>12 DEF Recorded
  <1>14. Carries(s)'
    <2>1. t.opens <= 1 /\ Len(t.indices) = t.acks /\ t.bytes <= t.total
      BY <1>4, <1>6, <1>10
    <2> QED BY <1>1, <1>4, <1>5, <1>10, <1>12, <2>1 DEF Carries
  <1> QED BY <1>1, <1>3, <1>7, <1>10, <1>13, <1>14, StreamAt DEF old, was

LEMMA StreamCloseKeeps ==
    ASSUME StreamInv, NEW d \in Directions, NEW s \in StreamIds, StreamClose(d, s)
    PROVE  StreamInv'
  <1> DEFINE old == streams[s]
  <1>1. /\ ~closed /\ closed' = closed /\ old # None /\ ~old.inFlight
        /\ old.transferredBytes = old.totalBytes
        /\ streams' = [streams EXCEPT ![s] = None] /\ tape' = tape
        /\ retiredStreamIds' = retiredStreamIds \cup {s}
    BY DEF StreamClose, AcceptSignal, Admits
  <1>2. tape[s] \in Tapes /\ Recorded(s) /\ Carries(s)
    BY DEF StreamInv, StreamsCarryTheirBytes, Carries
  <1>3. tape' = [tape EXCEPT ![s] = tape[s]]
    BY <1>1 DEF StreamInv
  <1>4. streams'[s] = None /\ tape'[s] = tape[s] /\ s \in retiredStreamIds'
    BY <1>1 DEF StreamInv
  <1>5. Recorded(s)'
    BY <1>4 DEF Recorded
  <1>6. Carries(s)'
    BY <1>1, <1>2, <1>4, TapeFacts DEF Carries, Recorded
  <1> QED BY <1>1, <1>2, <1>3, <1>5, <1>6, StreamAt

LEMMA StreamKeeps ==
    ASSUME StreamInv, StreamStep
    PROVE  StreamInv'
  <1>1. CASE UNCHANGED streaming /\ closed' \in {closed, TRUE}
    <2>1. UNCHANGED <<streams, retiredStreamIds, tape>>
      BY <1>1 DEF streaming
    <2>2. ~closed' => ~closed
      BY <1>1, Zenon
    <2>3. \A s \in StreamIds : Recorded(s)'
      BY <2>1, <2>2, Zenon DEF StreamInv, Recorded
    <2> QED BY <2>1, <2>3 DEF StreamInv, StreamsCarryTheirBytes
  <1>2. CASE StreamSignals
    BY <1>2, StreamOpenKeeps, StreamChunkKeeps, StreamAckKeeps, StreamCloseKeeps
       DEF StreamSignals
  <1>3. CASE Close
    <2>1. closed' = TRUE /\ streams' = [s \in StreamIds |-> None]
          /\ UNCHANGED <<retiredStreamIds, tape>>
      BY <1>3 DEF Close
    <2>2. \A s \in StreamIds : Recorded(s)'
      BY <2>1 DEF Recorded
    <2> QED BY <2>1, <2>2 DEF StreamInv, StreamsCarryTheirBytes
  <1> QED BY <1>1, <1>2, <1>3 DEF StreamStep

-----------------------------------------------------------------------------
(* What the session grants, and its life.                                  *)

LEMMA GrantsKeep ==
    ASSUME WireInv, GrantsTyped, GrantStep
    PROVE  GrantsTyped'
  <1> USE DEF GrantsTyped
  <1>1. ASSUME NEW id \in Ids, NEW m, AcceptResponse(id, m)
        PROVE  /\ pending[id] \in Requests /\ pending[id].method = m
               /\ Fits(m, pending[id].arg)
    BY <1>1 DEF AcceptResponse, WireInv, WireTyped, PendingIsAsked
  <1>2. CASE UNCHANGED grants
    BY <1>2 DEF grants
  <1>3. ASSUME NEW id \in Ids, NEW s \in SubIds, SubscribeResult(id, s)
        PROVE  GrantsTyped'
    <2>1. pending[id].arg \in Topics
      BY <1>1, <1>3 DEF SubscribeResult, Fits
    <2> QED BY <1>3, <2>1 DEF SubscribeResult
  <1>4. ASSUME NEW id \in Ids, UnsubscribeResult(id)
        PROVE  GrantsTyped'
    BY <1>4 DEF UnsubscribeResult
  <1>5. ASSUME NEW id \in Ids, ResourceReleased(id)
        PROVE  GrantsTyped'
    <2>1. pending[id].arg \in Resources
      BY <1>1, <1>5 DEF ResourceReleased, Fits
    <2> QED BY <1>5, <2>1 DEF ResourceReleased
  <1>6. CASE Close
    BY <1>6 DEF Close
  <1> QED BY <1>2, <1>3, <1>4, <1>5, <1>6 DEF GrantStep

LEMMA LifeKeeps ==
    ASSUME LifeTyped, LifeStep
    PROVE  LifeTyped'
  <1>1. {bootstrapped', ready', closed'} \subseteq BOOLEAN
    BY Zenon DEF LifeTyped, LifeStep
  <1>2. /\ role' \in Roles /\ lastSequence' \in [Directions -> Nat]
        /\ providerState' \in {"idle", "mounted", "unmounted"} /\ contextRevision' \in Nat
    BY DEF LifeTyped, LifeStep
  <1> QED BY <1>1, <1>2 DEF LifeTyped

LEMMA RequestIsLife ==
    ASSUME LifeTyped, NEW id \in Ids, HostSteps(id) \/ PluginSteps(id)
    PROVE  LifeStep
  <1> USE DEF life, RequestMethods, HostRequests, PluginRequests
  <1>0. 1 .. MaxRevision \subseteq Nat
    BY SessionAssumption
  <1>1. ASSUME NEW v \in 1 .. MaxRevision, Bootstrap(id, v) \/ ContextUpdate(id, v)
        PROVE  LifeStep
    <2>1. UNCHANGED role /\ lastSequence' \in [Directions -> Nat]
      BY <1>1, RequestLife DEF Bootstrap, ContextUpdate
    <2>2. /\ bootstrapped' \in {bootstrapped, TRUE} /\ ready' = ready /\ closed' = closed
          /\ providerState' = providerState /\ contextRevision' = v
      BY <1>1, Zenon DEF Bootstrap, ContextUpdate
    <2> QED BY <1>0, <2>1, <2>2, Zenon DEF LifeStep
  <1>2. ASSUME NEW m \in RequestMethods, NEW from, NEW to \in {"mounted", "unmounted"},
               ProviderRequest(id, m, from, to)
        PROVE  LifeStep
    <2>1. UNCHANGED role /\ lastSequence' \in [Directions -> Nat]
      BY <1>2, RequestLife DEF ProviderRequest
    <2>2. /\ UNCHANGED <<bootstrapped, ready, closed, contextRevision>>
          /\ providerState' = to
      BY <1>2, Zenon DEF ProviderRequest
    <2> QED BY <2>1, <2>2, Zenon DEF LifeStep
  <1>3. ASSUME NEW m \in RequestMethods, NEW arg, AcceptRequest(id, m, arg),
               UNCHANGED <<life, closed>>
        PROVE  LifeStep
    <2>1. UNCHANGED role /\ lastSequence' \in [Directions -> Nat]
      BY <1>3, RequestLife
    <2> QED BY <1>3, <2>1, Zenon DEF LifeStep
  <1>4. CASE HostSteps(id)
    BY <1>1, <1>2, <1>3, <1>4
       DEF HostSteps, ProviderMount, ProviderUpdate, ProviderUnmount, DomTarget
  <1>5. CASE PluginSteps(id)
    BY <1>3, <1>5 DEF PluginSteps, Subscribe, Unsubscribe, ResourceRequest
  <1> QED BY <1>4, <1>5

LEMMA ResponseIsLife ==
    ASSUME LifeTyped, WireTyped, NEW id \in Ids, Responses(id)
    PROVE  LifeStep
  <1>1. ASSUME NEW m, AcceptResponse(id, m), UNCHANGED <<life, closed>>
        PROVE  LifeStep
    <2>1. UNCHANGED role /\ lastSequence' \in [Directions -> Nat]
      BY <1>1, ResponseLife
    <2> QED BY <1>1, <2>1, Zenon DEF LifeStep, life
  <1>2. \E m : AcceptResponse(id, m) /\ UNCHANGED <<life, closed>>
    BY Zenon DEF Responses, Error, CommandResult, PlainResult, SubscribeResult,
       UnsubscribeResult, ResourceOpened, ResourceReleased, DomResult
  <1> QED BY <1>1, <1>2

LEMMA SignalIsLife ==
    ASSUME LifeTyped, Signals \/ StreamSignals
           \/ \E id \in Ids, d \in Directions, m \in PluginSignals \cup HostSignals :
                 CommandSignal(id, d, m)
    PROVE  LifeStep
  <1>1. ASSUME NEW d \in Directions, NEW m, AcceptSignal(d, m), ready' \in {ready, TRUE},
               closed' \in {closed, TRUE},
               UNCHANGED <<bootstrapped, providerState, contextRevision>>
        PROVE  LifeStep
    <2>1. UNCHANGED role /\ lastSequence' \in [Directions -> Nat]
      BY <1>1, SignalLife
    <2> QED BY <1>1, <2>1, Zenon DEF LifeStep
  <1>2. Host \in Directions /\ Plugin \in Directions
    BY DEF Directions
  <1>3. CASE Signals
    BY <1>1, <1>2, <1>3, Zenon
       DEF Signals, Ready, Fault, DomRevision, Deliver, Teardown, life
  <1>4. CASE StreamSignals
    <2>1. ASSUME NEW d, NEW s, NEW total, NEW chunk, StreamOpen(d, s, total, chunk)
          PROVE  AcceptSignal(d, "stream.open") /\ UNCHANGED <<life, closed>>
      BY <2>1, Zenon DEF StreamOpen
    <2>2. ASSUME NEW d, NEW s, NEW i, NEW bytes, StreamChunk(d, s, i, bytes)
          PROVE  AcceptSignal(d, "stream.chunk") /\ UNCHANGED <<life, closed>>
      BY <2>2, Zenon DEF StreamChunk
    <2>3. ASSUME NEW d, NEW s, NEW i, StreamAck(d, s, i)
          PROVE  AcceptSignal(d, "stream.ack") /\ UNCHANGED <<life, closed>>
      BY <2>3, Zenon DEF StreamAck
    <2>4. ASSUME NEW d, NEW s, StreamClose(d, s)
          PROVE  AcceptSignal(d, "stream.close") /\ UNCHANGED <<life, closed>>
      BY <2>4, Zenon DEF StreamClose
    <2>5. ASSUME NEW d \in Directions, NEW m, AcceptSignal(d, m), UNCHANGED <<life, closed>>
          PROVE  LifeStep
      BY <1>1, <2>5, Zenon DEF life
    <2>6. \E d \in Directions : \E m : AcceptSignal(d, m) /\ UNCHANGED <<life, closed>>
      BY <1>4, <2>1, <2>2, <2>3, <2>4, Zenon DEF StreamSignals
    <2> QED BY <2>5, <2>6, Zenon
  <1>5. ASSUME NEW id, NEW d \in Directions, NEW m, CommandSignal(id, d, m)
        PROVE  LifeStep
    BY <1>1, <1>5, Zenon DEF CommandSignal, life
  <1> QED BY <1>3, <1>4, <1>5

LEMMA NextIsLife ==
    ASSUME LifeTyped, WireTyped, Next
    PROVE  LifeStep
  <1>1. ASSUME NEW id \in Ids, NEW m \in RequestMethods, PlainRequest(id, m)
        PROVE  LifeStep
    <2>1. UNCHANGED role /\ lastSequence' \in [Directions -> Nat]
      BY <1>1, RequestLife DEF PlainRequest
    <2>2. UNCHANGED <<life, closed>>
      BY <1>1 DEF PlainRequest
    <2> QED BY <2>1, <2>2, Zenon DEF LifeStep, life
  <1>2. CASE Close
    <2>1. UNCHANGED <<role, lastSequence, life>> /\ closed' = TRUE
      BY <1>2 DEF Close
    <2> QED BY <2>1, Zenon DEF LifeStep, LifeTyped, life
  <1> QED BY <1>1, <1>2, RequestIsLife, ResponseIsLife, SignalIsLife DEF Next, RequestMethods

LEMMA StutterIsLife ==
    ASSUME LifeTyped, UNCHANGED vars
    PROVE  LifeStep
  BY Zenon DEF vars, wire, life, LifeStep, LifeTyped

-----------------------------------------------------------------------------
(* The limits.                                                             *)

LEMMA Smaller ==
    ASSUME NEW S, NEW T, IsFiniteSet(S), T \subseteq S
    PROVE  Cardinality(T) <= Cardinality(S) /\ IsFiniteSet(T) /\ Cardinality(S) \in Nat
           /\ Cardinality(T) \in Nat
  BY FS_Subset, FS_CardinalityType

LEMMA OneMore ==
    ASSUME NEW S, NEW T, NEW x, IsFiniteSet(S), T \subseteq S \cup {x}
    PROVE  Cardinality(T) <= Cardinality(S) + 1
  <1>1. /\ IsFiniteSet(S \cup {x})
        /\ Cardinality(S \cup {x}) = IF x \in S THEN Cardinality(S) ELSE Cardinality(S) + 1
    BY FS_AddElement
  <1>2. Cardinality(S) \in Nat /\ Cardinality(S \cup {x}) \in Nat
    BY <1>1, FS_CardinalityType
  <1>3. Cardinality(S \cup {x}) <= Cardinality(S) + 1
    BY <1>1, <1>2
  <1>4. Cardinality(T) <= Cardinality(S \cup {x}) /\ Cardinality(T) \in Nat
    BY <1>1, Smaller
  <1> QED BY <1>2, <1>3, <1>4

LEMMA FiniteSets ==
    /\ IsFiniteSet(Ids) /\ IsFiniteSet(SubIds) /\ IsFiniteSet(Nodes) /\ IsFiniteSet(StreamIds)
    /\ MaxPending \in Nat /\ MaxRequests \in Nat /\ MaxSubscriptions \in Nat
    /\ MaxActiveStreams \in Nat /\ MaxStreams \in Nat /\ MaxOwnedNodes \in Nat
  BY SessionAssumption DEF SessionAssumption

WireLimits == Cardinality(Waiting) <= MaxPending /\ Cardinality(requestIds) <= MaxRequests

GrantLimits == Cardinality(Subscribed) <= MaxSubscriptions

DomLimits == Cardinality(nodeIds) <= MaxOwnedNodes

StreamLimits ==
    /\ Cardinality(Active) <= MaxActiveStreams
    /\ Cardinality(Active) + Cardinality(retiredStreamIds) <= MaxStreams

LEMMA WireLimitsKeep ==
    ASSUME WireInv, WireLimits, WireStep
    PROVE  WireLimits'
  <1>1. /\ IsFiniteSet(Waiting) /\ IsFiniteSet(requestIds)
        /\ Cardinality(Waiting) \in Nat /\ Cardinality(requestIds) \in Nat
        /\ MaxPending \in Nat /\ MaxRequests \in Nat
    BY FiniteSets, Smaller DEF Waiting, WireInv, WireTyped
  <1>2. ASSUME NEW id \in Ids, NEW m \in RequestMethods, NEW arg \in Arguments,
               AcceptRequest(id, m, arg)
        PROVE  WireLimits'
    <2>1. Cardinality(requestIds) < MaxRequests /\ Cardinality(Waiting) < MaxPending
      BY <1>2 DEF AcceptRequest
    <2>2. requestIds' \subseteq requestIds \cup {id}
      BY <1>2 DEF AcceptRequest
    <2>3. Waiting' \subseteq Waiting \cup {id}
      BY <1>2, RequestFacts DEF Waiting, WireInv, WireTyped
    <2>4. /\ Cardinality(requestIds') <= Cardinality(requestIds) + 1
          /\ Cardinality(Waiting') <= Cardinality(Waiting) + 1
      BY <1>1, <2>2, <2>3, OneMore
    <2>5. Cardinality(requestIds') \in Nat /\ Cardinality(Waiting') \in Nat
      <3>1. requestIds' \subseteq Ids /\ Waiting' \subseteq Ids
        BY <1>1, <2>2, <2>3 DEF Waiting, WireInv, WireTyped
      <3> QED BY <3>1, FiniteSets, Smaller
    <2> QED BY <1>1, <2>1, <2>4, <2>5 DEF WireLimits
  <1>3. ASSUME requestIds' = requestIds, Waiting' \subseteq Waiting
        PROVE  WireLimits'
    <2>1. Cardinality(Waiting') <= Cardinality(Waiting) /\ Cardinality(Waiting') \in Nat
      BY <1>1, <1>3, Smaller
    <2> QED BY <1>1, <1>3, <2>1 DEF WireLimits
  <1>4. ASSUME NEW id \in Ids, NEW m, AcceptResponse(id, m)
        PROVE  WireLimits'
    <2>1. pending' = [pending EXCEPT ![id] = None] /\ requestIds' = requestIds
      BY <1>4 DEF AcceptResponse
    <2>2. Waiting' \subseteq Waiting
      BY <2>1 DEF Waiting, WireInv, WireTyped
    <2> QED BY <1>3, <2>1, <2>2
  <1>5. CASE UNCHANGED <<requestIds, pending, asked, answers>>
    BY <1>3, <1>5 DEF Waiting
  <1>6. CASE Close
    <2>1. requestIds' = requestIds /\ pending' = [id \in Ids |-> None]
      BY <1>6 DEF Close
    <2>2. Waiting' \subseteq Waiting
      BY <2>1 DEF Waiting
    <2> QED BY <1>3, <2>1, <2>2
  <1> QED BY <1>2, <1>4, <1>5, <1>6 DEF WireStep

LEMMA GrantLimitsKeep ==
    ASSUME GrantsTyped, GrantLimits, GrantStep
    PROVE  GrantLimits'
  <1>1. /\ IsFiniteSet(Subscribed) /\ Cardinality(Subscribed) \in Nat
        /\ MaxSubscriptions \in Nat
    BY FiniteSets, Smaller DEF Subscribed
  <1>2. ASSUME Subscribed' \subseteq Subscribed
        PROVE  GrantLimits'
    <2>1. Cardinality(Subscribed') <= Cardinality(Subscribed) /\ Cardinality(Subscribed') \in Nat
      BY <1>1, <1>2, Smaller
    <2> QED BY <1>1, <2>1 DEF GrantLimits
  <1>3. CASE UNCHANGED grants
    BY <1>2, <1>3 DEF grants, Subscribed
  <1>4. ASSUME NEW id \in Ids, NEW s \in SubIds, SubscribeResult(id, s)
        PROVE  GrantLimits'
    <2>1. Cardinality(Subscribed) < MaxSubscriptions
          /\ subscriptions' = [subscriptions EXCEPT ![s] = pending[id].arg]
      BY <1>4 DEF SubscribeResult
    <2>2. Subscribed' \subseteq Subscribed \cup {s}
      BY <2>1 DEF Subscribed, GrantsTyped
    <2>3. Cardinality(Subscribed') <= Cardinality(Subscribed) + 1
      BY <1>1, <2>2, OneMore
    <2>4. Cardinality(Subscribed') \in Nat
      <3>1. Subscribed' \subseteq SubIds
        BY DEF Subscribed
      <3> QED BY <3>1, FiniteSets, Smaller
    <2> QED BY <1>1, <2>1, <2>3, <2>4 DEF GrantLimits
  <1>5. ASSUME NEW id \in Ids, UnsubscribeResult(id) \/ ResourceReleased(id)
        PROVE  GrantLimits'
    <2>1. \/ subscriptions' = [subscriptions EXCEPT ![pending[id].arg] = None]
          \/ subscriptions' = subscriptions
      BY <1>5 DEF UnsubscribeResult, ResourceReleased
    <2>2. Subscribed' \subseteq Subscribed
      BY <2>1 DEF Subscribed, GrantsTyped
    <2> QED BY <1>2, <2>2
  <1>6. CASE Close
    <2>1. subscriptions' = [s \in SubIds |-> None]
      BY <1>6 DEF Close
    <2>2. Subscribed' \subseteq Subscribed
      BY <2>1 DEF Subscribed
    <2> QED BY <1>2, <2>2
  <1> QED BY <1>3, <1>4, <1>5, <1>6 DEF GrantStep

LEMMA DomLimitsKeep ==
    ASSUME DomLimits, DomStep
    PROVE  DomLimits'
  <1>1. CASE UNCHANGED dom
    BY <1>1 DEF dom, DomLimits
  <1>2. CASE nodeIds' = {}
    BY <1>2, FS_EmptySet, FiniteSets DEF DomLimits
  <1>3. ASSUME NEW id, NEW m, NEW v, NEW page, DomResult(id, m, v, page)
        PROVE  DomLimits'
    BY <1>3 DEF DomResult, DomLimits
  <1> QED BY <1>1, <1>2, <1>3 DEF DomStep

LEMMA StreamLimitsKeep ==
    ASSUME StreamInv, StreamLimits, StreamStep
    PROVE  StreamLimits'
  <1>1. /\ IsFiniteSet(Active) /\ IsFiniteSet(retiredStreamIds) /\ Cardinality(Active) \in Nat
        /\ Cardinality(retiredStreamIds) \in Nat
        /\ MaxActiveStreams \in Nat /\ MaxStreams \in Nat
    BY FiniteSets, Smaller DEF Active, StreamInv
  <1>2. IsFiniteSet(Active') /\ Cardinality(Active') \in Nat
    <2>1. Active' \subseteq StreamIds
      BY DEF Active
    <2> QED BY <2>1, FiniteSets, Smaller
  <1>3. ASSUME retiredStreamIds' = retiredStreamIds, Active' \subseteq Active
        PROVE  StreamLimits'
    <2>1. Cardinality(Active') <= Cardinality(Active)
      BY <1>1, <1>3, Smaller
    <2> QED BY <1>1, <1>2, <1>3, <2>1 DEF StreamLimits
  <1>4. CASE UNCHANGED streaming
    BY <1>3, <1>4 DEF streaming, Active
  <1>5. CASE Close
    <2>1. retiredStreamIds' = retiredStreamIds /\ streams' = [s \in StreamIds |-> None]
      BY <1>5 DEF Close
    <2>2. Active' \subseteq Active
      BY <2>1 DEF Active
    <2> QED BY <1>3, <2>1, <2>2
  <1>6. ASSUME NEW d, NEW s \in StreamIds, NEW total, NEW chunk, StreamOpen(d, s, total, chunk)
        PROVE  StreamLimits'
    <2>1. /\ Cardinality(Active) < MaxActiveStreams
          /\ Cardinality(Active) + Cardinality(retiredStreamIds) < MaxStreams
          /\ retiredStreamIds' = retiredStreamIds
      BY <1>6 DEF StreamOpen
    <2>2. \A q \in StreamIds \ {s} : streams'[q] = streams[q]
      BY <1>6 DEF StreamOpen, StreamInv
    <2>3. Active' \subseteq Active \cup {s}
      BY <2>2 DEF Active
    <2>4. Cardinality(Active') <= Cardinality(Active) + 1
      BY <1>1, <2>3, OneMore
    <2> QED BY <1>1, <1>2, <2>1, <2>4 DEF StreamLimits
  <1>7. ASSUME NEW d, NEW s \in StreamIds,
               \/ \E i, bytes : StreamChunk(d, s, i, bytes)
               \/ \E i : StreamAck(d, s, i)
        PROVE  StreamLimits'
    <2>1. streams[s] # None /\ retiredStreamIds' = retiredStreamIds
      BY <1>7 DEF StreamChunk, StreamAck
    <2>2. \A q \in StreamIds \ {s} : streams'[q] = streams[q]
      BY <1>7 DEF StreamChunk, StreamAck, StreamInv
    <2>3. Active' \subseteq Active
      BY <2>1, <2>2 DEF Active
    <2> QED BY <1>3, <2>1, <2>3
  <1>8. ASSUME NEW d, NEW s \in StreamIds, StreamClose(d, s)
        PROVE  StreamLimits'
    <2>1. /\ s \in Active /\ streams' = [streams EXCEPT ![s] = None]
          /\ retiredStreamIds' = retiredStreamIds \cup {s}
      BY <1>8 DEF StreamClose, Active
    <2>2. Active' = Active \ {s}
      BY <2>1 DEF Active, StreamInv
    <2>3. Cardinality(Active') = Cardinality(Active) - 1
      BY <1>1, <2>1, <2>2, FS_RemoveElement
    <2>4. Cardinality(retiredStreamIds') <= Cardinality(retiredStreamIds) + 1
      BY <1>1, <2>1, OneMore
    <2>5. Cardinality(retiredStreamIds') \in Nat
      BY <1>1, <2>1, FS_AddElement, FS_CardinalityType
    <2> QED BY <1>1, <1>2, <2>3, <2>4, <2>5 DEF StreamLimits
  <1> QED BY <1>4, <1>5, <1>6, <1>7, <1>8 DEF StreamStep, StreamSignals

-----------------------------------------------------------------------------
(* Subscriptions.                                                          *)

\* The subscribe requests for a topic that were answered, and the active
\* subscriptions with a topic, as in SubscriptionsAreAskedFor.
For(t) == {id \in Ids : /\ asked[id] # None /\ answers[id] = 1
                        /\ asked[id].method = "event.subscribe" /\ asked[id].arg = t}

On(t) == {s \in SubIds : subscriptions[s] = t}

AskedFor(t) == Cardinality(On(t)) <= Cardinality(For(t))

LEMMA ForGrows ==
    ASSUME WireInv, WireStep, NEW t
    PROVE  For(t) \subseteq For(t)'
  <1> USE DEF WireInv, WireTyped, EveryRequestHasOneFate
  <1>1. CASE UNCHANGED <<asked, answers>>
    BY <1>1 DEF For
  <1>2. ASSUME NEW id \in Ids, NEW m \in RequestMethods, NEW arg \in Arguments,
               AcceptRequest(id, m, arg)
        PROVE  For(t) \subseteq For(t)'
    <2>1. /\ \A q \in Ids \ {id} : asked'[q] = asked[q] /\ answers'[q] = answers[q]
          /\ answers[id] = 0
      BY <1>2, RequestFacts
    <2> QED BY <2>1 DEF For
  <1>3. ASSUME NEW id \in Ids, NEW m, AcceptResponse(id, m)
        PROVE  For(t) \subseteq For(t)'
    <2>1. /\ pending[id] # None /\ ~closed /\ asked' = asked
          /\ answers' = [answers EXCEPT ![id] = @ + 1]
      BY <1>3 DEF AcceptResponse
    <2>2. answers[id] = 0 /\ \A q \in Ids \ {id} : answers'[q] = answers[q]
      BY <2>1
    <2> QED BY <2>1, <2>2 DEF For
  <1>4. CASE Close
    BY <1>1, <1>4 DEF Close
  <1> QED BY <1>1, <1>2, <1>3, <1>4 DEF WireStep

LEMMA AskedForKeeps ==
    ASSUME WireInv, GrantsTyped, WireStep, GrantStep, NEW t \in Topics, AskedFor(t)
    PROVE  AskedFor(t)'
  <1>1. /\ IsFiniteSet(On(t)) /\ IsFiniteSet(For(t)) /\ IsFiniteSet(For(t)')
        /\ Cardinality(On(t)) \in Nat /\ Cardinality(For(t)) \in Nat
        /\ Cardinality(For(t)') \in Nat
    <2>1. On(t) \subseteq SubIds /\ For(t) \subseteq Ids /\ For(t)' \subseteq Ids
      BY DEF On, For
    <2> QED BY <2>1, FiniteSets, Smaller
  <1>2. IsFiniteSet(On(t)') /\ Cardinality(On(t)') \in Nat
    <2>1. On(t)' \subseteq SubIds
      BY DEF On
    <2> QED BY <2>1, FiniteSets, Smaller
  <1>3. For(t) \subseteq For(t)' /\ Cardinality(For(t)) <= Cardinality(For(t)')
    BY <1>1, ForGrows, Smaller
  <1>4. None # t
    BY SessionAssumption
  <1>5. ASSUME On(t)' \subseteq On(t)
        PROVE  AskedFor(t)'
    <2>1. Cardinality(On(t)') <= Cardinality(On(t))
      BY <1>1, <1>5, Smaller
    <2> QED BY <1>1, <1>2, <1>3, <2>1 DEF AskedFor
  <1>6. CASE UNCHANGED grants
    BY <1>5, <1>6 DEF grants, On
  <1>7. ASSUME NEW id \in Ids, NEW s \in SubIds, SubscribeResult(id, s)
        PROVE  AskedFor(t)'
    <2>1. /\ pending[id] # None /\ pending[id].method = "event.subscribe" /\ ~closed
          /\ asked' = asked /\ answers' = [answers EXCEPT ![id] = @ + 1]
          /\ subscriptions' = [subscriptions EXCEPT ![s] = pending[id].arg]
      BY <1>7 DEF SubscribeResult, AcceptResponse
    <2>2. asked[id] = pending[id] /\ answers[id] = 0 /\ answers'[id] = 1
      BY <2>1 DEF WireInv, WireTyped, PendingIsAsked, EveryRequestHasOneFate
    <2>3. CASE pending[id].arg = t
      <3>1. id \notin For(t) /\ id \in For(t)'
        BY <2>1, <2>2, <2>3 DEF For
      <3>2. For(t) \cup {id} \subseteq For(t)'
        BY <1>3, <3>1
      <3>3. Cardinality(For(t) \cup {id}) = Cardinality(For(t)) + 1
        BY <1>1, <3>1, FS_AddElement
      <3>4. Cardinality(For(t) \cup {id}) <= Cardinality(For(t)')
        BY <1>1, <3>2, Smaller
      <3>5. On(t)' \subseteq On(t) \cup {s}
        BY <2>1 DEF On, GrantsTyped
      <3>6. Cardinality(On(t)') <= Cardinality(On(t)) + 1
        BY <1>1, <3>5, OneMore
      <3> QED BY <1>1, <1>2, <3>3, <3>4, <3>6 DEF AskedFor
    <2>4. CASE pending[id].arg # t
      <3>1. On(t)' \subseteq On(t)
        BY <2>1, <2>4 DEF On, GrantsTyped
      <3> QED BY <1>5, <3>1
    <2> QED BY <2>3, <2>4
  <1>8. ASSUME NEW id \in Ids, UnsubscribeResult(id) \/ ResourceReleased(id)
        PROVE  AskedFor(t)'
    <2>1. \/ subscriptions' = [subscriptions EXCEPT ![pending[id].arg] = None]
          \/ subscriptions' = subscriptions
      BY <1>8 DEF UnsubscribeResult, ResourceReleased
    <2>2. On(t)' \subseteq On(t)
      BY <1>4, <2>1 DEF On, GrantsTyped
    <2> QED BY <1>5, <2>2
  <1>9. CASE Close
    <2>1. subscriptions' = [s \in SubIds |-> None]
      BY <1>9 DEF Close
    <2>2. On(t)' \subseteq On(t)
      BY <1>4, <2>1 DEF On
    <2> QED BY <1>5, <2>2
  <1> QED BY <1>6, <1>7, <1>8, <1>9 DEF GrantStep

-----------------------------------------------------------------------------
(* The whole session.                                                      *)

SessionInv ==
    /\ WireInv /\ DomInv /\ StreamInv /\ GrantsTyped /\ LifeTyped
    /\ WireLimits /\ GrantLimits /\ DomLimits /\ StreamLimits
    /\ \A t \in Topics : AskedFor(t)

LEMMA InitHolds ==
    ASSUME Init
    PROVE  SessionInv
  <1>1. WireInv
    BY DEF Init, WireInv, WireTyped, PendingIsAsked, EveryRequestHasOneFate
  <1>2. DomInv
    BY DEF Init, DomInv, NodeAuthorityIsCurrent
  <1>3. StreamInv
    <2>1. /\ streams = [s \in StreamIds |-> None] /\ retiredStreamIds = {}
          /\ tape = [s \in StreamIds |-> NoTape]
      BY DEF Init
    <2>2. \A s \in StreamIds : Recorded(s)
      BY <2>1 DEF Recorded
    <2>3. StreamsCarryTheirBytes
      <3>1. Len(NoTape.indices) = 0 /\ DOMAIN NoTape.indices = {}
        BY NoTapeFacts
      <3>2. NoTape.total \in Nat
        BY NoTapeFacts, TapeFacts
      <3> QED BY <2>1, <3>1, <3>2, NoTapeFacts DEF StreamsCarryTheirBytes
    <2> QED BY <2>1, <2>2, <2>3, NoTapeFacts DEF StreamInv
  <1>4. GrantsTyped
    BY DEF Init, GrantsTyped
  <1>5. LifeTyped
    <2>1. {bootstrapped, ready, closed} \subseteq BOOLEAN
      BY Zenon DEF Init
    <2>2. /\ role \in Roles /\ lastSequence \in [Directions -> Nat]
          /\ providerState \in {"idle", "mounted", "unmounted"} /\ contextRevision \in Nat
      BY DEF Init
    <2> QED BY <2>1, <2>2 DEF LifeTyped
  <1>6. /\ Waiting = {} /\ requestIds = {} /\ Subscribed = {} /\ nodeIds = {} /\ Active = {}
        /\ retiredStreamIds = {}
    BY DEF Init, Waiting, Subscribed, Active
  <1>7. WireLimits /\ GrantLimits /\ DomLimits /\ StreamLimits
    BY <1>6, FS_EmptySet, FiniteSets DEF WireLimits, GrantLimits, DomLimits, StreamLimits
  <1>8. ASSUME NEW t \in Topics PROVE AskedFor(t)
    <2>1. On(t) = {} /\ For(t) = {}
      BY SessionAssumption DEF Init, On, For
    <2> QED BY <2>1, FS_EmptySet DEF AskedFor
  <1> QED BY <1>1, <1>2, <1>3, <1>4, <1>5, <1>7, <1>8 DEF SessionInv

\* The invariant holds in every state of the session, whatever arrives.
THEOREM SessionInductive == Spec => []SessionInv
  <1>1. Init => SessionInv
    BY InitHolds
  <1>2. SessionInv /\ [Next]_vars => SessionInv'
    <2> SUFFICES ASSUME SessionInv, [Next]_vars
                 PROVE  SessionInv'
      OBVIOUS
    <2>1. WireInv /\ WireTyped /\ DomInv /\ StreamInv /\ GrantsTyped /\ LifeTyped
      BY DEF SessionInv, WireInv
    <2>2. Kinds
      BY <2>1, NextKinds, StutterKinds
    <2>3. LifeStep
      BY <2>1, NextIsLife, StutterIsLife
    <2>4. WireInv' /\ DomInv' /\ StreamInv' /\ GrantsTyped' /\ LifeTyped'
      BY <2>1, <2>2, <2>3, WireKeeps, DomKeeps, StreamKeeps, GrantsKeep, LifeKeeps DEF Kinds
    <2>5. WireLimits' /\ GrantLimits' /\ DomLimits' /\ StreamLimits'
      BY <2>1, <2>2, WireLimitsKeep, GrantLimitsKeep, DomLimitsKeep, StreamLimitsKeep
         DEF Kinds, SessionInv
    <2>6. \A t \in Topics : AskedFor(t)'
      BY <2>1, <2>2, AskedForKeeps DEF Kinds, SessionInv
    <2> QED BY <2>4, <2>5, <2>6 DEF SessionInv
  <1> QED BY <1>1, <1>2, PTL DEF Spec

\* Every variable of the session has its type (pluginRuntime.ts, the fields of
\* PluginRuntimeSessionValidator).
THEOREM SessionTypeCorrect == Spec => []TypeOK
  <1>1. SessionInv => TypeOK
    BY DEF SessionInv, WireInv, WireTyped, DomInv, StreamInv, GrantsTyped, LifeTyped, TypeOK
  <1> QED BY <1>1, SessionInductive, PTL

\* An accepted request is waiting or has had its one response, as long as the
\* session is open: accept() never reuses an id and never answers one twice.
THEOREM OneFate == Spec => []EveryRequestHasOneFate
  <1>1. SessionInv => EveryRequestHasOneFate
    BY DEF SessionInv, WireInv
  <1> QED BY <1>1, SessionInductive, PTL

\* The host may address the nodes of the current DOM revision and no others,
\* in whatever order late results and revision signals are accepted.
THEOREM AuthorityIsCurrent == Spec => []NodeAuthorityIsCurrent
  <1>1. SessionInv => NodeAuthorityIsCurrent
    BY DEF SessionInv, DomInv
  <1> QED BY <1>1, SessionInductive, PTL

\* A stream carries its chunks in order and its declared bytes, and an id is
\* never opened a second time.
THEOREM StreamsAreWhole == Spec => []StreamsCarryTheirBytes
  <1>1. SessionInv => StreamsCarryTheirBytes
    BY DEF SessionInv, StreamInv
  <1> QED BY <1>1, SessionInductive, PTL

\* No set the validator keeps passes its limit.
THEOREM LimitsAreKept == Spec => []LimitsHold
  <1>1. SessionInv => LimitsHold
    BY DEF SessionInv, WireLimits, GrantLimits, DomLimits, StreamLimits, LimitsHold
  <1> QED BY <1>1, SessionInductive, PTL

\* A topic has no more active subscriptions than answered requests for it.
THEOREM SubscriptionsAreAsked == Spec => []SubscriptionsAreAskedFor
  <1>1. ASSUME SessionInv
        PROVE  SubscriptionsAreAskedFor
    <2>1. ASSUME NEW t \in Topics \cup {"undefined"}, On(t) # {}
          PROVE  t \in Topics /\ Cardinality(On(t)) <= Cardinality(For(t))
      <3>1. PICK s \in SubIds : subscriptions[s] = t
        BY <2>1 DEF On
      <3>2. t # None
        BY SessionAssumption
      <3>3. t \in Topics
        BY <1>1, <3>1, <3>2 DEF SessionInv, GrantsTyped
      <3> QED BY <1>1, <3>3 DEF SessionInv, AskedFor
    <2> QED BY <2>1 DEF SubscriptionsAreAskedFor, On, For
  <1> QED BY <1>1, SessionInductive, PTL

=============================================================================
