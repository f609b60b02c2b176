--------------------------- MODULE ServiceHarness ---------------------------
(***************************************************************************)
(* The reference serve harness of a plugin service,                        *)
(* src/crates/soksak-spec-service/src/serve.rs: one reader thread over the *)
(* core's stdin pipe, one thread per request, one detached thread per      *)
(* pushed event, one mutex for mutating ops, a cache of results by         *)
(* idempotency key, and mediated calls back to the core.                   *)
(*                                                                         *)
(* The core and the op handlers are external: the core sends any frames    *)
(* the wire types admit, a handler may stream, call, return or panic.      *)
(*                                                                         *)
(* What an op returns is abstracted to WHICH execution returned it: the    *)
(* "by" of a res frame is the request whose handler produced the outcome.  *)
(***************************************************************************)
EXTENDS Naturals, Sequences, FiniteSets

CONSTANTS
    Reqs,        \* the requests the core sends, one per wire id
    Keys,        \* idempotency keys
    KeyOf,       \* the key the core issued for a request
    ReadOnly,    \* the requests whose op the handler calls read-only
    Callers,     \* the requests whose op makes mediated calls
    Streamers,   \* the requests whose op streams progress or activity
    Nested,      \* the request on this same service that must have ended
                 \* before the core answers a mediated call, or None
    Pushes,      \* the bus events the core bridges
    None,
    MaxStdin,    \* bound: frames in the stdin pipe
    MaxCmd,      \* bound: mediated calls over a run
    MaxEv,       \* bound: ev frames per request
    MaxReplies,  \* bound: cmdRes frames the core sends per mediated call
    MaxBad       \* bound: lines that are no frame (blank, ready, unparsable)

ASSUME HarnessAssumption ==
    /\ KeyOf \in [Reqs -> Keys]
    /\ {ReadOnly, Callers, Streamers} \subseteq SUBSET Reqs
    /\ Nested \in [Reqs -> Reqs \cup {None}]
    /\ None \notin Reqs \cup (0 .. MaxCmd)
    /\ {MaxStdin, MaxCmd, MaxEv, MaxReplies, MaxBad} \subseteq Nat

\* "sent" tells requests, events and the shutdown frame apart.
ASSUME SentAssumption == Reqs \cap (Pushes \cup {"shutdown"}) = {}

CmdIds == 0 .. MaxCmd - 1

VARIABLES
    stdin,     \* frames the core wrote and the reader has not read
    open,      \* the core has not closed stdin
    reader,    \* the reader thread: hello, reading, spawning, draining, exited
    cur,       \* the request the reader found no cached result for
    inflight,  \* the join handles the reader keeps
    pc,        \* each request's thread
    mutation,  \* the holder of the mutation mutex, or None
    poisoned,  \* a holder of the mutex panicked
    idem,      \* the result cache: key -> the execution whose outcome it holds
    cmdSeq,    \* the next mediated call id
    pending,   \* call id -> the request waiting on that reply channel, or None
    callId,    \* the id of a request's latest mediated call
    reply,     \* the envelope in a request's reply channel, named by the
               \* place on the wire of the cmd frame it answers
    pushing,   \* on_push threads not run yet
    pushed,    \* events whose on_push ran
    out,       \* the frames written to stdout
    sent,      \* core: requests and events written
    replies,   \* core: cmdRes frames written, per call id
    bad,       \* core: lines written that are no frame for the harness
    retried    \* history: requests sent after a res with the same key was out

core == <<sent, replies, bad, retried>>
calls == <<cmdSeq, pending, callId, reply>>
vars == <<stdin, open, reader, cur, inflight, pc, mutation, poisoned, idem,
          calls, pushing, pushed, out, core>>

-----------------------------------------------------------------------------
(* Frames. One uniform record stands for every ServiceOut and ServiceIn.   *)

Frame(t, id, by) == [t |-> t, id |-> id, by |-> by]

Written(t, id) == \E i \in DOMAIN out : out[i].t = t /\ out[i].id = id

ResOut(k) == \E i \in DOMAIN out : out[i].t = "res" /\ KeyOf[out[i].id] = k

EvCount(r) == Cardinality({i \in DOMAIN out : out[i].t = "ev" /\ out[i].id = r})

Emit(f) == out' = Append(out, f)

\* A thread that has ended: its JoinHandle is_finished.
Finished(r) == pc[r] \in {"done", "panicked"}

Handling(r) == pc[r] \in {"running", "register", "send", "waiting"}

Init ==
    /\ stdin = <<>> /\ open = TRUE
    /\ reader = "hello" /\ cur = None /\ inflight = {}
    /\ pc = [r \in Reqs |-> "none"]
    /\ mutation = None /\ poisoned = FALSE
    /\ idem = [k \in Keys |-> None]
    /\ cmdSeq = 0
    /\ pending = [c \in CmdIds |-> None]
    /\ callId = [r \in Reqs |-> None]
    /\ reply = [r \in Reqs |-> None]
    /\ pushing = {} /\ pushed = {}
    /\ out = <<>>
    /\ sent = {} /\ replies = [c \in CmdIds |-> 0] /\ bad = 0
    /\ retried = {}

-----------------------------------------------------------------------------
(* The core, external. It answers a mediated call once the nested request  *)
(* the call needs, if any, has its res (or will never have one).           *)

Send(f) ==
    /\ open /\ Len(stdin) < MaxStdin
    /\ stdin' = Append(stdin, f)
    /\ UNCHANGED <<open, reader, cur, inflight, pc, mutation, poisoned, idem,
                   calls, pushing, pushed, out>>

CoreReq(r) ==
    /\ r \notin sent
    /\ Send(Frame("req", r, None))
    /\ sent' = sent \cup {r}
    /\ retried' = IF ResOut(KeyOf[r]) THEN retried \cup {r} ELSE retried
    /\ UNCHANGED <<replies, bad>>

CoreReply(c) ==
    /\ replies[c] < MaxReplies
    /\ \E i \in DOMAIN out :
          /\ out[i].t = "cmd" /\ out[i].id = c
          /\ Nested[out[i].by] # None =>
                \/ Written("res", Nested[out[i].by])
                \/ pc[Nested[out[i].by]] = "panicked"
          /\ Send(Frame("cmdRes", c, i))
    /\ replies' = [replies EXCEPT ![c] = @ + 1]
    /\ UNCHANGED <<sent, bad, retried>>

CorePush(p) ==
    /\ p \notin sent
    /\ Send(Frame("push", p, None))
    /\ sent' = sent \cup {p}
    /\ UNCHANGED <<replies, bad, retried>>

CoreBad(t) ==
    /\ bad < MaxBad
    /\ Send(Frame(t, None, None))
    /\ bad' = bad + 1
    /\ UNCHANGED <<sent, replies, retried>>

CoreShutdown ==
    /\ "shutdown" \notin sent
    /\ Send(Frame("shutdown", None, None))
    /\ sent' = sent \cup {"shutdown"}
    /\ UNCHANGED <<replies, bad, retried>>

CoreClose ==
    /\ open /\ open' = FALSE
    /\ UNCHANGED <<stdin, reader, cur, inflight, pc, mutation, poisoned, idem,
                   calls, pushing, pushed, out, core>>

-----------------------------------------------------------------------------
(* The reader: serve().                                                    *)

Hello ==
    /\ reader = "hello" /\ reader' = "reading"
    /\ Emit(Frame("hello", None, None))
    /\ UNCHANGED <<stdin, open, cur, inflight, pc, mutation, poisoned, idem,
                   calls, pushing, pushed, core>>

\* The reader takes the next line, a frame of kind t.
Read(t) ==
    /\ reader = "reading" /\ stdin # <<>> /\ Head(stdin).t = t
    /\ stdin' = Tail(stdin)
    /\ UNCHANGED <<open, core>>

\* A blank or unparsable line is skipped, and ready needs nothing done.
ReadSkip ==
    /\ \/ Read("ready")
       \/ Read("bad")
    /\ UNCHANGED <<reader, cur, inflight, pc, mutation, poisoned, idem, calls,
                   pushing, pushed, out>>

ReadShutdown ==
    /\ Read("shutdown")
    /\ reader' = "draining"
    /\ UNCHANGED <<cur, inflight, pc, mutation, poisoned, idem, calls, pushing,
                   pushed, out>>

\* The core closed stdin, or a line is no UTF-8 text: lines.next() has no Ok line.
ReadEof ==
    /\ \/ /\ reader = "reading" /\ stdin = <<>> /\ ~open
          /\ UNCHANGED <<stdin, open, core>>
       \/ Read("notText")
    /\ reader' = "draining"
    /\ UNCHANGED <<cur, inflight, pc, mutation, poisoned, idem, calls, pushing,
                   pushed, out>>

\* Defect: one channel per op, which stays registered under the id.
ReadCmdResKeeps ==
    /\ Read("cmdRes")
    /\ LET r == pending[Head(stdin).id]
       IN reply' = IF r = None THEN reply ELSE [reply EXCEPT ![r] = Head(stdin).by]
    /\ UNCHANGED <<reader, cur, inflight, pc, mutation, poisoned, idem, cmdSeq,
                   pending, callId, pushing, pushed, out>>

\* An envelope goes to the channel registered for its id, once.
ReadCmdRes ==
    /\ Read("cmdRes")
    /\ LET c == Head(stdin).id
           r == pending[c]
       IN IF r = None
          THEN UNCHANGED <<pending, reply>>
          ELSE /\ pending' = [pending EXCEPT ![c] = None]
               /\ reply' = [reply EXCEPT ![r] = Head(stdin).by]
    /\ UNCHANGED <<reader, cur, inflight, pc, mutation, poisoned, idem, cmdSeq,
                   callId, pushing, pushed, out>>

ReadPush ==
    /\ Read("push")
    /\ pushing' = pushing \cup {Head(stdin).id}
    /\ UNCHANGED <<reader, cur, inflight, pc, mutation, poisoned, idem, calls,
                   pushed, out>>

\* Defect: no "continue" after the replay.
ReplayFallsThrough ==
    /\ Read("req")
    /\ LET r == Head(stdin).id
       IN idem[KeyOf[r]] # None /\ cur' = r /\ Emit(Frame("res", r, idem[KeyOf[r]]))
    /\ reader' = "spawning"
    /\ UNCHANGED <<inflight, pc, mutation, poisoned, idem, calls, pushing, pushed>>

\* A request whose key has a cached result: replayed under the new id.
ReadReplay ==
    /\ Read("req")
    /\ LET r == Head(stdin).id
       IN /\ idem[KeyOf[r]] # None
          /\ pc' = [pc EXCEPT ![r] = "replayed"]
          /\ Emit(Frame("res", r, idem[KeyOf[r]]))
    /\ UNCHANGED <<reader, cur, inflight, mutation, poisoned, idem, calls,
                   pushing, pushed>>

\* Defect: the request is not handed to the thread.
MissForgetsRequest ==
    /\ Read("req")
    /\ idem[KeyOf[Head(stdin).id]] = None
    /\ reader' = "spawning"
    /\ UNCHANGED <<cur, inflight, pc, mutation, poisoned, idem, calls, pushing,
                   pushed, out>>

\* No cached result: the cache is unlocked again before the thread is spawned.
ReadMiss ==
    /\ Read("req")
    /\ idem[KeyOf[Head(stdin).id]] = None
    /\ cur' = Head(stdin).id
    /\ reader' = "spawning"
    /\ UNCHANGED <<inflight, pc, mutation, poisoned, idem, calls, pushing,
                   pushed, out>>

\* Defect: the finished handles are kept and the running ones dropped.
SpawnRetainsFinished ==
    /\ reader = "spawning" /\ reader' = "reading"
    /\ inflight' = {j \in inflight : Finished(j)} \cup {cur}
    /\ pc' = [pc EXCEPT ![cur] = "spawned"]
    /\ cur' = None
    /\ UNCHANGED <<stdin, open, mutation, poisoned, idem, calls, pushing,
                   pushed, out, core>>

Spawn ==
    /\ reader = "spawning" /\ reader' = "reading"
    /\ inflight' = {j \in inflight : ~Finished(j)} \cup {cur}
    /\ pc' = [pc EXCEPT ![cur] = "spawned"]
    /\ cur' = None
    /\ UNCHANGED <<stdin, open, mutation, poisoned, idem, calls, pushing,
                   pushed, out, core>>

\* The drain joins every handle still kept, then serve() returns.
Exit ==
    /\ reader = "draining"
    /\ \A j \in inflight : Finished(j)
    /\ reader' = "exited"
    /\ UNCHANGED <<stdin, open, cur, inflight, pc, mutation, poisoned, idem,
                   calls, pushing, pushed, out, core>>

-----------------------------------------------------------------------------
(* A request's thread. The process ends with the reader: nothing runs after *)
(* serve() has returned to main.                                            *)

Alive == reader # "exited"

At(r, label) == Alive /\ pc[r] = label

Goto(r, label) == pc' = [pc EXCEPT ![r] = label]

\* Defect: "let _ = mutation.lock()" drops the guard at once.
StartDropsGuard(r) ==
    /\ At(r, "spawned")
    /\ r \in ReadOnly \/ mutation = None
    /\ Goto(r, "running")
    /\ UNCHANGED <<stdin, open, reader, cur, inflight, mutation, poisoned, idem,
                   calls, pushing, pushed, out, core>>

\* Defect: read-only ops take the mutex too.
StartLocksReads(r) ==
    /\ At(r, "spawned")
    /\ mutation = None /\ mutation' = r
    /\ Goto(r, "running")
    /\ UNCHANGED <<stdin, open, reader, cur, inflight, poisoned, idem, calls,
                   pushing, pushed, out, core>>

\* Defect: lock().unwrap() panics on a poisoned mutex.
StartUnwraps(r) ==
    /\ At(r, "spawned")
    /\ IF r \in ReadOnly THEN UNCHANGED mutation /\ Goto(r, "running")
       ELSE /\ mutation = None
            /\ IF poisoned THEN UNCHANGED mutation /\ Goto(r, "panicked")
               ELSE mutation' = r /\ Goto(r, "running")
    /\ UNCHANGED <<stdin, open, reader, cur, inflight, poisoned, idem, calls,
                   pushing, pushed, out, core>>

\* Defect: the key is claimed in the cache before the op has run.
StartClaimsKey(r) ==
    /\ At(r, "spawned")
    /\ IF r \in ReadOnly
       THEN UNCHANGED mutation
       ELSE mutation = None /\ mutation' = r
    /\ idem' = [idem EXCEPT ![KeyOf[r]] = r]
    /\ Goto(r, "running")
    /\ UNCHANGED <<stdin, open, reader, cur, inflight, poisoned, calls, pushing,
                   pushed, out, core>>

\* A mutating op waits for the mutex, poisoned or not; a read-only op does not.
Start(r) ==
    /\ At(r, "spawned")
    /\ IF r \in ReadOnly
       THEN UNCHANGED mutation
       ELSE mutation = None /\ mutation' = r
    /\ Goto(r, "running")
    /\ UNCHANGED <<stdin, open, reader, cur, inflight, poisoned, idem, calls,
                   pushing, pushed, out, core>>

Progress(r) ==
    /\ At(r, "running") /\ r \in Streamers /\ EvCount(r) < MaxEv
    /\ Emit(Frame("ev", r, r))
    /\ UNCHANGED <<stdin, open, reader, cur, inflight, pc, mutation, poisoned,
                   idem, calls, pushing, pushed, core>>

\* Defect: each op counts its own calls.
CallCountsPerOp(r) ==
    /\ At(r, "running") /\ r \in Callers /\ cmdSeq < MaxCmd
    /\ callId' = [callId EXCEPT ![r] =
          Cardinality({i \in DOMAIN out : out[i].t = "cmd" /\ out[i].by = r})]
    /\ cmdSeq' = cmdSeq + 1
    /\ reply' = [reply EXCEPT ![r] = None]
    /\ Goto(r, "register")
    /\ UNCHANGED <<stdin, open, reader, cur, inflight, mutation, poisoned, idem,
                   pending, pushing, pushed, out, core>>

\* Defect: cmd is written before its reply channel is registered.
CallSendsFirst(r) ==
    /\ At(r, "running") /\ r \in Callers /\ cmdSeq < MaxCmd
    /\ callId' = [callId EXCEPT ![r] = cmdSeq]
    /\ cmdSeq' = cmdSeq + 1
    /\ reply' = [reply EXCEPT ![r] = None]
    /\ Emit(Frame("cmd", cmdSeq, r))
    /\ Goto(r, "register")
    /\ UNCHANGED <<stdin, open, reader, cur, inflight, mutation, poisoned, idem,
                   pending, pushing, pushed, core>>

\* Emit::call: take an id, register the reply channel, write cmd, block on recv.
CallAlloc(r) ==
    /\ At(r, "running") /\ r \in Callers /\ cmdSeq < MaxCmd
    /\ callId' = [callId EXCEPT ![r] = cmdSeq]
    /\ cmdSeq' = cmdSeq + 1
    /\ reply' = [reply EXCEPT ![r] = None]
    /\ Goto(r, "register")
    /\ UNCHANGED <<stdin, open, reader, cur, inflight, mutation, poisoned, idem,
                   pending, pushing, pushed, out, core>>

CallRegister(r) ==
    /\ At(r, "register")
    /\ pending' = [pending EXCEPT ![callId[r]] = r]
    /\ Goto(r, "send")
    /\ UNCHANGED <<stdin, open, reader, cur, inflight, mutation, poisoned, idem,
                   cmdSeq, callId, reply, pushing, pushed, out, core>>

CallSend(r) ==
    /\ At(r, "send")
    /\ Emit(Frame("cmd", callId[r], r))
    /\ Goto(r, "waiting")
    /\ UNCHANGED <<stdin, open, reader, cur, inflight, mutation, poisoned, idem,
                   calls, pushing, pushed, core>>

CallReturn(r) ==
    /\ At(r, "waiting") /\ reply[r] # None
    /\ Goto(r, "running")
    /\ UNCHANGED <<stdin, open, reader, cur, inflight, mutation, poisoned, idem,
                   calls, pushing, pushed, out, core>>

Unlock(r) == mutation' = IF mutation = r THEN None ELSE mutation

\* Defect: the res is written before the outcome is cached.
ReturnEmitsFirst(r) ==
    /\ At(r, "running")
    /\ Unlock(r)
    /\ Emit(Frame("res", r, r))
    /\ Goto(r, "returned")
    /\ UNCHANGED <<stdin, open, reader, cur, inflight, poisoned, idem, calls,
                   pushing, pushed, core>>

\* The handler returns an outcome; the guard is dropped before it is cached.
Return(r) ==
    /\ At(r, "running")
    /\ Unlock(r)
    /\ Goto(r, "returned")
    /\ UNCHANGED <<stdin, open, reader, cur, inflight, poisoned, idem, calls,
                   pushing, pushed, out, core>>

\* Defect: the mutex is not released on unwinding.
PanicKeepsMutex(r) ==
    /\ At(r, "running")
    /\ Goto(r, "panicked")
    /\ UNCHANGED <<stdin, open, reader, cur, inflight, mutation, poisoned, idem,
                   calls, pushing, pushed, out, core>>

\* The handler panics: the guard is dropped on unwinding and no res is made.
Panic(r) ==
    /\ At(r, "running")
    /\ Unlock(r)
    /\ poisoned' = (poisoned \/ mutation = r)
    /\ Goto(r, "panicked")
    /\ UNCHANGED <<stdin, open, reader, cur, inflight, idem, calls, pushing,
                   pushed, out, core>>

CacheRes(r) ==
    /\ At(r, "returned")
    /\ idem' = [idem EXCEPT ![KeyOf[r]] = r]
    /\ Goto(r, "cached")
    /\ UNCHANGED <<stdin, open, reader, cur, inflight, mutation, poisoned, calls,
                   pushing, pushed, out, core>>

EmitRes(r) ==
    /\ At(r, "cached")
    /\ Emit(Frame("res", r, r))
    /\ Goto(r, "done")
    /\ UNCHANGED <<stdin, open, reader, cur, inflight, mutation, poisoned, idem,
                   calls, pushing, pushed, core>>

\* A detached on_push thread, which nobody joins.
OnPush(p) ==
    /\ Alive /\ p \in pushing
    /\ pushing' = pushing \ {p}
    /\ pushed' = pushed \cup {p}
    /\ UNCHANGED <<stdin, open, reader, cur, inflight, pc, mutation, poisoned,
                   idem, calls, out, core>>

-----------------------------------------------------------------------------
Core ==
    \/ \E r \in Reqs : CoreReq(r)
    \/ \E c \in CmdIds : CoreReply(c)
    \/ \E p \in Pushes : CorePush(p)
    \/ \E t \in {"ready", "bad", "notText"} : CoreBad(t)
    \/ CoreShutdown
    \/ CoreClose

Reader ==
    \/ Hello \/ ReadSkip \/ ReadShutdown \/ ReadEof \/ ReadCmdRes
    \/ ReadPush \/ ReadReplay \/ ReadMiss \/ Spawn \/ Exit

\* What the harness does for a request outside the handler.
Thread(r) ==
    \/ Start(r) \/ CallRegister(r) \/ CallSend(r) \/ CallReturn(r)
    \/ CacheRes(r) \/ EmitRes(r)

\* What the author's handler does.
Handler(r) == Progress(r) \/ CallAlloc(r) \/ Return(r) \/ Panic(r)

Next ==
    \/ Core
    \/ Reader
    \/ \E r \in Reqs : Thread(r) \/ Handler(r)
    \/ \E p \in Pushes : OnPush(p)

Spec == Init /\ [][Next]_vars

-----------------------------------------------------------------------------
(* Fairness. The reader and every thread the harness spawned are scheduled; *)
(* a bound on calls makes Return the only step a handler owes. What the     *)
(* handler and the core owe is stated apart, so a property says what it     *)
(* needs of them.                                                           *)

HarnessFairness ==
    /\ WF_vars(Reader)
    /\ \A r \in Reqs : WF_vars(Thread(r))
    /\ \A p \in Pushes : WF_vars(OnPush(p))

HandlerFairness == \A r \in Reqs : WF_vars(Return(r) \/ Panic(r))

CoreFairness ==
    /\ \A c \in CmdIds : WF_vars(CoreReply(c))
    /\ \A r \in Reqs : (\E p \in Reqs : Nested[p] = r) => WF_vars(CoreReq(r))

HarnessSpec == Spec /\ HarnessFairness

FairSpec == HarnessSpec /\ HandlerFairness /\ CoreFairness

-----------------------------------------------------------------------------
(* Properties *)

PcLabels == {"none", "replayed", "spawned", "running", "register", "send",
             "waiting", "returned", "cached", "done", "panicked"}

OutFrames == [t : {"hello"}, id : {None}, by : {None}]
       \cup [t : {"res"}, id : Reqs, by : Reqs]
       \cup [t : {"ev"}, id : Reqs, by : Reqs]
       \cup [t : {"cmd"}, id : CmdIds, by : Reqs]

InFrames == [t : {"req"}, id : Reqs, by : {None}]
      \cup [t : {"cmdRes"}, id : CmdIds, by : Nat]
      \cup [t : {"push"}, id : Pushes, by : {None}]
      \cup [t : {"ready", "bad", "notText", "shutdown"}, id : {None}, by : {None}]

\* Every variable has its type: the state serve() and its threads share.
TypeOK ==
    /\ stdin \in Seq(InFrames) /\ open \in BOOLEAN
    /\ reader \in {"hello", "reading", "spawning", "draining", "exited"}
    /\ cur \in Reqs \cup {None} /\ (reader = "spawning" => cur \in Reqs)
    /\ inflight \subseteq Reqs
    /\ pc \in [Reqs -> PcLabels]
    /\ mutation \in Reqs \cup {None} /\ poisoned \in BOOLEAN
    /\ idem \in [Keys -> Reqs \cup {None}]
    /\ cmdSeq \in 0 .. MaxCmd
    /\ pending \in [CmdIds -> Reqs \cup {None}]
    /\ callId \in [Reqs -> CmdIds \cup {None}]
    /\ \A r \in Reqs : pc[r] \in {"register", "send", "waiting"} => callId[r] # None
    /\ reply \in [Reqs -> Nat \cup {None}]
    /\ pushing \subseteq Pushes /\ pushed \subseteq Pushes
    /\ out \in Seq(OutFrames)
    /\ sent \subseteq Reqs \cup Pushes \cup {"shutdown"}
    /\ replies \in [CmdIds -> Nat] /\ bad \in Nat
    /\ retried \subseteq Reqs

\* Two mutating ops are never in their handlers at once, through panics, calls
\* and the drain (serve.rs: "mutating ops serialize under one mutex", PS16).
MutatingOpsSerialize ==
    \A a, b \in Reqs \ ReadOnly : Handling(a) /\ Handling(b) => a = b

\* A res is the last frame of its request: no second res, no late progress and
\* no mediated call of the same request follows it on the wire.
ResIsLast ==
    \A i \in DOMAIN out : out[i].t = "res" =>
        \A j \in DOMAIN out : j > i =>
            /\ out[j].t \in {"res", "ev"} => out[j].id # out[i].id
            /\ out[j].t = "cmd" => out[j].by # out[i].id

\* A request the core sends after it could read a res with the same key is
\* never executed: the cache is filled before the res is written, and the
\* reader decides after the request has arrived (PS12).
RetryNeverRuns ==
    \A r \in retried : pc[r] \in {"none", "replayed"} /\ cur # r

\* What a mediated call returns is the envelope the core sent for that call:
\* the latest cmd frame of the request, never another request's and never an
\* earlier one's (Emit::call and the cmdRes arm).
CallGetsItsOwnReply ==
    \A r \in Reqs : reply[r] # None =>
        /\ out[reply[r]].t = "cmd" /\ out[reply[r]].by = r
        /\ \A i \in DOMAIN out :
              out[i].t = "cmd" /\ out[i].by = r => i <= reply[r]

\* When serve() has returned, every request it accepted has ended: its res is
\* on the wire, or its handler panicked.
ExitIsDrained ==
    reader = "exited" =>
        \A r \in Reqs :
            pc[r] = "none" \/ pc[r] = "panicked" \/ Written("res", r)

\* Doc claim: "the service deduplicates by key and replays the cached res".
\* At most one request of a key reaches the handler.
KeyRunsOnce ==
    \A a, b \in Reqs :
        /\ KeyOf[a] = KeyOf[b]
        /\ pc[a] \notin {"none", "replayed", "spawned"}
        /\ pc[b] \notin {"none", "replayed", "spawned"}
        => a = b

-----------------------------------------------------------------------------
(* The harness implements the contract: the refinement mapping.            *)

ContractState(r) ==
    CASE pc[r] = "none"     -> IF r \in sent THEN "asked" ELSE "idle"
      [] pc[r] = "panicked" -> "gone"
      [] pc[r] \in {"returned", "cached"}  -> "returned"
      [] pc[r] \in {"replayed", "done"}    -> "answered"
      [] OTHER -> "running"

\* The execution named by the first res of a request on the wire.
AnsweredBy(r) ==
    IF Written("res", r)
    THEN LET i == CHOOSE i \in DOMAIN out :
                    /\ out[i].t = "res" /\ out[i].id = r
                    /\ \A j \in 1 .. i - 1 : ~(out[j].t = "res" /\ out[j].id = r)
         IN out[i].by
    ELSE None

Contract == INSTANCE ServiceContract WITH
    state <- [r \in Reqs |-> ContractState(r)],
    late  <- retried,
    by    <- [r \in Reqs |-> AnsweredBy(r)]

\* Every step of the harness is a step of ServiceContract or leaves it alone.
ImplementsContract == Contract!Spec

-----------------------------------------------------------------------------
(* Liveness *)

\* A mutating op waits on a call whose answer needs another mutating op of this
\* service, which waits for the mutex the first one holds.
SelfCallDeadlock ==
    \E p \in Reqs \ ReadOnly :
        /\ pc[p] = "waiting" /\ mutation = p
        /\ Nested[p] \in Reqs \ ReadOnly /\ pc[Nested[p]] = "spawned"

Serving == reader \in {"reading", "spawning"}

\* Read-only ops and pushed events never wait for an op: not for a handler that
\* takes forever, nor for a mediated call the core never answers (PS16).
ReadsAndPushesRunFree ==
    /\ \A r \in ReadOnly : pc[r] = "spawned" ~> pc[r] # "spawned"
    /\ \A p \in Pushes : p \in pushing ~> p \in pushed \/ reader = "exited"

\* With handlers that end and a core that answers, every accepted op runs, a
\* panicked holder of the mutex notwithstanding, unless a self call deadlocks.
EveryOpRuns ==
    HandlerFairness /\ CoreFairness =>
        \A r \in Reqs :
            pc[r] = "spawned" ~> Handling(r) \/ ~Serving \/ SelfCallDeadlock

\* And every op that runs is answered, or its own handler panicked.
EveryOpEnds ==
    HandlerFairness /\ CoreFairness =>
        \A r \in Reqs :
            Handling(r) ~> Finished(r) \/ ~Serving \/ SelfCallDeadlock

\* The drain ends, unless an op it waits for is inside a mediated call whose
\* reply had not been read when the reader stopped.
DrainEndsUnlessCalling ==
    HandlerFairness =>
        (reader = "draining" ~>
            \/ reader = "exited"
            \/ \E r \in inflight : pc[r] = "waiting" /\ reply[r] = None)

\* Doc claim: shutdown means "finish in-flight ops, refuse new work, then exit".
\* With handlers that end and a core that keeps the pipe open and answers every
\* mediated call, a drain ends.
DrainFinishes == reader = "draining" ~> reader = "exited" \/ ~open
=============================================================================
