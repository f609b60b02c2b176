----------------------- MODULE ServiceHarness_proofs -----------------------
(***************************************************************************)
(* Theorems about ServiceHarness for every set of requests and keys and    *)
(* every bound, proved from one inductive invariant, IInv.                 *)
(*                                                                         *)
(* The second half shows that the harness implements ServiceContract and   *)
(* that a mediated call gets the envelope sent for it, each from IInv and  *)
(* one more invariant: whose outcome the cache and the wire hold           *)
(* (OutcomeInv), and which call an envelope on its way is for (CallInv).   *)
(***************************************************************************)
EXTENDS ServiceHarness, TLAPS

\* A sequence grows at its end by Append and loses its first element by Tail.
LEMMA SeqFacts ==
    ASSUME NEW S, NEW s \in Seq(S), NEW e \in S
    PROVE  /\ Append(s, e) \in Seq(S)
           /\ Len(Append(s, e)) = Len(s) + 1
           /\ DOMAIN Append(s, e) = 1 .. Len(s) + 1
           /\ DOMAIN s = 1 .. Len(s)
           /\ \A i \in DOMAIN s : Append(s, e)[i] = s[i] /\ s[i] \in S
           /\ Append(s, e)[Len(s) + 1] = e
  OBVIOUS

LEMMA TailFacts ==
    ASSUME NEW S, NEW s \in Seq(S), s # <<>>
    PROVE  /\ Tail(s) \in Seq(S)
           /\ Head(s) \in S /\ Head(s) = s[1] /\ 1 \in DOMAIN s
           /\ \A i \in DOMAIN Tail(s) : i + 1 \in DOMAIN s /\ Tail(s)[i] = s[i + 1]
  OBVIOUS

\* The frames the two sides write are frames of their types.
LEMMA FrameTypes ==
    /\ Frame("hello", None, None) \in OutFrames
    /\ \A r, e \in Reqs : Frame("res", r, e) \in OutFrames
    /\ \A r \in Reqs : Frame("ev", r, r) \in OutFrames
    /\ \A c \in CmdIds, r \in Reqs : Frame("cmd", c, r) \in OutFrames
    /\ \A r \in Reqs : Frame("req", r, None) \in InFrames
    /\ \A c \in CmdIds, i \in Nat : Frame("cmdRes", c, i) \in InFrames
    /\ \A p \in Pushes : Frame("push", p, None) \in InFrames
    /\ \A t \in {"ready", "bad", "notText", "shutdown"} :
          Frame(t, None, None) \in InFrames
  BY DEF Frame, OutFrames, InFrames

\* A frame read from stdin carries the id its kind calls for.
LEMMA HeadTypes ==
    ASSUME TypeOK, stdin # <<>>
    PROVE  /\ Tail(stdin) \in Seq(InFrames)
           /\ Head(stdin) = stdin[1] /\ 1 \in DOMAIN stdin
           /\ Head(stdin).t = "req" => Head(stdin).id \in Reqs
           /\ Head(stdin).t = "cmdRes" =>
                 Head(stdin).id \in CmdIds /\ Head(stdin).by \in Nat
           /\ Head(stdin).t = "push" => Head(stdin).id \in Pushes
  <1>1. stdin \in Seq(InFrames)
    BY DEF TypeOK
  <1>2. Head(stdin) \in InFrames
    BY <1>1, TailFacts
  <1> QED
    BY <1>1, <1>2, TailFacts DEF InFrames

LEMMA TypeInit == Init => TypeOK
  <1>1. MaxCmd \in Nat
    BY HarnessAssumption DEF HarnessAssumption
  <1>2. <<>> \in Seq(InFrames) /\ <<>> \in Seq(OutFrames)
    OBVIOUS
  <1>3. 0 \in 0 .. MaxCmd /\ 0 \in Nat
    BY <1>1
  <1>4. ASSUME Init PROVE pc \in [Reqs -> PcLabels] /\ replies \in [CmdIds -> Nat]
    BY <1>4 DEF Init, PcLabels
  <1> QED
    BY <1>2, <1>3, <1>4 DEF Init, TypeOK

LEMMA TypeCore == TypeOK /\ Core => TypeOK'
  <1> SUFFICES ASSUME TypeOK, Core PROVE TypeOK'
    OBVIOUS
  <1> USE HarnessAssumption DEF HarnessAssumption
  <1> DEFINE Framed(f) == Send(f) => stdin' \in Seq(InFrames)
  <1>0. \A f \in InFrames : Framed(f)
    BY SeqFacts DEF Send, TypeOK
  <1> HIDE DEF Framed
  <1>1. ASSUME NEW r \in Reqs, CoreReq(r) PROVE TypeOK'
    <2>1. stdin' \in Seq(InFrames)
      BY <1>0, <1>1, FrameTypes DEF CoreReq, Framed
    <2> QED BY <1>1, <2>1 DEF TypeOK, CoreReq, Send, calls
  <1>2. ASSUME NEW c \in CmdIds, CoreReply(c) PROVE TypeOK'
    <2>0. PICK i \in DOMAIN out : Send(Frame("cmdRes", c, i))
      BY <1>2 DEF CoreReply
    <2>1. stdin' \in Seq(InFrames)
      <3>1. i \in Nat
        BY <2>0 DEF TypeOK
      <3> QED BY <1>0, <2>0, <3>1, FrameTypes DEF Framed
    <2>2. replies' \in [CmdIds -> Nat]
      BY <1>2 DEF TypeOK, CoreReply
    <2>3. UNCHANGED <<open, reader, cur, inflight, pc, mutation, poisoned, idem,
                      calls, pushing, pushed, out, sent, bad, retried>>
      BY <1>2 DEF CoreReply, Send
    <2> QED BY <2>1, <2>2, <2>3 DEF TypeOK, calls
  <1>3. ASSUME NEW p \in Pushes, CorePush(p) PROVE TypeOK'
    <2>1. stdin' \in Seq(InFrames)
      BY <1>0, <1>3, FrameTypes DEF CorePush, Framed
    <2> QED BY <1>3, <2>1 DEF TypeOK, CorePush, Send, calls
  <1>4. ASSUME NEW t \in {"ready", "bad", "notText"}, CoreBad(t) PROVE TypeOK'
    <2>1. stdin' \in Seq(InFrames)
      BY <1>0, <1>4, FrameTypes DEF CoreBad, Framed
    <2> QED BY <1>4, <2>1 DEF TypeOK, CoreBad, Send, calls
  <1>5. CASE CoreShutdown
    <2>1. stdin' \in Seq(InFrames)
      BY <1>0, <1>5, FrameTypes DEF CoreShutdown, Framed
    <2> QED BY <1>5, <2>1 DEF TypeOK, CoreShutdown, Send, calls
  <1>6. CASE CoreClose
    BY <1>6 DEF TypeOK, CoreClose, calls, core
  <1> QED
    BY <1>1, <1>2, <1>3, <1>4, <1>5, <1>6 DEF Core

LEMMA TypeReader == TypeOK /\ Reader => TypeOK'
  <1> SUFFICES ASSUME TypeOK, Reader PROVE TypeOK'
    OBVIOUS
  <1> USE HarnessAssumption DEF HarnessAssumption
  <1>0. out \in Seq(OutFrames)
    BY DEF TypeOK
  <1>1. CASE Hello
    <2>1. out' \in Seq(OutFrames)
      BY <1>0, <1>1, FrameTypes, SeqFacts DEF Hello, Emit
    <2> QED BY <1>1, <2>1 DEF TypeOK, Hello, calls, core
  <1>2. CASE ReadSkip
    BY <1>2, HeadTypes DEF TypeOK, ReadSkip, Read, calls, core
  <1>3. CASE ReadShutdown
    BY <1>3, HeadTypes DEF TypeOK, ReadShutdown, Read, calls, core
  <1>4. CASE ReadEof
    BY <1>4, HeadTypes DEF TypeOK, ReadEof, Read, calls, core
  <1>5. CASE ReadCmdRes
    BY <1>5, HeadTypes DEF TypeOK, ReadCmdRes, Read, calls, core
  <1>6. CASE ReadPush
    BY <1>6, HeadTypes DEF TypeOK, ReadPush, Read, calls, core
  <1>7. CASE ReadReplay
    <2>1. PICK r \in Reqs : r = Head(stdin).id /\ KeyOf[r] \in Keys
                            /\ idem[KeyOf[r]] \in Reqs
      BY <1>7, HeadTypes DEF ReadReplay, Read, TypeOK
    <2>2. out' \in Seq(OutFrames)
      BY <1>0, <1>7, <2>1, FrameTypes, SeqFacts DEF ReadReplay, Emit
    <2> QED BY <1>7, <2>1, <2>2, HeadTypes
            DEF TypeOK, ReadReplay, Read, calls, core, PcLabels
  <1>8. CASE ReadMiss
    BY <1>8, HeadTypes DEF TypeOK, ReadMiss, Read, calls, core
  <1>9. CASE Spawn
    BY <1>9 DEF TypeOK, Spawn, calls, core, PcLabels
  <1>10. CASE Exit
    BY <1>10 DEF TypeOK, Exit, calls, core
  <1> QED
    BY <1>1, <1>2, <1>3, <1>4, <1>5, <1>6, <1>7, <1>8, <1>9, <1>10 DEF Reader

LEMMA TypeThread ==
    ASSUME TypeOK, NEW r \in Reqs, Thread(r) \/ Handler(r) PROVE TypeOK'
  <1> USE HarnessAssumption DEF HarnessAssumption
  <1>0. out \in Seq(OutFrames)
    BY DEF TypeOK
  <1>1. CASE Start(r)
    BY <1>1 DEF TypeOK, Start, At, Goto, calls, core, PcLabels
  <1>2. CASE CallRegister(r)
    BY <1>2 DEF TypeOK, CallRegister, At, Goto, core, PcLabels
  <1>3. CASE CallSend(r)
    <2>1. callId[r] \in CmdIds
      BY <1>3 DEF CallSend, At, TypeOK
    <2>2. out' \in Seq(OutFrames)
      BY <1>0, <1>3, <2>1, FrameTypes, SeqFacts DEF CallSend, Emit
    <2> QED BY <1>3, <2>2 DEF TypeOK, CallSend, At, Goto, calls, core, PcLabels
  <1>4. CASE CallReturn(r)
    BY <1>4 DEF TypeOK, CallReturn, At, Goto, calls, core, PcLabels
  <1>5. CASE CacheRes(r)
    BY <1>5 DEF TypeOK, CacheRes, At, Goto, calls, core, PcLabels
  <1>6. CASE EmitRes(r)
    <2>1. out' \in Seq(OutFrames)
      BY <1>0, <1>6, FrameTypes, SeqFacts DEF EmitRes, Emit
    <2> QED BY <1>6, <2>1 DEF TypeOK, EmitRes, At, Goto, calls, core, PcLabels
  <1>7. CASE Progress(r)
    <2>1. out' \in Seq(OutFrames)
      BY <1>0, <1>7, FrameTypes, SeqFacts DEF Progress, Emit
    <2> QED BY <1>7, <2>1 DEF TypeOK, Progress, calls, core
  <1>8. CASE CallAlloc(r)
    <2>1. cmdSeq \in CmdIds /\ cmdSeq # None /\ cmdSeq + 1 \in 0 .. MaxCmd
      BY <1>8 DEF CallAlloc, TypeOK, CmdIds
    <2> QED BY <1>8, <2>1 DEF TypeOK, CallAlloc, At, Goto, core, PcLabels
  <1>9. CASE Return(r)
    BY <1>9 DEF TypeOK, Return, Unlock, At, Goto, calls, core, PcLabels
  <1>10. CASE Panic(r)
    BY <1>10 DEF TypeOK, Panic, Unlock, At, Goto, calls, core, PcLabels
  <1> QED
    BY <1>1, <1>2, <1>3, <1>4, <1>5, <1>6, <1>7, <1>8, <1>9, <1>10
    DEF Thread, Handler

LEMMA TypeNext == TypeOK /\ [Next]_vars => TypeOK'
  <1> SUFFICES ASSUME TypeOK, [Next]_vars PROVE TypeOK'
    OBVIOUS
  <1>1. CASE UNCHANGED vars
    BY <1>1 DEF TypeOK, vars, calls, core
  <1>2. ASSUME NEW p \in Pushes, OnPush(p) PROVE TypeOK'
    BY <1>2 DEF TypeOK, OnPush, calls, core
  <1> QED
    BY <1>1, <1>2, TypeCore, TypeReader, TypeThread DEF Next

\* The state serve() and its threads share keeps its type, whatever the core
\* sends and the handlers do.
THEOREM TypeCorrect == Spec => []TypeOK
  BY TypeInit, TypeNext, PTL DEF Spec

-----------------------------------------------------------------------------
(* The inductive invariant. Each part speaks of one piece of shared state. *)

\* A mutating op in its handler holds the mutex.
MutexInv == \A r \in Reqs \ ReadOnly : Handling(r) => mutation = r

\* A request has one place: not sent, in the pipe, with the reader, in a thread.
PlaceInv ==
    /\ reader # "spawning" => cur = None
    /\ \A r \in Reqs : r \notin sent \/ cur = r => pc[r] = "none"
    /\ cur # None => cur \in sent
    /\ \A i \in DOMAIN stdin : stdin[i].t = "req" =>
          /\ stdin[i].id \in sent /\ pc[stdin[i].id] = "none" /\ cur # stdin[i].id
          /\ \A j \in DOMAIN stdin : stdin[j].t = "req" /\ stdin[j].id = stdin[i].id => j = i

\* The cache holds a result of every key with a res on the wire, and for good.
CacheInv ==
    /\ \A k \in Keys : ResOut(k) => idem[k] # None
    /\ \A r \in Reqs : pc[r] = "cached" => idem[KeyOf[r]] # None
    /\ \A r \in retried : idem[KeyOf[r]] # None

\* A res is on the wire exactly when its request has been answered.
ResInv ==
    \A r \in Reqs : Written("res", r) <=> pc[r] \in {"done", "replayed"}

\* The reader keeps a handle of every thread that has not ended.
JoinInv ==
    /\ \A r \in Reqs :
          pc[r] \notin {"none", "replayed", "done", "panicked"} => r \in inflight
    /\ reader = "exited" => \A j \in inflight : Finished(j)

IInv ==
    /\ TypeOK
    /\ MutexInv
    /\ PlaceInv
    /\ CacheInv
    /\ RetryNeverRuns
    /\ ResInv
    /\ ResIsLast
    /\ JoinInv

LEMMA IInvInit == Init => IInv
  <1> SUFFICES ASSUME Init PROVE IInv
    OBVIOUS
  <1>1. TypeOK
    BY TypeInit
  <1>2. DOMAIN stdin = {} /\ DOMAIN out = {}
    BY DEF Init
  <1>3. MutexInv
    BY DEF Init, MutexInv, Handling
  <1>4. PlaceInv
    BY <1>2 DEF Init, PlaceInv
  <1>5. CacheInv /\ RetryNeverRuns
    BY <1>2 DEF Init, CacheInv, RetryNeverRuns, ResOut
  <1>6. ResInv /\ ResIsLast
    BY <1>2 DEF Init, ResInv, ResIsLast, Written
  <1>7. JoinInv
    BY DEF Init, JoinInv
  <1> QED
    BY <1>1, <1>3, <1>4, <1>5, <1>6, <1>7 DEF IInv

\* What the core does to the harness is a line in the pipe, or closing it.
LEMMA CoreFrame ==
    Core => UNCHANGED <<reader, cur, inflight, pc, mutation, idem, out>>
  BY DEF Core, CoreReq, CoreReply, CorePush, CoreBad, CoreShutdown, CoreClose, Send

LEMMA OnPushFrame ==
    ASSUME NEW p \in Pushes, OnPush(p)
    PROVE UNCHANGED <<stdin, reader, cur, inflight, pc, mutation, idem, out, sent, retried>>
  BY DEF OnPush, core

\* Neither the reader nor a thread touches what the core keeps.
LEMMA StepFrame ==
    /\ Reader => UNCHANGED <<mutation, idem, sent, retried>>
    /\ \A r \in Reqs : Thread(r) \/ Handler(r) =>
          UNCHANGED <<stdin, reader, cur, inflight, sent, retried>> /\ reader # "exited"
  <1>1. Reader => UNCHANGED <<mutation, idem, sent, retried>>
    BY DEF Reader, Hello, ReadSkip, ReadShutdown, ReadEof, ReadCmdRes, ReadPush,
           ReadReplay, ReadMiss, Spawn, Exit, Read, core
  <1>2. ASSUME NEW r \in Reqs, Thread(r)
        PROVE UNCHANGED <<stdin, reader, cur, inflight, sent, retried>> /\ reader # "exited"
    BY <1>2 DEF Thread, Start, CallRegister, CallSend, CallReturn, CacheRes,
                EmitRes, At, Alive, core
  <1>3. ASSUME NEW r \in Reqs, Handler(r)
        PROVE UNCHANGED <<stdin, reader, cur, inflight, sent, retried>> /\ reader # "exited"
    BY <1>3 DEF Handler, Progress, CallAlloc, Return, Panic, At, Alive, core
  <1> QED
    BY <1>1, <1>2, <1>3

\* A thread moves its own program counter only, between labels of a spawned thread.
LEMMA ThreadMoves ==
    ASSUME TypeOK, NEW r \in Reqs, Thread(r) \/ Handler(r)
    PROVE  \E label \in PcLabels \ {"none", "replayed", "spawned"} :
              /\ pc' = [pc EXCEPT ![r] = label]
              /\ pc[r] \notin {"none", "replayed", "done", "panicked"}
              /\ label = "done" <=> EmitRes(r)
              /\ label = "cached" <=> CacheRes(r)
  <1>1. pc = [pc EXCEPT ![r] = pc[r]] /\ pc[r] \in PcLabels
    BY DEF TypeOK
  <1>2. CASE Progress(r)
    <2>1. pc[r] = "running" /\ pc' = pc
      BY <1>2 DEF Progress, At
    <2> QED BY <1>1, <2>1 DEF PcLabels, EmitRes, CacheRes, At
  <1>3. CASE Start(r)
    <2>1. pc[r] = "spawned" /\ pc' = [pc EXCEPT ![r] = "running"]
      BY <1>3 DEF Start, At, Goto
    <2>2. "running" \in PcLabels \ {"none", "replayed", "spawned"}
      BY DEF PcLabels
    <2>3. ~CacheRes(r) /\ ~EmitRes(r)
      BY <2>1 DEF CacheRes, EmitRes, At
    <2> QED BY <2>1, <2>2, <2>3
  <1>4. CASE CallRegister(r) \/ CallSend(r) \/ CallReturn(r)
    BY <1>4 DEF CallRegister, CallSend, CallReturn, At, Goto, PcLabels, EmitRes, CacheRes
  <1>5. CASE CallAlloc(r) \/ Return(r) \/ Panic(r)
    BY <1>5 DEF CallAlloc, Return, Panic, At, Goto, PcLabels, EmitRes, CacheRes
  <1>6. CASE CacheRes(r)
    BY <1>6 DEF At, Goto, PcLabels, EmitRes, CacheRes
  <1>7. CASE EmitRes(r)
    <2>1. pc[r] = "cached" /\ pc' = [pc EXCEPT ![r] = "done"]
      BY <1>7 DEF EmitRes, At, Goto
    <2>2. ~CacheRes(r)
      BY <2>1 DEF CacheRes, At
    <2>3. "done" \in PcLabels \ {"none", "replayed", "spawned"}
      BY DEF PcLabels
    <2> QED BY <1>7, <2>1, <2>2, <2>3
  <1> QED
    BY <1>2, <1>3, <1>4, <1>5, <1>6, <1>7 DEF Thread, Handler

\* What the reader does to the program counters: it replays or spawns.
LEMMA ReaderMoves ==
    ASSUME TypeOK, Reader
    PROVE  \/ /\ pc' = pc /\ ~ReadReplay /\ ~Spawn
              /\ out' = out \/ (Hello /\ Emit(Frame("hello", None, None)))
           \/ ReadReplay
           \/ Spawn
  BY DEF Reader, Hello, ReadSkip, ReadShutdown, ReadEof, ReadCmdRes, ReadPush,
         ReadReplay, ReadMiss, Spawn, Exit, Read

LEMMA MutexStep == IInv /\ [Next]_vars => MutexInv'
  <1> SUFFICES ASSUME IInv, [Next]_vars PROVE MutexInv'
    OBVIOUS
  <1> USE DEF IInv
  <1>1. CASE UNCHANGED vars \/ Core
    BY <1>1, CoreFrame DEF vars, MutexInv, Handling
  <1>2. CASE Reader
    <2>1. CASE ReadReplay
      BY <1>2, <2>1, StepFrame, HeadTypes DEF ReadReplay, Read, TypeOK, MutexInv, Handling
    <2>2. CASE Spawn
      BY <1>2, <2>2, StepFrame DEF Spawn, TypeOK, MutexInv, Handling
    <2> QED
      BY <1>2, <2>1, <2>2, StepFrame, ReaderMoves DEF MutexInv, Handling
  <1>3. ASSUME NEW r \in Reqs, Thread(r) PROVE MutexInv'
    <2>1. CASE Start(r)
      BY <2>1, HarnessAssumption
      DEF HarnessAssumption, Start, At, Goto, TypeOK, MutexInv, Handling
    <2>2. CASE CallRegister(r) \/ CallSend(r) \/ CallReturn(r)
      BY <2>2 DEF CallRegister, CallSend, CallReturn, At, Goto, TypeOK, MutexInv, Handling
    <2>3. CASE CacheRes(r) \/ EmitRes(r)
      BY <2>3 DEF CacheRes, EmitRes, At, Goto, TypeOK, MutexInv, Handling
    <2> QED
      BY <1>3, <2>1, <2>2, <2>3 DEF Thread
  <1>4. ASSUME NEW r \in Reqs, Handler(r) PROVE MutexInv'
    <2>1. CASE Progress(r) \/ CallAlloc(r)
      BY <2>1 DEF Progress, CallAlloc, At, Goto, TypeOK, MutexInv, Handling
    <2>2. CASE Return(r) \/ Panic(r)
      BY <2>2 DEF Return, Panic, Unlock, At, Goto, TypeOK, MutexInv, Handling
    <2> QED
      BY <1>4, <2>1, <2>2 DEF Handler
  <1>5. ASSUME NEW p \in Pushes, OnPush(p) PROVE MutexInv'
    BY <1>5, OnPushFrame DEF MutexInv, Handling
  <1> QED
    BY <1>1, <1>2, <1>3, <1>4, <1>5 DEF Next

LEMMA PlaceStep == IInv /\ [Next]_vars => PlaceInv'
  <1> SUFFICES ASSUME IInv, [Next]_vars PROVE PlaceInv'
    OBVIOUS
  <1> USE HarnessAssumption DEF IInv, HarnessAssumption
  <1>0. stdin \in Seq(InFrames) /\ cur \in Reqs \cup {None} /\ pc \in [Reqs -> PcLabels]
    BY DEF TypeOK
  <1>1. CASE UNCHANGED vars
    BY <1>1 DEF vars, core, PlaceInv
  <1>2. CASE Core
    \* A frame that is no request leaves the requests in the pipe as they are.
    <2>1. ASSUME NEW f \in InFrames, Send(f), f.t # "req", sent \subseteq sent'
          PROVE PlaceInv'
      <3>1. \A i \in DOMAIN stdin' : stdin'[i].t = "req" =>
               i \in DOMAIN stdin /\ stdin'[i] = stdin[i]
        BY <1>0, <2>1, SeqFacts DEF Send
      <3> QED
        BY <1>0, <2>1, <3>1 DEF Send, PlaceInv
    <2>2. ASSUME NEW r \in Reqs, CoreReq(r) PROVE PlaceInv'
      <3>1. Frame("req", r, None) \in InFrames
        BY FrameTypes
      <3>2. /\ DOMAIN stdin = 1 .. Len(stdin) /\ DOMAIN stdin' = 1 .. Len(stdin) + 1
            /\ Len(stdin) \in Nat
            /\ \A i \in DOMAIN stdin : stdin'[i] = stdin[i]
            /\ stdin'[Len(stdin) + 1].t = "req" /\ stdin'[Len(stdin) + 1].id = r
        BY <1>0, <2>2, <3>1, SeqFacts DEF CoreReq, Send, Frame
      <3>3. /\ r \notin sent /\ sent' = sent \cup {r} /\ cur' = cur /\ pc' = pc
            /\ reader' = reader
        BY <2>2 DEF CoreReq, Send
      <3>4. pc[r] = "none" /\ cur # r
        BY <3>3, <1>0 DEF PlaceInv
      <3>5. \A i \in DOMAIN stdin : stdin[i].t = "req" => stdin[i].id # r
        BY <3>3 DEF PlaceInv
      <3>6. \A i \in DOMAIN stdin' : i \in DOMAIN stdin \/ i = Len(stdin) + 1
        BY <3>2
      <3>7. /\ reader' # "spawning" => cur' = None
            /\ \A q \in Reqs : q \notin sent' \/ cur' = q => pc'[q] = "none"
            /\ cur' # None => cur' \in sent'
        BY <3>3 DEF PlaceInv
      <3>8. ASSUME NEW i \in DOMAIN stdin', stdin'[i].t = "req"
            PROVE /\ stdin'[i].id \in sent' /\ pc'[stdin'[i].id] = "none"
                  /\ cur' # stdin'[i].id
        <4>1. CASE i \in DOMAIN stdin
          BY <3>2, <3>3, <3>8, <4>1 DEF PlaceInv
        <4>2. CASE i = Len(stdin) + 1
          BY <3>2, <3>3, <3>4, <4>2
        <4> QED
          BY <3>6, <4>1, <4>2
      <3>9. ASSUME NEW i \in DOMAIN stdin', NEW j \in DOMAIN stdin',
                   stdin'[i].t = "req", stdin'[j].t = "req",
                   stdin'[j].id = stdin'[i].id
            PROVE j = i
        <4>1. CASE i \in DOMAIN stdin /\ j \in DOMAIN stdin
          BY <3>2, <3>9, <4>1 DEF PlaceInv
        <4>2. CASE i = Len(stdin) + 1 \/ j = Len(stdin) + 1
          BY <3>2, <3>5, <3>6, <3>9, <4>2
        <4> QED
          BY <3>6, <4>1, <4>2
      <3> QED
        BY <3>7, <3>8, <3>9 DEF PlaceInv
    <2>3. ASSUME NEW c \in CmdIds, CoreReply(c) PROVE PlaceInv'
      <3>1. PICK i \in DOMAIN out : Send(Frame("cmdRes", c, i)) /\ sent' = sent
        BY <2>3 DEF CoreReply
      <3>2. Frame("cmdRes", c, i) \in InFrames /\ Frame("cmdRes", c, i).t # "req"
        BY FrameTypes DEF TypeOK, Frame
      <3> QED BY <2>1, <3>1, <3>2
    <2>4. ASSUME NEW p \in Pushes, CorePush(p) PROVE PlaceInv'
      BY <2>1, <2>4, FrameTypes DEF CorePush, Frame
    <2>5. ASSUME NEW t \in {"ready", "bad", "notText"}, CoreBad(t) PROVE PlaceInv'
      BY <2>1, <2>5, FrameTypes DEF CoreBad, Frame
    <2>6. CASE CoreShutdown
      BY <2>1, <2>6, FrameTypes DEF CoreShutdown, Frame
    <2>7. CASE CoreClose
      BY <2>7 DEF CoreClose, core, PlaceInv
    <2> QED
      BY <1>2, <2>2, <2>3, <2>4, <2>5, <2>6, <2>7 DEF Core
  <1>3. CASE Reader
    <2>0. sent' = sent
      BY <1>3, StepFrame
    \* Reading a line shifts the pipe and leaves every later request in place.
    <2>1. ASSUME NEW t, Read(t)
          PROVE  /\ Head(stdin) = stdin[1] /\ 1 \in DOMAIN stdin /\ Head(stdin).t = t
                 /\ \A i \in DOMAIN stdin' :
                       /\ i + 1 \in DOMAIN stdin /\ stdin'[i] = stdin[i + 1] /\ i \in Nat
                       /\ i + 1 # 1
                 /\ reader = "reading" /\ cur = None
      <3>1. stdin' = Tail(stdin) /\ stdin # <<>> /\ reader = "reading" /\ Head(stdin).t = t
        BY <2>1 DEF Read
      <3>2. \A i \in DOMAIN Tail(stdin) : i \in Nat /\ i + 1 # 1
        BY <1>0, <3>1
      <3> QED
        BY <1>0, <3>1, <3>2, TailFacts DEF PlaceInv
    <2>2. ASSUME NEW t, Read(t), UNCHANGED <<cur, pc>>, reader' # "spawning"
          PROVE PlaceInv'
      BY <1>0, <2>0, <2>1, <2>2 DEF PlaceInv
    <2>3. CASE Hello \/ Exit
      BY <2>3 DEF Hello, Exit, core, PlaceInv
    <2>4. CASE ReadSkip \/ ReadShutdown \/ ReadCmdRes \/ ReadPush
      BY <2>2, <2>4 DEF ReadSkip, ReadShutdown, ReadCmdRes, ReadPush, Read
    <2>5. CASE ReadEof
      <3>1. CASE stdin = <<>>
        BY <2>5, <3>1 DEF ReadEof, Read, PlaceInv, core
      <3>2. CASE stdin # <<>>
        BY <2>2, <2>5, <3>2 DEF ReadEof
      <3> QED BY <3>1, <3>2
    <2>6. CASE ReadReplay
      <3>1. PICK r \in Reqs : /\ r = Head(stdin).id /\ pc' = [pc EXCEPT ![r] = "replayed"]
                              /\ UNCHANGED <<reader, cur>>
        BY <2>6, HeadTypes DEF ReadReplay, Read
      <3>2. Read("req")
        BY <2>6 DEF ReadReplay
      <3>3. r \in sent /\ \A i \in DOMAIN stdin' : stdin'[i].t = "req" => stdin'[i].id # r
        BY <2>1, <3>1, <3>2 DEF PlaceInv
      <3> QED
        BY <1>0, <2>0, <2>1, <3>1, <3>2, <3>3 DEF PlaceInv
    <2>7. CASE ReadMiss
      <3>1. PICK r \in Reqs : /\ r = Head(stdin).id /\ pc' = pc
                              /\ cur' = r /\ reader' = "spawning"
        BY <2>7, HeadTypes DEF ReadMiss, Read
      <3>2. Read("req")
        BY <2>7 DEF ReadMiss
      <3>3. /\ r \in sent /\ pc[r] = "none"
            /\ \A i \in DOMAIN stdin' : stdin'[i].t = "req" => stdin'[i].id # r
        BY <2>1, <3>1, <3>2 DEF PlaceInv
      <3> QED
        BY <1>0, <2>0, <2>1, <3>1, <3>2, <3>3 DEF PlaceInv
    <2>8. CASE Spawn
      <3>1. /\ cur \in Reqs /\ cur # None /\ cur' = None /\ reader' = "reading"
            /\ stdin' = stdin /\ pc' = [pc EXCEPT ![cur] = "spawned"]
        BY <2>8 DEF Spawn, TypeOK
      <3>2. \A i \in DOMAIN stdin : stdin[i].t = "req" =>
               /\ stdin[i].id \in Reqs /\ stdin[i].id # cur /\ pc[stdin[i].id] = "none"
        BY <1>0 DEF PlaceInv, InFrames
      <3>3. \A i \in DOMAIN stdin : stdin[i].t = "req" => pc'[stdin[i].id] = "none"
        BY <1>0, <3>1, <3>2
      <3>4. \A r \in Reqs : r \notin sent => r # cur /\ pc'[r] = "none"
        BY <1>0, <3>1 DEF PlaceInv
      <3>5. \A i \in DOMAIN stdin : stdin[i].t = "req" =>
               /\ stdin[i].id \in sent /\ stdin[i].id # None
               /\ \A j \in DOMAIN stdin :
                     stdin[j].t = "req" /\ stdin[j].id = stdin[i].id => j = i
        BY <3>2 DEF PlaceInv
      <3>6. \A r \in Reqs : r # cur'
        BY <3>1
      <3> HIDE DEF IInv
      <3> QED
        BY <2>0, <3>1, <3>3, <3>4, <3>5, <3>6 DEF PlaceInv
    <2> QED
      BY <1>3, <2>3, <2>4, <2>5, <2>6, <2>7, <2>8 DEF Reader
  <1>4. ASSUME NEW r \in Reqs, Thread(r) \/ Handler(r) PROVE PlaceInv'
    <2>1. PICK label \in PcLabels : pc' = [pc EXCEPT ![r] = label] /\ pc[r] # "none"
      BY <1>4, ThreadMoves
    <2> QED
      BY <1>0, <1>4, <2>1, StepFrame DEF PlaceInv
  <1>5. ASSUME NEW p \in Pushes, OnPush(p) PROVE PlaceInv'
    BY <1>5, OnPushFrame DEF PlaceInv
  <1> QED
    BY <1>1, <1>2, <1>3, <1>4, <1>5 DEF Next

\* A frame appended to stdout is the only news about what has been written.
LEMMA EmitFacts ==
    ASSUME TypeOK, NEW f \in OutFrames, Emit(f)
    PROVE  /\ \A t, id : Written(t, id)' <=> Written(t, id) \/ (f.t = t /\ f.id = id)
           /\ \A k : ResOut(k)' <=> ResOut(k) \/ (f.t = "res" /\ KeyOf[f.id] = k)
           /\ DOMAIN out' = 1 .. Len(out) + 1 /\ DOMAIN out = 1 .. Len(out)
           /\ Len(out) \in Nat /\ out'[Len(out) + 1] = f
           /\ \A i \in DOMAIN out : out'[i] = out[i]
  <1>1. /\ DOMAIN out' = 1 .. Len(out) + 1 /\ DOMAIN out = 1 .. Len(out)
        /\ Len(out) \in Nat /\ out'[Len(out) + 1] = f
        /\ \A i \in DOMAIN out : out'[i] = out[i]
    BY SeqFacts DEF TypeOK, Emit
  <1>2. DOMAIN out' = DOMAIN out \cup {Len(out) + 1}
    BY <1>1
  <1> QED
    BY <1>1, <1>2 DEF Written, ResOut

\* Which frames are written: hello, a replayed or first res, ev or cmd.
LEMMA OutMoves ==
    ASSUME IInv, [Next]_vars
    PROVE  \/ out' = out
           \/ Hello /\ Emit(Frame("hello", None, None))
           \/ \E r, e \in Reqs : /\ ReadReplay /\ r = Head(stdin).id
                                 /\ Emit(Frame("res", r, e))
           \/ \E r \in Reqs : EmitRes(r) /\ Emit(Frame("res", r, r))
           \/ \E r \in Reqs : Progress(r) /\ Emit(Frame("ev", r, r))
           \/ \E r \in Reqs, c \in CmdIds : CallSend(r) /\ Emit(Frame("cmd", c, r))
  <1>1. CASE UNCHANGED vars \/ Core
    BY <1>1, CoreFrame DEF vars
  <1>2. CASE Reader
    <2>1. ASSUME ReadReplay
          PROVE \E r, e \in Reqs : r = Head(stdin).id /\ Emit(Frame("res", r, e))
      <3>1. Head(stdin).id \in Reqs
        BY <2>1, HeadTypes DEF IInv, ReadReplay, Read
      <3>2. idem[KeyOf[Head(stdin).id]] \in Reqs
        BY <2>1, <3>1, HarnessAssumption DEF HarnessAssumption, IInv, TypeOK, ReadReplay
      <3> QED
        BY <2>1, <3>1, <3>2 DEF ReadReplay
    <2>2. Spawn => out' = out
      BY DEF Spawn
    <2> QED
      BY <1>2, <2>1, <2>2, ReaderMoves DEF IInv
  <1>3. ASSUME NEW r \in Reqs, Thread(r) \/ Handler(r)
        PROVE  \/ out' = out
               \/ EmitRes(r) /\ Emit(Frame("res", r, r))
               \/ Progress(r) /\ Emit(Frame("ev", r, r))
               \/ \E c \in CmdIds : CallSend(r) /\ Emit(Frame("cmd", c, r))
    <2>1. CASE CallSend(r)
      <3>1. callId[r] \in CmdIds
        BY <2>1 DEF CallSend, At, IInv, TypeOK
      <3> QED BY <2>1, <3>1 DEF CallSend
    <2>2. CASE EmitRes(r) \/ Progress(r)
      BY <2>2 DEF EmitRes, Progress
    <2>3. CASE Start(r) \/ CallRegister(r) \/ CallReturn(r) \/ CacheRes(r)
      BY <2>3 DEF Start, CallRegister, CallReturn, CacheRes
    <2>4. CASE CallAlloc(r) \/ Return(r) \/ Panic(r)
      BY <2>4 DEF CallAlloc, Return, Panic
    <2> QED BY <1>3, <2>1, <2>2, <2>3, <2>4 DEF Thread, Handler
  <1>4. ASSUME NEW p \in Pushes, OnPush(p) PROVE out' = out
    BY <1>4, OnPushFrame
  <1> QED
    BY <1>1, <1>2, <1>3, <1>4 DEF Next

\* How a step changes the program counters, the cache and the reader.
LEMMA PcMoves ==
    ASSUME IInv, [Next]_vars
    PROVE  \/ pc' = pc
           \/ \E r \in Reqs : /\ ReadReplay /\ r = Head(stdin).id
                              /\ pc' = [pc EXCEPT ![r] = "replayed"]
           \/ Spawn /\ pc' = [pc EXCEPT ![cur] = "spawned"] /\ cur \in Reqs
           \/ \E r \in Reqs, label \in PcLabels \ {"none", "replayed", "spawned"} :
                 /\ Thread(r) \/ Handler(r)
                 /\ pc' = [pc EXCEPT ![r] = label]
                 /\ pc[r] \notin {"none", "replayed", "done", "panicked"}
                 /\ label = "done" <=> EmitRes(r)
                 /\ label = "cached" <=> CacheRes(r)
  <1>0. TypeOK
    BY DEF IInv
  <1>1. CASE UNCHANGED vars \/ Core
    BY <1>1, CoreFrame DEF vars
  <1>2. CASE ReadReplay
    BY <1>0, <1>2, HeadTypes DEF ReadReplay, Read
  <1>3. CASE Spawn
    BY <1>0, <1>3 DEF Spawn, TypeOK
  <1>4. CASE Reader
    BY <1>0, <1>2, <1>3, <1>4, ReaderMoves
  <1>5. ASSUME NEW r \in Reqs, Thread(r) \/ Handler(r)
        PROVE  \E label \in PcLabels \ {"none", "replayed", "spawned"} :
                 /\ pc' = [pc EXCEPT ![r] = label]
                 /\ pc[r] \notin {"none", "replayed", "done", "panicked"}
                 /\ label = "done" <=> EmitRes(r)
                 /\ label = "cached" <=> CacheRes(r)
    BY <1>0, <1>5, ThreadMoves
  <1>6. ASSUME NEW p \in Pushes, OnPush(p) PROVE pc' = pc
    BY <1>6, OnPushFrame
  <1> QED
    BY <1>1, <1>4, <1>5, <1>6 DEF Next

\* The cache only grows: a step keeps every entry or fills one.
LEMMA IdemMoves ==
    ASSUME IInv, [Next]_vars
    PROVE  \/ idem' = idem
           \/ \E r \in Reqs : CacheRes(r) /\ idem' = [idem EXCEPT ![KeyOf[r]] = r]
  <1>1. CASE UNCHANGED vars \/ Core \/ Reader
    BY <1>1, CoreFrame, StepFrame DEF vars
  <1>2. ASSUME NEW r \in Reqs, Thread(r) \/ Handler(r)
        PROVE idem' = idem \/ (CacheRes(r) /\ idem' = [idem EXCEPT ![KeyOf[r]] = r])
    BY <1>2 DEF Thread, Handler, Start, CallRegister, CallSend, CallReturn, CacheRes,
                EmitRes, Progress, CallAlloc, Return, Panic
  <1>3. ASSUME NEW p \in Pushes, OnPush(p) PROVE idem' = idem
    BY <1>3, OnPushFrame
  <1> QED
    BY <1>1, <1>2, <1>3 DEF Next

LEMMA CacheStep == IInv /\ [Next]_vars => CacheInv'
  <1> SUFFICES ASSUME IInv, [Next]_vars PROVE CacheInv'
    OBVIOUS
  <1> USE HarnessAssumption DEF HarnessAssumption
  <1>0. /\ TypeOK /\ CacheInv
        /\ idem \in [Keys -> Reqs \cup {None}] /\ pc \in [Reqs -> PcLabels]
        /\ retried \subseteq Reqs
    BY DEF IInv, TypeOK
  <1>1. \A k \in Keys : idem[k] # None => idem'[k] # None
    BY <1>0, IdemMoves
  <1>2. ASSUME NEW r \in Reqs, pc'[r] = "cached" PROVE idem'[KeyOf[r]] # None
    <2>1. CASE pc[r] = "cached"
      BY <1>0, <1>1, <2>1 DEF CacheInv
    <2>2. CASE pc[r] # "cached"
      <3>1. CacheRes(r)
        BY <1>0, <1>2, <2>2, PcMoves
      <3> QED
        BY <1>0, <3>1 DEF CacheRes
    <2> QED BY <2>1, <2>2
  <1>3. ASSUME NEW k \in Keys, ResOut(k)' PROVE ResOut(k) \/ idem[k] # None
    <2>1. CASE out' = out
      BY <1>3, <2>1 DEF ResOut
    <2>2. ASSUME Hello, Emit(Frame("hello", None, None)) PROVE ResOut(k)
      BY <1>0, <1>3, <2>2, EmitFacts, FrameTypes DEF Frame
    <2>3. ASSUME NEW r \in Reqs, NEW e \in Reqs, ReadReplay, r = Head(stdin).id,
                 Emit(Frame("res", r, e))
          PROVE ResOut(k) \/ idem[k] # None
      <3>1. idem[KeyOf[r]] # None
        BY <2>3 DEF ReadReplay
      <3> QED BY <1>0, <1>3, <2>3, <3>1, EmitFacts, FrameTypes DEF Frame
    <2>4. ASSUME NEW r \in Reqs, EmitRes(r), Emit(Frame("res", r, r))
          PROVE ResOut(k) \/ idem[k] # None
      <3>1. idem[KeyOf[r]] # None
        BY <1>0, <2>4 DEF EmitRes, At, CacheInv
      <3> QED BY <1>0, <1>3, <2>4, <3>1, EmitFacts, FrameTypes DEF Frame
    <2>5. ASSUME NEW r \in Reqs, Emit(Frame("ev", r, r)) PROVE ResOut(k)
      BY <1>0, <1>3, <2>5, EmitFacts, FrameTypes DEF Frame
    <2>6. ASSUME NEW r \in Reqs, NEW c \in CmdIds, Emit(Frame("cmd", c, r))
          PROVE ResOut(k)
      BY <1>0, <1>3, <2>6, EmitFacts, FrameTypes DEF Frame
    <2> QED
      BY <2>1, <2>2, <2>3, <2>4, <2>5, <2>6, OutMoves
  <1>4. ASSUME NEW r \in retried' PROVE idem[KeyOf[r]] # None /\ r \in Reqs
    <2>1. CASE r \in retried
      BY <1>0, <2>1 DEF CacheInv
    <2>2. CASE r \notin retried
      <3>1. CoreReq(r) /\ r \in Reqs /\ ResOut(KeyOf[r])
        <4>1. CASE UNCHANGED vars
          BY <1>4, <2>2, <4>1 DEF vars, core
        <4>2. CASE Core
          BY <1>4, <2>2, <4>2 DEF Core, CoreReq, CoreReply, CorePush, CoreBad,
                                  CoreShutdown, CoreClose, core
        <4>3. CASE Reader \/ \E q \in Reqs : Thread(q) \/ Handler(q)
          BY <1>4, <2>2, <4>3, StepFrame
        <4>4. CASE \E p \in Pushes : OnPush(p)
          BY <1>4, <2>2, <4>4, OnPushFrame
        <4> QED
          BY <4>1, <4>2, <4>3, <4>4 DEF Next
      <3> QED
        BY <1>0, <3>1 DEF CacheInv
    <2> QED BY <2>1, <2>2
  <1> QED
    BY <1>0, <1>1, <1>2, <1>3, <1>4 DEF CacheInv

LEMMA RetryStep == IInv /\ [Next]_vars => RetryNeverRuns'
  <1> SUFFICES ASSUME IInv, [Next]_vars, NEW r \in retried'
               PROVE pc'[r] \in {"none", "replayed"} /\ cur' # r
    BY DEF RetryNeverRuns
  <1> USE HarnessAssumption DEF HarnessAssumption
  <1>0. TypeOK /\ pc \in [Reqs -> PcLabels] /\ retried \subseteq Reqs
    BY DEF IInv, TypeOK
  <1>1. CASE r \in retried
    <2>1. pc[r] \in {"none", "replayed"} /\ cur # r /\ idem[KeyOf[r]] # None /\ r # None
      BY <1>0, <1>1 DEF IInv, RetryNeverRuns, CacheInv
    <2>2. pc'[r] \in {"none", "replayed"}
      BY <1>0, <1>1, <2>1, PcMoves
    <2>3. cur' # r
      <3>1. CASE Reader
        BY <2>1, <3>1 DEF Reader, Hello, ReadSkip, ReadShutdown, ReadEof, ReadCmdRes,
           ReadPush, ReadReplay, ReadMiss, Spawn, Exit, Read
      <3>2. CASE UNCHANGED vars \/ Core \/ \E q \in Reqs : Thread(q) \/ Handler(q)
        BY <2>1, <3>2, CoreFrame, StepFrame DEF vars
      <3>3. CASE \E p \in Pushes : OnPush(p)
        BY <2>1, <3>3, OnPushFrame
      <3> QED BY <3>1, <3>2, <3>3 DEF Next
    <2> QED BY <2>2, <2>3
  <1>2. CASE r \notin retried
    <2>1. CoreReq(r) /\ r \in Reqs
      <3>1. CASE Reader \/ \E q \in Reqs : Thread(q) \/ Handler(q)
        BY <1>2, <3>1, StepFrame
      <3>2. CASE UNCHANGED vars \/ \E p \in Pushes : OnPush(p)
        BY <1>2, <3>2, OnPushFrame DEF vars, core
      <3>3. CASE Core
        BY <1>2, <3>3 DEF Core, CoreReq, CoreReply, CorePush, CoreBad,
                          CoreShutdown, CoreClose, core
      <3> QED BY <3>1, <3>2, <3>3 DEF Next
    <2>2. r \notin sent /\ pc' = pc /\ cur' = cur
      BY <2>1 DEF CoreReq, Send
    <2>3. pc[r] = "none" /\ cur # r
      BY <2>1, <2>2 DEF IInv, PlaceInv
    <2> QED BY <2>2, <2>3
  <1> QED BY <1>1, <1>2

LEMMA ResStep == IInv /\ [Next]_vars => ResInv'
  <1> SUFFICES ASSUME IInv, [Next]_vars PROVE ResInv'
    OBVIOUS
  <1>0. TypeOK /\ ResInv /\ pc \in [Reqs -> PcLabels]
    BY DEF IInv, TypeOK
  <1>1. CASE ReadReplay
    <2>1. PICK r, e \in Reqs : /\ pc' = [pc EXCEPT ![r] = "replayed"]
                               /\ Emit(Frame("res", r, e))
      <3>1. Head(stdin).id \in Reqs
        BY <1>0, <1>1, HeadTypes DEF ReadReplay, Read
      <3>2. idem[KeyOf[Head(stdin).id]] \in Reqs
        BY <1>0, <1>1, <3>1, HarnessAssumption DEF HarnessAssumption, TypeOK, ReadReplay
      <3> QED
        BY <1>1, <3>1, <3>2 DEF ReadReplay
    <2> QED
      BY <1>0, <2>1, EmitFacts, FrameTypes DEF ResInv, Frame
  <1>2. ASSUME NEW r \in Reqs, EmitRes(r) PROVE ResInv'
    BY <1>0, <1>2, EmitFacts, FrameTypes DEF ResInv, Frame, EmitRes, Goto
  <1>3. CASE ~ReadReplay /\ \A r \in Reqs : ~EmitRes(r)
    <2>1. \A r \in Reqs : Written("res", r)' <=> Written("res", r)
      <3>1. \/ out' = out
            \/ \E f \in OutFrames : Emit(f) /\ f.t # "res"
        BY <1>3, OutMoves, FrameTypes DEF Frame
      <3> QED BY <1>0, <3>1, EmitFacts DEF Written
    <2>2. \A r \in Reqs : pc'[r] \in {"done", "replayed"} <=> pc[r] \in {"done", "replayed"}
      <3>1. CASE Spawn
        <4>1. cur \in Reqs /\ pc[cur] = "none" /\ pc' = [pc EXCEPT ![cur] = "spawned"]
          BY <3>1 DEF Spawn, IInv, PlaceInv, TypeOK
        <4> QED BY <1>0, <4>1
      <3> QED BY <1>0, <1>3, <3>1, PcMoves
    <2> QED BY <1>0, <2>1, <2>2 DEF ResInv
  <1> QED BY <1>1, <1>2, <1>3

LEMMA ResIsLastStep == IInv /\ [Next]_vars => ResIsLast'
  <1> SUFFICES ASSUME IInv, [Next]_vars PROVE ResIsLast'
    OBVIOUS
  <1>0. TypeOK /\ ResInv /\ ResIsLast
    BY DEF IInv
  \* A frame may follow a res when it does not speak of the same request.
  <1>1. ASSUME NEW f \in OutFrames, Emit(f),
               f.t \in {"res", "ev"} => ~Written("res", f.id),
               f.t = "cmd" => ~Written("res", f.by)
        PROVE ResIsLast'
    <2>1. /\ DOMAIN out' = 1 .. Len(out) + 1 /\ DOMAIN out = 1 .. Len(out)
          /\ Len(out) \in Nat /\ out'[Len(out) + 1] = f
          /\ \A i \in DOMAIN out : out'[i] = out[i]
      BY <1>0, <1>1, EmitFacts
    <2>2. SUFFICES ASSUME NEW i \in DOMAIN out', NEW j \in DOMAIN out',
                          j > i, out'[i].t = "res"
                   PROVE  /\ out'[j].t \in {"res", "ev"} => out'[j].id # out'[i].id
                          /\ out'[j].t = "cmd" => out'[j].by # out'[i].id
      BY DEF ResIsLast
    <2>3. i \in DOMAIN out /\ out'[i] = out[i]
      BY <2>1, <2>2
    <2>4. CASE j \in DOMAIN out
      BY <1>0, <2>1, <2>2, <2>3, <2>4 DEF ResIsLast
    <2>5. CASE j = Len(out) + 1
      <3>1. Written("res", out[i].id)
        BY <2>2, <2>3 DEF Written
      <3> QED BY <1>1, <2>1, <2>3, <2>5, <3>1
    <2> QED BY <2>1, <2>4, <2>5
  <1>2. CASE out' = out
    BY <1>0, <1>2 DEF ResIsLast
  <1>3. ASSUME Emit(Frame("hello", None, None)) PROVE ResIsLast'
    BY <1>1, <1>3, FrameTypes DEF Frame
  <1>4. ASSUME NEW r \in Reqs, NEW e \in Reqs, ReadReplay, r = Head(stdin).id,
               Emit(Frame("res", r, e))
        PROVE ResIsLast'
    <2>1. stdin[1].t = "req" /\ stdin[1].id = r /\ 1 \in DOMAIN stdin
      BY <1>0, <1>4, HeadTypes DEF ReadReplay, Read
    <2>2. pc[r] = "none"
      BY <2>1 DEF IInv, PlaceInv
    <2> QED BY <1>0, <1>1, <1>4, <2>2, FrameTypes DEF Frame, ResInv
  <1>5. ASSUME NEW r \in Reqs, EmitRes(r), Emit(Frame("res", r, r)) PROVE ResIsLast'
    BY <1>0, <1>1, <1>5, FrameTypes DEF Frame, ResInv, EmitRes, At
  <1>6. ASSUME NEW r \in Reqs, Progress(r), Emit(Frame("ev", r, r)) PROVE ResIsLast'
    BY <1>0, <1>1, <1>6, FrameTypes DEF Frame, ResInv, Progress, At
  <1>7. ASSUME NEW r \in Reqs, NEW c \in CmdIds, CallSend(r), Emit(Frame("cmd", c, r))
        PROVE ResIsLast'
    BY <1>0, <1>1, <1>7, FrameTypes DEF Frame, ResInv, CallSend, At
  <1> QED
    BY <1>2, <1>3, <1>4, <1>5, <1>6, <1>7, OutMoves

LEMMA JoinStep == IInv /\ [Next]_vars => JoinInv'
  <1> SUFFICES ASSUME IInv, [Next]_vars PROVE JoinInv'
    OBVIOUS
  <1>0. TypeOK /\ JoinInv /\ pc \in [Reqs -> PcLabels] /\ inflight \subseteq Reqs
    BY DEF IInv, TypeOK
  <1>1. CASE UNCHANGED vars \/ Core
    BY <1>0, <1>1, CoreFrame DEF vars, JoinInv, Finished
  <1>2. CASE Spawn
    BY <1>0, <1>2 DEF Spawn, JoinInv, Finished, TypeOK
  <1>3. CASE Exit
    BY <1>0, <1>3 DEF Exit, JoinInv, Finished
  <1>4. CASE ReadReplay
    BY <1>0, <1>4, HeadTypes DEF ReadReplay, Read, JoinInv, Finished
  <1>5. CASE Hello \/ ReadSkip \/ ReadShutdown \/ ReadEof \/ ReadCmdRes \/ ReadPush \/ ReadMiss
    BY <1>0, <1>5 DEF Hello, ReadSkip, ReadShutdown, ReadEof, ReadCmdRes, ReadPush,
                      ReadMiss, Read, JoinInv, Finished
  <1>6. ASSUME NEW r \in Reqs, Thread(r) \/ Handler(r) PROVE JoinInv'
    <2>1. PICK label \in PcLabels : /\ pc' = [pc EXCEPT ![r] = label]
                                    /\ pc[r] \notin {"none", "replayed", "done", "panicked"}
      BY <1>0, <1>6, ThreadMoves
    <2>2. UNCHANGED <<reader, inflight>> /\ reader # "exited"
      BY <1>6, StepFrame
    <2> QED BY <1>0, <2>1, <2>2 DEF JoinInv
  <1>7. ASSUME NEW p \in Pushes, OnPush(p) PROVE JoinInv'
    BY <1>0, <1>7, OnPushFrame DEF JoinInv, Finished
  <1> QED
    BY <1>1, <1>2, <1>3, <1>4, <1>5, <1>6, <1>7 DEF Next, Reader

\* IInv holds in every reachable state.
THEOREM Inductive == Spec => []IInv
  <1>1. IInv /\ [Next]_vars => IInv'
    BY TypeNext, MutexStep, PlaceStep, CacheStep, RetryStep, ResStep,
       ResIsLastStep, JoinStep DEF IInv
  <1> QED
    BY <1>1, IInvInit, PTL DEF Spec

\* PS16: two mutating ops are never in their handlers at once, for any number of
\* requests, through panics, mediated calls and the drain.
THEOREM Serialized == Spec => []MutatingOpsSerialize
  <1>1. IInv => MutatingOpsSerialize
    BY HarnessAssumption DEF HarnessAssumption, IInv, MutexInv, MutatingOpsSerialize
  <1> QED
    BY <1>1, Inductive, PTL

\* PS12: a request sent after a res with its key was on the wire never runs.
THEOREM RetrySafe == Spec => []RetryNeverRuns
  BY Inductive, PTL DEF IInv

\* A res is the last frame of its request and the only res it gets.
THEOREM ResOnceAndLast == Spec => []ResIsLast
  BY Inductive, PTL DEF IInv

\* When serve() returns, every accepted request has its res or panicked.
THEOREM Drained == Spec => []ExitIsDrained
  <1>1. IInv => ExitIsDrained
    BY DEF IInv, JoinInv, ResInv, ExitIsDrained, Finished
  <1> QED
    BY <1>1, Inductive, PTL

-----------------------------------------------------------------------------
(* Outcomes.                                                               *)

\* What is in the cache or on the wire is the outcome of an execution of its key
\* that returned; the res of a request that was executed is its own.
OutcomeInv ==
    /\ \A k \in Keys : idem[k] # None =>
          KeyOf[idem[k]] = k /\ pc[idem[k]] \in {"cached", "done"}
    /\ \A i \in DOMAIN out :
          out[i].t = "res" /\ pc[out[i].id] = "done" => out[i].by = out[i].id

\* Frames stay on the wire.
LEMMA OutGrows ==
    ASSUME IInv, [Next]_vars
    PROVE  \A i \in DOMAIN out : i \in DOMAIN out' /\ out'[i] = out[i]
  <1>1. CASE out' = out
    BY <1>1
  <1>2. ASSUME NEW f \in OutFrames, Emit(f)
        PROVE  \A i \in DOMAIN out : i \in DOMAIN out' /\ out'[i] = out[i]
    BY <1>2, EmitFacts DEF IInv
  <1> QED
    BY <1>1, <1>2, OutMoves, FrameTypes

\* The reader replays and spawns requests that have no thread.
LEMMA Fresh ==
    ASSUME IInv
    PROVE  /\ ReadReplay => /\ Head(stdin).id \in Reqs \cap sent
                            /\ pc[Head(stdin).id] = "none"
           /\ Spawn => /\ cur \in Reqs \cap sent /\ cur \notin retried
                       /\ pc[cur] = "none"
  <1>1. ASSUME ReadReplay
        PROVE  Head(stdin).id \in Reqs \cap sent /\ pc[Head(stdin).id] = "none"
    <2>1. Head(stdin) = stdin[1] /\ 1 \in DOMAIN stdin /\ Head(stdin).id \in Reqs
          /\ Head(stdin).t = "req"
      BY <1>1, HeadTypes DEF IInv, ReadReplay, Read
    <2> QED BY <2>1 DEF IInv, PlaceInv
  <1>2. ASSUME Spawn
        PROVE  cur \in Reqs \cap sent /\ cur \notin retried /\ pc[cur] = "none"
    BY <1>2, HarnessAssumption
    DEF HarnessAssumption, Spawn, IInv, TypeOK, PlaceInv, RetryNeverRuns
  <1> QED BY <1>1, <1>2

\* An execution that returned stays one.
LEMMA ReturnedStays ==
    ASSUME IInv, [Next]_vars, NEW r \in Reqs
    PROVE  /\ pc[r] = "done" => pc'[r] = "done"
           /\ pc[r] = "cached" => pc'[r] \in {"cached", "done"}
  <1>0. pc \in [Reqs -> PcLabels]
    BY DEF IInv, TypeOK
  <1>1. ASSUME pc[r] = "cached", Thread(r) \/ Handler(r) PROVE EmitRes(r)
    BY <1>1 DEF Thread, Handler, Start, CallRegister, CallSend, CallReturn, CacheRes,
                Progress, CallAlloc, Return, Panic, At
  <1> QED BY <1>0, <1>1, Fresh, PcMoves

LEMMA OutcomeStep ==
    ASSUME IInv, OutcomeInv, [Next]_vars
    PROVE  OutcomeInv'
  <1> USE HarnessAssumption DEF HarnessAssumption
  <1>0. /\ TypeOK /\ ResInv /\ pc \in [Reqs -> PcLabels]
        /\ idem \in [Keys -> Reqs \cup {None}]
    BY DEF IInv, TypeOK
  <1>1. ASSUME NEW k \in Keys, idem'[k] # None
        PROVE  KeyOf[idem'[k]] = k /\ pc'[idem'[k]] \in {"cached", "done"}
    <2>1. CASE idem'[k] = idem[k]
      BY <1>0, <1>1, <2>1, ReturnedStays DEF OutcomeInv
    <2>2. ASSUME NEW r \in Reqs, CacheRes(r), idem' = [idem EXCEPT ![KeyOf[r]] = r],
                 idem'[k] # idem[k]
          PROVE  KeyOf[idem'[k]] = k /\ pc'[idem'[k]] \in {"cached", "done"}
      <3>1. k = KeyOf[r] /\ idem'[k] = r
        BY <1>0, <2>2
      <3>2. pc'[r] = "cached"
        BY <1>0, <2>2 DEF CacheRes, Goto
      <3> QED BY <3>1, <3>2
    <2> QED BY <2>1, <2>2, IdemMoves
  <1>2. ASSUME NEW i \in DOMAIN out', out'[i].t = "res", pc'[out'[i].id] = "done"
        PROVE  out'[i].by = out'[i].id
    <2>1. CASE i \in DOMAIN out
      <3>1. out'[i] = out[i]
        BY <2>1, OutGrows
      <3>2. Written("res", out[i].id) /\ out[i].id \in Reqs
        BY <1>0, <1>2, <2>1, <3>1 DEF Written, TypeOK, OutFrames
      <3>3. pc[out[i].id] \in {"done", "replayed"}
        BY <1>0, <3>2 DEF ResInv
      <3>4. pc[out[i].id] = "done"
        BY <1>0, <1>2, <3>1, <3>2, <3>3, Fresh, PcMoves
      <3> QED BY <1>2, <2>1, <3>1, <3>4 DEF OutcomeInv
    <2>2. CASE i \notin DOMAIN out
      <3>1. ASSUME NEW f \in OutFrames, Emit(f) PROVE out'[i] = f
        <4>1. i = Len(out) + 1
          BY <1>0, <2>2, <3>1, EmitFacts
        <4> QED BY <1>0, <3>1, <4>1, EmitFacts
      <3>2. ASSUME NEW r \in Reqs, NEW e \in Reqs, ReadReplay, r = Head(stdin).id,
                   Emit(Frame("res", r, e))
            PROVE  FALSE
        <4>1. out'[i].id = r
          BY <3>1, <3>2, FrameTypes DEF Frame
        <4>2. pc'[r] = "replayed"
          BY <1>0, <3>2 DEF ReadReplay
        <4> QED BY <1>2, <4>1, <4>2
      <3>3. ASSUME Emit(Frame("hello", None, None)) PROVE FALSE
        BY <1>2, <3>1, <3>3, FrameTypes DEF Frame
      <3>4. ASSUME NEW r \in Reqs, Emit(Frame("res", r, r)) PROVE out'[i].by = out'[i].id
        BY <3>1, <3>4, FrameTypes DEF Frame
      <3>5. ASSUME NEW r \in Reqs, Emit(Frame("ev", r, r)) PROVE FALSE
        BY <1>2, <3>1, <3>5, FrameTypes DEF Frame
      <3>6. ASSUME NEW r \in Reqs, NEW c \in CmdIds, Emit(Frame("cmd", c, r)) PROVE FALSE
        BY <1>2, <3>1, <3>6, FrameTypes DEF Frame
      <3>7. out' # out
        BY <2>2
      <3> QED BY <3>2, <3>3, <3>4, <3>5, <3>6, <3>7, OutMoves
    <2> QED BY <2>1, <2>2
  <1> QED BY <1>1, <1>2 DEF OutcomeInv

LEMMA OutcomeInit == Init => OutcomeInv
  BY DEF Init, OutcomeInv

-----------------------------------------------------------------------------
(* The refinement mapping. *)

LEMMA AnsweredIs ==
    ASSUME IInv, NEW r \in Reqs, NEW i \in DOMAIN out, out[i].t = "res", out[i].id = r
    PROVE  AnsweredBy(r) = out[i].by
  <1> DEFINE First(j) == /\ out[j].t = "res" /\ out[j].id = r
                         /\ \A n \in 1 .. j - 1 : ~(out[n].t = "res" /\ out[n].id = r)
  <1>1. DOMAIN out = 1 .. Len(out) /\ Len(out) \in Nat
    BY DEF IInv, TypeOK
  <1>2. \A j \in DOMAIN out : out[j].t = "res" /\ out[j].id = r => j = i
    BY <1>1 DEF IInv, ResIsLast
  <1>3. \A j \in DOMAIN out : First(j) <=> j = i
    BY <1>1, <1>2
  <1>4. (CHOOSE j \in DOMAIN out : First(j)) = i
    BY <1>3
  <1>5. Written("res", r)
    BY DEF Written
  <1> QED BY <1>4, <1>5 DEF AnsweredBy

LEMMA AnsweredIsNext ==
    ASSUME IInv', NEW r \in Reqs, NEW i \in DOMAIN out', out'[i].t = "res", out'[i].id = r
    PROVE  AnsweredBy(r)' = out'[i].by
  <1> DEFINE First(j) == /\ out'[j].t = "res" /\ out'[j].id = r
                         /\ \A n \in 1 .. j - 1 : ~(out'[n].t = "res" /\ out'[n].id = r)
  <1>1. DOMAIN out' = 1 .. Len(out') /\ Len(out') \in Nat
    BY DEF IInv, TypeOK
  <1>2. \A j \in DOMAIN out' : out'[j].t = "res" /\ out'[j].id = r => j = i
    BY <1>1 DEF IInv, ResIsLast
  <1>3. \A j \in DOMAIN out' : First(j) <=> j = i
    BY <1>1, <1>2
  <1>4. (CHOOSE j \in DOMAIN out' : First(j)) = i
    BY <1>3
  <1>5. Written("res", r)'
    BY DEF Written
  <1> QED BY <1>4, <1>5 DEF AnsweredBy

\* Who answered a request changes when its res is written.
LEMMA AnsweredStays ==
    ASSUME IInv, IInv', [Next]_vars, NEW r \in Reqs,
           Written("res", r) \/ ~Written("res", r)'
    PROVE  AnsweredBy(r)' = AnsweredBy(r)
  <1>1. CASE Written("res", r)
    <2> PICK i \in DOMAIN out : out[i].t = "res" /\ out[i].id = r
      BY <1>1 DEF Written
    <2>1. i \in DOMAIN out' /\ out'[i] = out[i]
      BY OutGrows
    <2> QED BY <2>1, AnsweredIs, AnsweredIsNext
  <1>2. CASE ~Written("res", r) /\ ~Written("res", r)'
    BY <1>2 DEF AnsweredBy
  <1> QED BY <1>1, <1>2

LEMMA NewAnswer ==
    ASSUME IInv, IInv', NEW r \in Reqs, NEW e \in Reqs, Emit(Frame("res", r, e))
    PROVE  AnsweredBy(r)' = e
  <1>1. /\ Len(out) + 1 \in DOMAIN out' /\ out'[Len(out) + 1] = Frame("res", r, e)
    BY EmitFacts, FrameTypes DEF IInv
  <1> QED BY <1>1, AnsweredIsNext DEF Frame

\* A step that moves no request and no history is no step of the contract.
LEMMA Stutters ==
    ASSUME IInv, IInv', [Next]_vars, retried' = retried,
           \A r \in Reqs : ContractState(r)' = ContractState(r)
    PROVE  UNCHANGED Contract!vars
  <1>1. \A r \in Reqs : (ContractState(r) = "answered" <=> Written("res", r))
    BY DEF ContractState, IInv, ResInv
  <1>2. \A r \in Reqs : (ContractState(r)' = "answered" <=> Written("res", r)')
    BY DEF ContractState, IInv, ResInv
  <1>3. \A r \in Reqs : AnsweredBy(r)' = AnsweredBy(r)
    BY <1>1, <1>2, AnsweredStays
  <1> QED BY <1>3 DEF Contract!vars

\* A step that moves one request: the others stay as they are.
LEMMA MovesOne ==
    ASSUME IInv, IInv', [Next]_vars, NEW r \in Reqs, NEW s, ContractState(r)' = s,
           \A q \in Reqs \ {r} : ContractState(q)' = ContractState(q)
    PROVE  /\ Contract!Become(r, s)
           /\ \A q \in Reqs \ {r} : AnsweredBy(q)' = AnsweredBy(q)
  <1>1. \A q \in Reqs : (ContractState(q) = "answered" <=> Written("res", q))
    BY DEF ContractState, IInv, ResInv
  <1>2. \A q \in Reqs : (ContractState(q)' = "answered" <=> Written("res", q)')
    BY DEF ContractState, IInv, ResInv
  <1>3. \A q \in Reqs \ {r} : AnsweredBy(q)' = AnsweredBy(q)
    BY <1>1, <1>2, AnsweredStays
  <1> QED BY <1>3 DEF Contract!Become

LEMMA OthersStay ==
    ASSUME IInv, NEW r \in Reqs, NEW label, pc' = [pc EXCEPT ![r] = label], sent' = sent
    PROVE  \A q \in Reqs \ {r} : ContractState(q)' = ContractState(q)
  BY DEF IInv, TypeOK, ContractState

LEMMA RefinesAsk ==
    ASSUME IInv, IInv', [Next]_vars, NEW r \in Reqs, CoreReq(r)
    PROVE  Contract!Ask(r)
  <1>1. r \notin sent /\ sent' = sent \cup {r} /\ UNCHANGED <<pc, out>>
    BY DEF CoreReq, Send
  <1>2. pc[r] = "none"
    BY <1>1 DEF IInv, PlaceInv
  <1>3. ContractState(r) = "idle" /\ ContractState(r)' = "asked"
    BY <1>1, <1>2 DEF ContractState
  <1>4. \A q \in Reqs \ {r} : ContractState(q)' = ContractState(q)
    BY <1>1 DEF ContractState
  <1>5. \A q \in Reqs : AnsweredBy(q)' = AnsweredBy(q)
    BY <1>1 DEF AnsweredBy, Written
  <1>6. Contract!Answered(KeyOf[r]) <=> ResOut(KeyOf[r])
    <2>1. \A q \in Reqs : ContractState(q) = "answered" <=> Written("res", q)
      BY DEF ContractState, IInv, ResInv
    <2>2. \A i \in DOMAIN out : out[i].t = "res" => out[i].id \in Reqs
      <3>1. \A i \in DOMAIN out : out[i] \in OutFrames
        BY DEF IInv, TypeOK
      <3> QED BY <3>1 DEF OutFrames
    <2> QED BY <2>1, <2>2 DEF Contract!Answered, ResOut, Written
  <1>7. retried' = IF ResOut(KeyOf[r]) THEN retried \cup {r} ELSE retried
    BY DEF CoreReq
  <1>8. Contract!Become(r, "asked")
    BY <1>3, <1>4, MovesOne
  <1> QED BY <1>3, <1>5, <1>6, <1>7, <1>8 DEF Contract!Ask

LEMMA RefinesReplay ==
    ASSUME IInv, IInv', OutcomeInv, [Next]_vars, ReadReplay
    PROVE  \E r \in Reqs : Contract!Replay(r)
  <1> USE HarnessAssumption DEF HarnessAssumption
  <1>0. pc \in [Reqs -> PcLabels] /\ idem \in [Keys -> Reqs \cup {None}]
    BY DEF IInv, TypeOK
  <1> PICK r \in Reqs : r = Head(stdin).id
    BY Fresh
  <1>1. r \in sent /\ pc[r] = "none"
    BY Fresh
  <1> PICK e \in Reqs : e = idem[KeyOf[r]]
    BY <1>0 DEF ReadReplay
  <1>2. /\ pc' = [pc EXCEPT ![r] = "replayed"] /\ Emit(Frame("res", r, e))
        /\ e # None /\ UNCHANGED <<sent, retried>>
    BY DEF ReadReplay, Read, core
  <1>3. KeyOf[e] = KeyOf[r] /\ pc[e] \in {"cached", "done"}
    BY <1>0, <1>2 DEF OutcomeInv
  <1>4. Contract!HasOutcome(e)
    <2>1. CASE pc[e] = "cached"
      BY <1>3, <2>1 DEF Contract!HasOutcome, ContractState
    <2>2. CASE pc[e] = "done"
      <3> PICK i \in DOMAIN out : out[i].t = "res" /\ out[i].id = e
        BY <1>3, <2>2 DEF IInv, ResInv, Written
      <3>1. AnsweredBy(e) = e
        BY <1>3, <2>2, AnsweredIs DEF OutcomeInv
      <3> QED BY <1>3, <2>2, <3>1 DEF Contract!HasOutcome, ContractState
    <2> QED BY <1>3, <2>1, <2>2
  <1>5. AnsweredBy(r)' = e
    BY <1>1, <1>2, <1>3, NewAnswer
  <1>6. ContractState(r) = "asked" /\ ContractState(r)' = "answered"
    BY <1>0, <1>1, <1>2 DEF ContractState
  <1>7. \A q \in Reqs \ {r} : ContractState(q)' = ContractState(q)
    BY <1>1, <1>2, OthersStay
  <1>8. Contract!Become(r, "answered") /\ \A q \in Reqs \ {r} : AnsweredBy(q)' = AnsweredBy(q)
    BY <1>1, <1>6, <1>7, MovesOne
  <1>9. [q \in Reqs |-> AnsweredBy(q)'] = [[q \in Reqs |-> AnsweredBy(q)] EXCEPT ![r] = e]
    BY <1>5, <1>8
  <1>10. \E x \in Reqs :
           /\ KeyOf[x] = KeyOf[r] /\ Contract!HasOutcome(x)
           /\ [q \in Reqs |-> AnsweredBy(q)'] = [[q \in Reqs |-> AnsweredBy(q)] EXCEPT ![r] = x]
    BY <1>3, <1>4, <1>9
  <1>11. Contract!Become(r, "answered") /\ UNCHANGED retried
    BY <1>2, <1>8
  <1> QED BY <1>6, <1>10, <1>11 DEF Contract!Replay

LEMMA RefinesSpawn ==
    ASSUME IInv, IInv', [Next]_vars, Spawn
    PROVE  \E r \in Reqs : Contract!Execute(r)
  <1>0. pc \in [Reqs -> PcLabels]
    BY DEF IInv, TypeOK
  <1> PICK r \in Reqs : r = cur
    BY Fresh
  <1>1. r \in sent /\ r \notin retried /\ pc[r] = "none"
    BY Fresh
  <1>2. pc' = [pc EXCEPT ![r] = "spawned"] /\ UNCHANGED <<sent, retried, out>>
    BY DEF Spawn, core
  <1>3. ContractState(r) = "asked" /\ ContractState(r)' = "running"
    BY <1>0, <1>1, <1>2 DEF ContractState
  <1>4. \A q \in Reqs \ {r} : ContractState(q)' = ContractState(q)
    BY <1>1, <1>2, OthersStay
  <1>5. Contract!Become(r, "running")
    BY <1>1, <1>3, <1>4, MovesOne
  <1>6. \A q \in Reqs : AnsweredBy(q)' = AnsweredBy(q)
    BY <1>2 DEF AnsweredBy, Written
  <1> QED BY <1>1, <1>2, <1>3, <1>5, <1>6 DEF Contract!Execute

LEMMA RefinesThread ==
    ASSUME IInv, IInv', [Next]_vars, NEW r \in Reqs, Thread(r) \/ Handler(r)
    PROVE  Contract!Next \/ UNCHANGED Contract!vars
  <1>0. UNCHANGED <<sent, retried>> /\ pc \in [Reqs -> PcLabels]
    BY StepFrame DEF IInv, TypeOK
  <1>1. \A q \in Reqs \ {r} : ContractState(q)' = ContractState(q)
    BY <1>0, ThreadMoves, OthersStay DEF IInv
  <1>2. CASE Return(r) \/ Panic(r)
    <2>1. ContractState(r) = "running" /\ ContractState(r)' \in {"returned", "gone"}
      BY <1>0, <1>2 DEF Return, Panic, At, Goto, ContractState
    <2>2. Contract!Become(r, ContractState(r)')
      BY <1>1, MovesOne
    <2>3. \A q \in Reqs : AnsweredBy(q)' = AnsweredBy(q)
      <3>1. out' = out
        BY <1>2 DEF Return, Panic
      <3> QED BY <3>1 DEF AnsweredBy, Written
    <2> QED BY <1>0, <2>1, <2>2, <2>3 DEF Contract!Complete, Contract!Next
  <1>3. CASE EmitRes(r)
    <2>1. ContractState(r) = "returned" /\ ContractState(r)' = "answered"
      BY <1>0, <1>3 DEF EmitRes, At, Goto, ContractState
    <2>2. Contract!Become(r, "answered") /\ \A q \in Reqs \ {r} : AnsweredBy(q)' = AnsweredBy(q)
      BY <1>1, <2>1, MovesOne
    <2>3. AnsweredBy(r)' = r
      BY <1>3, NewAnswer DEF EmitRes
    <2>4. [q \in Reqs |-> AnsweredBy(q)'] = [[q \in Reqs |-> AnsweredBy(q)] EXCEPT ![r] = r]
      BY <2>2, <2>3
    <2> QED BY <1>0, <2>1, <2>2, <2>4 DEF Contract!Answer, Contract!Next
  <1>4. CASE Start(r) \/ CallRegister(r) \/ CallSend(r) \/ CallReturn(r) \/ CacheRes(r)
    <2>1. ContractState(r)' = ContractState(r)
      BY <1>0, <1>4 DEF Start, CallRegister, CallSend, CallReturn, CacheRes, At, Goto,
         ContractState
    <2> QED BY <1>0, <1>1, <2>1, Stutters
  <1>5. CASE Progress(r) \/ CallAlloc(r)
    <2>1. ContractState(r)' = ContractState(r)
      BY <1>0, <1>5 DEF Progress, CallAlloc, At, Goto, ContractState
    <2> QED BY <1>0, <1>1, <2>1, Stutters
  <1> QED
    BY <1>2, <1>3, <1>4, <1>5 DEF Thread, Handler

LEMMA RefinesNext ==
    ASSUME IInv, IInv', OutcomeInv, [Next]_vars
    PROVE  Contract!Next \/ UNCHANGED Contract!vars
  <1>0. UNCHANGED <<pc, retried>> /\ sent' \cap Reqs = sent \cap Reqs
           => UNCHANGED Contract!vars
    <2> SUFFICES ASSUME UNCHANGED <<pc, retried>>, sent' \cap Reqs = sent \cap Reqs
                 PROVE  UNCHANGED Contract!vars
      OBVIOUS
    <2>1. \A r \in Reqs : ContractState(r)' = ContractState(r)
      BY DEF ContractState
    <2> QED BY <2>1, Stutters
  <1>1. CASE UNCHANGED vars
    BY <1>0, <1>1 DEF vars, core
  <1>2. ASSUME NEW r \in Reqs, CoreReq(r) PROVE Contract!Next
    BY <1>2, RefinesAsk DEF Contract!Next
  <1>3. CASE Core /\ \A r \in Reqs : ~CoreReq(r)
    <2>1. UNCHANGED <<pc, retried>> /\ sent' \cap Reqs = sent \cap Reqs
      BY <1>3, SentAssumption
      DEF SentAssumption, Core, CoreReply, CorePush, CoreBad, CoreShutdown, CoreClose,
          Send, core
    <2> QED BY <1>0, <2>1
  <1>4. CASE ReadReplay
    BY <1>4, RefinesReplay DEF Contract!Next
  <1>5. CASE Spawn
    BY <1>5, RefinesSpawn DEF Contract!Next
  <1>6. CASE Reader /\ ~ReadReplay /\ ~Spawn
    BY <1>0, <1>6, ReaderMoves, StepFrame DEF IInv
  <1>7. ASSUME NEW p \in Pushes, OnPush(p) PROVE UNCHANGED Contract!vars
    BY <1>0, <1>7, OnPushFrame
  <1> QED
    BY <1>1, <1>2, <1>3, <1>4, <1>5, <1>6, <1>7, RefinesThread DEF Next, Core

\* A request is answered at most once, by the outcome of an execution of its key,
\* and never executed when its key was answered before it was sent: whatever the
\* threads do, for any number of requests.
THEOREM Implementation == Spec => ImplementsContract
  <1>1. Init => OutcomeInv /\ Contract!Init
    <2> SUFFICES ASSUME Init PROVE Contract!Init
      BY OutcomeInit
    <2>1. \A r \in Reqs : ContractState(r) = "idle" /\ AnsweredBy(r) = None
      BY DEF Init, ContractState, AnsweredBy, Written
    <2> QED BY <2>1 DEF Init, Contract!Init
  <1>2. IInv /\ OutcomeInv /\ [Next]_vars => OutcomeInv'
    BY OutcomeStep
  <1>3. IInv /\ IInv' /\ OutcomeInv /\ [Next]_vars => [Contract!Next]_(Contract!vars)
    BY RefinesNext
  <1> QED
    BY <1>1, <1>2, <1>3, Inductive, PTL DEF Spec, ImplementsContract, Contract!Spec

-----------------------------------------------------------------------------
(* Mediated calls. *)

IsCmd(i) == i \in DOMAIN out /\ out[i].t = "cmd"

\* The latest cmd frame of a request.
LastCmd(i, r) ==
    /\ IsCmd(i) /\ out[i].by = r
    /\ \A j \in DOMAIN out : IsCmd(j) /\ out[j].by = r => j <= i

Calling(r) == pc[r] \in {"register", "send", "waiting"}

\* Ids are given once: a cmd frame has an id below cmdSeq, no other frame has it.
IdInv ==
    /\ \A i \in DOMAIN out : IsCmd(i) => out[i].id < cmdSeq
    /\ \A i, j \in DOMAIN out : IsCmd(i) /\ IsCmd(j) /\ out[i].id = out[j].id => i = j

\* The call a request is in: its id is its own, the cmd frame with it is the
\* latest of the request, and none before it is sent.
InCallInv ==
    /\ \A r \in Reqs : Calling(r) => callId[r] < cmdSeq
    /\ \A r, q \in Reqs : Calling(r) /\ Calling(q) /\ callId[r] = callId[q] => r = q
    /\ \A r \in Reqs, i \in DOMAIN out :
          Calling(r) /\ IsCmd(i) /\ out[i].id = callId[r]
             => pc[r] = "waiting" /\ LastCmd(i, r)
    /\ \A r \in Reqs : pc[r] \in {"register", "send"} => reply[r] = None

\* A reply channel is the one of the call its request is in, and empty.
ChannelInv ==
    \A c \in CmdIds : pending[c] # None =>
        /\ pc[pending[c]] \in {"send", "waiting"} /\ callId[pending[c]] = c
        /\ reply[pending[c]] = None

\* An envelope in the pipe names a cmd frame with its id.
PipeInv ==
    \A i \in DOMAIN stdin : stdin[i].t = "cmdRes" =>
        IsCmd(stdin[i].by) /\ out[stdin[i].by].id = stdin[i].id

ReplyInv == \A r \in Reqs : reply[r] # None => LastCmd(reply[r], r)

CallInv == IdInv /\ InCallInv /\ ChannelInv /\ PipeInv /\ ReplyInv

LEMMA CallInit == Init => CallInv
  BY DEF Init, CallInv, IdInv, InCallInv, ChannelInv, PipeInv, ReplyInv, IsCmd, LastCmd, Calling

LEMMA WireTypes ==
    ASSUME TypeOK
    PROVE  /\ DOMAIN out = 1 .. Len(out) /\ Len(out) \in Nat /\ DOMAIN out \subseteq Nat
           /\ cmdSeq \in Nat /\ CmdIds \subseteq Nat
           /\ pc \in [Reqs -> PcLabels] /\ reply \in [Reqs -> Nat \cup {None}]
           /\ pending \in [CmdIds -> Reqs \cup {None}]
           /\ callId \in [Reqs -> CmdIds \cup {None}]
           /\ \A r \in Reqs : Calling(r) => callId[r] \in CmdIds
           /\ \A i \in DOMAIN out : IsCmd(i) => out[i].id \in CmdIds /\ out[i].by \in Reqs
           /\ \A i \in DOMAIN stdin : stdin[i].t = "cmdRes" => stdin[i].id \in CmdIds
  <1>1. \A i \in DOMAIN out : out[i] \in OutFrames
    BY DEF TypeOK
  <1>2. \A i \in DOMAIN stdin : stdin[i] \in InFrames
    BY DEF TypeOK
  <1>3. /\ pc \in [Reqs -> PcLabels] /\ callId \in [Reqs -> CmdIds \cup {None}]
        /\ \A r \in Reqs : pc[r] \in {"register", "send", "waiting"} => callId[r] # None
    BY DEF TypeOK
  <1>4. /\ DOMAIN out = 1 .. Len(out) /\ Len(out) \in Nat
        /\ cmdSeq \in Nat /\ CmdIds \subseteq Nat
        /\ reply \in [Reqs -> Nat \cup {None}] /\ pending \in [CmdIds -> Reqs \cup {None}]
    BY HarnessAssumption DEF HarnessAssumption, TypeOK, CmdIds
  <1>5. \A i \in DOMAIN out : IsCmd(i) => out[i].id \in CmdIds /\ out[i].by \in Reqs
    BY <1>1 DEF IsCmd, OutFrames
  <1>6. \A i \in DOMAIN stdin : stdin[i].t = "cmdRes" => stdin[i].id \in CmdIds
    BY <1>2 DEF InFrames
  <1> QED BY <1>3, <1>4, <1>5, <1>6 DEF Calling

\* A step that writes no cmd frame leaves the cmd frames as they are.
CmdsStay ==
    /\ \A i : IsCmd(i)' <=> IsCmd(i)
    /\ \A i \in DOMAIN out : out'[i] = out[i]

LEMMA CmdsStayIf ==
    ASSUME TypeOK, out' = out \/ \E f \in OutFrames : Emit(f) /\ f.t # "cmd"
    PROVE  CmdsStay
  <1>1. CASE out' = out
    BY <1>1 DEF CmdsStay, IsCmd
  <1>2. ASSUME NEW f \in OutFrames, Emit(f), f.t # "cmd" PROVE CmdsStay
    <2>1. /\ DOMAIN out' = 1 .. Len(out) + 1 /\ DOMAIN out = 1 .. Len(out)
          /\ Len(out) \in Nat /\ out'[Len(out) + 1] = f
          /\ \A i \in DOMAIN out : out'[i] = out[i]
      BY <1>2, EmitFacts
    <2> QED BY <1>2, <2>1 DEF CmdsStay, IsCmd
  <1> QED BY <1>1, <1>2

LEMMA LastStays ==
    ASSUME CmdsStay, NEW i, NEW r
    PROVE  LastCmd(i, r)' <=> LastCmd(i, r)
  BY DEF CmdsStay, LastCmd, IsCmd

\* Envelopes in the pipe: those that were there, or one for a cmd frame.
PipeGrows ==
    \A i \in DOMAIN stdin' : stdin'[i].t = "cmdRes" =>
        \/ \E j \in DOMAIN stdin : stdin[j] = stdin'[i]
        \/ IsCmd(stdin'[i].by) /\ out[stdin'[i].by].id = stdin'[i].id

LEMMA PipeStep ==
    ASSUME PipeInv, PipeGrows, \A i : IsCmd(i) => IsCmd(i)' /\ out'[i] = out[i]
    PROVE  PipeInv'
  BY DEF PipeInv, PipeGrows

\* A step that touches neither the calls nor the cmd frames.
LEMMA QuietStep ==
    ASSUME TypeOK, CallInv, PipeGrows, CmdsStay, UNCHANGED calls,
           \A r \in Reqs : Calling(r) \/ Calling(r)' => pc'[r] = pc[r]
    PROVE  CallInv'
  <1> USE DEF CallInv, calls
  <1>0. \A i : IsCmd(i) => IsCmd(i)' /\ out'[i] = out[i]
    BY DEF CmdsStay, IsCmd
  <1>1. IdInv'
    BY <1>0 DEF CmdsStay, IdInv, IsCmd
  <1>c. \A r \in Reqs : Calling(r)' <=> Calling(r)
    BY DEF Calling
  <1>2. InCallInv'
    <2>1. \A r \in Reqs : Calling(r)' => callId'[r] < cmdSeq'
      BY <1>c DEF InCallInv
    <2>2. \A r, q \in Reqs : Calling(r)' /\ Calling(q)' /\ callId'[r] = callId'[q] => r = q
      BY <1>c DEF InCallInv
    <2>3. ASSUME NEW r \in Reqs, NEW i \in DOMAIN out', Calling(r)', IsCmd(i)',
                 out'[i].id = callId'[r]
          PROVE  pc'[r] = "waiting" /\ LastCmd(i, r)'
      <3>1. i \in DOMAIN out /\ IsCmd(i) /\ out[i].id = callId[r] /\ Calling(r)
        BY <1>0, <1>c, <2>3 DEF CmdsStay, IsCmd
      <3>2. pc[r] = "waiting" /\ LastCmd(i, r)
        BY <3>1 DEF InCallInv
      <3> QED BY <3>1, <3>2, LastStays
    <2>4. \A r \in Reqs : pc'[r] \in {"register", "send"} => reply'[r] = None
      BY DEF InCallInv, Calling
    <2> QED BY <2>1, <2>2, <2>3, <2>4 DEF InCallInv
  <1>3. ChannelInv'
    BY WireTypes DEF ChannelInv, Calling
  <1>4. PipeInv'
    BY <1>0, PipeStep
  <1>5. ReplyInv'
    BY LastStays DEF ReplyInv
  <1> QED BY <1>1, <1>2, <1>3, <1>4, <1>5

\* What the core writes leaves the pipe sound: it answers cmd frames it has read.
LEMMA SendGrows ==
    ASSUME TypeOK, NEW f \in InFrames, Send(f),
           f.t = "cmdRes" => IsCmd(f.by) /\ out[f.by].id = f.id
    PROVE  PipeGrows
  <1>1. /\ DOMAIN stdin' = 1 .. Len(stdin) + 1 /\ DOMAIN stdin = 1 .. Len(stdin)
        /\ Len(stdin) \in Nat /\ stdin'[Len(stdin) + 1] = f
        /\ \A i \in DOMAIN stdin : stdin'[i] = stdin[i]
    BY SeqFacts DEF TypeOK, Send
  <1>2. \A i \in DOMAIN stdin' : i \in DOMAIN stdin \/ stdin'[i] = f
    BY <1>1
  <1> QED BY <1>1, <1>2 DEF PipeGrows

LEMMA CoreGrows == TypeOK /\ Core => PipeGrows
  <1> SUFFICES ASSUME TypeOK, Core PROVE PipeGrows
    OBVIOUS
  <1>1. ASSUME NEW f \in InFrames, Send(f), f.t # "cmdRes" PROVE PipeGrows
    BY <1>1, SendGrows
  <1>2. ASSUME NEW c \in CmdIds, CoreReply(c) PROVE PipeGrows
    <2>1. PICK i \in DOMAIN out : out[i].t = "cmd" /\ out[i].id = c
                                  /\ Send(Frame("cmdRes", c, i))
      BY <1>2 DEF CoreReply
    <2>2. Frame("cmdRes", c, i) \in InFrames
      BY FrameTypes, WireTypes
    <2> QED BY <2>1, <2>2, SendGrows DEF Frame, IsCmd
  <1>3. CASE CoreClose
    BY <1>3 DEF CoreClose, PipeGrows
  <1>4. ASSUME NEW r \in Reqs, CoreReq(r) PROVE PipeGrows
    BY <1>1, <1>4, FrameTypes DEF CoreReq, Frame
  <1>5. ASSUME NEW p \in Pushes, CorePush(p) PROVE PipeGrows
    BY <1>1, <1>5, FrameTypes DEF CorePush, Frame
  <1>6. ASSUME NEW t \in {"ready", "bad", "notText"}, CoreBad(t) PROVE PipeGrows
    BY <1>1, <1>6, FrameTypes DEF CoreBad, Frame
  <1>7. CASE CoreShutdown
    BY <1>1, <1>7, FrameTypes DEF CoreShutdown, Frame
  <1> QED BY <1>2, <1>3, <1>4, <1>5, <1>6, <1>7 DEF Core

LEMMA ReadGrows ==
    ASSUME TypeOK, stdin' = stdin \/ \E t : Read(t)
    PROVE  PipeGrows
  <1>1. CASE stdin' = stdin
    BY <1>1 DEF PipeGrows
  <1>2. CASE stdin # <<>> /\ stdin' = Tail(stdin)
    BY <1>2, TailFacts DEF TypeOK, PipeGrows
  <1> QED BY <1>1, <1>2 DEF Read

LEMMA CallReadCmdRes ==
    ASSUME TypeOK, CallInv, ReadCmdRes
    PROVE  CallInv'
  <1> USE DEF CallInv
  <1>0. PipeGrows /\ UNCHANGED <<pc, out, cmdSeq, callId>>
    BY ReadGrows DEF ReadCmdRes, Read
  <1>s. CmdsStay
    BY <1>0, CmdsStayIf
  <1>h. /\ 1 \in DOMAIN stdin /\ Head(stdin) = stdin[1] /\ stdin[1].t = "cmdRes"
        /\ stdin[1].id \in CmdIds
    BY HeadTypes DEF ReadCmdRes, Read
  <1>1. CASE pending[stdin[1].id] = None
    <2>1. UNCHANGED calls
      BY <1>0, <1>1, <1>h DEF ReadCmdRes, calls
    <2> QED BY <1>0, <1>s, <2>1, QuietStep
  <1>2. CASE pending[stdin[1].id] # None
    <2> PICK c \in CmdIds : c = stdin[1].id
      BY <1>h
    <2> PICK r \in Reqs : r = pending[c]
      BY <1>2, WireTypes
    <2> PICK i \in DOMAIN out : i = stdin[1].by
      BY <1>h DEF PipeInv, IsCmd
    <2>1. r # None /\ pending' = [pending EXCEPT ![c] = None] /\ reply' = [reply EXCEPT ![r] = i]
      BY <1>2, <1>h DEF ReadCmdRes
    <2>2. IsCmd(i) /\ out[i].id = c
      BY <1>h DEF PipeInv
    <2>3. pc[r] \in {"send", "waiting"} /\ callId[r] = c
      BY <2>1 DEF ChannelInv
    <2>4. pc[r] = "waiting" /\ LastCmd(i, r)
      BY <2>2, <2>3 DEF InCallInv, Calling
    <2>t. /\ pending \in [CmdIds -> Reqs \cup {None}] /\ reply \in [Reqs -> Nat \cup {None}]
      BY WireTypes
    <2>5. IdInv'
      BY <1>0 DEF IdInv, IsCmd
    <2>6. InCallInv'
      <3>1. \A q \in Reqs : pc[q] \in {"register", "send"} => reply'[q] = None
        BY <2>1, <2>4, <2>t DEF InCallInv
      <3> QED BY <1>0, <3>1 DEF InCallInv, IsCmd, LastCmd, Calling
    <2>7. ChannelInv'
      <3> SUFFICES ASSUME NEW d \in CmdIds, pending'[d] # None
                   PROVE  /\ pc'[pending'[d]] \in {"send", "waiting"}
                          /\ callId'[pending'[d]] = d /\ reply'[pending'[d]] = None
        BY DEF ChannelInv
      <3>1. d # c /\ pending'[d] = pending[d]
        BY <2>1, <2>t
      <3>2. pending[d] # r
        BY <2>3, <3>1 DEF ChannelInv
      <3> QED BY <1>0, <2>1, <2>t, <3>1, <3>2 DEF ChannelInv
    <2>8. PipeInv'
      BY <1>0, <1>s, PipeStep DEF CmdsStay, IsCmd
    <2>9. ReplyInv'
      BY <1>s, <2>1, <2>4, <2>t, LastStays DEF ReplyInv
    <2> QED BY <2>5, <2>6, <2>7, <2>8, <2>9
  <1> QED BY <1>1, <1>2

LEMMA CallCallAlloc ==
    ASSUME TypeOK, CallInv, NEW r \in Reqs, CallAlloc(r)
    PROVE  CallInv'
  <1> USE DEF CallInv
  <1>0. /\ pc[r] = "running" /\ pc' = [pc EXCEPT ![r] = "register"]
        /\ callId' = [callId EXCEPT ![r] = cmdSeq] /\ cmdSeq' = cmdSeq + 1
        /\ reply' = [reply EXCEPT ![r] = None] /\ UNCHANGED <<stdin, out, pending>>
    BY DEF CallAlloc, At, Goto
  <1>t. /\ pc \in [Reqs -> PcLabels] /\ reply \in [Reqs -> Nat \cup {None}]
        /\ callId \in [Reqs -> CmdIds \cup {None}] /\ cmdSeq \in Nat
        /\ pending \in [CmdIds -> Reqs \cup {None}] /\ CmdIds \subseteq Nat
        /\ \A i \in DOMAIN out : IsCmd(i) => out[i].id \in CmdIds
        /\ \A q \in Reqs : Calling(q) => callId[q] \in CmdIds
    BY WireTypes
  <1>c. /\ \A q \in Reqs \ {r} : /\ pc'[q] = pc[q] /\ callId'[q] = callId[q]
                                 /\ reply'[q] = reply[q] /\ (Calling(q)' <=> Calling(q))
        /\ pc'[r] = "register" /\ callId'[r] = cmdSeq /\ reply'[r] = None
    BY <1>0, <1>t DEF Calling
  <1>s. CmdsStay
    BY <1>0, CmdsStayIf
  <1>i. \A i : IsCmd(i)' <=> IsCmd(i)
    BY <1>s DEF CmdsStay
  <1>n. \A d \in CmdIds : d < cmdSeq => d < cmdSeq'
    BY <1>0, <1>t
  <1>1. IdInv'
    <2>1. \A i : IsCmd(i)' => out'[i].id < cmdSeq'
      BY <1>0, <1>t, <1>i, <1>n DEF IdInv, IsCmd
    <2>2. \A i, j \in DOMAIN out' : IsCmd(i)' /\ IsCmd(j)' /\ out'[i].id = out'[j].id => i = j
      BY <1>0, <1>i DEF IdInv
    <2> QED BY <2>1, <2>2 DEF IdInv
  <1>2. InCallInv'
    <2>1. \A q \in Reqs : Calling(q)' => callId'[q] < cmdSeq'
      <3>1. callId'[r] < cmdSeq'
        BY <1>0, <1>c, <1>t
      <3>2. \A q \in Reqs \ {r} : Calling(q)' => callId'[q] < cmdSeq'
        BY <1>c, <1>t, <1>n DEF InCallInv
      <3> QED BY <3>1, <3>2
    <2>2. \A p, q \in Reqs : Calling(p)' /\ Calling(q)' /\ callId'[p] = callId'[q] => p = q
      <3>1. \A q \in Reqs \ {r} : Calling(q)' => callId'[q] # callId'[r]
        BY <1>c, <1>t DEF InCallInv
      <3>2. \A p, q \in Reqs \ {r} : Calling(p)' /\ Calling(q)' /\ callId'[p] = callId'[q] => p = q
        BY <1>c DEF InCallInv
      <3> QED BY <3>1, <3>2
    <2>3. ASSUME NEW q \in Reqs, NEW i \in DOMAIN out', Calling(q)', IsCmd(i)',
                 out'[i].id = callId'[q]
          PROVE  pc'[q] = "waiting" /\ LastCmd(i, q)'
      <3>1. i \in DOMAIN out /\ IsCmd(i) /\ out[i].id = callId'[q]
        BY <1>0, <1>i, <2>3
      <3>2. CASE q = r
        <4>1. out[i].id < cmdSeq
          BY <3>1 DEF IdInv
        <4> QED BY <1>c, <1>t, <3>1, <3>2, <4>1
      <3>3. CASE q # r
        BY <1>c, <1>s, <2>3, <3>1, <3>3, LastStays DEF InCallInv
      <3> QED BY <3>2, <3>3
    <2>4. \A q \in Reqs : pc'[q] \in {"register", "send"} => reply'[q] = None
      BY <1>c DEF InCallInv
    <2> QED BY <2>1, <2>2, <2>3, <2>4 DEF InCallInv
  <1>3. ChannelInv'
    <2> SUFFICES ASSUME NEW d \in CmdIds, pending[d] # None
                 PROVE  /\ pc'[pending[d]] \in {"send", "waiting"}
                        /\ callId'[pending[d]] = d /\ reply'[pending[d]] = None
      BY <1>0 DEF ChannelInv
    <2>1. pending[d] \in Reqs \ {r}
      BY <1>0, <1>t DEF ChannelInv
    <2> QED BY <1>c, <2>1 DEF ChannelInv
  <1>4. PipeInv'
    BY <1>0, <1>s, ReadGrows, PipeStep DEF CmdsStay, IsCmd
  <1>5. ReplyInv'
    BY <1>c, <1>s, LastStays DEF ReplyInv
  <1> QED BY <1>1, <1>2, <1>3, <1>4, <1>5

LEMMA CallCallRegister ==
    ASSUME TypeOK, CallInv, NEW r \in Reqs, CallRegister(r)
    PROVE  CallInv'
  <1> USE DEF CallInv
  <1>0. /\ pc[r] = "register" /\ pc' = [pc EXCEPT ![r] = "send"]
        /\ pending' = [pending EXCEPT ![callId[r]] = r]
        /\ UNCHANGED <<stdin, out, callId, reply, cmdSeq>>
    BY DEF CallRegister, At, Goto
  <1>t. pc \in [Reqs -> PcLabels] /\ pending \in [CmdIds -> Reqs \cup {None}]
    BY WireTypes
  <1>c. \A q \in Reqs : /\ Calling(q)' <=> Calling(q)
                        /\ q # r => pc'[q] = pc[q]
    BY <1>0, <1>t DEF Calling
  <1>r. Calling(r) /\ pc'[r] = "send" /\ reply[r] = None
    BY <1>0, <1>t DEF Calling, InCallInv
  <1>s. CmdsStay
    BY <1>0, CmdsStayIf
  <1>1. IdInv'
    BY <1>0 DEF IdInv, IsCmd
  <1>2. InCallInv'
    <2>1. \A q \in Reqs : Calling(q)' => callId'[q] < cmdSeq'
      BY <1>0, <1>c DEF InCallInv
    <2>2. \A p, q \in Reqs : Calling(p)' /\ Calling(q)' /\ callId'[p] = callId'[q] => p = q
      BY <1>0, <1>c DEF InCallInv
    <2>3. ASSUME NEW q \in Reqs, NEW i \in DOMAIN out', Calling(q)', IsCmd(i)',
                 out'[i].id = callId'[q]
          PROVE  pc'[q] = "waiting" /\ LastCmd(i, q)'
      <3>1. i \in DOMAIN out /\ IsCmd(i) /\ out[i].id = callId[q] /\ Calling(q)
        BY <1>0, <1>c, <2>3 DEF IsCmd
      <3>2. pc[q] = "waiting" /\ LastCmd(i, q)
        BY <3>1 DEF InCallInv
      <3>3. q # r
        BY <1>0, <3>2
      <3> QED BY <1>c, <1>s, <3>2, <3>3, LastStays
    <2>4. \A q \in Reqs : pc'[q] \in {"register", "send"} => reply'[q] = None
      BY <1>0, <1>c, <1>r DEF InCallInv
    <2> QED BY <2>1, <2>2, <2>3, <2>4 DEF InCallInv
  <1>3. ChannelInv'
    <2> SUFFICES ASSUME NEW d \in CmdIds, pending'[d] # None
                 PROVE  /\ pc'[pending'[d]] \in {"send", "waiting"}
                        /\ callId'[pending'[d]] = d /\ reply'[pending'[d]] = None
      BY DEF ChannelInv
    <2>1. CASE d = callId[r]
      BY <1>0, <1>r, <1>t, <2>1
    <2>2. CASE d # callId[r]
      <3>1. pending'[d] = pending[d] /\ pending[d] \in Reqs \ {r}
        BY <1>0, <1>t, <2>2 DEF ChannelInv
      <3> QED BY <1>0, <1>c, <3>1 DEF ChannelInv
    <2> QED BY <2>1, <2>2
  <1>4. PipeInv'
    BY <1>0, <1>s, ReadGrows, PipeStep DEF CmdsStay, IsCmd
  <1>5. ReplyInv'
    BY <1>0, <1>s, LastStays DEF ReplyInv
  <1> QED BY <1>1, <1>2, <1>3, <1>4, <1>5

LEMMA CallCallSend ==
    ASSUME TypeOK, CallInv, NEW r \in Reqs, CallSend(r)
    PROVE  CallInv'
  <1> USE DEF CallInv
  <1>t. pc \in [Reqs -> PcLabels] /\ callId[r] \in CmdIds
        /\ pending \in [CmdIds -> Reqs \cup {None}]
    BY WireTypes DEF CallSend, At, Calling
  <1> PICK c \in CmdIds : c = callId[r]
    BY <1>t
  <1>0. /\ pc[r] = "send" /\ pc' = [pc EXCEPT ![r] = "waiting"]
        /\ Emit(Frame("cmd", c, r))
        /\ UNCHANGED <<stdin, pending, callId, reply, cmdSeq>>
    BY DEF CallSend, At, Goto, calls
  <1> PICK n \in Nat : n = Len(out) + 1
    BY WireTypes
  <1>e. /\ DOMAIN out' = 1 .. n /\ DOMAIN out = 1 .. Len(out) /\ Len(out) \in Nat
        /\ out'[n].t = "cmd" /\ out'[n].id = c /\ out'[n].by = r
        /\ \A i \in DOMAIN out : out'[i] = out[i]
    BY <1>0, EmitFacts, FrameTypes DEF Frame
  <1>i. \A i : IsCmd(i)' <=> IsCmd(i) \/ i = n
    BY <1>e DEF IsCmd
  <1>k. \A i : IsCmd(i) => i \in DOMAIN out /\ i # n /\ i <= n /\ out'[i] = out[i]
    BY <1>e DEF IsCmd
  <1>c. \A q \in Reqs : /\ Calling(q)' <=> Calling(q)
                        /\ q # r => pc'[q] = pc[q]
    BY <1>0, <1>t DEF Calling
  <1>r. /\ Calling(r) /\ pc'[r] = "waiting" /\ reply[r] = None
        /\ \A i : IsCmd(i) => out[i].id # c
    <2>1. Calling(r) /\ pc'[r] = "waiting" /\ reply[r] = None
      BY <1>0, <1>t DEF Calling, InCallInv
    <2>2. ASSUME NEW i, IsCmd(i), out[i].id = c PROVE FALSE
      <3>1. i \in DOMAIN out
        BY <2>2 DEF IsCmd
      <3>2. pc[r] = "waiting"
        BY <2>1, <2>2, <3>1 DEF InCallInv
      <3> QED BY <1>0, <3>2
    <2> QED BY <2>1, <2>2
  <1>l. \A q \in Reqs \ {r} : \A i : LastCmd(i, q) => LastCmd(i, q)'
    BY <1>e, <1>i, <1>k DEF LastCmd
  <1>m. LastCmd(n, r)'
    BY <1>e, <1>i, <1>k DEF LastCmd
  <1>1. IdInv'
    <2>1. c < cmdSeq
      BY <1>r DEF InCallInv
    <2>2. \A i \in DOMAIN out' : IsCmd(i)' => out'[i].id < cmdSeq'
      BY <1>0, <1>e, <1>i, <1>k, <2>1 DEF IdInv
    <2>3. ASSUME NEW i \in DOMAIN out', NEW j \in DOMAIN out', IsCmd(i)', IsCmd(j)',
                 out'[i].id = out'[j].id
          PROVE  i = j
      BY <1>e, <1>i, <1>k, <1>r, <2>3 DEF IdInv
    <2> QED BY <2>2, <2>3 DEF IdInv
  <1>2. InCallInv'
    <2>1. \A q \in Reqs : Calling(q)' => callId'[q] < cmdSeq'
      BY <1>0, <1>c DEF InCallInv
    <2>2. \A p, q \in Reqs : Calling(p)' /\ Calling(q)' /\ callId'[p] = callId'[q] => p = q
      BY <1>0, <1>c DEF InCallInv
    <2>3. ASSUME NEW q \in Reqs, NEW i \in DOMAIN out', Calling(q)', IsCmd(i)',
                 out'[i].id = callId'[q]
          PROVE  pc'[q] = "waiting" /\ LastCmd(i, q)'
      <3>1. CASE i = n
        <4>1. Calling(q) /\ callId[q] = callId[r]
          BY <1>0, <1>c, <1>e, <2>3, <3>1
        <4>2. q = r
          BY <1>r, <4>1 DEF InCallInv
        <4> QED BY <1>m, <1>r, <3>1, <4>2
      <3>2. CASE i # n
        <4>1. IsCmd(i) /\ i \in DOMAIN out /\ out[i].id = callId[q] /\ Calling(q)
          BY <1>0, <1>c, <1>i, <1>k, <2>3, <3>2
        <4>2. q # r
          BY <1>r, <4>1
        <4> QED BY <1>c, <1>l, <4>1, <4>2 DEF InCallInv
      <3> QED BY <3>1, <3>2
    <2>4. \A q \in Reqs : pc'[q] \in {"register", "send"} => reply'[q] = None
      BY <1>0, <1>c, <1>r DEF InCallInv
    <2> QED BY <2>1, <2>2, <2>3, <2>4 DEF InCallInv
  <1>3. ChannelInv'
    <2>1. \A d \in CmdIds : pending[d] # None =>
             pending[d] \in Reqs /\ pc'[pending[d]] \in {"send", "waiting"}
      BY <1>c, <1>r, <1>t DEF ChannelInv
    <2> QED BY <1>0, <2>1 DEF ChannelInv
  <1>4. PipeInv'
    <2>1. PipeGrows
      BY <1>0, ReadGrows
    <2>2. \A i : IsCmd(i) => IsCmd(i)' /\ out'[i] = out[i]
      BY <1>i, <1>k
    <2> QED BY <2>1, <2>2, PipeStep
  <1>5. ReplyInv'
    BY <1>0, <1>l, <1>r DEF ReplyInv
  <1> QED BY <1>1, <1>2, <1>3, <1>4, <1>5

LEMMA CallCallReturn ==
    ASSUME TypeOK, CallInv, NEW r \in Reqs, CallReturn(r)
    PROVE  CallInv'
  <1> USE DEF CallInv
  <1>0. /\ pc[r] = "waiting" /\ pc' = [pc EXCEPT ![r] = "running"] /\ reply[r] # None
        /\ UNCHANGED <<stdin, out, callId, reply, cmdSeq, pending>>
    BY DEF CallReturn, At, Goto, calls
  <1>t. pc \in [Reqs -> PcLabels] /\ pending \in [CmdIds -> Reqs \cup {None}]
    BY WireTypes
  <1>c. /\ \A q \in Reqs : q # r => pc'[q] = pc[q]
        /\ \A q \in Reqs : Calling(q)' => Calling(q) /\ q # r
    BY <1>0, <1>t DEF Calling
  <1>s. CmdsStay
    BY <1>0, CmdsStayIf
  <1>1. IdInv'
    BY <1>0 DEF IdInv, IsCmd
  <1>2. InCallInv'
    <2>1. \A q \in Reqs : Calling(q)' => callId'[q] < cmdSeq'
      BY <1>0, <1>c DEF InCallInv
    <2>2. \A p, q \in Reqs : Calling(p)' /\ Calling(q)' /\ callId'[p] = callId'[q] => p = q
      BY <1>0, <1>c DEF InCallInv
    <2>3. ASSUME NEW q \in Reqs, NEW i \in DOMAIN out', Calling(q)', IsCmd(i)',
                 out'[i].id = callId'[q]
          PROVE  pc'[q] = "waiting" /\ LastCmd(i, q)'
      <3>1. i \in DOMAIN out /\ IsCmd(i) /\ out[i].id = callId[q] /\ Calling(q)
        BY <1>0, <1>c, <2>3 DEF IsCmd
      <3> QED BY <1>c, <1>s, <2>3, <3>1, LastStays DEF InCallInv
    <2>4. \A q \in Reqs : pc'[q] \in {"register", "send"} => reply'[q] = None
      BY <1>0, <1>c, <1>t DEF InCallInv
    <2> QED BY <2>1, <2>2, <2>3, <2>4 DEF InCallInv
  <1>3. ChannelInv'
    <2>1. \A d \in CmdIds : pending[d] # None => pending[d] \in Reqs \ {r}
      BY <1>0, <1>t DEF ChannelInv
    <2> QED BY <1>0, <1>c, <2>1 DEF ChannelInv
  <1>4. PipeInv'
    BY <1>0, <1>s, ReadGrows, PipeStep DEF CmdsStay, IsCmd
  <1>5. ReplyInv'
    BY <1>0, <1>s, LastStays DEF ReplyInv
  <1> QED BY <1>1, <1>2, <1>3, <1>4, <1>5

\* All other steps write no cmd frame and leave the calls alone.
LEMMA CallStep ==
    ASSUME IInv, CallInv, [Next]_vars
    PROVE  CallInv'
  <1>0. TypeOK /\ pc \in [Reqs -> PcLabels]
    BY DEF IInv, TypeOK
  <1>1. CASE UNCHANGED vars
    <2>1. PipeGrows /\ CmdsStay
      BY <1>0, <1>1, ReadGrows, CmdsStayIf DEF vars
    <2> QED BY <1>0, <1>1, <2>1, QuietStep DEF vars
  <1>2. CASE Core
    <2>1. UNCHANGED <<pc, out, calls>>
      BY <1>2 DEF Core, CoreReq, CoreReply, CorePush, CoreBad, CoreShutdown, CoreClose, Send
    <2>2. PipeGrows /\ CmdsStay
      BY <1>0, <1>2, <2>1, CoreGrows, CmdsStayIf
    <2> QED BY <1>0, <2>1, <2>2, QuietStep
  <1>3. CASE Reader /\ ~ReadCmdRes
    <2>1. UNCHANGED calls /\ (stdin' = stdin \/ \E t : Read(t))
      BY <1>3 DEF Reader, Hello, ReadSkip, ReadShutdown, ReadEof, ReadPush, ReadReplay,
         ReadMiss, Spawn, Exit, Read
    <2>2. \A r \in Reqs : Calling(r) \/ Calling(r)' => pc'[r] = pc[r]
      <3>1. CASE pc' = pc
        BY <3>1
      <3>2. CASE ReadReplay
        <4>1. Head(stdin).id \in Reqs /\ pc[Head(stdin).id] = "none"
              /\ pc' = [pc EXCEPT ![Head(stdin).id] = "replayed"]
          BY <3>2, Fresh DEF ReadReplay
        <4> QED BY <1>0, <4>1 DEF Calling
      <3>3. CASE Spawn
        <4>1. cur \in Reqs /\ pc[cur] = "none" /\ pc' = [pc EXCEPT ![cur] = "spawned"]
          BY <3>3, Fresh DEF Spawn
        <4> QED BY <1>0, <4>1 DEF Calling
      <3> QED BY <1>0, <1>3, <3>1, <3>2, <3>3, ReaderMoves
    <2>3. CmdsStay
      <3>1. CASE ReadReplay
        <4> PICK r \in Reqs, e \in Reqs : Emit(Frame("res", r, e))
          <5>1. Head(stdin).id \in Reqs
            BY <3>1, Fresh
          <5>2. idem[KeyOf[Head(stdin).id]] \in Reqs
            BY <1>0, <3>1, <5>1, HarnessAssumption DEF HarnessAssumption, TypeOK, ReadReplay
          <5> QED BY <3>1, <5>1, <5>2 DEF ReadReplay
        <4> QED BY <1>0, CmdsStayIf, FrameTypes DEF Frame
      <3>2. CASE Spawn
        BY <1>0, <3>2, CmdsStayIf DEF Spawn
      <3>3. CASE out' = out \/ Emit(Frame("hello", None, None))
        BY <1>0, <3>3, CmdsStayIf, FrameTypes DEF Frame
      <3> QED BY <1>0, <1>3, <3>1, <3>2, <3>3, ReaderMoves
    <2>4. PipeGrows
      BY <1>0, <2>1, ReadGrows
    <2> QED BY <1>0, <2>1, <2>2, <2>3, <2>4, QuietStep
  <1>4. ASSUME NEW r \in Reqs,
               \/ Start(r) \/ CacheRes(r) \/ EmitRes(r) \/ Progress(r)
               \/ Return(r) \/ Panic(r)
        PROVE  CallInv'
    <2>1. UNCHANGED <<stdin, calls>>
      BY <1>4 DEF Start, CacheRes, EmitRes, Progress, Return, Panic
    <2>2. \A q \in Reqs : Calling(q) \/ Calling(q)' => pc'[q] = pc[q]
      BY <1>0, <1>4 DEF Start, CacheRes, EmitRes, Progress, Return, Panic, At, Goto, Calling
    <2>3. CmdsStay
      <3>1. \/ out' = out \/ Emit(Frame("res", r, r)) \/ Emit(Frame("ev", r, r))
        BY <1>4 DEF Start, CacheRes, EmitRes, Progress, Return, Panic
      <3> QED BY <1>0, <3>1, CmdsStayIf, FrameTypes DEF Frame
    <2>4. PipeGrows
      BY <1>0, <2>1, ReadGrows
    <2> QED BY <1>0, <2>1, <2>2, <2>3, <2>4, QuietStep
  <1>5. ASSUME NEW p \in Pushes, OnPush(p) PROVE CallInv'
    <2>1. UNCHANGED <<stdin, pc, out, calls>>
      BY <1>5 DEF OnPush
    <2>2. PipeGrows /\ CmdsStay
      BY <1>0, <2>1, ReadGrows, CmdsStayIf
    <2> QED BY <1>0, <2>1, <2>2, QuietStep
  <1> QED
    BY <1>0, <1>1, <1>2, <1>3, <1>4, <1>5, CallReadCmdRes, CallCallAlloc,
       CallCallRegister, CallCallSend, CallCallReturn
    DEF Next, Thread, Handler

\* What a mediated call returns is the envelope the core sent for that call,
\* for any number of requests, calls and duplicated replies.
THEOREM OwnReplies == Spec => []CallGetsItsOwnReply
  <1>1. IInv /\ CallInv /\ [Next]_vars => CallInv'
    BY CallStep
  <1>2. CallInv => CallGetsItsOwnReply
    BY DEF CallInv, ReplyInv, LastCmd, IsCmd, CallGetsItsOwnReply
  <1> QED BY <1>1, <1>2, CallInit, Inductive, PTL DEF Spec
=============================================================================
