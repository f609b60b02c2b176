------------------------- MODULE RegistryTrust_proofs -------------------------
(***************************************************************************)
(* Theorems about RegistryTrust for every set of releases, pins, builders, *)
(* clients and bounds: the walk certifies only what is closed and refuses  *)
(* only what is at fault, the mark of a client keeps it on one line of     *)
(* indices, and what it accepts can be resolved.                           *)
(*                                                                         *)
(* VerifiedIsClosed holds because visit keeps, for every call that has not *)
(* returned, the pins before its loop variable settled, and because a      *)
(* release that is settled stays so: a call ends with a key that no other  *)
(* call and no visited release has (Calls, Chain).                         *)
(*                                                                         *)
(* What an index reaches is the least closed set of references that holds  *)
(* its roots (ReachIsLeast).  An accepted index is in the settled ones,    *)
(* which are such a set; a call and a visited release are in it, so that a *)
(* refusal names a fault of it (SeenInv), a cycle because no documents     *)
(* can pin one another round (CycleIsTwo).                                 *)
(***************************************************************************)
EXTENDS RegistryTrust, SequenceTheorems, TLAPS

Stored == Docs \cup Junk \cup {None}

Frames == [ref : Refs, doc : Docs \cup {None}, next : Nat \ {0}]

\* The variables of the walk and the shelf it reads have their types.
WalkTyped ==
    /\ shelf \in [Keys -> Stored] /\ memo \in [Kinds \X Keys -> Stored]
    /\ wish \in Seq(Keys) /\ roots \in Seq(Refs) /\ Len(roots) <= Len(wish)
    /\ verdict = "resolving" => Len(roots) < Len(wish)
    /\ cursor \in 1 .. Len(roots) + 1
    /\ stack \in Seq(Frames) /\ done \in [Keys -> Docs \cup {None}]
    /\ verdict \in Refusals \cup {"unread", "idle", "resolving", "running", "ok"}

\* A call of visit works on a key no other call and no visited release has, and
\* has read what it was to read when it goes on to the pins.
Calls ==
    /\ \A i \in 1 .. Len(stack) :
          /\ done[stack[i].ref.key] = None
          /\ stack[i].doc = None => stack[i].next = 1
          /\ stack[i].doc # None =>
                Names(stack[i].doc, stack[i].ref) /\ stack[i].doc = stack[i].ref.doc
    /\ \A i, j \in 1 .. Len(stack) : i # j => stack[i].ref.key # stack[j].ref.key

\* The pins a call has left behind are settled, and it is at the pin of the
\* call above it.
Chain ==
    /\ \A i \in 1 .. Len(stack) : stack[i].doc # None =>
          \A n \in 1 .. Len(stack[i].doc.deps) :
              n < stack[i].next => Settled(stack[i].doc.deps[n])
    /\ \A i \in 1 .. Len(stack) - 1 :
          /\ stack[i].doc # None /\ stack[i].next <= Len(stack[i].doc.deps)
          /\ stack[i + 1].ref = stack[i].doc.deps[stack[i].next]
    /\ stack # <<>> => cursor <= Len(roots) /\ stack[1].ref = roots[cursor]

\* The roots left behind are settled, and so is what a visited release pins.
Closed ==
    /\ \A i \in 1 .. Len(roots) : i < cursor => Settled(roots[i])
    /\ \A k \in Keys : done[k] # None =>
          /\ done[k].key = k
          /\ \A n \in 1 .. Len(done[k].deps) : Settled(done[k].deps[n])
    /\ verdict = "ok" => cursor > Len(roots)

ClosureInv == WalkTyped /\ Calls /\ Chain /\ Closed

\* Settled for the visited releases of either end of a step.
SettledIn(visited, ref) == visited[ref.key] = ref.doc /\ visited[ref.key].kind = ref.kind

\* Fresh is what a walk begins with, a refusal leaves, and an index taken leaves.
Fresh ==
    /\ cursor = 1 /\ stack = <<>> /\ done = [k \in Keys |-> None] /\ memo = Unread

-----------------------------------------------------------------------------
(* Facts about the data. *)

LEMMA DocFacts ==
    ASSUME NEW d \in Docs
    PROVE  d # None /\ d.key \in Keys /\ d.kind \in Kinds /\ d.deps \in Seq(Refs)
  BY ClosureAssumption DEF ClosureAssumption

LEMMA RefFacts ==
    ASSUME NEW r \in Refs
    PROVE  r.kind \in Kinds /\ r.key \in Keys /\ r.doc \in Docs \cup Junk /\ r.doc # None
  BY ClosureAssumption DEF ClosureAssumption, Refs

\* A pin of a document is a reference.
LEMMA PinFacts ==
    ASSUME NEW d \in Docs, NEW n \in 1 .. Len(d.deps)
    PROVE  d.deps[n] \in Refs
  BY DocFacts

\* Nothing that was visited is lost when a key that had no document gets one.
LEMMA SettledGrows ==
    ASSUME NEW r \in Refs, NEW k \in Keys, NEW d \in Docs,
           done \in [Keys -> Docs \cup {None}], done[k] = None,
           done' = [done EXCEPT ![k] = d], SettledIn(done, r)
    PROVE  SettledIn(done', r)
  <1>1. r.key \in Keys /\ r.doc # None
    BY RefFacts
  <1>2. done[r.key] # None
    BY <1>1 DEF SettledIn
  <1>3. r.key # k
    BY <1>2
  <1> QED BY <1>1, <1>3 DEF SettledIn

LEMMA FreshIsInv ==
    ASSUME WalkTyped', Fresh', roots' \in Seq(Refs), verdict' # "ok"
    PROVE  ClosureInv'
  <1>1. Len(stack') = 0 /\ stack' = <<>>
    BY DEF Fresh
  <1>2. Calls' /\ Chain'
    BY <1>1 DEF Calls, Chain
  <1>3. Closed'
    BY DEF Closed, Fresh
  <1> QED BY <1>2, <1>3 DEF ClosureInv

LEMMA UnreadTyped == Unread \in [Kinds \X Keys -> Stored]
  BY DEF Unread, Stored

\* A command that refuses keeps nothing but its roots.
LEMMA RefuseKeeps ==
    ASSUME ClosureInv, NEW why \in Refusals \cup {"unread"}, Refuse(why)
    PROVE  ClosureInv'
  <1>1. Fresh' /\ roots' = roots /\ wish' = wish /\ shelf' = shelf /\ verdict' = why
    BY DEF Refuse, Fresh, Keep, store, Unread
  <1>2. WalkTyped
    BY DEF ClosureInv
  <1>3. WalkTyped'
    <2>1. why # "resolving" /\ why # "ok"
      BY DEF Refusals
    <2>2. verdict' \in Refusals \cup {"unread", "idle", "resolving", "running", "ok"}
      BY <1>1
    <2>3. stack' \in Seq(Frames) /\ done' \in [Keys -> Docs \cup {None}]
      BY <1>1 DEF Fresh
    <2>4. cursor' \in 1 .. Len(roots') + 1
      BY <1>1, <1>2 DEF Fresh, WalkTyped
    <2> QED BY <1>1, <1>2, <2>1, <2>2, <2>3, <2>4, UnreadTyped DEF WalkTyped, Fresh
  <1> QED BY <1>1, <1>2, <1>3, FreshIsInv DEF WalkTyped, Refusals

\* While the variables of the walk stay, so does what it knows.
LEMMA WalkStays ==
    ASSUME ClosureInv, UNCHANGED walk, shelf' \in [Keys -> Stored]
    PROVE  ClosureInv'
  <1>1. WalkTyped'
    BY DEF ClosureInv, WalkTyped, walk
  <1>2. Calls'
    BY DEF ClosureInv, Calls, walk
  <1>3. Chain'
    BY DEF ClosureInv, Chain, Settled, walk
  <1>4. Closed'
    BY DEF ClosureInv, Closed, Settled, walk
  <1> QED BY <1>1, <1>2, <1>3, <1>4 DEF ClosureInv

-----------------------------------------------------------------------------
(* A call of visit returns: the loop of its caller goes on.                  *)

LEMMA AdvancedFacts ==
    ASSUME NEW f \in Seq(Frames)
    PROVE  /\ Advanced(f) \in Seq(Frames) /\ Len(Advanced(f)) = Len(f)
           /\ \A i \in 1 .. Len(f) :
                 /\ Advanced(f)[i].ref = f[i].ref /\ Advanced(f)[i].doc = f[i].doc
                 /\ i # Len(f) => Advanced(f)[i].next = f[i].next
           /\ f # <<>> => Advanced(f)[Len(f)].next = f[Len(f)].next + 1
  <1>1. CASE f = <<>>
    BY <1>1 DEF Advanced
  <1>2. CASE f # <<>>
    <2> DEFINE n == Len(f)
    <2>1. n \in 1 .. Len(f) /\ f[n] \in Frames
      BY <1>2
    <2>2. Advanced(f) = [f EXCEPT ![n] = [f[n] EXCEPT !.next = f[n].next + 1]]
      BY <1>2 DEF Advanced
    <2>3. [f[n] EXCEPT !.next = f[n].next + 1] \in Frames
      BY <2>1 DEF Frames
    <2>4. \A i \in 1 .. Len(f) : f[i] \in Frames
      OBVIOUS
    <2> QED BY <1>2, <2>1, <2>2, <2>3, <2>4 DEF Frames
  <1> QED BY <1>1, <1>2

\* Pending(f): the reference the caller on top of the calls f is at.
Pending(f) == IF f = <<>> THEN roots[cursor] ELSE f[Len(f)].doc.deps[f[Len(f)].next]

\* A caller is at one.
AtOne(f) ==
    IF f = <<>> THEN cursor <= Len(roots)
    ELSE f[Len(f)].doc # None /\ f[Len(f)].next <= Len(f[Len(f)].doc.deps)

LEMMA Returned ==
    ASSUME ClosureInv, NEW f \in Seq(Frames), Len(f) <= Len(stack),
           \A i \in 1 .. Len(f) : f[i] = stack[i],
           AtOne(f), NEW r \in Refs, r = Pending(f), SettledIn(done', r),
           \A q \in Refs : SettledIn(done, q) => SettledIn(done', q),
           \A i \in 1 .. Len(f) : done'[f[i].ref.key] = None,
           stack' = Advanced(f), cursor' = CursorAfter(f), roots' = roots
    PROVE  /\ stack' \in Seq(Frames) /\ cursor' \in 1 .. Len(roots') + 1
           /\ Calls' /\ Chain'
           /\ \A i \in 1 .. Len(roots') : i < cursor' => SettledIn(done', roots'[i])
  <1>1. /\ stack' \in Seq(Frames) /\ Len(stack') = Len(f) /\ Len(f) \in Nat
        /\ \A i \in 1 .. Len(f) :
              /\ stack'[i].ref = f[i].ref /\ stack'[i].doc = f[i].doc
              /\ i # Len(f) => stack'[i].next = f[i].next
        /\ f # <<>> => stack'[Len(f)].next = f[Len(f)].next + 1
    <2>1. Len(f) \in Nat
      OBVIOUS
    <2>2. /\ Advanced(f) \in Seq(Frames) /\ Len(Advanced(f)) = Len(f)
          /\ f # <<>> => Advanced(f)[Len(f)].next = f[Len(f)].next + 1
      BY AdvancedFacts
    <2>3. \A i \in 1 .. Len(f) :
              /\ Advanced(f)[i].ref = f[i].ref /\ Advanced(f)[i].doc = f[i].doc
              /\ i # Len(f) => Advanced(f)[i].next = f[i].next
      BY AdvancedFacts
    <2> QED BY <2>1, <2>2, <2>3
  <1>2. roots \in Seq(Refs) /\ cursor \in 1 .. Len(roots) + 1 /\ stack \in Seq(Frames)
    BY DEF ClosureInv, WalkTyped
  <1>3. Calls /\ Chain
    BY DEF ClosureInv
  <1>4. cursor' \in 1 .. Len(roots') + 1
    BY <1>2 DEF CursorAfter, AtOne
  <1>5. Calls'
    <2>1. \A i \in 1 .. Len(stack') :
              /\ i \in 1 .. Len(stack) /\ i \in 1 .. Len(f)
              /\ stack'[i].ref = stack[i].ref /\ stack'[i].doc = stack[i].doc
              /\ stack[i].doc = None => stack'[i].next = stack[i].next
              /\ done'[stack'[i].ref.key] = None
      BY <1>1, <1>2 DEF AtOne
    <2>2. ASSUME NEW i \in 1 .. Len(stack')
          PROVE  /\ stack'[i].doc = None => stack'[i].next = 1
                 /\ stack'[i].doc # None =>
                       /\ Names(stack'[i].doc, stack'[i].ref)
                       /\ stack'[i].doc = stack'[i].ref.doc
      BY <1>3, <2>1 DEF Calls
    <2>3. ASSUME NEW i \in 1 .. Len(stack'), NEW j \in 1 .. Len(stack'), i # j
          PROVE  stack'[i].ref.key # stack'[j].ref.key
      BY <1>3, <2>1, <2>3 DEF Calls
    <2> QED BY <2>1, <2>2, <2>3 DEF Calls, Names
  <1>6. ASSUME NEW i \in 1 .. Len(stack'), stack'[i].doc # None,
               NEW n \in 1 .. Len(stack'[i].doc.deps), n < stack'[i].next
        PROVE  SettledIn(done', stack'[i].doc.deps[n])
    <2>1. i \in 1 .. Len(stack) /\ stack[i] \in Frames /\ stack'[i].doc = stack[i].doc
      BY <1>1, <1>2
    <2>2. stack[i].doc \in Docs
      BY <1>6, <2>1 DEF Frames
    <2>3. stack[i].doc.deps[n] \in Refs
      BY <1>6, <2>1, <2>2, PinFacts
    <2>4. CASE n < stack[i].next
      <3>1. SettledIn(done, stack[i].doc.deps[n])
        BY <1>3, <1>6, <2>1, <2>4 DEF Chain, Settled, SettledIn
      <3> QED BY <2>1, <2>3, <3>1
    <2>5. CASE ~(n < stack[i].next)
      <3>1. n \in Nat /\ stack[i].next \in Nat
        BY <2>1, <2>2, <1>6, DocFacts DEF Frames
      <3>2. i \in 1 .. Len(f) /\ f[i] = stack[i]
        BY <1>1
      <3>3. i = Len(f) /\ f # <<>>
        BY <1>1, <1>6, <2>5, <3>2
      <3>4. n = stack[i].next
        BY <1>1, <1>6, <2>5, <3>1, <3>2, <3>3
      <3>5. stack'[i].doc.deps[n] = r
        BY <2>1, <3>2, <3>3, <3>4 DEF Pending
      <3> QED BY <3>5
    <2> QED BY <2>4, <2>5
  <1>7. ASSUME NEW i \in 1 .. Len(stack') - 1
        PROVE  /\ stack'[i].doc # None /\ stack'[i].next <= Len(stack'[i].doc.deps)
               /\ stack'[i + 1].ref = stack'[i].doc.deps[stack'[i].next]
    <2>1. /\ i \in 1 .. Len(stack) - 1 /\ i \in 1 .. Len(f) /\ i # Len(f)
          /\ i + 1 \in 1 .. Len(f)
      BY <1>1, <1>2
    <2>2. /\ stack[i].doc # None /\ stack[i].next <= Len(stack[i].doc.deps)
          /\ stack[i + 1].ref = stack[i].doc.deps[stack[i].next]
      BY <1>3, <2>1 DEF Chain
    <2>3. /\ stack'[i].doc = stack[i].doc /\ stack'[i].next = stack[i].next
          /\ stack'[i + 1].ref = stack[i + 1].ref
      BY <1>1, <2>1
    <2> QED BY <2>2, <2>3
  <1>8. stack' # <<>> => cursor' <= Len(roots') /\ stack'[1].ref = roots'[cursor']
    BY <1>1, <1>2, <1>3 DEF Chain, CursorAfter
  <1>9. Chain'
    BY <1>6, <1>7, <1>8 DEF Chain, Settled, SettledIn
  <1>10. ASSUME NEW i \in 1 .. Len(roots'), i < cursor' PROVE SettledIn(done', roots'[i])
    <2>1. roots[i] \in Refs
      BY <1>2
    <2>2. CASE i < cursor
      <3>1. SettledIn(done, roots[i])
        BY <2>2, <1>10 DEF ClosureInv, Closed, Settled, SettledIn
      <3> QED BY <2>1, <3>1
    <2>3. CASE ~(i < cursor)
      <3>1. f = <<>> /\ i = cursor
        BY <1>2, <1>10, <2>3 DEF CursorAfter
      <3> QED BY <3>1 DEF Pending
    <2> QED BY <2>2, <2>3
  <1> QED BY <1>1, <1>4, <1>5, <1>9, <1>10

LEMMA WantedFacts ==
    ASSUME ClosureInv, MoreToVisit
    PROVE  Wanted \in Refs /\ AtOne(stack) /\ Wanted = Pending(stack) /\ verdict = "running"
  <1>1. /\ roots \in Seq(Refs) /\ cursor \in 1 .. Len(roots) + 1 /\ stack \in Seq(Frames)
        /\ Len(roots) \in Nat
    BY DEF ClosureInv, WalkTyped
  <1>2. AtOne(stack) /\ Wanted = Pending(stack) /\ verdict = "running"
    BY DEF MoreToVisit, AtOne, Pending, Wanted, Top
  <1>3. CASE stack = <<>>
    <2>1. cursor \in 1 .. Len(roots) /\ Wanted = roots[cursor]
      BY <1>1, <1>2, <1>3 DEF AtOne, Wanted
    <2> QED BY <1>1, <1>2, <2>1
  <1>4. CASE stack # <<>>
    <2>1. Top \in Frames
      BY <1>1, <1>4 DEF Top
    <2>2. Top.doc \in Docs /\ Top.next \in Nat \ {0} /\ Top.next <= Len(Top.doc.deps)
      BY <1>4, <2>1 DEF MoreToVisit, Frames
    <2>3. Top.next \in 1 .. Len(Top.doc.deps)
      <3>1. Len(Top.doc.deps) \in Nat
        BY <2>2, DocFacts
      <3> QED BY <2>2, <3>1
    <2>4. Top.doc.deps[Top.next] \in Refs
      BY <2>2, <2>3, PinFacts
    <2> QED BY <1>2, <1>4, <2>4 DEF Wanted
  <1> QED BY <1>2, <1>3, <1>4

LEMMA EnterDoneKeeps ==
    ASSUME ClosureInv, EnterDone
    PROVE  ClosureInv'
  <1>1. CASE ~Settled(Wanted)
    BY <1>1, RefuseKeeps DEF EnterDone, Refusals
  <1>2. CASE Settled(Wanted)
    <2>1. /\ stack' = Advanced(stack) /\ cursor' = CursorAfter(stack) /\ done' = done
          /\ roots' = roots /\ UNCHANGED <<wish, memo, verdict, shelf>>
      BY <1>2 DEF EnterDone, Keep, store
    <2>2. Wanted \in Refs /\ AtOne(stack) /\ Wanted = Pending(stack) /\ verdict = "running"
      BY WantedFacts DEF EnterDone
    <2>3. SettledIn(done', Wanted)
      BY <1>2, <2>1 DEF Settled, SettledIn
    <2>4. WalkTyped /\ Calls /\ Closed
      BY DEF ClosureInv
    <2>5. stack \in Seq(Frames) /\ \A i \in 1 .. Len(stack) : done'[stack[i].ref.key] = None
      BY <2>1, <2>4 DEF WalkTyped, Calls
    <2>6. /\ stack' \in Seq(Frames) /\ cursor' \in 1 .. Len(roots') + 1
          /\ Calls' /\ Chain'
          /\ \A i \in 1 .. Len(roots') : i < cursor' => SettledIn(done', roots'[i])
      BY <2>1, <2>2, <2>3, <2>5, Returned
    <2>7. WalkTyped'
      BY <2>1, <2>4, <2>6 DEF WalkTyped
    <2>8. Closed'
      BY <2>1, <2>2, <2>4, <2>6 DEF Closed, Settled, SettledIn
    <2> QED BY <2>6, <2>7, <2>8 DEF ClosureInv
  <1> QED BY <1>1, <1>2

LEMMA EnterNewKeeps ==
    ASSUME ClosureInv, EnterNew
    PROVE  ClosureInv'
  <1>1. /\ stack' = Append(stack, Frame(Wanted)) /\ cursor' = cursor /\ done' = done
        /\ roots' = roots /\ UNCHANGED <<wish, memo, verdict, shelf>>
    BY DEF EnterNew, Keep, store
  <1>2. Wanted \in Refs /\ AtOne(stack) /\ Wanted = Pending(stack) /\ verdict = "running"
    BY WantedFacts DEF EnterNew
  <1>3. WalkTyped /\ Calls /\ Chain /\ Closed
    BY DEF ClosureInv
  <1>4. Frame(Wanted) \in Frames
    BY <1>2 DEF Frame, Frames
  <1>5. stack \in Seq(Frames) /\ Len(stack) \in Nat
    BY <1>3 DEF WalkTyped
  <1>6. /\ Len(stack') = Len(stack) + 1 /\ stack' \in Seq(Frames)
        /\ \A i \in 1 .. Len(stack) : stack'[i] = stack[i]
        /\ stack'[Len(stack) + 1] = Frame(Wanted)
    BY <1>1, <1>4, <1>5
  <1>7. Frame(Wanted).ref = Wanted /\ Frame(Wanted).doc = None /\ Frame(Wanted).next = 1
    BY DEF Frame
  <1>8. WalkTyped'
    BY <1>1, <1>3, <1>6 DEF WalkTyped
  <1>9. Calls'
    <2>1. \A i \in 1 .. Len(stack) : stack[i].ref.key # Wanted.key
      BY <1>5 DEF EnterNew, Active
    <2>2. done[Wanted.key] = None
      BY DEF EnterNew
    <2>3. \A i \in 1 .. Len(stack') : i \in 1 .. Len(stack) \/ i = Len(stack) + 1
      BY <1>5, <1>6
    <2> QED BY <1>1, <1>3, <1>5, <1>6, <1>7, <2>1, <2>2, <2>3 DEF Calls, Names
  <1>10. Chain'
    <2>1. \A i \in 1 .. Len(stack') : i \in 1 .. Len(stack) \/ i = Len(stack) + 1
      BY <1>5, <1>6
    <2>2. ASSUME NEW i \in 1 .. Len(stack'), stack'[i].doc # None,
                 NEW n \in 1 .. Len(stack'[i].doc.deps), n < stack'[i].next
          PROVE  SettledIn(done', stack'[i].doc.deps[n])
      <3>1. i \in 1 .. Len(stack) /\ stack'[i] = stack[i]
        BY <1>6, <1>7, <2>1, <2>2
      <3>2. SettledIn(done, stack[i].doc.deps[n])
        BY <1>3, <2>2, <3>1 DEF Chain, Settled, SettledIn
      <3> QED BY <1>1, <3>1, <3>2 DEF SettledIn
    <2>3. ASSUME NEW i \in 1 .. Len(stack') - 1
          PROVE  /\ stack'[i].doc # None /\ stack'[i].next <= Len(stack'[i].doc.deps)
                 /\ stack'[i + 1].ref = stack'[i].doc.deps[stack'[i].next]
      <3>1. CASE i = Len(stack)
        <4>1. stack # <<>> /\ stack'[i] = stack[i] /\ stack'[i + 1].ref = Wanted
          BY <1>5, <1>6, <1>7, <3>1
        <4> QED BY <1>2, <3>1, <4>1 DEF AtOne, Pending
      <3>2. CASE i # Len(stack)
        <4>1. /\ i \in 1 .. Len(stack) - 1 /\ i \in 1 .. Len(stack)
              /\ i + 1 \in 1 .. Len(stack)
          BY <1>5, <1>6, <3>2
        <4>2. stack'[i] = stack[i] /\ stack'[i + 1] = stack[i + 1]
          BY <1>6, <4>1
        <4> QED BY <1>3, <4>1, <4>2 DEF Chain
      <3> QED BY <3>1, <3>2
    <2>4. cursor' <= Len(roots') /\ stack'[1].ref = roots'[cursor']
      <3>1. CASE stack = <<>>
        BY <1>1, <1>2, <1>5, <1>6, <1>7, <3>1 DEF AtOne, Pending
      <3>2. CASE stack # <<>>
        BY <1>1, <1>3, <1>5, <1>6, <3>2 DEF Chain
      <3> QED BY <3>1, <3>2
    <2> QED BY <2>2, <2>3, <2>4 DEF Chain, Settled, SettledIn
  <1>11. Closed'
    BY <1>1, <1>3 DEF Closed, Settled
  <1> QED BY <1>8, <1>9, <1>10, <1>11 DEF ClosureInv

LEMMA FetchKeeps ==
    ASSUME ClosureInv, Fetch
    PROVE  ClosureInv'
  <1> DEFINE n == Len(stack)
             bytes == Answer(Top.ref.kind, Top.ref.key)
  <1>1. WalkTyped /\ Calls /\ Chain /\ Closed
    BY DEF ClosureInv
  <1>2. stack \in Seq(Frames) /\ n \in 1 .. Len(stack) /\ Top \in Frames /\ Top = stack[n]
    BY <1>1 DEF WalkTyped, Fetch, Top
  <1>3. CASE \E why \in Refusals \cup {"unread"} : Refuse(why)
    BY <1>3, RefuseKeeps
  <1>4. CASE ~ \E why \in Refusals \cup {"unread"} : Refuse(why)
    <2>1. /\ bytes = Top.ref.doc /\ Names(bytes, Top.ref)
          /\ memo' = [memo EXCEPT ![<<Top.ref.kind, Top.ref.key>>] = bytes]
          /\ stack' = [stack EXCEPT ![n].doc = bytes]
          /\ UNCHANGED <<wish, roots, cursor, done, verdict, shelf>>
      BY <1>4 DEF Fetch, Refusals, Keep, store
    <2>2. Top.doc = None /\ Top.next = 1
      BY <1>1, <1>2 DEF Fetch, Calls
    <2>3. bytes \in Docs /\ bytes # None
      BY <2>1, DocFacts DEF Names
    <2>4. stack' = [stack EXCEPT ![n] = [Top EXCEPT !.doc = bytes]]
      BY <1>2, <2>1
    <2>5. [Top EXCEPT !.doc = bytes] \in Frames
      BY <1>2, <2>3 DEF Frames
    <2>6. /\ stack' \in Seq(Frames) /\ Len(stack') = Len(stack)
          /\ \A i \in 1 .. Len(stack) :
                stack'[i] = IF i = n THEN [Top EXCEPT !.doc = bytes] ELSE stack[i]
      BY <1>2, <2>4, <2>5
    <2>7. \A i \in 1 .. Len(stack) :
             /\ stack'[i].ref = stack[i].ref /\ stack'[i].next = stack[i].next
             /\ i # n => stack'[i] = stack[i]
             /\ i = n => stack'[i].doc = bytes
      BY <1>2, <2>6 DEF Frames
    <2>8. WalkTyped'
      <3>1. memo' \in [Kinds \X Keys -> Stored]
        BY <1>1, <2>1, <2>3 DEF WalkTyped, Stored
      <3> QED BY <1>1, <2>1, <2>6, <3>1 DEF WalkTyped
    <2>9. Calls'
      <3>1. ASSUME NEW i \in 1 .. Len(stack')
            PROVE  /\ done'[stack'[i].ref.key] = None
                   /\ stack'[i].doc = None => stack'[i].next = 1
                   /\ stack'[i].doc # None =>
                         /\ Names(stack'[i].doc, stack'[i].ref)
                         /\ stack'[i].doc = stack'[i].ref.doc
        <4>1. CASE i = n
          BY <1>1, <1>2, <2>1, <2>3, <2>6, <2>7, <4>1 DEF Calls
        <4>2. CASE i # n
          BY <1>1, <2>1, <2>6, <2>7, <4>2 DEF Calls
        <4> QED BY <4>1, <4>2
      <3>2. ASSUME NEW i \in 1 .. Len(stack'), NEW j \in 1 .. Len(stack'), i # j
            PROVE  stack'[i].ref.key # stack'[j].ref.key
        BY <1>1, <2>6, <2>7, <3>2 DEF Calls
      <3> QED BY <3>1, <3>2 DEF Calls, Names
    <2>10. Chain'
      <3>1. ASSUME NEW i \in 1 .. Len(stack'), stack'[i].doc # None,
                   NEW m \in 1 .. Len(stack'[i].doc.deps), m < stack'[i].next
            PROVE  SettledIn(done', stack'[i].doc.deps[m])
        <4>1. CASE i = n
          <5>1. stack'[i].next = 1 /\ stack'[i].doc \in Docs
            BY <1>2, <2>2, <2>3, <2>7, <4>1
          <5>2. m \in Nat /\ m >= 1
            BY <3>1, <5>1, DocFacts
          <5> QED BY <3>1, <5>1, <5>2
        <4>2. CASE i # n
          <5>1. i \in 1 .. Len(stack) /\ stack'[i] = stack[i]
            BY <2>6, <2>7, <4>2
          <5>2. /\ stack[i].doc # None /\ m \in 1 .. Len(stack[i].doc.deps)
                /\ m < stack[i].next
            BY <3>1, <5>1
          <5>3. SettledIn(done, stack[i].doc.deps[m])
            BY <1>1, <5>1, <5>2 DEF Chain, Settled, SettledIn
          <5> QED BY <2>1, <5>1, <5>3
        <4> QED BY <4>1, <4>2
      <3>2. ASSUME NEW i \in 1 .. Len(stack') - 1
            PROVE  /\ stack'[i].doc # None /\ stack'[i].next <= Len(stack'[i].doc.deps)
                   /\ stack'[i + 1].ref = stack'[i].doc.deps[stack'[i].next]
        <4>1. /\ i \in 1 .. Len(stack) - 1 /\ i \in 1 .. Len(stack) /\ i # n
              /\ i + 1 \in 1 .. Len(stack)
          BY <1>2, <2>6
        <4>2. stack'[i] = stack[i] /\ stack'[i + 1].ref = stack[i + 1].ref
          BY <2>7, <4>1
        <4> QED BY <1>1, <4>1, <4>2 DEF Chain
      <3>3. cursor' <= Len(roots') /\ stack'[1].ref = roots'[cursor']
        <4>1. stack # <<>> /\ 1 \in 1 .. Len(stack)
          BY <1>2 DEF Fetch
        <4> QED BY <1>1, <2>1, <2>7, <4>1 DEF Chain
      <3> QED BY <3>1, <3>2, <3>3 DEF Chain, Settled, SettledIn
    <2>11. Closed'
      BY <1>1, <2>1, SMTT(30) DEF Closed, Settled
    <2> QED BY <2>8, <2>9, <2>10, <2>11 DEF ClosureInv
  <1> QED BY <1>3, <1>4

\* The calls below the one on top.
LEMMA BelowFacts ==
    ASSUME stack \in Seq(Frames), stack # <<>>
    PROVE  /\ Below \in Seq(Frames) /\ Len(Below) = Len(stack) - 1
           /\ \A i \in 1 .. Len(Below) :
                 Below[i] = stack[i] /\ i \in 1 .. Len(stack) /\ i # Len(stack)
  <1> DEFINE n == Len(stack)
  <1>1. n \in Nat /\ n >= 1
    OBVIOUS
  <1>2. \A i \in 1 .. n - 1 : stack[i] \in Frames
    BY <1>1
  <1>3. CASE n = 1
    <2>1. Below = <<>>
      BY <1>3, SubSeqEmpty DEF Below
    <2> QED BY <1>3, <2>1
  <1>4. CASE n # 1
    <2>1. 1 \in Int /\ n - 1 \in Int /\ 1 <= n - 1
      <3> HIDE DEF n
      <3> QED BY <1>1, <1>4
    <2>2. /\ Below \in Seq(Frames) /\ Len(Below) = (n - 1) - 1 + 1
          /\ \A i \in 1 .. (n - 1) - 1 + 1 : Below[i] = stack[1 + i - 1]
      BY <1>2, <2>1, SubSeqProperties DEF Below
    <2>3. (n - 1) - 1 + 1 = n - 1 /\ \A i \in 1 .. n - 1 : 1 + i - 1 = i
      BY <1>1
    <2> QED BY <1>1, <2>2, <2>3
  <1> QED BY <1>3, <1>4

LEMMA LeaveKeeps ==
    ASSUME ClosureInv, Leave
    PROVE  ClosureInv'
  <1> DEFINE n == Len(stack)
  <1>1. WalkTyped /\ Calls /\ Chain /\ Closed
    BY DEF ClosureInv
  <1>2. stack \in Seq(Frames) /\ n \in 1 .. Len(stack) /\ Top \in Frames /\ Top = stack[n]
    BY <1>1 DEF WalkTyped, Leave, Top
  <1>3. /\ done' = [done EXCEPT ![Top.ref.key] = Top.doc]
        /\ stack' = Advanced(Below) /\ cursor' = CursorAfter(Below) /\ roots' = roots
        /\ Top.doc # None /\ Top.next > Len(Top.doc.deps) /\ verdict = "running"
        /\ UNCHANGED <<wish, memo, verdict, shelf>>
    BY DEF Leave, Keep, store
  <1>4. /\ Top.doc \in Docs /\ Names(Top.doc, Top.ref) /\ Top.doc = Top.ref.doc
        /\ done[Top.ref.key] = None
    BY <1>1, <1>2, <1>3 DEF Calls, Frames
  <1>5. Top.ref \in Refs /\ Top.ref.key \in Keys
    BY <1>2, RefFacts DEF Frames
  <1>6. done \in [Keys -> Docs \cup {None}] /\ done' \in [Keys -> Docs \cup {None}]
    BY <1>1, <1>3, <1>4, <1>5 DEF WalkTyped
  <1>7. SettledIn(done', Top.ref)
    BY <1>3, <1>4, <1>5, <1>6 DEF SettledIn, Names
  <1>8. \A q \in Refs : SettledIn(done, q) => SettledIn(done', q)
    BY <1>3, <1>4, <1>5, <1>6, SettledGrows
  <1>9. /\ Below \in Seq(Frames) /\ Len(Below) = n - 1
        /\ \A i \in 1 .. Len(Below) : Below[i] = stack[i] /\ i \in 1 .. Len(stack) /\ i # n
    BY <1>2, BelowFacts DEF Leave
  <1>10. AtOne(Below) /\ Top.ref = Pending(Below)
    <2>1. CASE n = 1
      <3>1. Below = <<>>
        BY <1>2, <2>1, SubSeqEmpty DEF Below
      <3>2. cursor <= Len(roots) /\ stack[1].ref = roots[cursor] /\ Top = stack[1]
        BY <1>1, <1>2, <2>1 DEF Chain, Leave
      <3> QED BY <3>1, <3>2 DEF AtOne, Pending
    <2>2. CASE n # 1
      <3>1. n - 1 \in 1 .. Len(stack) - 1 /\ (n - 1) + 1 = n /\ Below # <<>>
        BY <1>2, <1>9, <2>2
      <3>2. Len(Below) = n - 1 /\ Below[n - 1] = stack[n - 1]
        BY <1>9, <3>1
      <3> QED BY <1>1, <1>2, <3>1, <3>2 DEF AtOne, Pending, Chain
    <2> QED BY <2>1, <2>2
  <1>11. ASSUME NEW i \in 1 .. Len(Below) PROVE done'[Below[i].ref.key] = None
    <2>1. stack[i] \in Frames /\ Below[i] = stack[i]
      BY <1>2, <1>9
    <2>2. stack[i].ref.key \in Keys
      BY <2>1, RefFacts DEF Frames
    <2>3. stack[i].ref.key # Top.ref.key /\ done[stack[i].ref.key] = None
      BY <1>1, <1>2, <1>9 DEF Calls
    <2> QED BY <1>3, <1>6, <2>1, <2>2, <2>3
  <1>12. Len(Below) <= Len(stack) /\ \A i \in 1 .. Len(Below) : Below[i] = stack[i]
    <2>1. Len(stack) \in Nat /\ n = Len(stack)
      BY <1>2
    <2>2. Len(Below) <= Len(stack)
      BY <1>9, <2>1
    <2>3. \A i \in 1 .. Len(Below) : Below[i] = stack[i]
      BY <1>9
    <2> QED BY <2>2, <2>3
  <1>13. /\ stack' \in Seq(Frames) /\ cursor' \in 1 .. Len(roots') + 1
         /\ Calls' /\ Chain'
         /\ \A i \in 1 .. Len(roots') : i < cursor' => SettledIn(done', roots'[i])
    BY <1>3, <1>5, <1>7, <1>8, <1>9, <1>10, <1>11, <1>12, Returned
  <1>14. WalkTyped'
    BY <1>1, <1>3, <1>6, <1>13 DEF WalkTyped
  <1>15. ASSUME NEW k \in Keys, done'[k] # None
         PROVE  /\ done'[k].key = k
                /\ \A m \in 1 .. Len(done'[k].deps) : SettledIn(done', done'[k].deps[m])
    <2>1. ASSUME NEW d \in Docs, NEW m \in 1 .. Len(d.deps), SettledIn(done, d.deps[m])
          PROVE  SettledIn(done', d.deps[m])
      BY <1>8, <2>1, PinFacts
    <2>2. CASE k = Top.ref.key
      <3>1. done'[k] = Top.doc /\ Top.doc.key = k
        BY <1>3, <1>4, <1>6, <2>2 DEF Names
      <3>2. ASSUME NEW m \in 1 .. Len(Top.doc.deps) PROVE SettledIn(done, Top.doc.deps[m])
        <4>1. m < Top.next
          BY <1>2, <1>3, <1>4, DocFacts DEF Frames
        <4> QED BY <1>1, <1>2, <1>3, <3>2, <4>1 DEF Chain, Settled, SettledIn
      <3> QED BY <1>4, <2>1, <3>1, <3>2
    <2>3. CASE k # Top.ref.key
      <3>1. done'[k] = done[k] /\ done[k] \in Docs
        BY <1>3, <1>6, <1>15, <2>3
      <3>2. done[k].key = k /\ \A m \in 1 .. Len(done[k].deps) : SettledIn(done, done[k].deps[m])
        BY <1>1, <1>15, <3>1 DEF Closed, Settled, SettledIn
      <3> QED BY <2>1, <3>1, <3>2
    <2> QED BY <2>2, <2>3
  <1>16. Closed'
    BY <1>3, <1>13, <1>15 DEF Closed, Settled, SettledIn
  <1> QED BY <1>13, <1>14, <1>16 DEF ClosureInv

-----------------------------------------------------------------------------
(* The other steps, and the invariant.                                       *)

LEMMA ResolveKeeps ==
    ASSUME ClosureInv, Resolve
    PROVE  ClosureInv'
  <1> DEFINE key == wish[Len(roots) + 1]
             bytes == Answer("plugin", key)
             ref == [kind |-> "plugin", key |-> key, doc |-> bytes]
  <1>1. CASE Refuse("unread")
    BY <1>1, RefuseKeeps
  <1>2. CASE ~Refuse("unread")
    <2>1. /\ bytes # None /\ memo' = [memo EXCEPT ![<<"plugin", key>>] = bytes]
          /\ roots' = Append(roots, ref)
          /\ verdict' = IF Len(roots') = Len(wish) THEN "running" ELSE verdict
          /\ UNCHANGED <<wish, cursor, stack, done, shelf>> /\ verdict = "resolving"
      BY <1>2 DEF Resolve, Keep, store
    <2>2. WalkTyped /\ Calls /\ Chain /\ Closed
      BY DEF ClosureInv
    <2>3. /\ Len(roots) \in Nat /\ Len(wish) \in Nat /\ Len(roots) < Len(wish)
          /\ key \in Keys /\ roots \in Seq(Refs)
      BY <2>1, <2>2 DEF WalkTyped
    <2>4. bytes \in Stored /\ memo' \in [Kinds \X Keys -> Stored]
      BY <2>1, <2>2, <2>3 DEF WalkTyped, Answer, Read, Kinds
    <2>5. ref \in Refs
      BY <2>1, <2>3, <2>4 DEF Refs, Kinds, Stored
    <2>6. /\ roots' \in Seq(Refs) /\ Len(roots') = Len(roots) + 1
          /\ \A i \in 1 .. Len(roots) : roots'[i] = roots[i]
      BY <2>1, <2>3, <2>5
    <2>7. WalkTyped'
      BY <2>1, <2>2, <2>3, <2>4, <2>6 DEF WalkTyped
    <2>8. Calls'
      BY <2>1, <2>2 DEF Calls
    <2>9. Chain'
      <3>1. cursor \in 1 .. Len(roots) + 1
        BY <2>2 DEF WalkTyped
      <3>2. stack # <<>> => cursor <= Len(roots') /\ stack[1].ref = roots'[cursor]
        BY <2>2, <2>3, <2>6, <3>1 DEF Chain
      <3> QED BY <2>1, <2>2, <3>2 DEF Chain, Settled
    <2>10. Closed'
      <3>1. cursor \in 1 .. Len(roots) + 1
        BY <2>2 DEF WalkTyped
      <3>2. \A i \in 1 .. Len(roots') : i < cursor =>
                i \in 1 .. Len(roots) /\ roots'[i] = roots[i]
        BY <2>3, <2>6, <3>1
      <3>3. verdict' # "ok"
        BY <2>1
      <3> QED BY <2>1, <2>2, <3>2, <3>3, SMTT(30) DEF Closed, Settled
    <2> QED BY <2>7, <2>8, <2>9, <2>10 DEF ClosureInv
  <1> QED BY <1>1, <1>2

LEMMA FinishKeeps ==
    ASSUME ClosureInv, Finish
    PROVE  ClosureInv'
  <1>1. /\ cursor > Len(roots) /\ verdict' = "ok"
        /\ UNCHANGED <<wish, memo, roots, cursor, stack, done, shelf>>
    BY DEF Finish, Keep, store
  <1>2. WalkTyped'
    BY <1>1 DEF ClosureInv, WalkTyped
  <1>3. Calls'
    BY <1>1 DEF ClosureInv, Calls
  <1>4. Chain'
    BY <1>1 DEF ClosureInv, Chain, Settled
  <1>5. Closed'
    BY <1>1 DEF ClosureInv, WalkTyped, Closed, Settled
  <1> QED BY <1>2, <1>3, <1>4, <1>5 DEF ClosureInv

LEMMA WalkKeeps ==
    ASSUME ClosureInv, Walk
    PROVE  ClosureInv'
  <1>1. CASE EnterActive
    BY <1>1, RefuseKeeps DEF EnterActive, Refusals
  <1> QED BY <1>1, ResolveKeeps, EnterDoneKeeps, EnterNewKeeps, FetchKeeps, LeaveKeeps,
             FinishKeeps DEF Walk

\* What is put on the shelf is junk or a document.
LEMMA BuildingKeeps ==
    ASSUME ClosureInv, Building
    PROVE  ClosureInv'
  <1>1. shelf \in [Keys -> Stored]
    BY DEF ClosureInv, WalkTyped
  <1>2. UNCHANGED walk /\ shelf' \in [Keys -> Stored]
    <2>1. ASSUME NEW k \in Keys, StartBuild(k)
          PROVE  UNCHANGED walk /\ shelf' \in [Keys -> Stored]
      BY <1>1, <2>1 DEF StartBuild, store
    <2>2. CASE Compose
      BY <1>1, <2>2 DEF Compose, store
    <2>3. CASE PublishBuilt
      <3>1. PICK d \in Docs : Put(builder.key, d)
        BY <2>3 DEF PublishBuilt
      <3> QED BY <1>1, <3>1 DEF Put, Stored
    <2>4. CASE PublishJunk
      <3>1. PICK k \in Botched, bytes \in Junk : Put(k, bytes)
        BY <2>4 DEF PublishJunk
      <3> QED BY <1>1, <3>1 DEF Put, Stored
    <2> QED BY <1>1, <2>1, <2>2, <2>3, <2>4 DEF Building
  <1> QED BY <1>2, WalkStays

LEMMA BuildRegistryKeeps ==
    ASSUME ClosureInv, BuildRegistry
    PROVE  ClosureInv'
  <1>1. PICK keys \in Wishes : StartWalk(keys)
    BY DEF BuildRegistry
  <1>2. keys \in Seq(Keys) /\ Len(keys) > 0
    <2>1. CASE \E k \in Keys : keys = <<k>>
      BY <2>1
    <2>2. CASE \E k, l \in Keys : keys = <<k, l>>
      BY <2>2
    <2>3. (\E k \in Keys : keys = <<k>>) \/ keys \in Keys \X Keys
      BY DEF Wishes
    <2>4. \A two \in Keys \X Keys : \E k, l \in Keys : two = <<k, l>>
      OBVIOUS
    <2> QED BY <2>1, <2>2, <2>3, <2>4
  <1>3. /\ wish' = keys /\ roots' = <<>> /\ verdict' = "resolving" /\ shelf' = shelf
        /\ Fresh'
    BY <1>1 DEF StartWalk, Fresh, store
  <1>4. WalkTyped
    BY DEF ClosureInv
  <1>5. WalkTyped'
    <2>1. roots' \in Seq(Refs) /\ Len(roots') = 0 /\ stack' \in Seq(Frames)
      BY <1>3 DEF Fresh
    <2>2. cursor' \in 1 .. Len(roots') + 1 /\ done' \in [Keys -> Docs \cup {None}]
      BY <1>3, <2>1 DEF Fresh
    <2> QED BY <1>2, <1>3, <1>4, <2>1, <2>2, UnreadTyped DEF WalkTyped, Fresh
  <1> QED BY <1>3, <1>5, FreshIsInv DEF WalkTyped

LEMMA WriteRegistryKeeps ==
    ASSUME ClosureInv, WriteRegistry
    PROVE  ClosureInv'
  <1>1. /\ wish' = <<>> /\ roots' = <<>> /\ verdict' = "idle" /\ shelf' = shelf /\ Fresh'
    BY DEF WriteRegistry, WalkIdle, Fresh, store
  <1>2. WalkTyped
    BY DEF ClosureInv
  <1>3. WalkTyped'
    <2>1. roots' \in Seq(Refs) /\ Len(roots') = 0 /\ stack' \in Seq(Frames)
          /\ wish' \in Seq(Keys) /\ Len(wish') = 0
      BY <1>1 DEF Fresh
    <2>2. cursor' \in 1 .. Len(roots') + 1 /\ done' \in [Keys -> Docs \cup {None}]
      BY <1>1, <2>1 DEF Fresh
    <2> QED BY <1>1, <1>2, <2>1, <2>2, UnreadTyped DEF WalkTyped, Fresh
  <1> QED BY <1>1, <1>3, FreshIsInv DEF WalkTyped

LEMMA ClosureStart == Init => ClosureInv
  <1> SUFFICES ASSUME Init PROVE ClosureInv
    OBVIOUS
  <1>1. /\ shelf = [k \in Keys |-> None] /\ wish = <<>> /\ memo = Unread /\ roots = <<>>
        /\ cursor = 1 /\ stack = <<>> /\ done = [k \in Keys |-> None] /\ verdict = "idle"
    BY DEF Init, ClosureInit
  <1>2. WalkTyped
    <2>1. /\ roots \in Seq(Refs) /\ Len(roots) = 0 /\ stack \in Seq(Frames)
          /\ wish \in Seq(Keys) /\ Len(wish) = 0
      BY <1>1
    <2>2. /\ cursor \in 1 .. Len(roots) + 1 /\ done \in [Keys -> Docs \cup {None}]
          /\ shelf \in [Keys -> Stored]
      BY <1>1, <2>1 DEF Stored
    <2> QED BY <1>1, <2>1, <2>2, UnreadTyped DEF WalkTyped
  <1>3. Calls /\ Chain
    BY <1>1 DEF Calls, Chain
  <1>4. Closed
    BY <1>1 DEF Closed
  <1> QED BY <1>2, <1>3, <1>4 DEF ClosureInv

LEMMA ClosureStep == ClosureInv /\ [Next]_vars => ClosureInv'
  <1> SUFFICES ASSUME ClosureInv, [Next]_vars PROVE ClosureInv'
    OBVIOUS
  <1>1. CASE UNCHANGED vars
    <2>1. UNCHANGED walk /\ shelf' = shelf
      BY <1>1 DEF vars, closureVars, store
    <2> QED BY <2>1, WalkStays DEF ClosureInv, WalkTyped
  <1>2. ASSUME NEW c \in Clients, NEW document, NEW time, Certify(c, document, time)
        PROVE  ClosureInv'
    <2>1. UNCHANGED walk /\ shelf' = shelf
      BY <1>2 DEF Certify, closureVars, store
    <2> QED BY <2>1, WalkStays DEF ClosureInv, WalkTyped
  <1>3. CASE Authenticate
    <2>1. UNCHANGED walk /\ shelf' = shelf
      BY <1>3 DEF Authenticate, closureVars, store
    <2> QED BY <2>1, WalkStays DEF ClosureInv, WalkTyped
  <1> QED BY <1>1, <1>2, <1>3, WalkKeeps, BuildingKeeps, BuildRegistryKeeps, WriteRegistryKeeps
          DEF Next

\* The inductive invariant of the walk.
THEOREM ClosureInductive == Spec => []ClosureInv
  BY ClosureStart, ClosureStep, PTL DEF Spec

\* An index verifyReleaseClosure accepts (src/registryPublication.ts:19) is closed:
\* every root and every pin of a visited release was visited as pinned.
THEOREM AcceptedIsClosed == Spec => []VerifiedIsClosed
  <1>1. ClosureInv => VerifiedIsClosed
    <2> SUFFICES ASSUME ClosureInv, verdict = "ok"
                 PROVE  /\ \A i \in DOMAIN roots : Settled(roots[i])
                        /\ \A k \in Keys : done[k] # None =>
                              /\ done[k].key = k
                              /\ \A i \in DOMAIN done[k].deps : Settled(done[k].deps[i])
      BY DEF VerifiedIsClosed
    <2>1. WalkTyped /\ Closed
      BY DEF ClosureInv
    <2>2. ASSUME NEW i \in DOMAIN roots PROVE Settled(roots[i])
      <3>1. i \in 1 .. Len(roots) /\ i < cursor
        BY <2>1 DEF WalkTyped, Closed
      <3> QED BY <2>1, <3>1 DEF Closed
    <2>3. ASSUME NEW k \in Keys, done[k] # None
          PROVE  /\ done[k].key = k
                 /\ \A i \in DOMAIN done[k].deps : Settled(done[k].deps[i])
      <3>1. DOMAIN done[k].deps = 1 .. Len(done[k].deps)
        BY <2>1, <2>3, DocFacts DEF WalkTyped
      <3> QED BY <2>1, <2>3, <3>1 DEF Closed
    <2> QED BY <2>2, <2>3
  <1> QED BY <1>1, ClosureInductive, PTL

-----------------------------------------------------------------------------
(* Types, the builder and the history of the shelf included.                 *)

\* The dependencies a manifest asks for.
Intents == [kind : Kinds, key : Keys]

\* A builder pins at most what its manifest asks for, and the history is one.
BuilderTyped ==
    /\ builder # None =>
          /\ builder \in [key : Keys, intents : Seq(Intents), pins : Seq(Refs)]
          /\ builder.intents \in Manifests[builder.key]
          /\ Len(builder.pins) <= Len(builder.intents)
    /\ published \subseteq Keys \X (Docs \cup Junk)
    /\ replaced \in 0 .. MaxReplaced /\ disturbed \in BOOLEAN

LEMMA BuilderInductive == Spec => []BuilderTyped
  <1>1. Init => BuilderTyped
    <2>1. MaxReplaced \in Nat
      BY ClosureAssumption DEF ClosureAssumption
    <2>2. 0 \in 0 .. MaxReplaced
      BY <2>1
    <2> QED BY <2>2 DEF Init, ClosureInit, BuilderTyped
  <1>2. ASSUME BuilderTyped, [Next]_vars PROVE BuilderTyped'
    <2>1. ASSUME NEW key \in Keys, NEW bytes \in Docs \cup Junk, Put(key, bytes)
          PROVE  /\ published' \subseteq Keys \X (Docs \cup Junk)
                 /\ replaced' \in 0 .. MaxReplaced /\ disturbed' \in BOOLEAN
      BY <1>2, <2>1, ClosureAssumption DEF Put, BuilderTyped, ClosureAssumption
    <2>2. ASSUME NEW key \in Keys, StartBuild(key) PROVE BuilderTyped'
      <3>1. PICK intents \in Manifests[key] :
                builder' = [key |-> key, intents |-> intents, pins |-> <<>>]
        BY <2>2 DEF StartBuild
      <3>2. intents \in Seq(Intents) /\ Len(intents) \in Nat
        <4>1. \A k \in Keys : \A m \in Manifests[k] : m \in Seq(Intents)
          BY ClosureAssumption DEF ClosureAssumption, Intents
        <4>2. intents \in Seq(Intents)
          BY <4>1
        <4> QED BY <4>2
      <3>3. /\ builder'.pins = <<>> /\ builder'.key = key /\ builder'.intents = intents
            /\ builder' \in [key : Keys, intents : Seq(Intents), pins : Seq(Refs)]
            /\ Len(builder'.pins) = 0
        BY <3>1, <3>2
      <3> QED BY <1>2, <2>2, <3>2, <3>3 DEF StartBuild, BuilderTyped, store
    <2>3. CASE Compose
      <3> DEFINE intent == builder.intents[Len(builder.pins) + 1]
                 pin == [kind |-> intent.kind, key |-> intent.key, doc |-> Read(intent.key)]
      <3>1. /\ builder # None /\ Len(builder.pins) < Len(builder.intents)
            /\ builder' = IF Names(Read(intent.key), intent)
                          THEN [builder EXCEPT !.pins = Append(@, pin)] ELSE None
            /\ UNCHANGED <<published, replaced, disturbed>>
        BY <2>3 DEF Compose, store
      <3>2. CASE builder' = None
        BY <1>2, <3>1, <3>2 DEF BuilderTyped
      <3>3. CASE Names(Read(intent.key), intent)
        <4>1. pin \in Refs
          BY <3>3, DocFacts DEF Names, Refs
        <4>2. /\ builder \in [key : Keys, intents : Seq(Intents), pins : Seq(Refs)]
              /\ builder.intents \in Manifests[builder.key]
          BY <1>2, <3>1 DEF BuilderTyped
        <4>3. Len(builder.intents) \in Nat
          BY <4>2
        <4>4. /\ builder'.key = builder.key /\ builder'.intents = builder.intents
              /\ builder' = [builder EXCEPT !.pins = Append(builder.pins, pin)]
          BY <3>1, <3>3
        <4>5. /\ Append(builder.pins, pin) \in Seq(Refs)
              /\ Len(Append(builder.pins, pin)) = Len(builder.pins) + 1
              /\ Len(builder.pins) \in Nat
          BY <4>1, <4>2
        <4>6. /\ builder' \in [key : Keys, intents : Seq(Intents), pins : Seq(Refs)]
              /\ builder'.pins = Append(builder.pins, pin)
          BY <4>2, <4>4, <4>5
        <4>7. Len(builder'.pins) <= Len(builder.intents)
          BY <3>1, <4>3, <4>5, <4>6, SMTT(30)
        <4> QED BY <1>2, <3>1, <4>2, <4>4, <4>6, <4>7 DEF BuilderTyped
      <3> QED BY <3>1, <3>2, <3>3
    <2>4. CASE PublishBuilt
      <3>1. PICK d \in Docs : Put(builder.key, d) /\ d.key = builder.key
        BY <2>4 DEF PublishBuilt
      <3>2. builder.key \in Keys /\ builder' = None
        BY <2>4, <3>1, DocFacts DEF PublishBuilt
      <3> QED BY <2>1, <3>1, <3>2 DEF BuilderTyped
    <2>5. CASE PublishJunk
      <3>1. PICK k \in Botched, bytes \in Junk : Put(k, bytes) /\ builder' = builder
        BY <2>5 DEF PublishJunk, built
      <3>2. k \in Keys
        BY ClosureAssumption DEF ClosureAssumption
      <3> QED BY <1>2, <2>1, <3>1, <3>2 DEF BuilderTyped
    <2>6. CASE Walk
      <3>1. UNCHANGED <<builder, published, replaced, disturbed>>
        BY <2>6 DEF Walk, Resolve, EnterActive, EnterDone, EnterNew, Fetch, Leave, Finish,
                   Refuse, Keep, built, store
      <3> QED BY <1>2, <3>1 DEF BuilderTyped
    <2>7. CASE BuildRegistry
      <3>1. UNCHANGED <<builder, published, replaced>> /\ disturbed' = FALSE
        BY <2>7 DEF BuildRegistry, StartWalk, built, store
      <3> QED BY <1>2, <3>1 DEF BuilderTyped
    <2>8. CASE WriteRegistry
      BY <1>2, <2>8 DEF WriteRegistry, BuilderTyped, built, store
    <2>11. CASE Authenticate
      BY <1>2, <2>11 DEF Authenticate, BuilderTyped, closureVars, built, store
    <2>9. ASSUME NEW c \in Clients, NEW document, NEW time, Certify(c, document, time)
          PROVE  BuilderTyped'
      BY <1>2, <2>9 DEF Certify, BuilderTyped, closureVars, built, store
    <2>10. CASE UNCHANGED vars
      BY <1>2, <2>10 DEF vars, closureVars, BuilderTyped, built, store
    <2> QED BY <1>2, <2>2, <2>3, <2>4, <2>5, <2>6, <2>7, <2>8, <2>9, <2>10,
               <2>11
            DEF Next, Building
  <1> QED BY <1>1, <1>2, PTL DEF Spec

\* Every variable of the shelf, the builder and the walk keeps its type.
THEOREM ClosureTypeCorrect == Spec => []ClosureTypeOK
  <1>1. ClosureInv /\ BuilderTyped => ClosureTypeOK
    <2> SUFFICES ASSUME ClosureInv, BuilderTyped PROVE ClosureTypeOK
      OBVIOUS
    <2>1. WalkTyped
      BY DEF ClosureInv
    <2>2. \A i \in DOMAIN stack :
              /\ stack[i].ref \in Refs /\ stack[i].doc \in Docs \cup {None}
              /\ stack[i].next \in Nat
      <3>1. \A i \in DOMAIN stack : stack[i] \in Frames
        BY <2>1 DEF WalkTyped
      <3> QED BY <3>1 DEF Frames
    <2>3. builder # None => \A i \in DOMAIN builder.pins : builder.pins[i] \in Refs
      BY DEF BuilderTyped
    <2> QED BY <2>1, <2>2, <2>3 DEF ClosureTypeOK, WalkTyped, BuilderTyped, Stored
  <1> QED BY <1>1, ClosureInductive, BuilderInductive, PTL

-----------------------------------------------------------------------------
(* What a client trusts.                                                     *)

\* What was signed, and what was accepted, has its type; the mark of a client is
\* the last index it accepted.
TrustInv ==
    /\ drafts \subseteq Payloads
    /\ issued \subseteq [payload : Payloads, keyId : {TrustedKey}, signed : Payloads]
    /\ accepted \in [Clients -> Seq(Payloads)]
    /\ mark \in [Clients -> [sequence : Nat \ {0}, digest : Payloads] \cup {None}]
    /\ \A c \in Clients :
          IF mark[c] = None THEN accepted[c] = <<>>
          ELSE /\ accepted[c] # <<>>
               /\ mark[c].digest = accepted[c][Len(accepted[c])]
               /\ mark[c].sequence = mark[c].digest.sequence
    /\ TrustNeverForks

\* Only an index the owner signed is trusted, damage and other keys or not.
LEMMA TrustedIssued ==
    ASSUME TrustInv, NEW document \in InCirculation, NEW time, Trusted(document, time)
    PROVE  document.payload \in Payloads /\ \E d \in issued : d.signed = document.payload
  <1>1. document # Malformed /\ document.keyId = TrustedKey
        /\ document.signed = document.payload
    BY DEF Trusted
  <1>2. document # Foreign
    BY <1>1, TrustAssumption DEF TrustAssumption
  <1>3. PICK d \in issued : document = d \/ document = Damaged(d)
    BY <1>1, <1>2 DEF InCirculation
  <1>4. d \in [payload : Payloads, keyId : {TrustedKey}, signed : Payloads]
    BY DEF TrustInv
  <1>5. document.signed = d.signed
    BY <1>3, <1>4 DEF Damaged
  <1> QED BY <1>1, <1>4, <1>5

LEMMA CertifyKeeps ==
    ASSUME TrustInv, NEW c \in Clients, NEW document \in InCirculation, NEW time,
           Certify(c, document, time)
    PROVE  TrustInv'
  <1> DEFINE payload == document.payload
             new == [sequence |-> payload.sequence, digest |-> payload]
             taken == accepted[c]
  <1>1. payload \in Payloads /\ \E d \in issued : d.signed = payload
    BY TrustedIssued DEF Certify
  <1>2. /\ mark' = [mark EXCEPT ![c] = new] /\ issued' = issued /\ drafts' = drafts
        /\ accepted' = [accepted EXCEPT ![c] =
               IF mark'[c] = mark[c] THEN taken ELSE Append(taken, payload)]
    BY DEF Certify
  <1>3. new \in [sequence : Nat \ {0}, digest : Payloads]
    BY <1>1 DEF Payloads
  <1>4. /\ mark' \in [Clients -> [sequence : Nat \ {0}, digest : Payloads] \cup {None}]
        /\ mark'[c] = new /\ \A b \in Clients : b # c => mark'[b] = mark[b]
    BY <1>2, <1>3 DEF TrustInv
  <1>5. taken \in Seq(Payloads) /\ \A i \in 1 .. Len(taken) : taken[i].sequence \in Int
    <2>1. taken \in Seq(Payloads)
      BY DEF TrustInv
    <2>2. \A i \in 1 .. Len(taken) : taken[i] \in Payloads
      BY <2>1
    <2> QED BY <2>1, <2>2 DEF Payloads
  <1>6. CASE mark'[c] = mark[c]
    <2>1. accepted' = accepted /\ mark' = mark
      BY <1>2, <1>4, <1>6 DEF TrustInv
    <2> QED BY <1>2, <2>1 DEF TrustInv, TrustNeverForks
  <1>7. CASE mark'[c] # mark[c]
    <2>1. /\ accepted' = [accepted EXCEPT ![c] = Append(taken, payload)]
          /\ accepted' \in [Clients -> Seq(Payloads)]
          /\ accepted'[c] = Append(taken, payload)
          /\ \A b \in Clients : b # c => accepted'[b] = accepted[b]
      BY <1>1, <1>2, <1>5, <1>7 DEF TrustInv
    <2>2. /\ Len(accepted'[c]) = Len(taken) + 1 /\ Len(taken) \in Nat
          /\ accepted'[c][Len(taken) + 1] = payload
          /\ \A i \in 1 .. Len(taken) : accepted'[c][i] = taken[i]
          /\ DOMAIN accepted'[c] = 1 .. Len(taken) + 1
      BY <1>1, <1>5, <2>1
    <2>3. \A i \in 1 .. Len(taken) : taken[i].sequence < payload.sequence
      <3>1. CASE mark[c] = None
        BY <1>5, <3>1 DEF TrustInv
      <3>2. CASE mark[c] # None
        <4>1. /\ mark[c].digest = taken[Len(taken)] /\ taken # <<>>
              /\ mark[c].sequence = mark[c].digest.sequence
              /\ mark[c] \in [sequence : Nat \ {0}, digest : Payloads]
          BY <3>2 DEF TrustInv
        <4>2. payload.sequence > mark[c].sequence
          <5>1. ~(payload.sequence = mark[c].sequence /\ payload = mark[c].digest)
            BY <1>4, <1>7, <4>1
          <5> QED BY <3>2, <5>1 DEF Certify, Continues
        <4>3. Len(taken) \in 1 .. Len(taken) /\ payload.sequence \in Int
              /\ taken[Len(taken)].sequence < payload.sequence
          BY <1>1, <1>5, <4>1, <4>2 DEF Payloads
        <4>4. \A i \in 1 .. Len(taken) :
                  i # Len(taken) => taken[i].sequence < taken[Len(taken)].sequence
          BY <1>5, <4>3, SMTT(30) DEF TrustInv, TrustNeverForks
        <4> QED BY <1>5, <4>3, <4>4
      <3> QED BY <3>1, <3>2
    <2>4. TrustNeverForks'
      <3>1. ASSUME NEW i \in DOMAIN accepted'[c], NEW j \in DOMAIN accepted'[c], i < j
            PROVE  accepted'[c][i].sequence < accepted'[c][j].sequence
        <4>1. i \in 1 .. Len(taken)
          BY <2>2, <3>1
        <4>2. CASE j = Len(taken) + 1
          BY <2>2, <2>3, <4>1, <4>2
        <4>3. CASE j # Len(taken) + 1
          <5>1. j \in 1 .. Len(taken)
            BY <2>2, <4>3
          <5>2. taken[i].sequence < taken[j].sequence
            BY <1>5, <3>1, <4>1, <5>1 DEF TrustInv, TrustNeverForks
          <5> QED BY <2>2, <4>1, <5>1, <5>2
        <4> QED BY <4>2, <4>3
      <3>2. ASSUME NEW i \in DOMAIN accepted'[c]
            PROVE  \E d \in issued' : d.signed = accepted'[c][i]
        <4>1. CASE i = Len(taken) + 1
          BY <1>1, <1>2, <2>2, <4>1
        <4>2. CASE i # Len(taken) + 1
          <5>1. i \in 1 .. Len(taken)
            BY <2>2, <4>2
          <5> QED BY <1>2, <1>5, <2>2, <5>1 DEF TrustInv, TrustNeverForks
        <4> QED BY <4>1, <4>2
      <3> QED BY <1>2, <2>1, <3>1, <3>2 DEF TrustInv, TrustNeverForks
    <2>5. ASSUME NEW b \in Clients
          PROVE  IF mark'[b] = None THEN accepted'[b] = <<>>
                 ELSE /\ accepted'[b] # <<>>
                      /\ mark'[b].digest = accepted'[b][Len(accepted'[b])]
                      /\ mark'[b].sequence = mark'[b].digest.sequence
      <3>1. CASE b = c
        <4>1. accepted'[c] # <<>> /\ mark'[c].digest = payload
              /\ mark'[c].sequence = payload.sequence
          BY <1>4, <2>2
        <4>2. new # None
          BY <1>3, TrustAssumption DEF TrustAssumption, Payloads
        <4> QED BY <1>4, <2>2, <3>1, <4>1, <4>2
      <3>2. CASE b # c
        BY <1>4, <2>1, <3>2 DEF TrustInv
      <3> QED BY <3>1, <3>2
    <2> QED BY <1>2, <1>4, <2>1, <2>4, <2>5 DEF TrustInv
  <1> QED BY <1>6, <1>7

LEMMA TrustInductive == Spec => []TrustInv
  <1>1. Init => TrustInv
    BY DEF Init, TrustInv, TrustNeverForks
  <1>2. ASSUME ClosureInv, TrustInv, [Next]_vars PROVE TrustInv'
    <2>1. CASE UNCHANGED trust
      BY <1>2, <2>1 DEF trust, TrustInv, TrustNeverForks
    <2>2. CASE WriteRegistry
      <3>1. PICK sequence \in Sequences, period \in Periods :
                drafts' = drafts \cup {Payload(sequence, period, roots)}
        BY <2>2 DEF WriteRegistry
      <3>2. Payload(sequence, period, roots) \in Payloads
        BY <1>2, TrustAssumption
        DEF TrustAssumption, Payload, Payloads, ClosureInv, WalkTyped
      <3>3. UNCHANGED <<issued, mark, accepted>>
        BY <2>2 DEF WriteRegistry
      <3> QED BY <1>2, <3>1, <3>2, <3>3 DEF TrustInv, TrustNeverForks
    <2>4. CASE Authenticate
      <3>1. PICK payload \in drafts \cup HandWritten :
                /\ issued' = issued \cup
                       {[payload |-> payload, keyId |-> TrustedKey, signed |-> payload]}
                /\ drafts' = drafts \ {payload}
        BY <2>4 DEF Authenticate
      <3>2. payload \in Payloads
        BY <1>2, TrustAssumption DEF TrustAssumption, TrustInv
      <3>3. UNCHANGED <<mark, accepted>>
        BY <2>4 DEF Authenticate
      <3> QED BY <1>2, <3>1, <3>2, <3>3 DEF TrustInv, TrustNeverForks
    <2>3. ASSUME NEW c \in Clients, NEW document \in InCirculation,
                 NEW time \in 0 .. MaxTime, Certify(c, document, time)
          PROVE  TrustInv'
      BY <1>2, <2>3, CertifyKeeps
    <2> QED BY <1>2, <2>1, <2>2, <2>3, <2>4 DEF Next, BuildRegistry, vars
  <1> QED BY <1>1, <1>2, ClosureInductive, PTL DEF Spec

\* Over everything a client ever accepted the sequence only grows and every index
\* was signed by the trusted key, whatever arrives late, twice or damaged
\* (certifyRegistry, src/registry.ts:81).
THEOREM ClientsNeverFork == Spec => []TrustNeverForks
  <1>1. TrustInv => TrustNeverForks
    BY DEF TrustInv
  <1> QED BY <1>1, TrustInductive, PTL

-----------------------------------------------------------------------------
(* What an index reaches.                                                    *)

\* The sets of references that hold what their documents pin.
ClosedSets == {S \in SUBSET Refs : \A r \in S : r.doc \in Docs => Pins(r.doc) \subseteq S}

\* The least of them that holds what a document pins.
LeastPins(d) == {r \in Refs : \A S \in ClosedSets : Pins(d) \subseteq S => r \in S}

LEMMA PinsAreRefs ==
    ASSUME NEW d \in Docs
    PROVE  Pins(d) \subseteq Refs
  BY DocFacts DEF Pins

LEMMA LeastClosed ==
    ASSUME NEW d \in Docs
    PROVE  /\ Pins(d) \subseteq LeastPins(d) /\ LeastPins(d) \in ClosedSets
           /\ \A S \in ClosedSets : Pins(d) \subseteq S => LeastPins(d) \subseteq S
  <1>1. Pins(d) \subseteq Refs
    BY PinsAreRefs
  <1>2. Pins(d) \subseteq LeastPins(d)
    BY <1>1 DEF LeastPins
  <1>3. ASSUME NEW r \in LeastPins(d), r.doc \in Docs PROVE Pins(r.doc) \subseteq LeastPins(d)
    <2>1. Pins(r.doc) \subseteq Refs
      BY <1>3, PinsAreRefs
    <2> QED BY <1>3, <2>1 DEF LeastPins, ClosedSets
  <1> QED BY <1>2, <1>3 DEF LeastPins, ClosedSets

LEMMA PinnedByIs ==
    PinnedBy = [d \in Docs |->
        Pins(d) \cup UNION {PinnedBy[r.doc] : r \in {x \in Pins(d) : x.doc \in Docs}}]
  <1> DEFINE f == [d \in Docs |-> LeastPins(d)]
             Meets(g) == g = [d \in Docs |->
                 Pins(d) \cup UNION {g[r.doc] : r \in {x \in Pins(d) : x.doc \in Docs}}]
  <1>1. ASSUME NEW d \in Docs
        PROVE  LeastPins(d) = Pins(d) \cup UNION {f[r.doc] : r \in {x \in Pins(d) : x.doc \in Docs}}
    <2> DEFINE U == Pins(d) \cup UNION {f[r.doc] : r \in {x \in Pins(d) : x.doc \in Docs}}
    <2>1. \A x \in Pins(d) : x.doc \in Docs => f[x.doc] = LeastPins(x.doc)
      OBVIOUS
    <2>2. U \subseteq LeastPins(d)
      <3>1. ASSUME NEW x \in Pins(d), x.doc \in Docs PROVE LeastPins(x.doc) \subseteq LeastPins(d)
        <4>1. x \in LeastPins(d) /\ LeastPins(d) \in ClosedSets
          BY LeastClosed
        <4>2. Pins(x.doc) \subseteq LeastPins(d)
          BY <3>1, <4>1 DEF ClosedSets
        <4> QED BY <3>1, <4>1, <4>2, LeastClosed
      <3>2. ASSUME NEW r \in U PROVE r \in LeastPins(d)
        <4>1. CASE r \in Pins(d)
          BY <4>1, LeastClosed
        <4>2. CASE r \notin Pins(d)
          <5>1. PICK x \in Pins(d) : x.doc \in Docs /\ r \in f[x.doc]
            BY <4>2
          <5> QED BY <2>1, <3>1, <5>1
        <4> QED BY <4>1, <4>2
      <3> QED BY <3>2
    <2>3. U \in ClosedSets
      <3>1. U \subseteq Refs
        BY <2>2 DEF LeastPins
      <3>2. ASSUME NEW r \in U, r.doc \in Docs PROVE Pins(r.doc) \subseteq U
        <4>1. CASE r \in Pins(d)
          <5>1. Pins(r.doc) \subseteq LeastPins(r.doc)
            BY <3>2, LeastClosed
          <5> QED BY <2>1, <3>2, <4>1, <5>1
        <4>2. CASE r \notin Pins(d)
          <5>1. PICK x \in Pins(d) : x.doc \in Docs /\ r \in f[x.doc]
            BY <4>2
          <5>2. Pins(r.doc) \subseteq LeastPins(x.doc)
            BY <2>1, <3>2, <5>1, LeastClosed DEF ClosedSets
          <5> QED BY <2>1, <5>1, <5>2
        <4> QED BY <4>1, <4>2
      <3> QED BY <3>1, <3>2 DEF ClosedSets
    <2>4. LeastPins(d) \subseteq U
      <3>1. Pins(d) \subseteq U
        OBVIOUS
      <3> HIDE DEF U
      <3> QED BY <2>3, <3>1, LeastClosed
    <2> QED BY <2>2, <2>4
  <1>2. Meets(f)
    BY <1>1
  <1>3. PinnedBy = CHOOSE g : Meets(g)
    BY DEF PinnedBy
  <1> HIDE DEF Meets, f
  <1>4. Meets(PinnedBy)
    BY <1>2, <1>3
  <1> QED BY <1>4 DEF Meets

\* What a reference pins, level by level, is what PinnedBy names.
LEMMA PinnedByOf ==
    ASSUME NEW d \in Docs
    PROVE  PinnedBy[d] =
               Pins(d) \cup UNION {PinnedBy[r.doc] : r \in {x \in Pins(d) : x.doc \in Docs}}
  BY PinnedByIs, Zenon

\* PinnedBy is the least closed set that holds what a document pins.
LEMMA PinnedByLeast ==
    ASSUME NEW d \in Docs, NEW S \in ClosedSets, Pins(d) \subseteq S
    PROVE  PinnedBy[d] \subseteq S
  <1> DEFINE T == {e \in Docs : Pins(e) \subseteq S /\ ~(PinnedBy[e] \subseteq S)}
  <1>1. SUFFICES ASSUME T # {} PROVE FALSE
    OBVIOUS
  <1>2. PICK e \in T : \A r \in Pins(e) : r.doc \notin T
    <2>1. T \in SUBSET Docs
      OBVIOUS
    <2> QED BY <1>1, <2>1, PinsAreOlder DEF PinsAreOlder
  <1>3. PICK y \in PinnedBy[e] : y \notin S
    OBVIOUS
  <1>4. y \notin Pins(e)
    BY <1>3
  <1>5. PICK x \in Pins(e) : x.doc \in Docs /\ y \in PinnedBy[x.doc]
    BY <1>3, <1>4, PinnedByOf
  <1>6. Pins(x.doc) \subseteq S
    BY <1>5 DEF ClosedSets
  <1>7. x.doc \in T
    BY <1>3, <1>5, <1>6
  <1> QED BY <1>2, <1>7

LEMMA PinnedByClosed ==
    ASSUME NEW d \in Docs
    PROVE  Pins(d) \subseteq PinnedBy[d] /\ PinnedBy[d] \in ClosedSets
  <1>1. PinnedBy[d] \subseteq Refs
    <2>1. Refs \in ClosedSets
      BY PinsAreRefs DEF ClosedSets
    <2> QED BY <2>1, PinnedByLeast, PinsAreRefs
  <1> DEFINE Whole(e) == \A r \in PinnedBy[e] : r.doc \in Docs => Pins(r.doc) \subseteq PinnedBy[e]
             T == {e \in Docs : ~Whole(e)}
  <1>2. T = {}
    <2>1. SUFFICES ASSUME T # {} PROVE FALSE
      OBVIOUS
    <2>2. PICK e \in T : \A r \in Pins(e) : r.doc \notin T
      <3>1. T \in SUBSET Docs
        OBVIOUS
      <3> HIDE DEF T
      <3> QED BY <2>1, <3>1, PinsAreOlder DEF PinsAreOlder
    <2>3. PICK r \in PinnedBy[e] : r.doc \in Docs /\ ~(Pins(r.doc) \subseteq PinnedBy[e])
      OBVIOUS
    <2>4. PICK x \in Pins(e) : x.doc \in Docs /\ (r = x \/ r \in PinnedBy[x.doc])
      BY <2>3, PinnedByOf
    <2>5. PinnedBy[x.doc] \subseteq PinnedBy[e]
      BY <2>4, PinnedByOf
    <2>6. Whole(x.doc)
      BY <2>2, <2>4
    <2>7. Pins(x.doc) \subseteq PinnedBy[x.doc]
      BY <2>4, PinnedByOf
    <2> QED BY <2>3, <2>4, <2>5, <2>6, <2>7
  <1>3. Whole(d)
    BY <1>2
  <1>4. Pins(d) \subseteq PinnedBy[d]
    BY PinnedByOf
  <1> QED BY <1>1, <1>3, <1>4 DEF ClosedSets

\* What an index reaches holds what it names, and what anything it reaches pins;
\* no closed set that holds what it names lacks any of it.
LEMMA ReachIsLeast ==
    ASSUME NEW index \in Seq(Refs)
    PROVE  /\ \A i \in 1 .. Len(index) : index[i] \in Reach(index)
           /\ Reach(index) \in ClosedSets
           /\ \A S \in ClosedSets :
                 (\A i \in 1 .. Len(index) : index[i] \in S) => Reach(index) \subseteq S
  <1> DEFINE named == {index[i] : i \in DOMAIN index}
  <1>1. Reach(index) =
            named \cup UNION {PinnedBy[r.doc] : r \in {x \in named : x.doc \in Docs}}
    BY DEF Reach
  <1>2. named \subseteq Refs /\ DOMAIN index = 1 .. Len(index)
    OBVIOUS
  <1> HIDE DEF named
  <1>3. \A i \in 1 .. Len(index) : index[i] \in named
    BY <1>2 DEF named
  <1>4. \A r \in Reach(index) :
            r \in named \/ \E x \in named : x.doc \in Docs /\ r \in PinnedBy[x.doc]
    BY <1>1
  <1>5. \A x \in named : x.doc \in Docs => PinnedBy[x.doc] \subseteq Reach(index)
    BY <1>1
  <1>6. Reach(index) \in ClosedSets
    <2>1. Reach(index) \subseteq Refs
      BY <1>2, <1>4, PinnedByClosed DEF ClosedSets
    <2>2. ASSUME NEW r \in Reach(index), r.doc \in Docs PROVE Pins(r.doc) \subseteq Reach(index)
      <3>1. CASE r \in named
        BY <1>5, <2>2, <3>1, PinnedByClosed
      <3>2. CASE r \notin named
        <4>1. PICK x \in named : x.doc \in Docs /\ r \in PinnedBy[x.doc]
          BY <1>4, <3>2
        <4>2. Pins(r.doc) \subseteq PinnedBy[x.doc]
          BY <2>2, <4>1, PinnedByClosed DEF ClosedSets
        <4> QED BY <1>5, <4>1, <4>2
      <3> QED BY <3>1, <3>2
    <2> QED BY <2>1, <2>2 DEF ClosedSets
  <1>7. ASSUME NEW S \in ClosedSets, \A i \in 1 .. Len(index) : index[i] \in S,
               NEW r \in Reach(index)
        PROVE  r \in S
    <2>1. named \subseteq S
      BY <1>2, <1>7 DEF named
    <2>2. CASE r \in named
      BY <2>1, <2>2
    <2>3. CASE r \notin named
      <3>1. PICK x \in named : x.doc \in Docs /\ r \in PinnedBy[x.doc]
        BY <1>4, <2>3
      <3>2. Pins(x.doc) \subseteq S
        BY <2>1, <3>1 DEF ClosedSets
      <3> QED BY <3>1, <3>2, PinnedByLeast
    <2> QED BY <2>2, <2>3
  <1> QED BY <1>1, <1>3, <1>6, <1>7

-----------------------------------------------------------------------------
(* What a walk has seen, and what it refuses for.                            *)

\* While the shelf stays, or only grows, what was read of it is still on it.
OnShelf == replaced = 0 \/ ~disturbed =>
    /\ \A m \in Kinds \X Keys : memo[m] # None => memo[m] = shelf[m[2]]
    /\ \A i \in 1 .. Len(stack) : stack[i].doc # None => stack[i].doc = shelf[stack[i].ref.key]
    /\ \A k \in Keys : done[k] # None => done[k] = shelf[k]

\* The calls are at, and visited releases were met at, what the roots reach.
WithinReach ==
    /\ verdict = "resolving" => stack = <<>> /\ \A k \in Keys : done[k] = None
    /\ \A i \in 1 .. Len(stack) : stack[i].ref \in Reach(roots)
    /\ \A k \in Keys : done[k] # None => \E r \in Reach(roots) : r.key = k /\ r.doc = done[k]

\* What an index may be refused for.
Faulty ==
    \/ ~Sound(Reach(roots))
    \/ \E r \in Reach(roots) : shelf[r.key] # r.doc

SeenInv == replaced \in Nat /\ OnShelf /\ WithinReach /\ RefusalIsReal

\* Where a walk begins or ends there is nothing it has seen.
LEMMA FreshIsSeen ==
    ASSUME Fresh', replaced' \in Nat, verdict' \in Refusals /\ ~disturbed' => Faulty'
    PROVE  SeenInv'
  <1>1. \A m \in Kinds \X Keys : memo'[m] = None
    BY DEF Fresh, Unread
  <1>2. stack' = <<>> /\ Len(stack') = 0 /\ \A k \in Keys : done'[k] = None
    BY DEF Fresh
  <1>3. OnShelf'
    BY <1>1, <1>2 DEF OnShelf
  <1>4. WithinReach'
    BY <1>2 DEF WithinReach
  <1>5. RefusalIsReal'
    BY DEF RefusalIsReal, Faulty
  <1> QED BY <1>3, <1>4, <1>5 DEF SeenInv

\* A refusal has a reason, unless the shelf changed.
LEMMA RefuseSeen ==
    ASSUME SeenInv, NEW why \in Refusals \cup {"unread"}, Refuse(why),
           why \in Refusals /\ ~disturbed => Faulty
    PROVE  SeenInv'
  <1>1. Fresh' /\ verdict' = why /\ UNCHANGED <<roots, shelf, disturbed>> /\ replaced' \in Nat
    BY DEF Refuse, Fresh, Keep, store, Unread, SeenInv
  <1>2. Faulty => Faulty'
    BY <1>1 DEF Faulty
  <1> QED BY <1>1, <1>2, FreshIsSeen

\* What a walk is answered is on the shelf.
LEMMA AnswerOnShelf ==
    ASSUME OnShelf, replaced = 0 \/ ~disturbed, NEW kind \in Kinds, NEW key \in Keys
    PROVE  Answer(kind, key) = shelf[key]
  <1> DEFINE m == <<kind, key>>
  <1>1. m \in Kinds \X Keys /\ m[2] = key
    OBVIOUS
  <1>2. memo[m] # None => memo[m] = shelf[m[2]]
    BY <1>1 DEF OnShelf
  <1> QED BY <1>1, <1>2 DEF Answer, Read

\* What a document pins that something reached is reached.
LEMMA PinReached ==
    ASSUME ClosureInv, NEW r \in Reach(roots), r.doc \in Docs,
           NEW n \in 1 .. Len(r.doc.deps)
    PROVE  r.doc.deps[n] \in Reach(roots)
  <1>1. roots \in Seq(Refs)
    BY DEF ClosureInv, WalkTyped
  <1>2. Reach(roots) \in ClosedSets
    BY <1>1, ReachIsLeast
  <1>3. r.doc.deps[n] \in Pins(r.doc)
    BY DocFacts DEF Pins
  <1> QED BY <1>2, <1>3 DEF ClosedSets

LEMMA WantedReached ==
    ASSUME ClosureInv, WithinReach, MoreToVisit
    PROVE  Wanted \in Reach(roots)
  <1>1. /\ roots \in Seq(Refs) /\ cursor \in 1 .. Len(roots) + 1 /\ stack \in Seq(Frames)
        /\ Len(roots) \in Nat /\ Calls
    BY DEF ClosureInv, WalkTyped
  <1>2. CASE stack = <<>>
    <2>1. cursor \in 1 .. Len(roots) /\ Wanted = roots[cursor]
      BY <1>1, <1>2 DEF MoreToVisit, Wanted
    <2> QED BY <1>1, <2>1, ReachIsLeast
  <1>3. CASE stack # <<>>
    <2>1. Len(stack) \in 1 .. Len(stack) /\ Top \in Frames /\ Top = stack[Len(stack)]
      BY <1>1, <1>3 DEF Top
    <2>2. Top.doc \in Docs /\ Top.next \in Nat \ {0} /\ Top.next <= Len(Top.doc.deps)
      BY <1>3, <2>1 DEF MoreToVisit, Frames
    <2>3. Top.next \in 1 .. Len(Top.doc.deps)
      <3>1. Len(Top.doc.deps) \in Nat
        BY <2>2, DocFacts
      <3> QED BY <2>2, <3>1
    <2>4. Top.ref \in Reach(roots) /\ Top.doc = Top.ref.doc
      BY <1>1, <2>1, <2>2, DocFacts DEF WithinReach, Calls
    <2> QED BY <1>3, <2>2, <2>3, <2>4, PinReached DEF Wanted
  <1> QED BY <1>2, <1>3

\* A call that is met again by its key is met with another document: else every
\* call from it on pins the next of them, and the last one the first, and none of
\* the documents was written first.
LEMMA CycleIsTwo ==
    ASSUME ClosureInv, MoreToVisit, NEW i \in 1 .. Len(stack)
    PROVE  Wanted.doc # stack[i].ref.doc
  <1> DEFINE n == Len(stack)
             T == {stack[j].doc : j \in i .. n}
  <1>1. SUFFICES ASSUME Wanted.doc = stack[i].ref.doc PROVE FALSE
    OBVIOUS
  <1>2. stack \in Seq(Frames) /\ Calls /\ Chain
    BY DEF ClosureInv, WalkTyped
  <1>3. n \in Nat /\ i \in 1 .. n /\ stack # <<>> /\ Top = stack[n]
    BY <1>2 DEF Top
  <1>4. Top.doc # None /\ Top.next <= Len(Top.doc.deps) /\ Wanted = Top.doc.deps[Top.next]
    BY <1>3 DEF MoreToVisit, Wanted
  <1>5. ASSUME NEW j \in i .. n
        PROVE  /\ stack[j].doc \in Docs /\ stack[j].doc = stack[j].ref.doc
               /\ stack[j].next \in 1 .. Len(stack[j].doc.deps)
    <2>1. j \in 1 .. Len(stack) /\ stack[j] \in Frames
      BY <1>2, <1>3
    <2>2. stack[j].doc # None /\ stack[j].next <= Len(stack[j].doc.deps)
      <3>1. CASE j = n
        BY <1>3, <1>4, <3>1
      <3>2. CASE j # n
        BY <1>2, <1>3, <2>1, <3>2 DEF Chain
      <3> QED BY <3>1, <3>2
    <2>3. stack[j].doc \in Docs /\ stack[j].next \in Nat \ {0}
      BY <2>1, <2>2 DEF Frames
    <2>4. Len(stack[j].doc.deps) \in Nat
      BY <2>3, DocFacts
    <2> QED BY <1>2, <2>1, <2>2, <2>3, <2>4 DEF Calls
  <1>6. T \in SUBSET Docs /\ T # {}
    BY <1>3, <1>5
  <1>7. PICK d \in T : \A r \in Pins(d) : r.doc \notin T
    <2> HIDE DEF T
    <2> QED BY <1>6, PinsAreOlder DEF PinsAreOlder
  <1>8. PICK j \in i .. n : d = stack[j].doc
    OBVIOUS
  <1>9. d.deps[stack[j].next] \in Pins(d)
    <2>1. DOMAIN d.deps = 1 .. Len(d.deps)
      BY <1>5, <1>8, DocFacts
    <2> QED BY <1>5, <1>8, <2>1 DEF Pins
  <1>10. d.deps[stack[j].next].doc \in T
    <2>1. CASE j = n
      <3>1. d.deps[stack[j].next].doc = stack[i].doc
        BY <1>1, <1>3, <1>4, <1>5, <1>8, <2>1
      <3> QED BY <1>3, <3>1
    <2>2. CASE j # n
      <3>1. j \in 1 .. Len(stack) - 1 /\ j + 1 \in i .. n
        BY <1>3, <2>2
      <3>2. d.deps[stack[j].next] = stack[j + 1].ref
        BY <1>2, <1>8, <3>1 DEF Chain
      <3>3. stack[j + 1].ref.doc = stack[j + 1].doc
        BY <1>5, <3>1
      <3> QED BY <3>1, <3>2, <3>3
    <2> QED BY <2>1, <2>2
  <1> QED BY <1>7, <1>9, <1>10

-----------------------------------------------------------------------------
(* The steps of the walk. *)

LEMMA EnterActiveSeen ==
    ASSUME ClosureInv, SeenInv, EnterActive
    PROVE  SeenInv'
  <1>1. PICK i \in 1 .. Len(stack) : Wanted.key = stack[i].ref.key
    <2>1. stack \in Seq(Frames)
      BY DEF ClosureInv, WalkTyped
    <2> QED BY <2>1 DEF EnterActive, Active
  <1>2. Wanted \in Reach(roots) /\ stack[i].ref \in Reach(roots)
    BY WantedReached DEF EnterActive, SeenInv, WithinReach
  <1>3. Wanted.doc # stack[i].ref.doc
    BY CycleIsTwo DEF EnterActive
  <1>4. Faulty
    BY <1>1, <1>2, <1>3 DEF Faulty, Sound
  <1> QED BY <1>4, RefuseSeen DEF EnterActive, Refusals

LEMMA EnterDoneSeen ==
    ASSUME ClosureInv, SeenInv, EnterDone
    PROVE  SeenInv'
  <1>1. Wanted \in Refs /\ Wanted \in Reach(roots)
    BY WantedFacts, WantedReached DEF EnterDone, SeenInv
  <1>2. CASE ~Settled(Wanted)
    <2>1. done[Wanted.key] # None /\ Refuse("pinned twice")
      BY <1>2 DEF EnterDone
    <2>2. PICK r \in Reach(roots) : r.key = Wanted.key /\ r.doc = done[Wanted.key]
      BY <1>1, <2>1, RefFacts DEF SeenInv, WithinReach
    <2>3. Faulty
      BY <1>1, <1>2, <2>2 DEF Faulty, Sound, Settled, Names
    <2> QED BY <2>1, <2>3, RefuseSeen DEF Refusals
  <1>3. CASE Settled(Wanted)
    <2>1. /\ stack' = Advanced(stack) /\ verdict = "running"
          /\ UNCHANGED <<memo, roots, done, verdict, shelf, replaced, disturbed>>
      BY <1>3 DEF EnterDone, MoreToVisit, Keep, store
    <2>2. stack \in Seq(Frames)
      BY DEF ClosureInv, WalkTyped
    <2>3. /\ Len(stack') = Len(stack)
          /\ \A i \in 1 .. Len(stack) :
                stack'[i].ref = stack[i].ref /\ stack'[i].doc = stack[i].doc
      BY <2>1, <2>2, AdvancedFacts
    <2>4. OnShelf'
      BY <2>1, <2>3 DEF SeenInv, OnShelf
    <2>5. WithinReach'
      BY <2>1, <2>3 DEF SeenInv, WithinReach
    <2>6. RefusalIsReal'
      BY <2>1 DEF RefusalIsReal, Refusals
    <2> QED BY <2>1, <2>4, <2>5, <2>6 DEF SeenInv
  <1> QED BY <1>2, <1>3

LEMMA EnterNewSeen ==
    ASSUME ClosureInv, SeenInv, EnterNew
    PROVE  SeenInv'
  <1>1. /\ stack' = Append(stack, Frame(Wanted)) /\ verdict = "running"
        /\ UNCHANGED <<memo, roots, done, verdict, shelf, replaced, disturbed>>
    BY DEF EnterNew, MoreToVisit, Keep, store
  <1>2. stack \in Seq(Frames) /\ Len(stack) \in Nat
    BY DEF ClosureInv, WalkTyped
  <1>3. Wanted \in Reach(roots) /\ Wanted \in Refs
    BY WantedFacts, WantedReached DEF EnterNew, SeenInv
  <1>4. Frame(Wanted) \in Frames /\ Frame(Wanted).ref = Wanted /\ Frame(Wanted).doc = None
    BY <1>3 DEF Frame, Frames
  <1>5. /\ Len(stack') = Len(stack) + 1
        /\ \A i \in 1 .. Len(stack') :
              stack'[i] = IF i = Len(stack) + 1 THEN Frame(Wanted) ELSE stack[i]
    BY <1>1, <1>2, <1>4
  <1>6. \A i \in 1 .. Len(stack') : i # Len(stack) + 1 => i \in 1 .. Len(stack)
    BY <1>2, <1>5
  <1>7. OnShelf'
    BY <1>1, <1>4, <1>5, <1>6 DEF SeenInv, OnShelf
  <1>8. WithinReach'
    BY <1>1, <1>3, <1>4, <1>5, <1>6 DEF SeenInv, WithinReach
  <1>9. RefusalIsReal'
    BY <1>1 DEF RefusalIsReal, Refusals
  <1> QED BY <1>1, <1>2, <1>7, <1>8, <1>9 DEF SeenInv

LEMMA FetchSeen ==
    ASSUME ClosureInv, SeenInv, Fetch
    PROVE  SeenInv'
  <1> DEFINE n == Len(stack)
             bytes == Answer(Top.ref.kind, Top.ref.key)
             m == <<Top.ref.kind, Top.ref.key>>
  <1>1. stack \in Seq(Frames) /\ n \in 1 .. Len(stack) /\ Top \in Frames /\ Top = stack[n]
    BY DEF ClosureInv, WalkTyped, Fetch, Top
  <1>2. Top.ref \in Refs /\ Top.ref.kind \in Kinds /\ Top.ref.key \in Keys
    BY <1>1, RefFacts DEF Frames
  <1>3. Top.ref \in Reach(roots)
    BY <1>1 DEF SeenInv, WithinReach
  <1>4. replaced = 0 \/ ~disturbed => bytes = shelf[Top.ref.key]
    BY <1>2, AnswerOnShelf DEF SeenInv
  <1>5. CASE Refuse("unread")
    BY <1>5, RefuseSeen DEF Refusals
  <1>6. CASE bytes # Top.ref.doc /\ Refuse("digest")
    <2>1. ~disturbed => Faulty
      BY <1>3, <1>4, <1>6 DEF Faulty
    <2> QED BY <1>6, <2>1, RefuseSeen DEF Refusals
  <1>7. CASE bytes = Top.ref.doc /\ ~Names(bytes, Top.ref) /\ Refuse("document")
    <2>1. Faulty
      BY <1>3, <1>7 DEF Faulty, Sound
    <2> QED BY <1>7, <2>1, RefuseSeen DEF Refusals
  <1>8. CASE /\ bytes = Top.ref.doc /\ Names(bytes, Top.ref)
             /\ memo' = [memo EXCEPT ![m] = bytes]
             /\ stack' = [stack EXCEPT ![n].doc = bytes]
             /\ UNCHANGED <<roots, done, verdict>> /\ Keep
    <2>1. UNCHANGED <<roots, done, verdict, shelf, replaced, disturbed>> /\ verdict = "running"
      BY <1>8 DEF Keep, store, Fetch
    <2>2. bytes \in Docs
      BY <1>8 DEF Names
    <2>3. stack' = [stack EXCEPT ![n] = [Top EXCEPT !.doc = bytes]]
      BY <1>1, <1>8
    <2>4. [Top EXCEPT !.doc = bytes] \in Frames
      BY <1>1, <2>2 DEF Frames
    <2>5. /\ Len(stack') = Len(stack)
          /\ \A i \in 1 .. Len(stack) :
                /\ stack'[i].ref = stack[i].ref
                /\ i # n => stack'[i].doc = stack[i].doc
                /\ i = n => stack'[i].doc = bytes
      BY <1>1, <2>3, <2>4 DEF Frames
    <2>6. memo \in [Kinds \X Keys -> Stored] /\ m \in Kinds \X Keys /\ m[2] = Top.ref.key
      BY <1>2 DEF ClosureInv, WalkTyped
    <2>7. \A o \in Kinds \X Keys : memo'[o] = IF o = m THEN bytes ELSE memo[o]
      BY <1>8, <2>6
    <2>8. OnShelf'
      <3> SUFFICES ASSUME replaced = 0 \/ ~disturbed
                   PROVE  /\ \A o \in Kinds \X Keys : memo'[o] # None => memo'[o] = shelf[o[2]]
                          /\ \A i \in 1 .. Len(stack') : stack'[i].doc # None =>
                                stack'[i].doc = shelf[stack'[i].ref.key]
                          /\ \A k \in Keys : done[k] # None => done[k] = shelf[k]
        BY <2>1 DEF OnShelf
      <3>1. \A o \in Kinds \X Keys : memo'[o] # None => memo'[o] = shelf[o[2]]
        BY <1>4, <2>6, <2>7 DEF SeenInv, OnShelf
      <3>2. ASSUME NEW i \in 1 .. Len(stack'), stack'[i].doc # None
            PROVE  stack'[i].doc = shelf[stack'[i].ref.key]
        BY <1>1, <1>4, <2>5, <3>2 DEF SeenInv, OnShelf
      <3> QED BY <3>1, <3>2 DEF SeenInv, OnShelf
    <2>9. WithinReach'
      BY <2>1, <2>5 DEF SeenInv, WithinReach
    <2>10. RefusalIsReal'
      BY <2>1 DEF RefusalIsReal, Refusals
    <2> QED BY <2>1, <2>8, <2>9, <2>10 DEF SeenInv
  <1> QED BY <1>5, <1>6, <1>7, <1>8 DEF Fetch

LEMMA LeaveSeen ==
    ASSUME ClosureInv, SeenInv, Leave
    PROVE  SeenInv'
  <1> DEFINE n == Len(stack)
  <1>1. stack \in Seq(Frames) /\ n \in 1 .. Len(stack) /\ Top \in Frames /\ Top = stack[n]
        /\ n \in Nat /\ Calls
    BY DEF ClosureInv, WalkTyped, Leave, Top
  <1>2. /\ done' = [done EXCEPT ![Top.ref.key] = Top.doc] /\ stack' = Advanced(Below)
        /\ Top.doc # None /\ verdict = "running"
        /\ UNCHANGED <<memo, roots, verdict, shelf, replaced, disturbed>>
    BY DEF Leave, Keep, store
  <1>3. Top.doc = Top.ref.doc /\ Top.ref \in Reach(roots) /\ Top.ref.key \in Keys
    BY <1>1, <1>2, RefFacts DEF Calls, SeenInv, WithinReach, Frames
  <1>4. \A k \in Keys : done'[k] = IF k = Top.ref.key THEN Top.doc ELSE done[k]
    BY <1>2, <1>3 DEF ClosureInv, WalkTyped
  <1>5. /\ Below \in Seq(Frames) /\ Len(Below) = n - 1
        /\ \A i \in 1 .. Len(Below) : Below[i] = stack[i] /\ i \in 1 .. Len(stack)
    BY <1>1, BelowFacts DEF Leave
  <1>6. /\ Len(stack') = Len(Below)
        /\ \A i \in 1 .. Len(stack') :
              /\ i \in 1 .. Len(stack)
              /\ stack'[i].ref = stack[i].ref /\ stack'[i].doc = stack[i].doc
    <2>1. \A i \in 1 .. Len(Below) : Advanced(Below)[i].ref = Below[i].ref
              /\ Advanced(Below)[i].doc = Below[i].doc
      BY <1>5, AdvancedFacts
    <2>2. Len(Advanced(Below)) = Len(Below)
      BY <1>5, AdvancedFacts
    <2> QED BY <1>2, <1>5, <2>1, <2>2
  <1>7. OnShelf'
    <2>1. replaced = 0 \/ ~disturbed => Top.doc = shelf[Top.ref.key]
      BY <1>1, <1>2 DEF SeenInv, OnShelf
    <2> QED BY <1>2, <1>4, <1>6, <2>1 DEF SeenInv, OnShelf
  <1>8. WithinReach'
    <2>1. ASSUME NEW k \in Keys, done'[k] # None
          PROVE  \E r \in Reach(roots) : r.key = k /\ r.doc = done'[k]
      <3>1. CASE k = Top.ref.key
        BY <1>3, <1>4, <3>1
      <3>2. CASE k # Top.ref.key
        BY <1>4, <2>1, <3>2 DEF SeenInv, WithinReach
      <3> QED BY <3>1, <3>2
    <2> QED BY <1>2, <1>6, <2>1 DEF SeenInv, WithinReach
  <1>9. RefusalIsReal'
    BY <1>2 DEF RefusalIsReal, Refusals
  <1> QED BY <1>1, <1>2, <1>7, <1>8, <1>9 DEF SeenInv

LEMMA ResolveSeen ==
    ASSUME ClosureInv, SeenInv, Resolve
    PROVE  SeenInv'
  <1> DEFINE key == wish[Len(roots) + 1]
             bytes == Answer("plugin", key)
             m == <<"plugin", key>>
  <1>1. CASE Refuse("unread")
    BY <1>1, RefuseSeen DEF Refusals
  <1>2. CASE ~Refuse("unread")
    <2>1. /\ memo' = [memo EXCEPT ![m] = bytes] /\ verdict = "resolving"
          /\ verdict' = IF Len(roots') = Len(wish) THEN "running" ELSE verdict
          /\ UNCHANGED <<stack, done, shelf, replaced, disturbed>>
      BY <1>2 DEF Resolve, Keep, store
    <2>2. stack = <<>> /\ Len(stack) = 0 /\ \A k \in Keys : done[k] = None
      BY <2>1 DEF SeenInv, WithinReach
    <2>3. key \in Keys /\ "plugin" \in Kinds
      BY <2>1 DEF ClosureInv, WalkTyped, Kinds
    <2>4. memo \in [Kinds \X Keys -> Stored] /\ m \in Kinds \X Keys /\ m[2] = key
      BY <2>3 DEF ClosureInv, WalkTyped
    <2>5. \A o \in Kinds \X Keys : memo'[o] = IF o = m THEN bytes ELSE memo[o]
      BY <2>1, <2>4
    <2>6. replaced = 0 \/ ~disturbed => bytes = shelf[key]
      BY <2>3, AnswerOnShelf DEF SeenInv
    <2>7. OnShelf'
      BY <2>1, <2>2, <2>4, <2>5, <2>6 DEF SeenInv, OnShelf
    <2>8. WithinReach'
      BY <2>1, <2>2 DEF WithinReach
    <2>9. RefusalIsReal'
      BY <2>1 DEF RefusalIsReal, Refusals
    <2> QED BY <2>1, <2>7, <2>8, <2>9 DEF SeenInv
  <1> QED BY <1>1, <1>2

LEMMA FinishSeen ==
    ASSUME SeenInv, Finish
    PROVE  SeenInv'
  <1>1. UNCHANGED <<memo, roots, stack, done, shelf, replaced, disturbed>> /\ verdict' = "ok"
    BY DEF Finish, Keep, store
  <1>2. OnShelf'
    BY <1>1 DEF SeenInv, OnShelf
  <1>3. WithinReach'
    BY <1>1 DEF SeenInv, WithinReach
  <1>4. RefusalIsReal'
    BY <1>1 DEF RefusalIsReal, Refusals
  <1> QED BY <1>1, <1>2, <1>3, <1>4 DEF SeenInv

\* While the variables of the walk and the shelf stay, so does what it has seen.
LEMMA SeenStays ==
    ASSUME SeenInv, UNCHANGED <<walk, store, disturbed>>
    PROVE  SeenInv'
  <1>1. UNCHANGED <<memo, roots, stack, done, verdict, shelf, replaced, disturbed>>
    BY DEF walk, store
  <1>2. OnShelf'
    BY <1>1 DEF SeenInv, OnShelf
  <1>3. WithinReach'
    BY <1>1 DEF SeenInv, WithinReach
  <1>4. RefusalIsReal'
    BY <1>1 DEF SeenInv, RefusalIsReal
  <1> QED BY <1>1, <1>2, <1>3, <1>4 DEF SeenInv

LEMMA WalkSeen ==
    ASSUME ClosureInv, SeenInv, Walk
    PROVE  SeenInv'
  BY ResolveSeen, EnterActiveSeen, EnterDoneSeen, EnterNewSeen, FetchSeen, LeaveSeen,
     FinishSeen DEF Walk

\* What was read and never replaced is still there when something else is put on
\* the shelf.
LEMMA PutSeen ==
    ASSUME ClosureInv, SeenInv, NEW key \in Keys, NEW bytes, Put(key, bytes)
    PROVE  SeenInv'
  <1>1. /\ shelf' = [shelf EXCEPT ![key] = bytes] /\ disturbed' = TRUE
        /\ replaced' = IF shelf[key] = None THEN replaced ELSE replaced + 1
        /\ UNCHANGED <<memo, roots, stack, done, verdict>>
    BY DEF Put, walk
  <1>2. \A k \in Keys : shelf'[k] = IF k = key THEN bytes ELSE shelf[k]
    BY <1>1 DEF ClosureInv, WalkTyped
  <1>3. OnShelf'
    <2> SUFFICES ASSUME replaced' = 0
                 PROVE  /\ \A m \in Kinds \X Keys : memo[m] # None => memo[m] = shelf'[m[2]]
                        /\ \A i \in 1 .. Len(stack) : stack[i].doc # None =>
                              stack[i].doc = shelf'[stack[i].ref.key]
                        /\ \A k \in Keys : done[k] # None => done[k] = shelf'[k]
      BY <1>1 DEF OnShelf
    <2>1. shelf[key] = None /\ replaced = 0
      <3>1. replaced \in Nat
        BY DEF SeenInv
      <3> QED BY <1>1, <3>1
    <2>2. \A k \in Keys : shelf[k] # None => shelf'[k] = shelf[k]
      BY <1>2, <2>1
    <2>3. \A i \in 1 .. Len(stack) : stack[i].ref.key \in Keys
      <3>1. stack \in Seq(Frames)
        BY DEF ClosureInv, WalkTyped
      <3>2. \A i \in 1 .. Len(stack) : stack[i] \in Frames
        BY <3>1
      <3> QED BY <3>2, RefFacts DEF Frames
    <2>4. \A m \in Kinds \X Keys : m[2] \in Keys
      OBVIOUS
    <2>5. ASSUME NEW m \in Kinds \X Keys, memo[m] # None PROVE memo[m] = shelf'[m[2]]
      <3>1. memo[m] = shelf[m[2]] /\ m[2] \in Keys
        BY <2>1, <2>4, <2>5 DEF SeenInv, OnShelf
      <3> QED BY <2>2, <2>5, <3>1
    <2>6. ASSUME NEW i \in 1 .. Len(stack), stack[i].doc # None
          PROVE  stack[i].doc = shelf'[stack[i].ref.key]
      <3>1. stack[i].doc = shelf[stack[i].ref.key]
        BY <2>1, <2>6 DEF SeenInv, OnShelf
      <3> QED BY <2>2, <2>3, <2>6, <3>1
    <2>7. \A k \in Keys : done[k] # None => done[k] = shelf'[k]
      BY <2>1, <2>2 DEF SeenInv, OnShelf
    <2> QED BY <2>5, <2>6, <2>7
  <1>4. WithinReach'
    BY <1>1 DEF SeenInv, WithinReach
  <1>5. RefusalIsReal'
    BY <1>1 DEF RefusalIsReal
  <1>6. replaced' \in Nat
    BY <1>1 DEF SeenInv
  <1> QED BY <1>3, <1>4, <1>5, <1>6 DEF SeenInv

LEMMA BuildingSeen ==
    ASSUME ClosureInv, SeenInv, builder # None => builder.key \in Keys, Building
    PROVE  SeenInv'
  <1>1. CASE UNCHANGED <<walk, store, disturbed>>
    BY <1>1, SeenStays
  <1>2. ASSUME NEW key \in Keys, NEW bytes, Put(key, bytes) PROVE SeenInv'
    BY <1>2, PutSeen
  <1>3. Botched \subseteq Keys
    BY ClosureAssumption DEF ClosureAssumption
  <1> QED BY <1>1, <1>2, <1>3 DEF Building, StartBuild, Compose, PublishBuilt, PublishJunk

LEMMA BuildRegistrySeen ==
    ASSUME ClosureInv, SeenInv, BuildRegistry
    PROVE  SeenInv'
  <1>1. Fresh' /\ verdict' = "resolving" /\ replaced' = replaced
    BY DEF BuildRegistry, StartWalk, Fresh, store
  <1> QED BY <1>1, FreshIsSeen DEF Refusals, SeenInv

LEMMA WriteRegistrySeen ==
    ASSUME ClosureInv, SeenInv, WriteRegistry
    PROVE  SeenInv'
  <1>1. Fresh' /\ verdict' = "idle" /\ replaced' = replaced
    BY DEF WriteRegistry, WalkIdle, Fresh, store
  <1> QED BY <1>1, FreshIsSeen DEF Refusals, SeenInv

LEMMA SeenStart == Init => SeenInv
  <1> SUFFICES ASSUME Init PROVE SeenInv
    OBVIOUS
  <1>1. /\ replaced = 0 /\ memo = Unread /\ stack = <<>> /\ done = [k \in Keys |-> None]
        /\ verdict = "idle"
    BY DEF Init, ClosureInit
  <1>2. Len(stack) = 0 /\ \A m \in Kinds \X Keys : memo[m] = None
    BY <1>1 DEF Unread
  <1>3. OnShelf
    BY <1>1, <1>2 DEF OnShelf
  <1>4. WithinReach
    BY <1>1, <1>2 DEF WithinReach
  <1> QED BY <1>1, <1>3, <1>4 DEF SeenInv, RefusalIsReal, Refusals

LEMMA SeenStep ==
    ASSUME ClosureInv, BuilderTyped, SeenInv, [Next]_vars
    PROVE  SeenInv'
  <1>1. CASE UNCHANGED vars
    BY <1>1, SeenStays DEF vars, closureVars
  <1>2. ASSUME NEW c \in Clients, NEW document, NEW time, Certify(c, document, time)
        PROVE  SeenInv'
    BY <1>2, SeenStays DEF Certify, closureVars
  <1>3. builder # None => builder.key \in Keys
    BY DEF BuilderTyped
  <1>4. CASE Authenticate
    BY <1>4, SeenStays DEF Authenticate, closureVars
  <1> QED BY <1>1, <1>2, <1>3, <1>4, WalkSeen, BuildingSeen, BuildRegistrySeen,
             WriteRegistrySeen
          DEF Next

\* The inductive invariant of what a walk has seen, next to ClosureInv and
\* TypesInv.
THEOREM SeenInductive == Spec => []SeenInv
  <1>1. ClosureInv /\ BuilderTyped /\ SeenInv /\ [Next]_vars => SeenInv'
    BY SeenStep
  <1> QED BY <1>1, SeenStart, ClosureInductive, BuilderInductive, PTL DEF Spec

\* verifyReleaseClosure (src/registryPublication.ts:19) refuses an index only for a
\* fault of what it reaches, unless a release changed while it ran.
THEOREM RefusesForAReason == Spec => []RefusalIsReal
  <1>1. SeenInv => RefusalIsReal
    BY DEF SeenInv
  <1> QED BY <1>1, SeenInductive, PTL

-----------------------------------------------------------------------------
(* What a client can resolve. *)

Resolves(plugins) ==
    /\ Sound(Reach(plugins))
    /\ replaced = 0 => \A r \in Reach(plugins) : shelf[r.key] = r.doc

DraftsResolve == \A payload \in drafts : Resolves(payload.plugins)

IssuedResolves ==
    \A d \in issued : d.signed \notin HandWritten => Resolves(d.signed.plugins)

\* Every release the roots of an index reach was visited as it is pinned.
LEMMA AllSettled ==
    ASSUME ClosureInv, verdict = "ok"
    PROVE  \A r \in Reach(roots) : r \in Refs /\ Settled(r)
  <1> DEFINE S == {r \in Refs : Settled(r)}
  <1>1. WalkTyped /\ Closed
    BY DEF ClosureInv
  <1>2. roots \in Seq(Refs) /\ \A i \in 1 .. Len(roots) : roots[i] \in S
    <2>1. ASSUME NEW i \in 1 .. Len(roots) PROVE roots[i] \in Refs /\ i < cursor
      BY <1>1 DEF WalkTyped, Closed
    <2> QED BY <1>1, <2>1 DEF WalkTyped, Closed
  <1>3. ASSUME NEW r \in S, r.doc \in Docs PROVE Pins(r.doc) \subseteq S
    <2>1. done[r.key] = r.doc /\ r.key \in Keys /\ r.doc # None
      BY RefFacts DEF Settled
    <2>2. ASSUME NEW n \in 1 .. Len(r.doc.deps) PROVE r.doc.deps[n] \in S
      <3>1. Settled(r.doc.deps[n])
        BY <1>1, <2>1, <2>2 DEF Closed
      <3> QED BY <1>3, <3>1, PinFacts
    <2>3. DOMAIN r.doc.deps = 1 .. Len(r.doc.deps)
      BY <1>3, DocFacts
    <2> QED BY <2>2, <2>3 DEF Pins
  <1>4. S \in ClosedSets
    BY <1>3 DEF ClosedSets
  <1>5. Reach(roots) \subseteq S
    <2> HIDE DEF S
    <2> QED BY <1>2, <1>4, ReachIsLeast
  <1> QED BY <1>5

LEMMA OkResolves ==
    ASSUME ClosureInv, SeenInv, verdict = "ok"
    PROVE  Resolves(roots)
  <1>1. \A r \in Reach(roots) :
            /\ r \in Refs /\ r.key \in Keys /\ r.doc # None
            /\ done[r.key] = r.doc /\ r.doc.kind = r.kind
    BY AllSettled, RefFacts DEF Settled
  <1>2. \A r \in Reach(roots) : r.doc \in Docs /\ r.doc.key = r.key
    BY <1>1 DEF ClosureInv, WalkTyped, Closed
  <1>3. Sound(Reach(roots))
    BY <1>1, <1>2 DEF Sound, Names
  <1>4. replaced = 0 => \A r \in Reach(roots) : shelf[r.key] = r.doc
    BY <1>1 DEF SeenInv, OnShelf
  <1> QED BY <1>3, <1>4 DEF Resolves

\* Nothing leaves the shelf that was on it.
LEMMA StillResolves ==
    ASSUME ClosureInv, SeenInv, BuilderTyped, TrustInv, [Next]_vars,
           NEW plugins \in Seq(Refs), Resolves(plugins)
    PROVE  Resolves(plugins)'
  <1>1. ASSUME NEW key \in Keys, NEW bytes, Put(key, bytes), replaced' = 0,
               NEW r \in Reach(plugins)
        PROVE  shelf'[r.key] = r.doc
    <2>1. replaced \in Nat /\ shelf \in [Keys -> Stored]
      BY DEF SeenInv, ClosureInv, WalkTyped
    <2>2. shelf' = [shelf EXCEPT ![key] = bytes] /\ replaced = 0 /\ shelf[key] = None
      BY <1>1, <2>1 DEF Put
    <2>3. r \in Refs
      BY ReachIsLeast DEF ClosedSets
    <2>4. shelf[r.key] = r.doc /\ r.doc # None /\ r.key \in Keys
      BY <2>2, <2>3, RefFacts DEF Resolves
    <2> QED BY <2>1, <2>2, <2>4
  <1>2. \/ shelf' = shelf /\ replaced' = replaced
        \/ \E key \in Keys : \E bytes : Put(key, bytes)
    <2>1. CASE Walk
      BY <2>1 DEF Walk, Resolve, EnterActive, EnterDone, EnterNew, Fetch, Leave, Finish,
                 Refuse, Keep, store
    <2>2. CASE Building
      <3>1. Botched \subseteq Keys
        BY ClosureAssumption DEF ClosureAssumption
      <3>2. builder # None => builder.key \in Keys
        BY DEF BuilderTyped
      <3> QED BY <2>2, <3>1, <3>2
              DEF Building, StartBuild, Compose, PublishBuilt, PublishJunk, store
    <2>3. CASE BuildRegistry \/ WriteRegistry \/ Authenticate
      BY <2>3 DEF BuildRegistry, StartWalk, WriteRegistry, Authenticate, closureVars, store
    <2>4. CASE \E c \in Clients, document \in InCirculation, time \in 0 .. MaxTime :
                  Certify(c, document, time)
      BY <2>4 DEF Certify, closureVars, store
    <2>5. CASE UNCHANGED vars
      BY <2>5 DEF vars, closureVars, store
    <2> QED BY <2>1, <2>2, <2>3, <2>4, <2>5 DEF Next
  <1>3. CASE shelf' = shelf /\ replaced' = replaced
    BY <1>3 DEF Resolves
  <1>4. CASE \E key \in Keys : \E bytes : Put(key, bytes)
    <2>1. replaced' = 0 => \A r \in Reach(plugins) : shelf'[r.key] = r.doc
      BY <1>1, <1>4
    <2> QED BY <2>1 DEF Resolves
  <1> QED BY <1>2, <1>3, <1>4

LEMMA IssuedStep ==
    ASSUME ClosureInv, SeenInv, BuilderTyped, TrustInv, DraftsResolve, IssuedResolves,
           [Next]_vars
    PROVE  DraftsResolve' /\ IssuedResolves'
  <1>1. /\ \A d \in issued : d.signed.plugins \in Seq(Refs)
        /\ \A payload \in drafts : payload.plugins \in Seq(Refs)
    BY DEF TrustInv, Payloads
  <1>2. /\ \A d \in issued : d.signed \notin HandWritten => Resolves(d.signed.plugins)'
        /\ \A payload \in drafts : Resolves(payload.plugins)'
    BY <1>1, StillResolves DEF IssuedResolves, DraftsResolve
  <1>3. CASE UNCHANGED <<drafts, issued>>
    BY <1>2, <1>3 DEF IssuedResolves, DraftsResolve
  <1>4. CASE WriteRegistry
    <2>1. PICK sequence \in Sequences, period \in Periods :
              drafts' = drafts \cup {Payload(sequence, period, roots)}
      BY <1>4 DEF WriteRegistry
    <2>2. roots \in Seq(Refs) /\ Resolves(roots)
      BY <1>4, OkResolves DEF WriteRegistry, ClosureInv, WalkTyped
    <2>3. shelf' = shelf /\ replaced' = replaced /\ issued' = issued
      BY <1>4 DEF WriteRegistry, store
    <2>4. Resolves(roots) => \A payload \in drafts' \ drafts : Resolves(payload.plugins)'
      BY <2>1, <2>3 DEF Payload, Resolves
    <2> QED BY <1>2, <2>2, <2>3, <2>4 DEF IssuedResolves, DraftsResolve
  <1>5. CASE Authenticate
    <2>1. PICK payload \in drafts \cup HandWritten :
              /\ issued' = issued \cup
                     {[payload |-> payload, keyId |-> TrustedKey, signed |-> payload]}
              /\ drafts' = drafts \ {payload}
      BY <1>5 DEF Authenticate
    <2>2. \A d \in issued' : d \in issued \/ d.signed = payload
      BY <2>1
    <2> QED BY <1>2, <2>1, <2>2 DEF IssuedResolves, DraftsResolve
  <1>6. UNCHANGED <<drafts, issued>> \/ WriteRegistry \/ Authenticate
    BY DEF Next, BuildRegistry, Certify, vars, trust
  <1> QED BY <1>3, <1>4, <1>5, <1>6

\* What a client accepts, unless the owner wrote it by hand, reaches one document
\* of each identity, and while no release is replaced all of it can be resolved, however late it arrives
\* (authenticateRegistry of src/registryPublication.ts, certifyRegistry of
\* src/registry.ts).
THEOREM AcceptedCanBeResolved == Spec => []AcceptedResolves
  <1>1. Init => DraftsResolve /\ IssuedResolves
    BY DEF Init, DraftsResolve, IssuedResolves
  <1>2. /\ ClosureInv /\ SeenInv /\ BuilderTyped /\ TrustInv
        /\ DraftsResolve /\ IssuedResolves /\ [Next]_vars
        => DraftsResolve' /\ IssuedResolves'
    BY IssuedStep
  <1>3. TrustInv /\ IssuedResolves => AcceptedResolves
    <2> SUFFICES ASSUME TrustInv, IssuedResolves, NEW c \in Clients,
                        NEW i \in DOMAIN accepted[c], accepted[c][i] \notin HandWritten
                 PROVE  Resolves(accepted[c][i].plugins)
      BY DEF AcceptedResolves, Resolves
    <2>1. PICK d \in issued : d.signed = accepted[c][i]
      BY DEF TrustInv, TrustNeverForks
    <2> QED BY <2>1 DEF IssuedResolves
  <1> QED BY <1>1, <1>2, <1>3, ClosureInductive, SeenInductive, BuilderInductive,
             TrustInductive, PTL DEF Spec
===============================================================================
