-------------------------- MODULE ServiceContract --------------------------
(***************************************************************************)
(* What a plugin service promises the core about requests, whatever its    *)
(* threads do: a request is answered at most once, by the outcome of an    *)
(* execution of the same key, and a request asked after its key was        *)
(* answered is never executed again (the idempotency promise the harness   *)
(* can keep, PS12).                                                        *)
(***************************************************************************)
CONSTANTS Reqs, Keys, KeyOf, None

VARIABLES
    state,  \* idle, asked, running, returned, answered, gone
    late,   \* requests asked when their key already had an answer
    by      \* the execution whose outcome answered a request, or None

vars == <<state, late, by>>

Answered(k) == \E r \in Reqs : KeyOf[r] = k /\ state[r] = "answered"

\* An execution whose outcome exists: it returned, and may have been answered.
HasOutcome(e) == state[e] = "returned" \/ (state[e] = "answered" /\ by[e] = e)

Init ==
    /\ state = [r \in Reqs |-> "idle"]
    /\ late = {}
    /\ by = [r \in Reqs |-> None]

Become(r, s) == state' = [state EXCEPT ![r] = s]

Ask(r) ==
    /\ state[r] = "idle" /\ Become(r, "asked")
    /\ late' = IF Answered(KeyOf[r]) THEN late \cup {r} ELSE late
    /\ UNCHANGED by

Execute(r) ==
    /\ state[r] = "asked" /\ r \notin late
    /\ Become(r, "running")
    /\ UNCHANGED <<late, by>>

Complete(r) ==
    /\ state[r] = "running"
    /\ \E s \in {"returned", "gone"} : Become(r, s)
    /\ UNCHANGED <<late, by>>

Answer(r) ==
    /\ state[r] = "returned" /\ Become(r, "answered")
    /\ by' = [by EXCEPT ![r] = r]
    /\ UNCHANGED late

Replay(r) ==
    /\ state[r] = "asked" /\ Become(r, "answered")
    /\ \E e \in Reqs :
          /\ KeyOf[e] = KeyOf[r] /\ HasOutcome(e)
          /\ by' = [by EXCEPT ![r] = e]
    /\ UNCHANGED late

Next == \E r \in Reqs :
    Ask(r) \/ Execute(r) \/ Complete(r) \/ Answer(r) \/ Replay(r)

Spec == Init /\ [][Next]_vars
=============================================================================
