--------------------------- MODULE WriteOnceStore ---------------------------
(***************************************************************************)
(* What the local release store promises, without locks, staging or        *)
(* crashes: a version is put on the shelf once and whole, it never changes *)
(* or goes away, and what a publisher is told about its release is true of *)
(* the shelf.  A release may be put there by a publisher that never gets   *)
(* to hear of it.                                                          *)
(***************************************************************************)
CONSTANTS Publishers, Keys, Contents, KeyOf, None

VARIABLES
    shelf,    \* version -> the release bytes stored there, or None
    told      \* publisher -> what it was answered, or None

vars == <<shelf, told>>

Refusals == {"busy", "interrupted", "failed"}

Init == shelf = [k \in Keys |-> None] /\ told = [p \in Publishers |-> None]

Put(c) ==
    /\ shelf[KeyOf[c]] = None
    /\ shelf' = [shelf EXCEPT ![KeyOf[c]] = c]
    /\ UNCHANGED told

\* What may be said of a release: it is there, or another one is in its place.
TrueOf(state, c) ==
    \/ state \in {"published", "unchanged"} /\ shelf[KeyOf[c]] = c
    \/ state = "conflict" /\ shelf[KeyOf[c]] \notin {None, c}

Tell(p) ==
    /\ told[p] = None
    /\ \/ \E state \in Refusals :
             told' = [told EXCEPT ![p] = [state |-> state, release |-> None]]
       \/ \E state \in {"published", "unchanged", "conflict"}, c \in Contents :
             /\ TrueOf(state, c)
             /\ told' = [told EXCEPT ![p] = [state |-> state, release |-> c]]
    /\ UNCHANGED shelf

Next == (\E c \in Contents : Put(c)) \/ (\E p \in Publishers : Tell(p))

Spec == Init /\ [][Next]_vars
=============================================================================
