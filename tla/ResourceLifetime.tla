-------------------------- MODULE ResourceLifetime --------------------------
(***************************************************************************)
(* What the graphics device promises of GPU objects: work starts on        *)
(* objects that exist, and an object is freed only when no work that was   *)
(* started and has not finished refers to it. Work finishes in the order   *)
(* it was started, as on one queue.                                        *)
(***************************************************************************)
EXTENDS Integers, Sequences

CONSTANT Objects

VARIABLES
    existing,   \* the objects that exist
    running     \* the object sets of the work in progress, oldest first

vars == <<existing, running>>

Init == existing = {} /\ running = <<>>

InUse == UNION {running[i] : i \in DOMAIN running}

Create(S) == existing' = existing \cup S /\ UNCHANGED running

Start(S) ==
    /\ S \subseteq existing
    /\ running' = Append(running, S)
    /\ UNCHANGED existing

Finish ==
    /\ running # <<>>
    /\ running' = Tail(running)
    /\ UNCHANGED existing

Free(S) ==
    /\ S \cap InUse = {}
    /\ existing' = existing \ S
    /\ UNCHANGED running

Next ==
    \/ \E S \in SUBSET Objects : Create(S) \/ Start(S) \/ Free(S)
    \/ Finish

Spec == Init /\ [][Next]_vars
=============================================================================
