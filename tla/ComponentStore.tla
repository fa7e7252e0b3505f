---------------------------- MODULE ComponentStore ----------------------------
(***************************************************************************)
(* What the entities and components of a world are to its users: each live *)
(* entity has, for each class, a value or none. Nothing is said of where   *)
(* the values are.                                                         *)
(***************************************************************************)
CONSTANTS Entity, Class, Value, None, Position, Motion, PositionOf

VARIABLES
    alive,      \* the entities that exist
    spent,      \* those that were destroyed
    value       \* what each entity has

store == <<alive, spent, value>>

Bare == [c \in Class |-> None]

StoreInit ==
    /\ alive = {} /\ spent = {}
    /\ value = [e \in Entity |-> Bare]

SpawnOne(e) ==
    /\ e \notin alive \cup spent
    /\ alive' = alive \cup {e}
    /\ UNCHANGED <<spent, value>>

DestroyOne(e) ==
    /\ e \in alive
    /\ alive' = alive \ {e} /\ spent' = spent \cup {e}
    /\ value' = [value EXCEPT ![e] = Bare]

Attach(e, c, v) ==
    /\ e \in alive /\ value[e][c] = None
    /\ value' = [value EXCEPT ![e][c] = v]
    /\ UNCHANGED <<alive, spent>>

Detach(e, c) ==
    /\ e \in alive /\ value[e][c] # None
    /\ value' = [value EXCEPT ![e][c] = None]
    /\ UNCHANGED <<alive, spent>>

(* A system gives every entity that has both components a position that    *)
(* depends on its motion, and touches nothing else.                        *)
Move ==
    /\ value' = [e \in Entity |->
          IF value[e][Position] # None /\ value[e][Motion] # None
          THEN [value[e] EXCEPT ![Position] = PositionOf[value[e][Motion]]] ELSE value[e]]
    /\ UNCHANGED <<alive, spent>>

StoreNext ==
    \/ \E e \in Entity :
          \/ SpawnOne(e) \/ DestroyOne(e)
          \/ \E c \in Class : Detach(e, c) \/ \E v \in Value : Attach(e, c, v)
    \/ Move

StoreSpec == StoreInit /\ [][StoreNext]_store
=============================================================================
