------------------------------- MODULE MCWorld -------------------------------
(* Constants of the TLC run of World.                                      *)
EXTENDS World

CONSTANTS movement, object, late, mute, v1, v2

OneByte == [c \in Classes |-> 1]
Swap == [v \in Values |-> IF v = v1 THEN v2 ELSE v1]
SingleFlags ==
    [t \in Tickables |-> IF t = late THEN {"Late"} ELSE {"Variable"}]

(* Three entities with one value; two with two; one, and all tickables.    *)
EachInTurn ==
    {[entities |-> 3, values |-> {v1}, tickables |-> {movement}],
     [entities |-> 2, values |-> {v1, v2}, tickables |-> {movement}],
     [entities |-> 1, values |-> {v1, v2}, tickables |-> {movement, object, late, mute}]}
=============================================================================
