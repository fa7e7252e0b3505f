------------------------------ MODULE TickSystem ------------------------------
(***************************************************************************)
(* ticksystem: objects that are called back in every frame. An object      *)
(* queues itself when it is constructed, is registered at the start of the *)
(* next pass, by the flags it has set by then, and removes itself when it  *)
(* is destroyed. A frame is a Variable pass and a Late pass; nothing makes *)
(* a Fixed one.                                                            *)
(***************************************************************************)
EXTENDS Naturals, Sequences, SequencesExt

CONSTANTS
    Tickables,
    TickFlags,      \* what get_tick_flags() says of each
    CanTick,        \* those that can ever tick
    TickUses

(* Uses the code accepts and that leave a dangling pointer in a queue or a *)
(* list that is being iterated over, or call an object too often:          *)
(*   early    an object is destroyed before it is registered               *)
(*   during   an object is destroyed in a pass that goes through its list  *)
(*   both     an object has several flags                                  *)
Flags == {"Fixed", "Variable", "Late"}
Passes == {"Variable", "Late"}

ASSUME TickAssumption ==
    /\ TickFlags \in [Tickables -> SUBSET Flags]
    /\ \A t \in Tickables : Cardinality(TickFlags[t]) <= 1 \/ "both" \in TickUses
    /\ CanTick \subseteq Tickables /\ TickUses \subseteq {"early", "during", "both"}

VARIABLES
    constructed,        \* the objects that exist
    tickable_queue,
    tickables,          \* a list per flag
    pass, position,     \* the pass in progress, and how far it is
    due,                \* the pass that comes next
    calls               \* ghost: the calls of variable_tick and late_tick in this frame

tickVars == <<constructed, tickable_queue, tickables, pass, position, due, calls>>

NoCalls == [t \in Tickables |-> [f \in Passes |-> 0]]

TickInit ==
    /\ constructed = {} /\ tickable_queue = <<>>
    /\ tickables = [f \in Flags |-> <<>>]
    /\ pass = "none" /\ position = 1 /\ due = "Variable"
    /\ calls = NoCalls

(* register_tickable, in the constructor, also of an object that a         *)
(* callback makes.                                                         *)
Construct(t) ==
    /\ t \notin constructed
    /\ constructed' = constructed \cup {t}
    /\ tickable_queue' = Append(tickable_queue, t)
    /\ calls' = [calls EXCEPT ![t] = NoCalls[t]]
    /\ UNCHANGED <<tickables, pass, position, due>>

(* The elements of s that are in T, one after the other in their order.    *)
Picked(s, T) ==
    LET picks[i \in 0 .. Len(s)] ==
            IF i = 0 THEN <<>>
            ELSE IF s[i] \in T THEN Append(picks[i - 1], s[i]) ELSE picks[i - 1]
    IN picks[Len(s)]

(* unregister_tickable, in the destructor: the queue is not looked at.     *)
\* mutant: the late list is forgotten
NotLate(f, t) ==
    IF f \in TickFlags[t] \ {"Late"} THEN Picked(tickables[f], Tickables \ {t}) ELSE tickables[f]
Without(f, t) ==
    IF f \in TickFlags[t] THEN Picked(tickables[f], Tickables \ {t}) ELSE tickables[f]

Destruct(t) ==
    /\ t \in constructed
    /\ "early" \in TickUses \/ ~Contains(tickable_queue, t)
    /\ "during" \in TickUses \/ pass \notin TickFlags[t]
    /\ constructed' = constructed \ {t}
    /\ tickables' = [f \in Flags |-> Without(f, t)]
    /\ UNCHANGED <<tickable_queue, pass, position, due, calls>>

(* tick(flag) first registers everything that is queued ...                *)
\* mutant: the queue is registered without being emptied
Unemptied == tickable_queue
Emptied == <<>>

Registered(f) ==
    tickables[f] \o Picked(tickable_queue, {t \in CanTick : f \in TickFlags[t]})

BeginPass ==
    /\ pass = "none"
    /\ pass' = due /\ position' = 1
    /\ tickables' = [f \in Flags |-> Registered(f)]
    /\ tickable_queue' = Emptied
    /\ calls' = IF due = "Variable" THEN NoCalls ELSE calls
    /\ UNCHANGED <<constructed, due>>

(* ... then goes through one list, and calls each object for every flag it *)
(* has.                                                                    *)
Current == tickables[pass][position]
InPass == pass # "none" /\ position <= Len(tickables[pass])

Call ==
    /\ InPass
    /\ calls' = [calls EXCEPT ![Current] = [f \in Passes |->
          IF f \in TickFlags[Current] THEN @[f] + 1 ELSE @[f]]]
    /\ position' = position + 1
    /\ UNCHANGED <<constructed, tickable_queue, tickables, pass, due>>

\* mutant: no frame gets to its late pass
OnlyVariable(f) == "Variable"
After(f) == IF f = "Variable" THEN "Late" ELSE "Variable"

EndPass ==
    /\ pass # "none" /\ ~InPass
    /\ pass' = "none" /\ position' = 1
    /\ due' = After(pass)
    /\ UNCHANGED <<constructed, tickable_queue, tickables, calls>>

TickNext ==
    \/ \E t \in Tickables : Construct(t) \/ Destruct(t)
    \/ BeginPass \/ Call \/ EndPass

-----------------------------------------------------------------------------
(* Properties.                                                             *)

TickTypeOK ==
    /\ constructed \subseteq Tickables
    /\ tickable_queue \in Seq(Tickables)
    /\ tickables \in [Flags -> Seq(Tickables)]
    /\ pass \in Passes \cup {"none"} /\ due \in Passes
    /\ position \in Nat \ {0}
    /\ calls \in [Tickables -> [Passes -> Nat]]

(* Whatever is queued, listed or about to be called exists, and is queued  *)
(* or listed once (unregister_tickable, tick).                             *)
TickablesLive ==
    LET listed == tickables["Fixed"] \o tickables["Variable"] \o tickables["Late"]
                  \o tickable_queue IN
    IsInjective(listed) /\ ToSet(listed) \subseteq constructed

(* A pass has called every object of its list that it is past exactly once *)
(* in this frame, and no other yet, although callbacks construct and       *)
(* destroy other objects (tick).                                           *)
CalledOncePerFrame ==
    pass # "none" =>
        \A i \in DOMAIN tickables[pass] :
            calls[tickables[pass][i]][pass] = IF i < position THEN 1 ELSE 0

(* An object that can tick is called, or destroyed, as long as frames go   *)
(* on (register_tickable, "Registration happens in the next tick").        *)
EveryoneTicks ==
    \A t \in CanTick : t \in constructed /\ TickFlags[t] \cap Passes # {} ~>
        t \notin constructed \/ \E f \in TickFlags[t] \cap Passes : calls[t][f] > 0
=============================================================================
