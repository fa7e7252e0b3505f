-------------------------------- MODULE World --------------------------------
(***************************************************************************)
(* The engine's loop over a world: its systems are tickables, and their    *)
(* variable_tick goes through the components of its entities. The game     *)
(* changes the world, and makes and destroys tickables, between frames and *)
(* in callbacks.                                                           *)
(***************************************************************************)
EXTENDS Components, TickSystem

CONSTANTS
    System,         \* the tickable that is a ComponentSystem of the world
    Scopes          \* bounds: what one behaviour uses of the constants

ASSUME WorldAssumption ==
    /\ System \in Tickables
    /\ Scopes \subseteq [entities : 0 .. MaxEntities, values : SUBSET Values,
                         tickables : SUBSET Tickables]

VARIABLE scope      \* bound: the scope of this behaviour

loopVars == <<worldVars, tickVars, scope>>

LoopInit == WorldInit /\ TickInit /\ scope \in Scopes

(* Client code runs between frames, and in the callback that was last      *)
(* begun; not between the passes of a frame.                               *)
ClientRuns == IF pass = "none" THEN due = "Variable" ELSE position > 1

ChangeWorld ==
    /\ ClientRuns
    /\ \/ next < scope.entities /\ SpawnEntity
       \/ \E e \in entities :
             \/ DestroyEntity(e)
             \/ \E c \in Classes :
                   RemoveComponent(e, c) \/ \E v \in scope.values : AddComponent(e, c, v)
    /\ UNCHANGED <<tickVars, scope>>

ChangeTickables ==
    /\ ClientRuns
    /\ \E t \in scope.tickables : Construct(t) \/ Destruct(t)
    /\ UNCHANGED <<worldVars, scope>>

(* EngineApp::loop.                                                        *)
Loop ==
    /\ \/ (BeginPass \/ EndPass) /\ UNCHANGED worldVars
       \/ Call /\ Current = System /\ ForEach
       \/ Call /\ Current # System /\ UNCHANGED worldVars
    /\ UNCHANGED scope

LoopNext == ChangeWorld \/ ChangeTickables \/ Loop

LoopSpec == LoopInit /\ [][LoopNext]_loopVars /\ WF_loopVars(Loop)

(* Every variable has its type.                                            *)
LoopTypeOK == WorldTypeOK /\ TickTypeOK
=============================================================================
