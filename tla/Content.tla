------------------------------- MODULE Content -------------------------------
(***************************************************************************)
(* Effects and assets on one job system, of which only the promise counts  *)
(* (Tasks): permutations are compiled and assets loaded by the same worker *)
(* threads, and the main thread uses both, one call at a time.             *)
(***************************************************************************)
EXTENDS Effects, Assets

CONSTANTS
    MainThread,     \* the client of the effect that also asks for assets
    WorkerCount     \* how many tasks can run at a time

ASSUME ContentAssumption ==
    /\ MainThread \in Clients /\ WorkerCount \in Nat \ {0}
    /\ Task = Compilations \cup Loads /\ Compilations \cap Loads = {}

contentVars == <<tasks, effects, assetVars>>

ContentInit == TasksInit /\ EffectsInit /\ AssetsInit

Begin(t) ==
    /\ Cardinality({u \in Task : state[u] = "running"}) < WorkerCount
    /\ BeginTask(t)
    /\ UNCHANGED <<effects, assetVars>>

(* A client of the effect goes on unless it is the main thread, in a call  *)
(* to the asset manager; and the other way round.                          *)
EffectStep(c) ==
    /\ c = MainThread => ~MainBusy
    /\ EffectClient(c) \/ Use(c) \/ \E p \in Perms : Ask(c, p)
    /\ UNCHANGED assetVars

MainStep ==
    /\ at[MainThread] = "idle"
    /\ \E r \in Requests : MainAssets(r) \/ ClientDrops(r) \/ \E p \in Paths : RequestAsset(r, p)
    /\ UNCHANGED effects

CompileStep(t) == EffectJob(t) /\ UNCHANGED assetVars
LoadStep(t) == AssetJob(t) /\ UNCHANGED effects

ContentNext ==
    \/ \E t \in Task : Begin(t)
    \/ \E c \in Clients : EffectStep(c)
    \/ MainStep
    \/ UnloadAll /\ at[MainThread] = "idle" /\ UNCHANGED effects
    \/ \E t \in Compilations : CompileStep(t)
    \/ \E t \in Loads : LoadStep(t)

(* A thread in a call, and a job that was begun, go on. That queued jobs   *)
(* are begun is not assumed: a worker may have missed the notify.          *)
ContentFairness ==
    /\ \A c \in Clients : WF_contentVars((c = MainThread => ~MainBusy)
                                         /\ EffectClient(c) /\ UNCHANGED assetVars)
    /\ WF_contentVars((\E r \in Requests : MainAssets(r)) /\ UNCHANGED effects)
    /\ \A t \in Compilations : WF_contentVars(CompileStep(t))
    /\ \A t \in Loads : WF_contentVars(LoadStep(t))

ContentSpec == ContentInit /\ [][ContentNext]_contentVars /\ ContentFairness

(* Every variable has its type; a count never exceeds the handles there are. *)
ContentTypeOK == EffectsTypeOK /\ AssetsTypeOK
=============================================================================
