------------------------------- MODULE Effects -------------------------------
(***************************************************************************)
(* gfx::Effect: permutations that are compiled by jobs when they are first *)
(* asked for, and the threads that ask for them.                           *)
(*                                                                         *)
(* A client asks in one of two ways: with EffectPermPtr's operator->, which *)
(* looks the permutation up again until it is available, or as the ImGui   *)
(* renderer does (Pollers), which looks it up once and then calls          *)
(* is_available until it says yes.                                         *)
(***************************************************************************)
EXTENDS Tasks, FiniteSets

CONSTANTS
    Perms,          \* permutation ids of one effect
    Broken,         \* those that do not compile
    Clients,        \* the threads that use the effect
    Pollers,        \* those that poll is_available
    Compilations,   \* the tasks their job rings give
    Nobody          \* no thread, no task, no permutation

ASSUME EffectsAssumption ==
    /\ Broken \subseteq Perms /\ Pollers \subseteq Clients /\ Compilations \subseteq Task
    /\ Clients \cap Task = {}
ASSUME NobodyAssumption == Nobody \notin Perms \cup Clients \cup Task

VARIABLES
    status,             \* per permutation, "absent" while the map has no entry
    built,              \* what the entry holds: nothing, its shaders, the whole
                        \* permutation, or a mixed one: new shaders, old layout
    filled,             \* what of it the job that holds the lock has written
    pending_compilation,
    permutation_lock,   \* who holds it between two steps
    at, want,           \* where a client is and what it asks for
    perm,               \* is the pointer it got not null?
    compiling           \* the permutation each task compiles

entries == <<status, built, filled>>
asking == <<at, want, perm>>
effects == <<entries, pending_compilation, permutation_lock, asking, compiling>>

EffectsInit ==
    /\ status = [p \in Perms |-> "absent"]
    /\ built = [p \in Perms |-> "nothing"] /\ filled = "nothing"
    /\ pending_compilation = {}
    /\ permutation_lock = Nobody
    /\ at = [c \in Clients |-> "idle"]
    /\ want = [c \in Clients |-> Nobody]
    /\ perm = [c \in Clients |-> FALSE]
    /\ compiling = [t \in Compilations |-> Nobody]

GotoPlace(c, place) == at' = [at EXCEPT ![c] = place]
Unlocked == permutation_lock = Nobody

-----------------------------------------------------------------------------
(* get_permutation(id), called by operator-> or by a renderer.             *)

Ask(c, p) ==
    /\ at[c] = "idle"
    /\ want' = [want EXCEPT ![c] = p]
    /\ GotoPlace(c, "get")
    /\ UNCHANGED <<entries, pending_compilation, permutation_lock, perm, compiling, tasks>>

(* The look-up, under the lock. When it finds neither an entry nor a       *)
(* pending compilation, the lock is released before compile() takes it.    *)
Lookup(c) ==
    LET p == want[c] IN
    /\ at[c] = "get" /\ Unlocked
    /\ perm' = [perm EXCEPT ![c] = status[p] # "absent"]
    /\ GotoPlace(c, IF status[p] = "absent" /\ p \notin pending_compilation
                    THEN "compile" ELSE "test")
    /\ UNCHANGED <<entries, pending_compilation, permutation_lock, want, compiling, tasks>>

(* compile(): nothing if a compilation is pending, and it is not looked    *)
(* whether one has ended since.                                            *)
\* mutant: pending_compilation is not looked at again
AlwaysNew(p) == TRUE
NotPending(p) == p \notin pending_compilation

Compile(c) ==
    /\ at[c] = "compile" /\ Unlocked
    /\ IF NotPending(want[c])
       THEN /\ pending_compilation' = pending_compilation \cup {want[c]}
            /\ GotoPlace(c, "spawn")
       ELSE /\ GotoPlace(c, "test")
            /\ UNCHANGED pending_compilation
    /\ UNCHANGED <<entries, permutation_lock, want, perm, compiling, tasks>>

(* Which free slot the job gets makes no difference.                       *)
Spawn(c) ==
    LET free == {t \in Compilations : Free(t)}
        t == CHOOSE u \in free : TRUE IN
    /\ at[c] = "spawn" /\ free # {}
    /\ Async(t)
    /\ compiling' = [compiling EXCEPT ![t] = want[c]]
    /\ GotoPlace(c, "test")
    /\ UNCHANGED <<entries, pending_compilation, permutation_lock, want, perm>>

(* is_available(id) reads without the lock, and operator[] adds an entry   *)
(* where there is none. operator-> does not get that far with a null       *)
(* pointer; a renderer does.                                               *)
Test(c) ==
    LET p == want[c]
        asks == c \in Pollers \/ perm[c] IN
    /\ at[c] = "test"
    /\ status' = IF asks /\ status[p] = "absent"
                 THEN [status EXCEPT ![p] = "Unavailable"] ELSE status
    /\ GotoPlace(c, IF asks /\ status[p] = "Available" THEN "use"
                    ELSE IF c \in Pollers THEN "test" ELSE "get")
    /\ UNCHANGED <<built, filled, pending_compilation, permutation_lock, want, perm, compiling,
                   tasks>>

Use(c) ==
    /\ at[c] = "use"
    /\ GotoPlace(c, "idle")
    /\ want' = [want EXCEPT ![c] = Nobody]
    /\ perm' = [perm EXCEPT ![c] = FALSE]
    /\ UNCHANGED <<entries, pending_compilation, permutation_lock, compiling, tasks>>

-----------------------------------------------------------------------------
(* The body of the job, once compile_effect has returned.                  *)

\* mutant: the status is set before the shaders are created
EarlyStatus(p) == "Available"
\* mutant: a failed compilation leaves the status as it is
SilentFailure(p) == IF p \in Broken THEN status[p] ELSE "Available"
\* mutant: the status of a permutation that compiles is not set
KeptStatus(p) == IF p \in Broken THEN "CompileError" ELSE status[p]
FirstStatus(p) == IF status[p] = "absent" THEN "Unavailable" ELSE status[p]
LastStatus(p) == IF p \in Broken THEN "CompileError" ELSE "Available"

(* Under the lock: the compilation is no longer pending, operator[] adds   *)
(* the entry, ...                                                          *)
Publish(t) ==
    LET p == compiling[t] IN
    /\ t \in Compilations /\ state[t] = "running" /\ Unlocked
    /\ permutation_lock' = t
    /\ pending_compilation' = pending_compilation \ {p}
    /\ status' = [status EXCEPT ![p] = FirstStatus(p)]
    /\ UNCHANGED <<built, filled, asking, compiling, tasks>>

(* ... it gets its shaders, its layout, and at last its status. A second   *)
(* compilation replaces the shaders and the layout of the first, one after *)
(* the other, while the status still says Available.                       *)
FillShaders(t) ==
    LET p == compiling[t] IN
    /\ permutation_lock = t /\ filled = "nothing" /\ p \notin Broken
    /\ built' = [built EXCEPT ![p] = IF @ = "nothing" THEN "shaders" ELSE "mixed"]
    /\ filled' = "shaders"
    /\ UNCHANGED <<status, pending_compilation, permutation_lock, asking, compiling, tasks>>

FillLayout(t) ==
    /\ permutation_lock = t /\ filled = "shaders"
    /\ built' = [built EXCEPT ![compiling[t]] = "whole"]
    /\ filled' = "whole"
    /\ UNCHANGED <<status, pending_compilation, permutation_lock, asking, compiling, tasks>>

Announce(t) ==
    LET p == compiling[t] IN
    /\ permutation_lock = t
    /\ filled = "whole" \/ p \in Broken
    /\ status' = [status EXCEPT ![p] = LastStatus(p)]
    /\ filled' = "nothing"
    /\ permutation_lock' = Nobody
    /\ compiling' = [compiling EXCEPT ![t] = Nobody]
    /\ EndTask(t)
    /\ UNCHANGED <<built, pending_compilation, asking>>

-----------------------------------------------------------------------------
EffectClient(c) == Lookup(c) \/ Compile(c) \/ Spawn(c) \/ Test(c)
EffectJob(t) == Publish(t) \/ FillShaders(t) \/ FillLayout(t) \/ Announce(t)

EffectsNext ==
    \/ \E c \in Clients : EffectClient(c) \/ Use(c) \/ \E p \in Perms : Ask(c, p)
    \/ \E t \in Compilations : EffectJob(t)

-----------------------------------------------------------------------------
(* Properties.                                                             *)

EffectsTypeOK ==
    /\ status \in [Perms -> {"absent", "Unavailable", "CompileError", "Available"}]
    /\ built \in [Perms -> {"nothing", "shaders", "mixed", "whole"}]
    /\ filled \in {"nothing", "shaders", "whole"}
    /\ pending_compilation \subseteq Perms
    /\ permutation_lock \in Compilations \cup {Nobody}
    /\ at \in [Clients -> {"idle", "get", "compile", "spawn", "test", "use"}]
    /\ want \in [Clients -> Perms \cup {Nobody}]
    /\ perm \in [Clients -> BOOLEAN]
    /\ compiling \in [Compilations -> Perms \cup {Nobody}]

(* Who is to compile p: the clients about to spawn the job and the jobs    *)
(* that have not yet taken p out of pending_compilation.                   *)
Compilers(p) ==
    {c \in Clients : at[c] = "spawn" /\ want[c] = p}
    \cup {t \in Compilations : /\ compiling[t] = p /\ permutation_lock # t
                               /\ state[t] \in {"scheduled", "running"}}

(* A permutation is pending exactly while one compilation of it is on its  *)
(* way, whatever look-ups, compilations and jobs interleave (compile() and *)
(* its lambda).                                                            *)
PendingIsInFlight ==
    \A p \in Perms : Cardinality(Compilers(p)) = IF p \in pending_compilation THEN 1 ELSE 0

(* An entry that says Unavailable is being built: is_available may add it, *)
(* and get_permutation, which then finds it, never compiles it ("If the    *)
(* permutation is not build, it will be built", Effect.h:101).             *)
BeingBuilt(p) == permutation_lock # Nobody /\ compiling[permutation_lock] = p
UnavailableIsPending ==
    \A p \in Perms : status[p] = "Unavailable" => p \in pending_compilation \/ BeingBuilt(p)

(* Who has waited for a permutation finds its shaders and its layout in    *)
(* the entry, although is_available reads the status without the lock and  *)
(* a second compilation replaces both: of two compilations, for as long as *)
(* the job that replaces them has the lock (compile(), Effect.cpp:77-85).  *)
UsesComplete ==
    \A c \in Clients :
        at[c] = "use" => \/ built[want[c]] = "whole"
                         \/ built[want[c]] = "mixed" /\ BeingBuilt(want[c])

(* A client that waits for a permutation that compiles goes on, if every   *)
(* job that is queued is begun (operator->, ImGuiRenderer.cpp:281).        *)
CompilationsBegin == \A t \in Compilations : state[t] = "scheduled" ~> state[t] = "running"
PollEnds ==
    CompilationsBegin =>
        \A c \in Clients : (at[c] = "test" /\ want[c] \notin Broken) ~> at[c] = "use"
=============================================================================
