---------------------------- MODULE ContentProofs ----------------------------
(***************************************************************************)
(* Theorems about Effects and Assets on one job system (Content), for any  *)
(* number of permutations, clients, paths, handles and tasks.              *)
(***************************************************************************)
EXTENDS Content, FiniteSetTheorems, TLAPS

-----------------------------------------------------------------------------
(* Effects: the inductive invariant.                                       *)

AsyncStates == {"unused", "scheduled", "running", "done"}
Active(t) == state[t] \in {"scheduled", "running"}

StateTypes == state \in [Task -> AsyncStates]

(* A task that was given a permutation is on its way, and the other way    *)
(* round; the lock is held by a running one.                               *)
CompilationsActive == \A t \in Compilations : Active(t) <=> compiling[t] # Nobody

LockHolderRuns == permutation_lock # Nobody => state[permutation_lock] = "running"

WantsPermutation == \A c \in Clients : at[c] # "idle" => want[c] \in Perms

OneCompiler ==
    \A p \in Perms :
        IF p \in pending_compilation THEN \E x \in Compilers(p) : Compilers(p) = {x}
        ELSE Compilers(p) = {}

(* A client that looks at a permutation without an entry knows that it is  *)
(* pending.                                                                *)
AbsentIsPending ==
    \A c \in Clients :
        at[c] = "test" /\ status[want[c]] = "absent" => want[c] \in pending_compilation

Usable == {"mixed", "whole"}
AvailableIsBuilt == \A p \in Perms : status[p] = "Available" => built[p] \in Usable

(* What the entry holds is half done only between the shaders and the      *)
(* layout that the job with the lock writes.                               *)
FillingMatches ==
    /\ filled # "nothing" =>
          permutation_lock # Nobody /\ compiling[permutation_lock] \in Perms \ Broken
    /\ filled = "whole" => built[compiling[permutation_lock]] = "whole"
    /\ \A p \in Perms : built[p] \in {"shaders", "mixed"} => filled = "shaders" /\ BeingBuilt(p)

UsableWhenUsed == \A c \in Clients : at[c] = "use" => built[want[c]] \in Usable

EffectsIInv ==
    /\ EffectsTypeOK /\ StateTypes
    /\ CompilationsActive /\ LockHolderRuns /\ WantsPermutation
    /\ OneCompiler
    /\ AbsentIsPending /\ UnavailableIsPending
    /\ AvailableIsBuilt /\ FillingMatches /\ UsableWhenUsed

-----------------------------------------------------------------------------
(* Assets: the inductive invariant.                                        *)

(* Nobody asks for a path that a job is at work on.                        *)
NoOverlap == AssetUses = {}

Counted(p) == {r \in On(p) : request[r].got # NoEntry}
Alone(r) == On(request[r].path) = {r}

LoadsActive ==
    /\ \A t \in Loads : Active(t) <=> loading[t] # NoRequest
    /\ \A t, u \in Loads : loading[t] = loading[u] /\ loading[t] # NoRequest => t = u

ClosedHandles ==
    \A r \in Requests : /\ request[r].stage = "closed" => request[r] = Closed
                        /\ request[r].stage = "closed" <=> request[r].path = NoPath

(* The main thread is in one call.                                         *)
Busy(r) == request[r].stage = "load" \/ (request[r].stage \in Destructor /\ ~OnWorker(r))
OneCall == \A q, r \in Requests : Busy(q) /\ Busy(r) => q = r

(* A path that is loaded, or that a job is at work on, has one handle.     *)
LoadingAlone ==
    \A r \in Requests : /\ request[r].stage = "load" => Alone(r)
                        /\ OnWorker(r) => Alone(r) /\ request[r].stage \in {"open"} \cup Destructor

HoldersKnown ==
    \A r \in Requests :
        /\ request[r].stage = "open" =>
              /\ request[r].holders # {}
              /\ request[r].holders \subseteq {"client"} \cup {t \in Loads : loading[t] = r}
              /\ \A t \in Loads : loading[t] = r => t \in request[r].holders
        /\ request[r].stage \in Destructor => request[r].holders = {}

(* What a handle has got is what the entry of its path holds; it has got   *)
(* nothing before the load and after the decrement.                        *)
GotOf(h, e, worker) ==
    /\ h.got # NoEntry => /\ h.stage \in {"open", "decrement"}
                          /\ e # NoEntry /\ e.asset = h.got
    /\ h.stage \in {"open", "decrement"} /\ (h.completed \/ ~worker) => h.got # NoEntry
    /\ h.stage = "open" /\ ~worker => h.completed
    /\ h.stage = "decrement" => h.completed
    /\ h.stage \in {"load", "open"} /\ h.got = NoEntry => e = NoEntry
GotMatches ==
    \A r \in Requests : GotOf(request[r], assets[request[r].path], OnWorker(r))

CountZero ==
    \A r \in Requests : request[r].stage = "free" => EntryOf(request[r].path).ref_count = 0

AssetsIInv ==
    /\ AssetsTypeOK /\ StateTypes
    /\ LoadsActive /\ ClosedHandles /\ OneCall /\ LoadingAlone
    /\ HoldersKnown /\ GotMatches
    /\ CountMatches /\ CountZero /\ UnloadedWhenUnreferenced

-----------------------------------------------------------------------------
(* Effects: the steps.                                                     *)

LEMMA TaskReaches ==
    ASSUME StateTypes, NEW t \in Task, NEW s \in AsyncStates, Reach(t, s)
    PROVE  StateTypes' /\ \A u \in Task : state'[u] = IF u = t THEN s ELSE state[u]
BY DEF StateTypes, Reach

LEMMA FreeIsInactive ==
    ASSUME NEW t, Free(t)
    PROVE  ~Active(t) /\ state[t] # "running"
BY DEF Free, Active

(* Steps that leave the effect alone, and whether its jobs are active.     *)
LEMMA EffectsFrame ==
    ASSUME EffectsIInv, StateTypes', UNCHANGED effects,
           \A t \in Compilations : Active(t) <=> state'[t] \in {"scheduled", "running"},
           \A t \in Compilations : state[t] = "running" => state'[t] = "running"
    PROVE  EffectsIInv'
<1>1. UNCHANGED <<status, built, filled, pending_compilation, permutation_lock, at, want, perm, compiling>>
  BY DEF effects, entries, asking
<1>2. EffectsTypeOK'
  BY <1>1 DEF EffectsIInv, EffectsTypeOK
<1>3. CompilationsActive' /\ LockHolderRuns'
  <2>1. CompilationsActive'
    BY <1>1 DEF EffectsIInv, CompilationsActive, Active
  <2>2. permutation_lock \in Compilations \cup {Nobody}
    BY DEF EffectsIInv, EffectsTypeOK
  <2>3. QED
    BY <1>1, <2>1, <2>2 DEF EffectsIInv, LockHolderRuns
<1>4. \A p : Compilers(p)' = Compilers(p)
  <2>1. \A t \in Compilations : state'[t] \in {"scheduled", "running"}
                                <=> state[t] \in {"scheduled", "running"}
    BY DEF Active
  <2>2. QED
    BY <1>1, <2>1 DEF Compilers
<1>5. OneCompiler'
  BY <1>1, <1>4 DEF EffectsIInv, OneCompiler
<1>6. WantsPermutation' /\ AbsentIsPending' /\ UnavailableIsPending' /\ AvailableIsBuilt'
  BY <1>1 DEF EffectsIInv, WantsPermutation, AbsentIsPending, UnavailableIsPending, BeingBuilt,
     AvailableIsBuilt
<1>8. FillingMatches' /\ UsableWhenUsed'
  BY <1>1 DEF EffectsIInv, FillingMatches, BeingBuilt, UsableWhenUsed
<1>7. QED
  BY <1>2, <1>3, <1>5, <1>6, <1>8 DEF EffectsIInv

(* Steps of a client that neither begin nor end a compilation.             *)
LEMMA ClientMoves ==
    ASSUME EffectsIInv, NEW c \in Clients, NEW place,
           GotoPlace(c, place), at[c] # "spawn", place # "spawn",
           UNCHANGED <<built, filled, pending_compilation, permutation_lock, compiling, tasks>>,
           \A d \in Clients \ {c} : want'[d] = want[d]
    PROVE  /\ \A d \in Clients : at'[d] = IF d = c THEN place ELSE at[d]
           /\ StateTypes' /\ CompilationsActive' /\ LockHolderRuns' /\ OneCompiler'
<1>1. \A d \in Clients : at'[d] = IF d = c THEN place ELSE at[d]
  BY DEF GotoPlace, EffectsIInv, EffectsTypeOK
<1>2. state' = state
  BY DEF tasks
<1>3. \A p : Compilers(p)' = Compilers(p)
  BY <1>1, <1>2 DEF Compilers
<1>4. StateTypes' /\ CompilationsActive' /\ LockHolderRuns' /\ OneCompiler'
  BY <1>2, <1>3 DEF EffectsIInv, StateTypes, CompilationsActive, Active, LockHolderRuns,
     OneCompiler
<1>5. QED
  BY <1>1, <1>4

LEMMA AskStep ==
    ASSUME EffectsIInv, NEW c \in Clients, NEW p \in Perms, Ask(c, p)
    PROVE  EffectsIInv'
<1>1. /\ at[c] = "idle" /\ want' = [want EXCEPT ![c] = p] /\ GotoPlace(c, "get")
      /\ UNCHANGED <<status, built, filled, pending_compilation, permutation_lock, perm, compiling, tasks>>
  BY DEF Ask, entries
<1>2. EffectsTypeOK'
  BY <1>1 DEF EffectsIInv, EffectsTypeOK, GotoPlace
<1>3. \A d \in Clients : want'[d] = IF d = c THEN p ELSE want[d]
  BY <1>1 DEF EffectsIInv, EffectsTypeOK
<1>4. /\ \A d \in Clients : at'[d] = IF d = c THEN "get" ELSE at[d]
      /\ StateTypes' /\ CompilationsActive' /\ LockHolderRuns' /\ OneCompiler'
  BY <1>1, <1>3, ClientMoves
<1>5. WantsPermutation' /\ AbsentIsPending' /\ UsableWhenUsed'
  BY <1>1, <1>3, <1>4 DEF EffectsIInv, WantsPermutation, AbsentIsPending, UsableWhenUsed
<1>6. UnavailableIsPending' /\ AvailableIsBuilt' /\ FillingMatches'
  BY <1>1 DEF EffectsIInv, UnavailableIsPending, BeingBuilt, AvailableIsBuilt,
     FillingMatches
<1>7. QED
  BY <1>2, <1>4, <1>5, <1>6 DEF EffectsIInv

LEMMA LookupStep ==
    ASSUME EffectsIInv, NEW c \in Clients, Lookup(c)
    PROVE  EffectsIInv'
<1> DEFINE p == want[c]
           place == IF status[p] = "absent" /\ p \notin pending_compilation
                    THEN "compile" ELSE "test"
<1>1. /\ at[c] = "get" /\ GotoPlace(c, place)
      /\ perm' = [perm EXCEPT ![c] = status[p] # "absent"]
      /\ UNCHANGED <<status, built, filled, pending_compilation, permutation_lock, want, compiling, tasks>>
  BY DEF Lookup, entries
<1>2. place \in {"compile", "test"}
  OBVIOUS
<1>3. EffectsTypeOK'
  <2>1. perm' \in [Clients -> BOOLEAN]
    BY <1>1 DEF EffectsIInv, EffectsTypeOK
  <2>2. at' \in [Clients -> {"idle", "get", "compile", "spawn", "test", "use"}]
    BY <1>1, <1>2 DEF EffectsIInv, EffectsTypeOK, GotoPlace
  <2>3. QED
    BY <1>1, <2>1, <2>2 DEF EffectsIInv, EffectsTypeOK
<1> HIDE DEF place
<1>4. /\ \A d \in Clients : at'[d] = IF d = c THEN place ELSE at[d]
      /\ StateTypes' /\ CompilationsActive' /\ LockHolderRuns' /\ OneCompiler'
  BY <1>1, <1>2, ClientMoves
<1>5. WantsPermutation'
  BY <1>1, <1>4 DEF EffectsIInv, WantsPermutation
<1>6. AbsentIsPending'
  BY <1>1, <1>4 DEF EffectsIInv, AbsentIsPending, place
<1>7. UsableWhenUsed'
  <2> SUFFICES ASSUME NEW d \in Clients, at'[d] = "use"
               PROVE  built[want[d]] \in Usable
    BY <1>1 DEF UsableWhenUsed
  <2>1. d # c /\ at[d] = "use"
    BY <1>2, <1>4
  <2>2. perm'[d] = perm[d]
    BY <1>1, <2>1 DEF EffectsIInv, EffectsTypeOK
  <2>3. QED
    BY <2>1, <2>2 DEF EffectsIInv, UsableWhenUsed
<1>8. UnavailableIsPending' /\ AvailableIsBuilt' /\ FillingMatches'
  BY <1>1 DEF EffectsIInv, UnavailableIsPending, BeingBuilt, AvailableIsBuilt,
     FillingMatches
<1>9. QED
  BY <1>3, <1>4, <1>5, <1>6, <1>7, <1>8 DEF EffectsIInv

LEMMA CompileStepInv ==
    ASSUME EffectsIInv, NEW c \in Clients, Compile(c)
    PROVE  EffectsIInv'
<1> DEFINE p == want[c]
<1>1. /\ at[c] = "compile" /\ p \in Perms /\ permutation_lock = Nobody
      /\ UNCHANGED <<status, built, filled, permutation_lock, want, perm, compiling, tasks>>
  BY DEF Compile, Unlocked, entries, EffectsIInv, WantsPermutation
<1>2. CASE p \in pending_compilation
  <2>1. GotoPlace(c, "test") /\ pending_compilation' = pending_compilation
    BY <1>2 DEF Compile, NotPending
  <2>2. EffectsTypeOK'
    BY <1>1, <2>1 DEF EffectsIInv, EffectsTypeOK, GotoPlace
  <2>3. /\ \A d \in Clients : at'[d] = IF d = c THEN "test" ELSE at[d]
        /\ StateTypes' /\ CompilationsActive' /\ LockHolderRuns' /\ OneCompiler'
    BY <1>1, <2>1, ClientMoves
  <2>4. WantsPermutation' /\ AbsentIsPending' /\ UsableWhenUsed'
    BY <1>1, <1>2, <2>1, <2>3 DEF EffectsIInv, WantsPermutation, AbsentIsPending, UsableWhenUsed
  <2>5. UnavailableIsPending' /\ AvailableIsBuilt' /\ FillingMatches'
    BY <1>1, <2>1 DEF EffectsIInv, UnavailableIsPending, BeingBuilt, AvailableIsBuilt,
     FillingMatches
  <2>6. QED
    BY <2>2, <2>3, <2>4, <2>5 DEF EffectsIInv
<1>3. CASE p \notin pending_compilation
  <2>1. GotoPlace(c, "spawn") /\ pending_compilation' = pending_compilation \cup {p}
    BY <1>3 DEF Compile, NotPending
  <2>2. EffectsTypeOK'
    BY <1>1, <2>1 DEF EffectsIInv, EffectsTypeOK, GotoPlace
  <2>3. \A d \in Clients : at'[d] = IF d = c THEN "spawn" ELSE at[d]
    BY <2>1 DEF EffectsIInv, EffectsTypeOK, GotoPlace
  <2>4. state' = state
    BY <1>1 DEF tasks
  <2>5. StateTypes' /\ CompilationsActive' /\ LockHolderRuns'
    BY <1>1, <2>4 DEF EffectsIInv, StateTypes, CompilationsActive, Active, LockHolderRuns
  <2>6. \A q : q # p => Compilers(q)' = Compilers(q)
    BY <1>1, <2>3, <2>4 DEF Compilers
  <2>7. Compilers(p) = {}
    BY <1>1, <1>3 DEF EffectsIInv, OneCompiler
  <2>8. Compilers(p)' = {c}
    <3>1. Compilers(p)' = Compilers(p) \cup {c}
      BY <1>1, <2>3, <2>4 DEF Compilers
    <3>2. QED
      BY <2>7, <3>1
  <2>9. OneCompiler'
    <3> SUFFICES ASSUME NEW q \in Perms
                 PROVE  IF q \in pending_compilation' THEN \E x \in Compilers(q)' : Compilers(q)' = {x}
                        ELSE Compilers(q)' = {}
      BY DEF OneCompiler
    <3>1. CASE q = p
      <4>1. want[c]' = want[c]
        BY <1>1
      <4>2. Compilers(q)' = {c}
        BY <2>8, <3>1, <4>1
      <4>3. QED
        BY <2>1, <3>1, <4>2
    <3>2. CASE q # p
      BY <2>1, <2>6, <3>2 DEF EffectsIInv, OneCompiler
    <3>3. QED
      BY <3>1, <3>2
  <2>10. WantsPermutation' /\ AbsentIsPending' /\ UsableWhenUsed'
    BY <1>1, <2>1, <2>3 DEF EffectsIInv, WantsPermutation, AbsentIsPending, UsableWhenUsed
  <2>11. UnavailableIsPending' /\ AvailableIsBuilt' /\ FillingMatches'
    BY <1>1, <2>1 DEF EffectsIInv, UnavailableIsPending, BeingBuilt, AvailableIsBuilt,
     FillingMatches
  <2>12. QED
    BY <2>2, <2>5, <2>9, <2>10, <2>11 DEF EffectsIInv
<1>4. QED
  BY <1>2, <1>3

LEMMA SpawnStep ==
    ASSUME EffectsIInv, NEW c \in Clients, Spawn(c)
    PROVE  EffectsIInv'
<1> DEFINE free == {u \in Compilations : Free(u)}
           t == CHOOSE u \in free : TRUE
           p == want[c]
<1>1. /\ at[c] = "spawn" /\ t \in Compilations /\ Free(t) /\ Async(t)
      /\ compiling' = [compiling EXCEPT ![t] = p] /\ GotoPlace(c, "test")
      /\ UNCHANGED <<status, built, filled, pending_compilation, permutation_lock, want, perm>>
  BY DEF Spawn, entries
<1> HIDE DEF t, p
<1>2. p \in Perms /\ p # Nobody /\ t \in Task /\ t # Nobody /\ t \notin Clients
  BY <1>1, EffectsAssumption, NobodyAssumption DEF EffectsIInv, WantsPermutation, p
<1>3. StateTypes' /\ \A u \in Task : state'[u] = IF u = t THEN "scheduled" ELSE state[u]
  BY <1>1, <1>2, TaskReaches DEF Async, EffectsIInv, AsyncStates
<1>4. \A d \in Clients : at'[d] = IF d = c THEN "test" ELSE at[d]
  BY <1>1 DEF EffectsIInv, EffectsTypeOK, GotoPlace
<1>5. \A u \in Compilations : compiling'[u] = IF u = t THEN p ELSE compiling[u]
  BY <1>1 DEF EffectsIInv, EffectsTypeOK
<1>6. permutation_lock # t /\ compiling[t] = Nobody
  BY <1>1, <1>2, FreeIsInactive DEF EffectsIInv, LockHolderRuns, CompilationsActive
<1>7. EffectsTypeOK'
  BY <1>1, <1>2 DEF EffectsIInv, EffectsTypeOK, GotoPlace
<1>8. Compilations \subseteq Task
  BY EffectsAssumption
<1>9. CompilationsActive'
  BY <1>2, <1>3, <1>5, <1>8 DEF EffectsIInv, CompilationsActive, Active
<1>10. LockHolderRuns'
  BY <1>1, <1>3, <1>6, <1>8 DEF EffectsIInv, LockHolderRuns, EffectsTypeOK
<1>11. \A q \in Perms : q # p => Compilers(q)' = Compilers(q)
  <2> SUFFICES ASSUME NEW q \in Perms, q # p PROVE Compilers(q)' = Compilers(q)
    OBVIOUS
  <2>1. q # Nobody
    BY NobodyAssumption
  <2>2. QED
    BY <1>1, <1>3, <1>4, <1>5, <1>6, <1>8, <2>1 DEF Compilers, p
<1>12. c \in Compilers(p) /\ p \in pending_compilation /\ Compilers(p) = {c}
  <2>1. c \in Compilers(p)
    BY <1>1 DEF Compilers, p
  <2>2. QED
    BY <1>2, <2>1 DEF EffectsIInv, OneCompiler
<1>13. \A q : q = p => Compilers(q)' = {t}
  <2>1. \A q : q = p => Compilers(q)' = (Compilers(q) \ {c}) \cup {t}
    BY <1>1, <1>2, <1>3, <1>4, <1>5, <1>6, <1>8, EffectsAssumption DEF Compilers, p
  <2>2. QED
    BY <1>12, <2>1
<1>14. OneCompiler'
  <2> SUFFICES ASSUME NEW q \in Perms
               PROVE  IF q \in pending_compilation' THEN \E x \in Compilers(q)' : Compilers(q)' = {x}
                      ELSE Compilers(q)' = {}
    BY DEF OneCompiler
  <2>1. CASE q = p
    BY <1>1, <1>12, <1>13, <2>1
  <2>2. CASE q # p
    BY <1>1, <1>11, <2>2 DEF EffectsIInv, OneCompiler
  <2>3. QED
    BY <2>1, <2>2
<1>15. WantsPermutation' /\ AbsentIsPending' /\ UsableWhenUsed'
  BY <1>1, <1>2, <1>4, <1>12 DEF EffectsIInv, WantsPermutation, AbsentIsPending, UsableWhenUsed, p
<1>16. UnavailableIsPending' /\ AvailableIsBuilt' /\ FillingMatches'
  BY <1>1, <1>5, <1>6 DEF EffectsIInv, UnavailableIsPending, BeingBuilt, AvailableIsBuilt,
     FillingMatches, EffectsTypeOK
<1>17. QED
  BY <1>3, <1>7, <1>9, <1>10, <1>14, <1>15, <1>16 DEF EffectsIInv

LEMMA TestStep ==
    ASSUME EffectsIInv, NEW c \in Clients, Test(c)
    PROVE  EffectsIInv'
<1> DEFINE p == want[c]
           asks == c \in Pollers \/ perm[c]
           place == IF asks /\ status[p] = "Available" THEN "use"
                    ELSE IF c \in Pollers THEN "test" ELSE "get"
<1>1. /\ at[c] = "test" /\ GotoPlace(c, place) /\ p \in Perms
      /\ status' = IF asks /\ status[p] = "absent"
                   THEN [status EXCEPT ![p] = "Unavailable"] ELSE status
      /\ UNCHANGED <<built, filled, pending_compilation, permutation_lock, want, perm, compiling, tasks>>
  BY DEF Test, EffectsIInv, WantsPermutation
<1>2. place \in {"use", "test", "get"}
      /\ (place = "use" => status[p] = "Available" /\ (c \notin Pollers => perm[c]))
      /\ (place = "test" => asks)
  OBVIOUS
<1>3. \A q \in Perms : status'[q] = IF q = p /\ asks /\ status[p] = "absent"
                                    THEN "Unavailable" ELSE status[q]
  BY <1>1 DEF EffectsIInv, EffectsTypeOK
<1>4. EffectsTypeOK'
  <2>1. status' \in [Perms -> {"absent", "Unavailable", "CompileError", "Available"}]
    BY <1>1 DEF EffectsIInv, EffectsTypeOK
  <2>2. at' \in [Clients -> {"idle", "get", "compile", "spawn", "test", "use"}]
    BY <1>1, <1>2 DEF EffectsIInv, EffectsTypeOK, GotoPlace
  <2>3. QED
    BY <1>1, <2>1, <2>2 DEF EffectsIInv, EffectsTypeOK
<1> HIDE DEF place, asks
<1>5. /\ \A d \in Clients : at'[d] = IF d = c THEN place ELSE at[d]
      /\ StateTypes' /\ CompilationsActive' /\ LockHolderRuns' /\ OneCompiler'
  BY <1>1, <1>2, ClientMoves
<1>6. WantsPermutation'
  BY <1>1, <1>5 DEF EffectsIInv, WantsPermutation
<1>7. AbsentIsPending'
  BY <1>1, <1>2, <1>3, <1>5, <1>6 DEF EffectsIInv, AbsentIsPending, WantsPermutation
<1>8. UnavailableIsPending'
  BY <1>1, <1>3 DEF EffectsIInv, UnavailableIsPending, BeingBuilt, AbsentIsPending
<1>9. AvailableIsBuilt' /\ FillingMatches'
  BY <1>1, <1>3 DEF EffectsIInv, AvailableIsBuilt, FillingMatches, BeingBuilt
<1>10. UsableWhenUsed'
  BY <1>1, <1>2, <1>5 DEF EffectsIInv, UsableWhenUsed, AvailableIsBuilt
<1>11. QED
  BY <1>4, <1>5, <1>6, <1>7, <1>8, <1>9, <1>10 DEF EffectsIInv

LEMMA UseStep ==
    ASSUME EffectsIInv, NEW c \in Clients, Use(c)
    PROVE  EffectsIInv'
<1>1. /\ at[c] = "use" /\ GotoPlace(c, "idle")
      /\ want' = [want EXCEPT ![c] = Nobody] /\ perm' = [perm EXCEPT ![c] = FALSE]
      /\ UNCHANGED <<status, built, filled, pending_compilation, permutation_lock, compiling, tasks>>
  BY DEF Use, entries
<1>2. EffectsTypeOK'
  BY <1>1 DEF EffectsIInv, EffectsTypeOK, GotoPlace
<1>3. \A d \in Clients \ {c} : want'[d] = want[d] /\ perm'[d] = perm[d]
  BY <1>1 DEF EffectsIInv, EffectsTypeOK
<1>4. /\ \A d \in Clients : at'[d] = IF d = c THEN "idle" ELSE at[d]
      /\ StateTypes' /\ CompilationsActive' /\ LockHolderRuns' /\ OneCompiler'
  BY <1>1, <1>3, ClientMoves
<1>5. WantsPermutation' /\ AbsentIsPending'
  BY <1>1, <1>3, <1>4 DEF EffectsIInv, WantsPermutation, AbsentIsPending
<1>6. UsableWhenUsed'
  <2> SUFFICES ASSUME NEW d \in Clients, at'[d] = "use"
               PROVE  built[want'[d]] \in Usable
    BY <1>1 DEF UsableWhenUsed
  <2>1. d \in Clients \ {c} /\ at[d] = "use"
    BY <1>4
  <2>2. QED
    BY <1>3, <2>1 DEF EffectsIInv, UsableWhenUsed
<1>7. UnavailableIsPending' /\ AvailableIsBuilt' /\ FillingMatches'
  BY <1>1 DEF EffectsIInv, UnavailableIsPending, BeingBuilt, AvailableIsBuilt,
     FillingMatches
<1>8. QED
  BY <1>2, <1>4, <1>5, <1>6, <1>7 DEF EffectsIInv

LEMMA PublishStep ==
    ASSUME EffectsIInv, NEW t \in Compilations, Publish(t)
    PROVE  EffectsIInv'
<1> DEFINE p == compiling[t]
<1>1. /\ state[t] = "running" /\ permutation_lock = Nobody /\ permutation_lock' = t
      /\ pending_compilation' = pending_compilation \ {p}
      /\ status' = [status EXCEPT ![p] = FirstStatus(p)]
      /\ UNCHANGED <<built, filled, at, want, perm, compiling, state>>
  BY DEF Publish, Unlocked, asking, tasks
<1>2. t # Nobody /\ t \in Task
  BY EffectsAssumption, NobodyAssumption
<1>3. p \in Perms
  <2>1. p # Nobody
    BY <1>1 DEF EffectsIInv, CompilationsActive, Active
  <2>2. QED
    BY <2>1 DEF EffectsIInv, EffectsTypeOK
<1>4. FirstStatus(p) \in {"Unavailable", "CompileError", "Available"}
      /\ (FirstStatus(p) = "Available" => status[p] = "Available")
  BY <1>3 DEF EffectsIInv, EffectsTypeOK, FirstStatus
<1>5. \A q \in Perms : status'[q] = IF q = p THEN FirstStatus(p) ELSE status[q]
  BY <1>1 DEF EffectsIInv, EffectsTypeOK
<1>6. EffectsTypeOK'
  BY <1>1, <1>4 DEF EffectsIInv, EffectsTypeOK
<1>7. StateTypes' /\ CompilationsActive' /\ LockHolderRuns'
  BY <1>1 DEF EffectsIInv, StateTypes, CompilationsActive, Active, LockHolderRuns
<1>8. p \in pending_compilation /\ Compilers(p) = {t}
  <2>1. t \in Compilers(p)
    BY <1>1, <1>2 DEF Compilers
  <2>2. QED
    BY <1>3, <2>1 DEF EffectsIInv, OneCompiler
<1>9. \A q : Compilers(q)' = Compilers(q) \ {t}
  <2> DEFINE Going(q, lock) == {u \in Compilations : /\ compiling[u] = q /\ lock # u
                                                     /\ state[u] \in {"scheduled", "running"}}
             Spawning(q) == {d \in Clients : at[d] = "spawn" /\ want[d] = q}
  <2>1. \A q : /\ Compilers(q) = Spawning(q) \cup Going(q, Nobody)
               /\ Compilers(q)' = Spawning(q) \cup Going(q, t)
    BY <1>1 DEF Compilers
  <2>2. \A q : t \notin Spawning(q)
    BY <1>2, EffectsAssumption
  <2>3. \A u \in Compilations : u # Nobody
    BY EffectsAssumption, NobodyAssumption
  <2>4. \A q : Going(q, t) = Going(q, Nobody) \ {t}
    BY <2>3
  <2> HIDE DEF Going, Spawning
  <2>5. QED
    BY <2>1, <2>2, <2>4
<1>10. \A q \in Perms : q # p => t \notin Compilers(q)
  BY <1>2, EffectsAssumption DEF Compilers
<1>11. OneCompiler'
  <2> SUFFICES ASSUME NEW q \in Perms
               PROVE  IF q \in pending_compilation' THEN \E x \in Compilers(q)' : Compilers(q)' = {x}
                      ELSE Compilers(q)' = {}
    BY DEF OneCompiler
  <2>1. CASE q = p
    BY <1>1, <1>8, <1>9, <2>1
  <2>2. CASE q # p
    <3>1. Compilers(q)' = Compilers(q)
      BY <1>9, <1>10, <2>2
    <3>2. QED
      BY <1>1, <2>2, <3>1 DEF EffectsIInv, OneCompiler
  <2>3. QED
    BY <2>1, <2>2
<1>12. WantsPermutation' /\ UsableWhenUsed'
  BY <1>1 DEF EffectsIInv, WantsPermutation, UsableWhenUsed
<1>13. AbsentIsPending'
  BY <1>1, <1>4, <1>5, <1>12 DEF EffectsIInv, AbsentIsPending, WantsPermutation
<1>14. UnavailableIsPending'
  BY <1>1, <1>2, <1>5 DEF EffectsIInv, UnavailableIsPending, BeingBuilt
<1>15. AvailableIsBuilt'
  BY <1>1, <1>4, <1>5 DEF EffectsIInv, AvailableIsBuilt
<1>17. FillingMatches'
  <2>1. filled = "nothing" /\ \A q \in Perms : built[q] \notin {"shaders", "mixed"}
    BY <1>1 DEF EffectsIInv, EffectsTypeOK, FillingMatches
  <2>2. QED
    BY <1>1, <2>1 DEF FillingMatches
<1>16. QED
  BY <1>6, <1>7, <1>11, <1>12, <1>13, <1>14, <1>15, <1>17 DEF EffectsIInv

(* Steps of the job that change nothing but what the entry holds.          *)
LEMMA EntryFills ==
    ASSUME EffectsIInv, NEW t \in Compilations, permutation_lock = t,
           NEW content \in {"shaders", "mixed", "whole"},
           built' = [built EXCEPT ![compiling[t]] = content],
           content \in Usable \/ built[compiling[t]] \notin Usable,
           filled' \in {"nothing", "shaders", "whole"}, FillingMatches',
           UNCHANGED <<status, pending_compilation, permutation_lock, asking, compiling, tasks>>
    PROVE  EffectsIInv'
<1>1. UNCHANGED <<status, pending_compilation, permutation_lock, at, want, perm, compiling, state>>
  BY DEF asking, tasks
<1>2. EffectsTypeOK'
  BY <1>1 DEF EffectsIInv, EffectsTypeOK
<1>3. \A q \in Perms : built[q] \in Usable => built'[q] \in Usable
  BY DEF EffectsIInv, EffectsTypeOK
<1>4. StateTypes' /\ CompilationsActive' /\ LockHolderRuns'
  BY <1>1 DEF EffectsIInv, StateTypes, CompilationsActive, Active, LockHolderRuns
<1>5. \A q : Compilers(q)' = Compilers(q)
  BY <1>1 DEF Compilers
<1>6. OneCompiler'
  BY <1>1, <1>5 DEF EffectsIInv, OneCompiler
<1>7. WantsPermutation' /\ AbsentIsPending' /\ UnavailableIsPending'
  BY <1>1 DEF EffectsIInv, WantsPermutation, AbsentIsPending, UnavailableIsPending, BeingBuilt
<1>8. AvailableIsBuilt' /\ UsableWhenUsed'
  BY <1>1, <1>3 DEF EffectsIInv, AvailableIsBuilt, UsableWhenUsed, WantsPermutation
<1>9. QED
  BY <1>2, <1>4, <1>6, <1>7, <1>8 DEF EffectsIInv

LEMMA CompilerFacts ==
    ASSUME EffectsIInv, NEW t \in Compilations, permutation_lock = t
    PROVE  t # Nobody /\ compiling[t] \in Perms /\ state[t] = "running"
<1>1. t # Nobody
  BY EffectsAssumption, NobodyAssumption
<1>2. state[t] = "running"
  BY <1>1 DEF EffectsIInv, LockHolderRuns
<1>3. compiling[t] # Nobody
  BY <1>2 DEF EffectsIInv, CompilationsActive, Active
<1>4. QED
  BY <1>1, <1>2, <1>3 DEF EffectsIInv, EffectsTypeOK

LEMMA FillShadersStep ==
    ASSUME EffectsIInv, NEW t \in Compilations, FillShaders(t)
    PROVE  EffectsIInv'
<1> DEFINE p == compiling[t]
           content == IF built[p] = "nothing" THEN "shaders" ELSE "mixed"
<1>1. /\ permutation_lock = t /\ filled = "nothing" /\ p \notin Broken /\ filled' = "shaders"
      /\ built' = [built EXCEPT ![p] = content]
      /\ UNCHANGED <<status, pending_compilation, permutation_lock, asking, compiling, tasks>>
  BY DEF FillShaders
<1>2. t # Nobody /\ p \in Perms
  BY <1>1, CompilerFacts
<1>3. \A q \in Perms : built[q] \in {"nothing", "whole"}
  BY <1>1 DEF EffectsIInv, EffectsTypeOK, FillingMatches
<1>4. content \in {"shaders", "mixed", "whole"} /\ (content \in Usable \/ built[p] \notin Usable)
  BY <1>2, <1>3 DEF Usable
<1>5. \A q \in Perms \ {p} : built'[q] = built[q]
  BY <1>1 DEF EffectsIInv, EffectsTypeOK
<1> HIDE DEF content
<1>6. FillingMatches'
  BY <1>1, <1>2, <1>3, <1>5 DEF FillingMatches, BeingBuilt
<1>7. QED
  BY <1>1, <1>4, <1>6, EntryFills

LEMMA FillLayoutStep ==
    ASSUME EffectsIInv, NEW t \in Compilations, FillLayout(t)
    PROVE  EffectsIInv'
<1> DEFINE p == compiling[t]
<1>1. /\ permutation_lock = t /\ filled = "shaders" /\ filled' = "whole"
      /\ built' = [built EXCEPT ![p] = "whole"]
      /\ UNCHANGED <<status, pending_compilation, permutation_lock, asking, compiling, tasks>>
  BY DEF FillLayout
<1>2. t # Nobody /\ p \in Perms \ Broken
  BY <1>1, CompilerFacts DEF EffectsIInv, FillingMatches
<1>3. \A q \in Perms : built'[q] = IF q = p THEN "whole" ELSE built[q]
  BY <1>1 DEF EffectsIInv, EffectsTypeOK
<1>4. FillingMatches'
  BY <1>1, <1>2, <1>3 DEF EffectsIInv, FillingMatches, BeingBuilt
<1>5. QED
  BY <1>1, <1>4, EntryFills DEF Usable

LEMMA AnnounceStep ==
    ASSUME EffectsIInv, NEW t \in Compilations, Announce(t)
    PROVE  EffectsIInv'
<1> DEFINE p == compiling[t]
<1>1. /\ permutation_lock = t /\ permutation_lock' = Nobody
      /\ (filled = "whole" \/ p \in Broken) /\ filled' = "nothing"
      /\ status' = [status EXCEPT ![p] = LastStatus(p)]
      /\ compiling' = [compiling EXCEPT ![t] = Nobody] /\ EndTask(t)
      /\ UNCHANGED <<built, pending_compilation, at, want, perm>>
  BY DEF Announce, asking
<1>2. t # Nobody /\ t \in Task /\ Compilations \subseteq Task
  BY EffectsAssumption, NobodyAssumption
<1>3. p \in Perms /\ state[t] = "running"
  <2>1. state[t] = "running"
    BY <1>1 DEF EndTask
  <2>2. p # Nobody
    BY <2>1 DEF EffectsIInv, CompilationsActive, Active
  <2>3. QED
    BY <2>1, <2>2 DEF EffectsIInv, EffectsTypeOK
<1>4. LastStatus(p) \in {"CompileError", "Available"} /\ (LastStatus(p) = "Available" => built[p] \in Usable)
  BY <1>1 DEF LastStatus, EffectsIInv, FillingMatches, Usable
<1>5. \A q \in Perms : status'[q] = IF q = p THEN LastStatus(p) ELSE status[q]
  BY <1>1 DEF EffectsIInv, EffectsTypeOK
<1>6. \A u \in Compilations : compiling'[u] = IF u = t THEN Nobody ELSE compiling[u]
  BY <1>1 DEF EffectsIInv, EffectsTypeOK
<1>7. StateTypes' /\ \A u \in Task : state'[u] = IF u = t THEN "done" ELSE state[u]
  BY <1>1, <1>2, TaskReaches DEF EndTask, EffectsIInv, AsyncStates
<1>8. EffectsTypeOK'
  BY <1>1, <1>4 DEF EffectsIInv, EffectsTypeOK
<1>9. CompilationsActive' /\ LockHolderRuns'
  BY <1>1, <1>2, <1>6, <1>7 DEF EffectsIInv, CompilationsActive, Active, LockHolderRuns
<1>10. \A q \in Perms : Compilers(q)' = Compilers(q)
  <2> SUFFICES ASSUME NEW q \in Perms PROVE Compilers(q)' = Compilers(q)
    OBVIOUS
  <2>1. q # Nobody
    BY NobodyAssumption
  <2>2. QED
    BY <1>1, <1>2, <1>6, <1>7, <2>1, NobodyAssumption DEF Compilers
<1>11. OneCompiler'
  BY <1>1, <1>10 DEF EffectsIInv, OneCompiler
<1>12. WantsPermutation' /\ UsableWhenUsed'
  BY <1>1 DEF EffectsIInv, WantsPermutation, UsableWhenUsed
<1>13. AbsentIsPending'
  BY <1>1, <1>4, <1>5, <1>12 DEF EffectsIInv, AbsentIsPending, WantsPermutation
<1>14. UnavailableIsPending'
  BY <1>1, <1>4, <1>5 DEF EffectsIInv, UnavailableIsPending, BeingBuilt
<1>15. AvailableIsBuilt'
  BY <1>1, <1>4, <1>5 DEF EffectsIInv, AvailableIsBuilt
<1>17. FillingMatches'
  <2>1. \A q \in Perms : built[q] \notin {"shaders", "mixed"}
    BY <1>1, <1>2 DEF EffectsIInv, FillingMatches, BeingBuilt
  <2>2. QED
    BY <1>1, <2>1 DEF FillingMatches
<1>16. QED
  BY <1>7, <1>8, <1>9, <1>11, <1>12, <1>13, <1>14, <1>15, <1>17 DEF EffectsIInv

-----------------------------------------------------------------------------
(* Steps of the assets and of the job system leave the effect alone.       *)

LEMMA LoadStates ==
    ASSUME StateTypes, AssetsNext
    PROVE  StateTypes' /\ \A u \in Task \ Loads : state'[u] = state[u]
<1> DEFINE Kept == StateTypes' /\ \A u \in Task \ Loads : state'[u] = state[u]
<1>1. tasks' = tasks => Kept
  BY DEF tasks, StateTypes
<1>2. \A t \in Loads : Async(t) => Kept
  BY TaskReaches, AssetsAssumption DEF Async, AsyncStates
<1>3. \A t \in Loads : EndTask(t) => Kept
  BY TaskReaches, AssetsAssumption DEF EndTask, AsyncStates
<1>4. \A r : Close(r) => Kept
  BY <1>1, <1>3 DEF Close
<1> HIDE DEF Kept
<1>5. \A r : Destroy(r) => Kept
  <2>1. \A r : Decrement(r) => Kept
    BY <1>1, <1>4 DEF Decrement
  <2>2. \A r : TestCount(r) => Kept
    BY <1>1, <1>4 DEF TestCount
  <2>3. \A r : FreeAsset(r) => Kept
    BY <1>4 DEF FreeAsset
  <2>4. QED
    BY <2>1, <2>2, <2>3 DEF Destroy
<1>6. \A r, p : RequestAsset(r, p) => Kept
  <2>1. \A r, p : FindAsset(r, p) \/ MissSync(r, p) => Kept
    BY <1>1 DEF FindAsset, MissSync
  <2>2. ASSUME NEW r, NEW p, MissAsync(r, p) PROVE Kept
    <3>1. PICK t \in Loads : Async(t)
      <4> DEFINE free == {u \in Loads : Free(u)}
      <4>1. free # {} /\ Async(CHOOSE u \in free : TRUE)
        BY <2>2 DEF MissAsync
      <4>2. (CHOOSE u \in free : TRUE) \in Loads
        BY <4>1
      <4>3. QED
        BY <4>1, <4>2
    <3>2. QED
      BY <3>1, <1>2
  <2>3. QED
    BY <2>1, <2>2 DEF RequestAsset
<1>7. \A r : MainAssets(r) \/ ClientDrops(r) => Kept
  BY <1>1, <1>5 DEF MainAssets, LoadSync, ClientDrops
<1>8. \A t \in Loads : AssetJob(t) => Kept
  <2>1. \A t \in Loads : InsertEntry(t) \/ CompleteRequest(t) => Kept
    BY <1>1 DEF InsertEntry, CompleteRequest
  <2>2. \A t \in Loads : JobDrops(t) => Kept
    BY <1>1, <1>3 DEF JobDrops
  <2>3. QED
    BY <2>1, <2>2, <1>5 DEF AssetJob
<1>9. UnloadAll => Kept
  BY <1>1 DEF UnloadAll
<1>10. Kept
  BY <1>6, <1>7, <1>8, <1>9 DEF AssetsNext
<1>11. QED
  BY <1>10 DEF Kept

LEMMA BeginStates ==
    ASSUME StateTypes, NEW t \in Task, BeginTask(t)
    PROVE  /\ StateTypes'
           /\ \A u \in Task : /\ Active(u) <=> state'[u] \in {"scheduled", "running"}
                              /\ state[u] = "running" => state'[u] = "running"
<1>1. state[t] = "scheduled" /\ Reach(t, "running")
  BY DEF BeginTask
<1>2. StateTypes' /\ \A u \in Task : state'[u] = IF u = t THEN "running" ELSE state[u]
  BY <1>1, TaskReaches DEF AsyncStates
<1>3. QED
  BY <1>1, <1>2 DEF Active

LEMMA InitEffectsIInv == ContentInit => EffectsIInv
<1> SUFFICES ASSUME ContentInit PROVE EffectsIInv
  OBVIOUS
<1>1. EffectsTypeOK /\ StateTypes
  BY DEF ContentInit, EffectsInit, TasksInit, EffectsTypeOK, StateTypes, AsyncStates
<1>2. CompilationsActive /\ LockHolderRuns
  BY EffectsAssumption DEF ContentInit, EffectsInit, TasksInit, CompilationsActive, Active,
     LockHolderRuns
<1>3. \A p : Compilers(p) = {}
  BY EffectsAssumption DEF ContentInit, EffectsInit, TasksInit, Compilers
<1>4. OneCompiler
  BY <1>3 DEF OneCompiler, ContentInit, EffectsInit
<1>5. WantsPermutation /\ AbsentIsPending /\ UsableWhenUsed
  BY DEF ContentInit, EffectsInit, WantsPermutation, AbsentIsPending, UsableWhenUsed
<1>6. UnavailableIsPending /\ AvailableIsBuilt /\ FillingMatches
  BY DEF ContentInit, EffectsInit, UnavailableIsPending, BeingBuilt, AvailableIsBuilt,
     FillingMatches
<1>7. QED
  BY <1>1, <1>2, <1>4, <1>5, <1>6 DEF EffectsIInv

LEMMA NextEffectsIInv == EffectsIInv /\ [ContentNext]_contentVars => EffectsIInv'
<1> SUFFICES ASSUME EffectsIInv, [ContentNext]_contentVars PROVE EffectsIInv'
  OBVIOUS
<1>1. ASSUME NEW t \in Task, Begin(t) PROVE EffectsIInv'
  <2>1. BeginTask(t) /\ UNCHANGED effects
    BY <1>1 DEF Begin
  <2>2. StateTypes
    BY DEF EffectsIInv
  <2>3. QED
    BY <2>1, <2>2, BeginStates, EffectsFrame, EffectsAssumption
<1>2. ASSUME NEW c \in Clients, EffectStep(c) PROVE EffectsIInv'
  BY <1>2, AskStep, LookupStep, CompileStepInv, SpawnStep, TestStep, UseStep
     DEF EffectStep, EffectClient
<1>3. ASSUME AssetsNext, UNCHANGED effects PROVE EffectsIInv'
  <2>1. StateTypes
    BY DEF EffectsIInv
  <2>2. StateTypes' /\ \A u \in Task \ Loads : state'[u] = state[u]
    BY <1>3, <2>1, LoadStates
  <2>3. Compilations \subseteq Task \ Loads
    BY EffectsAssumption, ContentAssumption
  <2>4. \A u \in Compilations : state'[u] = state[u]
    BY <2>2, <2>3
  <2>5. QED
    BY <1>3, <2>2, <2>4, EffectsFrame DEF Active
<1>4. ASSUME MainStep PROVE EffectsIInv'
  BY <1>3, <1>4 DEF MainStep, AssetsNext
<1>5. ASSUME UnloadAll /\ UNCHANGED effects PROVE EffectsIInv'
  BY <1>3, <1>5 DEF AssetsNext
<1>6. ASSUME NEW t \in Compilations, CompileStep(t) PROVE EffectsIInv'
  BY <1>6, PublishStep, FillShadersStep, FillLayoutStep, AnnounceStep DEF CompileStep, EffectJob
<1>7. ASSUME NEW t \in Loads, LoadStep(t) PROVE EffectsIInv'
  BY <1>3, <1>7 DEF LoadStep, AssetsNext
<1>8. ASSUME UNCHANGED contentVars PROVE EffectsIInv'
  <2>1. state' = state /\ UNCHANGED effects
    BY <1>8 DEF contentVars, tasks
  <2>2. StateTypes'
    BY <2>1 DEF EffectsIInv, StateTypes
  <2>3. QED
    BY <2>1, <2>2, EffectsFrame DEF Active
<1>9. QED
  BY <1>1, <1>2, <1>4, <1>5, <1>6, <1>7, <1>8 DEF ContentNext

(* The inductive invariant of the effect holds in every behaviour, however *)
(* the clients, the jobs and the loads interleave.                         *)
THEOREM EffectsInvariance == ContentSpec => []EffectsIInv
BY InitEffectsIInv, NextEffectsIInv, PTL DEF ContentSpec

(* A permutation is pending exactly while one compilation of it is on its  *)
(* way (compile() and its lambda, Effect.cpp).                             *)
THEOREM PendingInFlight == ContentSpec => []PendingIsInFlight
<1>1. EffectsIInv => PendingIsInFlight
  <2> SUFFICES ASSUME OneCompiler, NEW p \in Perms
               PROVE  Cardinality(Compilers(p)) = IF p \in pending_compilation THEN 1 ELSE 0
    BY DEF EffectsIInv, PendingIsInFlight
  <2>1. CASE p \in pending_compilation
    <3>1. PICK x : Compilers(p) = {x}
      BY <2>1 DEF OneCompiler
    <3>2. QED
      BY <2>1, <3>1, FS_Singleton
  <2>2. CASE p \notin pending_compilation
    <3>1. Compilers(p) = {}
      BY <2>2 DEF OneCompiler
    <3>2. QED
      BY <2>2, <3>1, FS_EmptySet
  <2>3. QED
    BY <2>1, <2>2
<1>2. QED
  BY <1>1, EffectsInvariance, PTL

(* An entry that says Unavailable is being built: is_available never adds  *)
(* one that get_permutation would then leave unbuilt.                      *)
THEOREM UnavailableInFlight == ContentSpec => []UnavailableIsPending
<1>1. EffectsIInv => UnavailableIsPending
  BY DEF EffectsIInv
<1>2. QED
  BY <1>1, EffectsInvariance, PTL

(* Who has waited for a permutation finds its shaders and its layout, also *)
(* while it is compiled again: of two compilations only for as long as the *)
(* job that replaces them has the lock.                                    *)
THEOREM CompleteWhenUsed == ContentSpec => []UsesComplete
<1>1. EffectsIInv => UsesComplete
  BY DEF EffectsIInv, UsableWhenUsed, Usable, FillingMatches, WantsPermutation, UsesComplete
<1>2. QED
  BY <1>1, EffectsInvariance, PTL

-----------------------------------------------------------------------------
(* Assets: what every step on a handle has to establish.                   *)

Handle == [stage : {"closed", "load", "open"} \cup Destructor, path : Paths \cup {NoPath},
           valid : BOOLEAN, completed : BOOLEAN, holders : SUBSET ({"client"} \cup Loads),
           got : Objects \cup {Null, NoEntry}]
Entry == [asset : Objects \cup {Null}, ref_count : Nat]
EntryOr(e) == IF e = NoEntry THEN NewEntry ELSE e
Others(r, p) == On(p) \ {r}
CountedWith(r, p, h) == IF h.got # NoEntry THEN Counted(p) \cup {r} ELSE Counted(p) \ {r}
Worker(l, r) == \E t \in Loads : l[t] = r

LEMMA HandleStep ==
    ASSUME AssetsIInv, NEW r \in Requests, NEW p \in Paths,
           NEW h \in Handle, NEW e \in Entry \cup {NoEntry},
           Put(r, h), SetEntry(p, e), loading' \in [Loads -> Requests \cup {NoRequest}],
           StateTypes', LoadsActive',
           request[r].path \in {p, NoPath}, h.path \in {p, NoPath},
           \A q \in Requests \ {r} : \A t \in Loads : loading'[t] = q <=> loading[t] = q,
           h.stage = "closed" <=> h.path = NoPath,
           h.stage = "closed" => h = Closed,
           h.stage = "load" => Others(r, p) = {},
           Worker(loading', r) => Others(r, p) = {} /\ h.stage \in {"open"} \cup Destructor,
           h.path = p => \A q \in Others(r, p) : request[q].stage # "load" /\ ~OnWorker(q),
           h.stage = "load" \/ (h.stage \in Destructor /\ ~Worker(loading', r)) => Busy(r) \/ ~MainBusy,
           h.stage = "open" => /\ h.holders # {}
                               /\ h.holders \subseteq {"client"} \cup {t \in Loads : loading'[t] = r}
                               /\ \A t \in Loads : loading'[t] = r => t \in h.holders,
           h.stage \in Destructor => h.holders = {},
           h.path = p => GotOf(h, e, Worker(loading', r)),
           \A q \in Others(r, p) : GotOf(request[q], e, OnWorker(q)),
           EntryOr(e).ref_count = Cardinality(CountedWith(r, p, h)),
           h.stage = "free" => EntryOr(e).ref_count = 0,
           \A q \in Others(r, p) : request[q].stage = "free" => EntryOr(e).ref_count = 0,
           h.path = NoPath /\ Others(r, p) = {} => e = NoEntry
    PROVE  AssetsIInv'
<1>1. request \in [Requests -> Handle] /\ request' \in [Requests -> Handle]
      /\ \A q \in Requests : request'[q] = IF q = r THEN h ELSE request[q]
  BY DEF AssetsIInv, AssetsTypeOK, Handle, Put
<1>2. /\ \A s \in Paths : assets'[s] = IF s = p THEN e ELSE assets[s]
      /\ DOMAIN assets' = Paths
  BY DEF AssetsIInv, AssetsTypeOK, SetEntry
<1>3. /\ \A q \in Requests \ {r} : OnWorker(q)' <=> OnWorker(q)
      /\ \A q : q = r => (OnWorker(q)' <=> Worker(loading', r))
  BY DEF OnWorker, Worker
<1>4. NoPath \notin Paths /\ NoPath # p
  BY NullAssumption
<1>5. /\ \A s \in Paths : s # p => On(s)' = On(s)
      /\ \A s : s = p => On(s)' = IF h.path = p THEN Others(r, p) \cup {r} ELSE Others(r, p)
      /\ On(p) \subseteq Requests /\ Others(r, p) \subseteq Requests
  BY <1>1, <1>4 DEF On, Others
<1>6. ClosedHandles'
  BY <1>1 DEF AssetsIInv, ClosedHandles
<1>7. OneCall'
  <2>1. \A q \in Requests \ {r} : Busy(q)' <=> Busy(q)
    BY <1>1, <1>3 DEF Busy
  <2>2. \A q : q = r => (Busy(q)' => Busy(r) \/ ~MainBusy)
    BY <1>1, <1>3 DEF Busy
  <2>3. ~MainBusy => \A q \in Requests : ~Busy(q)
    BY DEF MainBusy, Busy
  <2>4. \A q, s \in Requests : Busy(q) /\ Busy(s) => q = s
    BY DEF AssetsIInv, OneCall
  <2>5. QED
    BY <2>1, <2>2, <2>3, <2>4 DEF OneCall
<1>8. LoadingAlone'
  <2> SUFFICES ASSUME NEW q \in Requests
               PROVE  /\ request'[q].stage = "load" \/ OnWorker(q)' =>
                            \A s : s = request'[q].path => On(s)' = {q}
                      /\ OnWorker(q)' => request'[q].stage \in {"open"} \cup Destructor
    <3>1. \A x \in Requests : Alone(x)' <=> \A s : s = request'[x].path => On(s)' = {x}
      BY DEF Alone
    <3>2. QED
      BY <3>1 DEF LoadingAlone, Destructor
  <2>1. CASE q = r
    <3>1. h.stage # "closed" => h.path = p
      OBVIOUS
    <3>2. Others(r, p) = {} /\ h.path = p => \A s : s = p => On(s)' = {r}
      BY <1>5
    <3>3. request'[q] = h /\ (OnWorker(q)' <=> Worker(loading', r))
      BY <1>1, <1>3, <2>1
    <3>4. request'[q].stage = "load" \/ OnWorker(q)' => h.stage # "closed" /\ Others(r, p) = {}
      BY <3>3 DEF Destructor
    <3>5. OnWorker(q)' => request'[q].stage \in {"open"} \cup Destructor
      BY <3>3
    <3>6. QED
      BY <2>1, <3>1, <3>2, <3>3, <3>4, <3>5
  <2>2. CASE q # r
    <3>1. request'[q] = request[q] /\ (OnWorker(q)' <=> OnWorker(q))
      BY <1>1, <1>3, <2>2
    <3>2. request[q].stage = "load" \/ OnWorker(q) =>
             On(request[q].path) = {q} /\ request[q].stage \in {"load", "open"} \cup Destructor
      BY DEF AssetsIInv, LoadingAlone, Alone
    <3>3. request[q].stage # "closed" => request[q].path \in Paths
      BY <1>1, <1>4 DEF AssetsIInv, ClosedHandles, Handle
    <3>4. ASSUME request[q].stage = "load" \/ OnWorker(q), NEW s, s = request[q].path
          PROVE  On(s)' = {q}
      <4>1. s \in Paths /\ On(s) = {q}
        BY <3>2, <3>3, <3>4 DEF Destructor
      <4>2. CASE s = p
        <5>1. q \in Others(r, p) /\ Others(r, p) = {q}
          BY <2>2, <4>1, <4>2 DEF Others
        <5>2. h.path # p
          BY <3>4, <5>1
        <5>3. QED
          BY <1>5, <4>2, <5>1, <5>2
      <4>3. CASE s # p
        BY <1>5, <4>1, <4>3
      <4>4. QED
        BY <4>2, <4>3
    <3>5. OnWorker(q) => request[q].stage \in {"open"} \cup Destructor
      BY DEF AssetsIInv, LoadingAlone
    <3>6. QED
      BY <3>1, <3>4, <3>5
  <2>3. QED
    BY <2>1, <2>2
<1>9. HoldersKnown'
  <2> SUFFICES ASSUME NEW q \in Requests
               PROVE  /\ request'[q].stage = "open" =>
                            /\ request'[q].holders # {}
                            /\ request'[q].holders \subseteq {"client"} \cup {t \in Loads : loading'[t] = q}
                            /\ \A t \in Loads : loading'[t] = q => t \in request'[q].holders
                      /\ request'[q].stage \in Destructor => request'[q].holders = {}
    BY DEF HoldersKnown, Destructor
  <2>1. CASE q = r
    BY <1>1, <2>1
  <2>2. CASE q # r
    <3>1. {t \in Loads : loading'[t] = q} = {t \in Loads : loading[t] = q}
      BY <2>2
    <3>2. QED
      BY <1>1, <2>2, <3>1 DEF AssetsIInv, HoldersKnown
  <2>3. QED
    BY <2>1, <2>2
<1>10. GotMatches'
  <2> SUFFICES ASSUME NEW q \in Requests
               PROVE  GotOf(request'[q], assets'[request'[q].path], OnWorker(q)')
    BY DEF GotMatches, GotOf, OnWorker
  <2>1. CASE q = r /\ h.path = p
    <3>1. request'[q] = h /\ assets'[request'[q].path] = e /\ (OnWorker(q)' <=> Worker(loading', r))
      BY <1>1, <1>2, <1>3, <2>1
    <3>2. QED
      BY <2>1, <3>1 DEF GotOf
  <2>2. CASE q = r /\ h.path = NoPath
    <3>1. request'[q] = h /\ h = Closed
      BY <1>1, <2>2
    <3>2. QED
      BY <3>1 DEF GotOf, Closed
  <2>3. CASE q # r
    <3>1. request'[q] = request[q] /\ (OnWorker(q)' <=> OnWorker(q))
      BY <1>1, <1>3, <2>3
    <3>2. GotOf(request[q], assets[request[q].path], OnWorker(q))
      BY DEF AssetsIInv, GotMatches
    <3>3. CASE request[q].path = p
      <4>1. q \in Others(r, p)
        BY <2>3, <3>3 DEF Others, On
      <4>2. QED
        BY <1>2, <3>1, <3>3, <4>1 DEF GotOf
    <3>4. CASE request[q].path \in Paths \ {p}
      BY <1>2, <3>1, <3>2, <3>4 DEF GotOf
    <3>5. CASE request[q].path = NoPath
      <4>1. request[q] = Closed
        BY <3>5 DEF AssetsIInv, ClosedHandles
      <4>2. QED
        BY <3>1, <4>1 DEF GotOf, Closed
    <3>6. request[q].path \in Paths \cup {NoPath}
      BY <1>1 DEF Handle
    <3>7. QED
      BY <3>3, <3>4, <3>5, <3>6
  <2>4. QED
    BY <2>1, <2>2, <2>3
<1>11. /\ \A s \in Paths : s # p => Counted(s)' = Counted(s)
       /\ \A s : s = p => Counted(s)' = CountedWith(r, p, h)
  <2>1. \A s \in Paths : s # p => Counted(s)' = Counted(s)
    <3>1. \A s \in Paths : s # p => r \notin On(s)
      BY <1>4 DEF On
    <3>2. \A s \in Paths : s # p => \A q \in On(s) : request'[q] = request[q]
      BY <1>1, <3>1 DEF On
    <3>3. QED
      BY <1>5, <3>2 DEF Counted
  <2>2. h.got # NoEntry => h.path = p
    BY DEF Closed
  <2>3. \A s : s = p => Counted(s)' = CountedWith(r, p, h)
    <3>1. CASE h.path = p
      BY <1>1, <1>5, <3>1 DEF Counted, CountedWith, Others
    <3>2. CASE h.path # p
      BY <1>1, <1>5, <2>2, <3>2 DEF Counted, CountedWith, Others
    <3>3. QED
      BY <3>1, <3>2
  <2>4. QED
    BY <2>1, <2>3
<1>12. \A s \in Paths : EntryOf(s)' = IF s = p THEN EntryOr(e) ELSE EntryOf(s)
  BY <1>2 DEF EntryOf, EntryOr
<1>13. CountMatches'
  <2>1. \A s \in Paths : EntryOf(s).ref_count = Cardinality(Counted(s))
    BY DEF AssetsIInv, CountMatches, Counted
  <2> SUFFICES ASSUME NEW s \in Paths PROVE EntryOf(s)'.ref_count = Cardinality(Counted(s)')
    BY DEF CountMatches, Counted
  <2>2. CASE s = p
    BY <1>11, <1>12, <2>2
  <2>3. CASE s # p
    BY <1>11, <1>12, <2>1, <2>3
  <2>4. QED
    BY <2>2, <2>3
<1>14. AssetsTypeOK'
  <2>1. CountedWith(r, p, h) \subseteq Requests
    BY <1>5 DEF CountedWith, Counted
  <2>2. Cardinality(CountedWith(r, p, h)) \in 0 .. Cardinality(Requests)
    BY <2>1, FS_Subset, FS_CardinalityType, AssetsAssumption
  <2>3. e # NoEntry => e.ref_count \in 0 .. Cardinality(Requests)
    BY <2>2 DEF EntryOr
  <2>4. e \in [asset : Objects \cup {Null}, ref_count : 0 .. Cardinality(Requests)] \cup {NoEntry}
    BY <2>3 DEF Entry
  <2>5. assets' \in [Paths -> [asset : Objects \cup {Null}, ref_count : 0 .. Cardinality(Requests)]
                              \cup {NoEntry}]
    BY <2>4 DEF AssetsIInv, AssetsTypeOK, SetEntry
  <2>6. QED
    BY <1>1, <2>5 DEF AssetsTypeOK, Handle
<1>15. CountZero'
  <2> SUFFICES ASSUME NEW q \in Requests, request'[q].stage = "free"
               PROVE  \A s : s = request'[q].path => EntryOf(s)'.ref_count = 0
    BY DEF CountZero
  <2>1. CASE q = r
    <3>1. request'[q] = h /\ h.path = p
      BY <1>1, <2>1
    <3>2. QED
      BY <1>12, <2>1, <3>1
  <2>2. CASE q # r
    <3>1. request'[q] = request[q] /\ request[q].path \in Paths
      BY <1>1, <1>4, <2>2 DEF AssetsIInv, ClosedHandles, Handle
    <3>2. EntryOf(request[q].path).ref_count = 0
      BY <3>1 DEF AssetsIInv, CountZero
    <3>3. request[q].path = p => q \in Others(r, p)
      BY <2>2 DEF Others, On
    <3>4. QED
      BY <1>12, <3>1, <3>2, <3>3
  <2>3. QED
    BY <2>1, <2>2
<1>16. UnloadedWhenUnreferenced'
  <2> SUFFICES ASSUME NEW s \in Paths, On(s)' = {} PROVE assets'[s] = NoEntry
    BY DEF UnloadedWhenUnreferenced
  <2>1. CASE s = p
    <3>1. h.path # p /\ Others(r, p) = {}
      BY <1>5, <2>1
    <3>2. QED
      BY <1>2, <2>1, <3>1
  <2>2. CASE s # p
    BY <1>2, <1>5, <2>2 DEF AssetsIInv, UnloadedWhenUnreferenced
  <2>3. QED
    BY <2>1, <2>2
<1>17. QED
  BY <1>6, <1>7, <1>8, <1>9, <1>10, <1>13, <1>14, <1>15, <1>16 DEF AssetsIInv

(* The requests that count on an entry, one more and one less.             *)
LEMMA CountedRequests ==
    ASSUME AssetsIInv, NEW p \in Paths
    PROVE  /\ Counted(p) \subseteq Requests /\ IsFiniteSet(Counted(p))
           /\ EntryOf(p).ref_count = Cardinality(Counted(p))
           /\ Cardinality(Counted(p)) \in Nat
           /\ \A r : r \in Counted(p) =>
                        /\ Cardinality(Counted(p) \ {r}) = Cardinality(Counted(p)) - 1
                        /\ Cardinality(Counted(p)) > 0
           /\ \A r : r \notin Counted(p) =>
                        Cardinality(Counted(p) \cup {r}) = Cardinality(Counted(p)) + 1
<1>1. Counted(p) \subseteq Requests
  BY DEF Counted, On
<1>2. IsFiniteSet(Counted(p))
  BY <1>1, FS_Subset, AssetsAssumption
<1>3. Cardinality(Counted(p)) \in Nat
  BY <1>2, FS_CardinalityType
<1>4. EntryOf(p).ref_count = Cardinality(Counted(p))
  BY DEF AssetsIInv, CountMatches, Counted
<1>5. ASSUME NEW r \in Counted(p)
      PROVE  /\ Cardinality(Counted(p) \ {r}) = Cardinality(Counted(p)) - 1
             /\ Cardinality(Counted(p)) > 0
  <2>1. Cardinality(Counted(p) \ {r}) = Cardinality(Counted(p)) - 1
    BY <1>2, FS_RemoveElement
  <2>2. Cardinality(Counted(p)) # 0
    BY <1>2, FS_EmptySet
  <2>3. QED
    BY <1>3, <2>1, <2>2
<1>6. \A r : r \notin Counted(p) => Cardinality(Counted(p) \cup {r}) = Cardinality(Counted(p)) + 1
  BY <1>2, FS_AddElement
<1>7. QED
  BY <1>1, <1>2, <1>3, <1>4, <1>5, <1>6

LEMMA LoadsKept ==
    ASSUME AssetsIInv, StateTypes', loading' = loading,
           \A t \in Loads : Active(t) <=> state'[t] \in {"scheduled", "running"}
    PROVE  LoadsActive'
BY DEF AssetsIInv, LoadsActive, Active

(* The task of a request ends, and the lambda lets go of it.               *)
LEMMA LoadEnds ==
    ASSUME AssetsIInv, NEW t \in Loads, NEW r \in Requests, loading[t] = r, EndTask(t),
           loading' = [loading EXCEPT ![t] = NoRequest]
    PROVE  /\ loading' \in [Loads -> Requests \cup {NoRequest}]
           /\ StateTypes' /\ LoadsActive'
           /\ \A u \in Loads : loading'[u] # r
           /\ \A q \in Requests \ {r} : \A u \in Loads : loading'[u] = q <=> loading[u] = q
<1>1. StateTypes' /\ \A u \in Task : state'[u] = IF u = t THEN "done" ELSE state[u]
  BY TaskReaches, AssetsAssumption DEF EndTask, AsyncStates, AssetsIInv
<1>2. loading' \in [Loads -> Requests \cup {NoRequest}]
      /\ \A u \in Loads : loading'[u] = IF u = t THEN NoRequest ELSE loading[u]
  BY DEF AssetsIInv, AssetsTypeOK
<1>3. \A u \in Loads : loading[u] = r => u = t
  BY NullAssumption DEF AssetsIInv, LoadsActive
<1>4. LoadsActive'
  <2>1. Loads \subseteq Task
    BY AssetsAssumption
  <2>2. QED
    BY <1>1, <1>2, <2>1 DEF AssetsIInv, LoadsActive, Active
<1>5. QED
  BY <1>1, <1>2, <1>3, <1>4, NullAssumption

LEMMA StatesKept ==
    ASSUME AssetsIInv, UNCHANGED <<loading, tasks>>
    PROVE  /\ loading \in [Loads -> Requests \cup {NoRequest}] /\ loading' = loading
           /\ StateTypes' /\ LoadsActive'
           /\ \A q : OnWorker(q) <=> Worker(loading, q)
<1>1. state' = state /\ loading' = loading
  BY DEF tasks
<1>2. QED
  BY <1>1 DEF AssetsIInv, AssetsTypeOK, StateTypes, LoadsActive, Active, OnWorker, Worker

(* What get_asset finds out before it opens a handle.                      *)
LEMMA Requestable ==
    ASSUME AssetsIInv, NoOverlap, NEW r \in Requests, NEW p \in Paths, IsNext(r), MayRequest(p)
    PROVE  /\ request[r].path = NoPath /\ Others(r, p) = On(p) /\ r \notin Counted(p)
           /\ \A t \in Loads : loading[t] # r
           /\ ~OnWorker(r) /\ ~MainBusy /\ NoPath # p
           /\ \A q \in On(p) : request[q].stage = "open" /\ ~OnWorker(q)
           /\ assets[p] = NoEntry => On(p) = {}
<1>1. request[r].path = NoPath /\ request[r].stage = "closed" /\ NoPath # p
  BY NullAssumption DEF IsNext, Closed
<1>2. Others(r, p) = On(p) /\ r \notin Counted(p)
  BY <1>1 DEF Others, Counted, On
<1>3. \A t \in Loads : loading[t] # r
  BY <1>1 DEF AssetsIInv, LoadingAlone, OnWorker, Destructor
<1>4. ~MainBusy /\ \A t \in Loads : loading[t] # NoRequest => PathOf(t) # p
  BY DEF MayRequest, NoOverlap
<1>5. \A q \in On(p) : ~OnWorker(q)
  BY <1>4, NullAssumption DEF OnWorker, PathOf, On
<1>6. \A q \in On(p) : request[q].stage = "open"
  <2> SUFFICES ASSUME NEW q \in On(p) PROVE request[q].stage = "open"
    OBVIOUS
  <2>1. q \in Requests /\ request[q].path = p
    BY DEF On
  <2>2. request[q].stage \in {"closed", "load", "open"} \cup Destructor
    BY <2>1 DEF AssetsIInv, AssetsTypeOK
  <2>3. request[q].stage # "closed"
    BY <1>1, <2>1 DEF AssetsIInv, ClosedHandles
  <2>4. QED
    BY <1>4, <1>5, <2>1, <2>2, <2>3 DEF MainBusy
<1>7. assets[p] = NoEntry => On(p) = {}
  <2> SUFFICES ASSUME NEW q \in On(p) PROVE assets[p] # NoEntry
    OBVIOUS
  <2>1. q \in Requests /\ request[q].path = p
    BY DEF On
  <2>2. GotOf(request[q], assets[p], OnWorker(q))
    BY <2>1 DEF AssetsIInv, GotMatches
  <2>3. QED
    BY <1>5, <1>6, <2>2 DEF GotOf
<1>8. QED
  BY <1>1, <1>2, <1>3, <1>4, <1>5, <1>6, <1>7 DEF OnWorker

LEMMA FindAssetStep ==
    ASSUME AssetsIInv, NoOverlap, NEW r \in Requests, NEW p \in Paths, FindAsset(r, p)
    PROVE  AssetsIInv'
<1> DEFINE h == [Opened(p) EXCEPT !.completed = TRUE, !.got = assets[p].asset]
           e == Count(assets[p])
<1>1. /\ IsNext(r) /\ MayRequest(p) /\ assets[p] # NoEntry
      /\ Put(r, h) /\ SetEntry(p, e) /\ UNCHANGED <<loading, tasks>>
  BY DEF FindAsset, CountFound
<1>2. assets[p] \in Entry
  BY <1>1 DEF AssetsIInv, AssetsTypeOK, Entry
<1>3. /\ h \in Handle /\ h.stage = "open" /\ h.path = p /\ h.completed = TRUE
      /\ h.holders = {"client"} /\ h.got = assets[p].asset /\ h.got # NoEntry
  BY <1>2, NullAssumption DEF Opened, Closed, Handle, Entry, Destructor
<1>4. e \in Entry /\ e.asset = assets[p].asset /\ e.ref_count = assets[p].ref_count + 1
      /\ e # NoEntry
  BY <1>2, NullAssumption DEF Count, Entry
<1>5. GotOf(h, e, Worker(loading, r)) /\ \A q \in Others(r, p) : GotOf(request[q], e, OnWorker(q))
  <2>1. GotOf(h, e, Worker(loading, r))
    BY <1>3, <1>4 DEF GotOf, Destructor
  <2>2. \A q \in On(p) : GotOf(request[q], assets[p], OnWorker(q))
    BY DEF AssetsIInv, GotMatches, On
  <2>3. \A q \in On(p) : GotOf(request[q], e, OnWorker(q))
    BY <1>1, <1>4, <2>2 DEF GotOf
  <2>4. QED
    BY <2>1, <2>3 DEF Others
<1> HIDE DEF h, e
<1>6. EntryOr(e).ref_count = Cardinality(CountedWith(r, p, h))
  <2>1. EntryOf(p) = assets[p] /\ EntryOr(e) = e
    BY <1>1, <1>4 DEF EntryOf, EntryOr
  <2>2. CountedWith(r, p, h) = Counted(p) \cup {r}
    BY <1>3 DEF CountedWith
  <2>3. QED
    BY <1>1, <1>4, <2>1, <2>2, CountedRequests, Requestable
<1>7. /\ request[r].path = NoPath /\ \A t \in Loads : loading[t] # r
      /\ ~Worker(loading, r) /\ ~MainBusy
      /\ \A q \in Others(r, p) : request[q].stage = "open" /\ ~OnWorker(q)
      /\ NoPath # p
  BY <1>1, Requestable DEF Worker
<1>8. /\ loading \in [Loads -> Requests \cup {NoRequest}] /\ loading' = loading
      /\ StateTypes' /\ LoadsActive'
  BY <1>1, StatesKept
<1>9. h.stage \notin {"closed", "load"} \cup Destructor
  BY <1>3 DEF Destructor
<1>10. h.stage = "open" => /\ h.holders # {}
                           /\ h.holders \subseteq {"client"} \cup {t \in Loads : loading[t] = r}
                           /\ \A t \in Loads : loading[t] = r => t \in h.holders
  BY <1>3, <1>7
<1>11. QED
  BY <1>1, <1>3, <1>4, <1>5, <1>6, <1>7, <1>8, <1>9, <1>10, HandleStep DEF Destructor

(* What is known of a handle that is not closed, and of its path.          *)
LEMMA HandleFacts ==
    ASSUME AssetsIInv, NEW r \in Requests, request[r].stage # "closed",
           NEW p, p = request[r].path
    PROVE  /\ request[r] \in Handle /\ p \in Paths /\ p # NoPath
           /\ assets[p] \in Entry \cup {NoEntry} /\ EntryOf(p) = EntryOr(assets[p])
           /\ assets \in [Paths -> Entry \cup {NoEntry}]
           /\ GotOf(request[r], assets[p], OnWorker(r))
           /\ \A q \in Others(r, p) :
                 /\ GotOf(request[q], assets[p], OnWorker(q))
                 /\ request[q].stage = "free" => EntryOf(p).ref_count = 0
                 /\ request[q].stage \notin {"load", "closed"} /\ ~OnWorker(q)
           /\ request[r].stage = "load" \/ OnWorker(r) => Others(r, p) = {}
           /\ r \in Counted(p) <=> request[r].got # NoEntry
<1>1. request[r] \in Handle /\ p \in Paths /\ p # NoPath
  BY NullAssumption DEF AssetsIInv, AssetsTypeOK, Handle, ClosedHandles
<1>2. assets \in [Paths -> Entry \cup {NoEntry}]
  BY DEF AssetsIInv, AssetsTypeOK, Entry
<1>3. EntryOf(p) = EntryOr(assets[p])
  BY DEF EntryOf, EntryOr
<1>4. r \in On(p) /\ (r \in Counted(p) <=> request[r].got # NoEntry)
  BY DEF On, Counted
<1>5. request[r].stage = "load" \/ OnWorker(r) => Others(r, p) = {}
  BY DEF AssetsIInv, LoadingAlone, Alone, Others
<1>6. ASSUME NEW q \in Others(r, p)
      PROVE  /\ GotOf(request[q], assets[p], OnWorker(q))
             /\ request[q].stage = "free" => EntryOf(p).ref_count = 0
             /\ request[q].stage \notin {"load", "closed"} /\ ~OnWorker(q)
  <2>1. q \in Requests /\ request[q].path = p /\ q # r
    BY DEF Others, On
  <2>2. request[q].stage # "closed"
    BY <1>1, <2>1 DEF AssetsIInv, ClosedHandles
  <2>3. On(p) # {q}
    BY <1>4, <2>1
  <2>4. request[q].stage # "load" /\ ~OnWorker(q)
    BY <2>1, <2>3 DEF AssetsIInv, LoadingAlone, Alone
  <2>5. request[q].stage = "free" => EntryOf(p).ref_count = 0
    BY <2>1 DEF AssetsIInv, CountZero
  <2>6. GotOf(request[q], assets[p], OnWorker(q))
    BY <2>1 DEF AssetsIInv, GotMatches
  <2>7. QED
    BY <2>2, <2>4, <2>5, <2>6
<1>7. GotOf(request[r], assets[p], OnWorker(r))
  BY DEF AssetsIInv, GotMatches
<1>8. QED
  BY <1>1, <1>2, <1>3, <1>4, <1>5, <1>6, <1>7

(* A step on an open handle that no task takes or lets go.                 *)
LEMMA HandleMoves ==
    ASSUME AssetsIInv, NEW r \in Requests, request[r].stage # "closed",
           NEW p, p = request[r].path,
           NEW h \in Handle, NEW e \in Entry \cup {NoEntry},
           Put(r, h), SetEntry(p, e), UNCHANGED <<loading, tasks>>,
           h.path = p, h.stage \in {"open"} \cup Destructor,
           h.stage \in Destructor /\ ~OnWorker(r) => Busy(r) \/ ~MainBusy,
           h.stage = "open" => /\ h.holders # {}
                               /\ h.holders \subseteq {"client"} \cup {t \in Loads : loading[t] = r}
                               /\ \A t \in Loads : loading[t] = r => t \in h.holders,
           h.stage \in Destructor => h.holders = {},
           GotOf(h, e, OnWorker(r)),
           \A q \in Others(r, p) : GotOf(request[q], e, OnWorker(q)),
           EntryOr(e).ref_count = Cardinality(CountedWith(r, p, h)),
           h.stage = "free" => EntryOr(e).ref_count = 0,
           \A q \in Others(r, p) : request[q].stage = "free" => EntryOr(e).ref_count = 0
    PROVE  AssetsIInv'
<1>1. /\ p \in Paths /\ p # NoPath
      /\ OnWorker(r) => Others(r, p) = {}
      /\ \A q \in Others(r, p) : request[q].stage # "load" /\ ~OnWorker(q)
  BY HandleFacts
<1>2. /\ loading \in [Loads -> Requests \cup {NoRequest}] /\ loading' = loading
      /\ StateTypes' /\ LoadsActive' /\ (OnWorker(r) <=> Worker(loading, r))
  BY StatesKept
<1>3. GotOf(h, e, Worker(loading, r))
  BY <1>2 DEF GotOf
<1>4. h.stage \notin {"closed", "load"}
  BY DEF Destructor
<1>5. QED
  BY <1>1, <1>2, <1>3, <1>4, HandleStep

LEMMA MissSyncStep ==
    ASSUME AssetsIInv, NoOverlap, NEW r \in Requests, NEW p \in Paths, MissSync(r, p)
    PROVE  AssetsIInv'
<1> DEFINE h == [Opened(p) EXCEPT !.stage = "load"]
<1>1. /\ IsNext(r) /\ MayRequest(p) /\ assets[p] = NoEntry
      /\ Put(r, h) /\ UNCHANGED <<assets, loading, tasks>>
  BY DEF MissSync
<1>2. SetEntry(p, NoEntry)
  BY <1>1 DEF SetEntry, AssetsIInv, AssetsTypeOK
<1>3. /\ h \in Handle /\ h.stage = "load" /\ h.path = p /\ h.got = NoEntry
  BY DEF Opened, Closed, Handle, Destructor
<1> HIDE DEF h
<1>4. /\ request[r].path = NoPath /\ \A t \in Loads : loading[t] # r
      /\ ~Worker(loading, r) /\ ~MainBusy /\ NoPath # p
      /\ On(p) = {} /\ Others(r, p) = {}
  BY <1>1, Requestable DEF Worker
<1>5. GotOf(h, NoEntry, Worker(loading, r))
  BY <1>3 DEF GotOf, Destructor
<1>6. EntryOr(NoEntry).ref_count = Cardinality(CountedWith(r, p, h))
  <2>1. CountedWith(r, p, h) = {}
    BY <1>3, <1>4 DEF CountedWith, Counted
  <2>2. QED
    BY <2>1, FS_EmptySet DEF EntryOr, NewEntry
<1>7. /\ loading \in [Loads -> Requests \cup {NoRequest}] /\ loading' = loading
      /\ StateTypes' /\ LoadsActive'
  BY <1>1, StatesKept
<1>8. h.stage \notin {"closed", "open"} \cup Destructor
  BY <1>3 DEF Destructor
<1>9. QED
  BY <1>1, <1>2, <1>3, <1>4, <1>5, <1>6, <1>7, <1>8, HandleStep DEF Destructor

LEMMA MissAsyncStep ==
    ASSUME AssetsIInv, NoOverlap, NEW r \in Requests, NEW p \in Paths, MissAsync(r, p)
    PROVE  AssetsIInv'
<1> DEFINE free == {u \in Loads : Free(u)}
           t == CHOOSE u \in free : TRUE
           h == [Opened(p) EXCEPT !.holders = {"client", t}]
<1>1. /\ IsNext(r) /\ MayRequest(p) /\ assets[p] = NoEntry
      /\ Async(t) /\ loading' = [loading EXCEPT ![t] = r] /\ Put(r, h) /\ UNCHANGED assets
  BY DEF MissAsync
<1>2. t \in Loads /\ Free(t) /\ t \in Task /\ Loads \subseteq Task
  <2>1. free # {}
    BY DEF MissAsync
  <2>2. QED
    BY <2>1, AssetsAssumption
<1>3. SetEntry(p, NoEntry)
  BY <1>1 DEF SetEntry, AssetsIInv, AssetsTypeOK
<1> HIDE DEF t, free
<1>4. /\ h \in Handle /\ h.stage = "open" /\ h.path = p /\ h.got = NoEntry
      /\ h.completed = FALSE /\ h.holders = {"client", t}
  BY <1>2 DEF Opened, Closed, Handle, Destructor
<1> HIDE DEF h
<1>5. /\ request[r].path = NoPath /\ \A u \in Loads : loading[u] # r
      /\ ~MainBusy /\ NoPath # p /\ On(p) = {} /\ Others(r, p) = {}
  BY <1>1, Requestable
<1>6. loading' \in [Loads -> Requests \cup {NoRequest}]
      /\ \A u \in Loads : loading'[u] = IF u = t THEN r ELSE loading[u]
  BY <1>1, <1>2 DEF AssetsIInv, AssetsTypeOK
<1>7. loading[t] = NoRequest
  BY <1>2, FreeIsInactive DEF AssetsIInv, LoadsActive
<1>8. StateTypes' /\ \A u \in Task : state'[u] = IF u = t THEN "scheduled" ELSE state[u]
  BY <1>1, <1>2, TaskReaches DEF Async, AsyncStates, AssetsIInv
<1>9. LoadsActive'
  BY <1>1, <1>2, <1>5, <1>6, <1>8, NullAssumption DEF AssetsIInv, LoadsActive, Active
<1>10. Worker(loading', r) /\ \A q \in Requests \ {r} : \A u \in Loads : loading'[u] = q <=> loading[u] = q
  BY <1>2, <1>6, <1>7, NullAssumption DEF Worker
<1>11. GotOf(h, NoEntry, Worker(loading', r))
  BY <1>4, <1>10 DEF GotOf, Destructor
<1>12. EntryOr(NoEntry).ref_count = Cardinality(CountedWith(r, p, h))
  <2>1. CountedWith(r, p, h) = {}
    BY <1>4, <1>5 DEF CountedWith, Counted
  <2>2. QED
    BY <2>1, FS_EmptySet DEF EntryOr, NewEntry
<1>13. h.stage \notin {"closed", "load"} \cup Destructor
  BY <1>4 DEF Destructor
<1>14. /\ h.holders # {}
       /\ h.holders \subseteq {"client"} \cup {u \in Loads : loading'[u] = r}
       /\ \A u \in Loads : loading'[u] = r => u \in h.holders
  BY <1>2, <1>4, <1>5, <1>6
<1>15. /\ h.stage = "closed" <=> h.path = NoPath
       /\ h.stage = "closed" => h = Closed
       /\ h.stage \in {"open"} \cup Destructor
       /\ ~(h.stage = "load" \/ (h.stage \in Destructor /\ ~Worker(loading', r)))
       /\ h.stage \notin Destructor /\ h.stage # "free" /\ h.path # NoPath
       /\ NoEntry \in Entry \cup {NoEntry}
  BY <1>4, <1>5, <1>13 DEF Destructor
<1>16. QED
  BY <1>1, <1>3, <1>4, <1>5, <1>6, <1>8, <1>9, <1>10, <1>11, <1>12, <1>14, <1>15, HandleStep

(* A handle is closed: its request is not counted, and the task that held  *)
(* it, if one did, has let go of it.                                       *)
LEMMA HandleCloses ==
    ASSUME AssetsIInv, NEW r \in Requests, request[r].stage # "closed",
           NEW p, p = request[r].path, NEW e \in Entry \cup {NoEntry},
           Put(r, Closed), SetEntry(p, e),
           loading' \in [Loads -> Requests \cup {NoRequest}], StateTypes', LoadsActive',
           \A t \in Loads : loading'[t] # r,
           \A q \in Requests \ {r} : \A t \in Loads : loading'[t] = q <=> loading[t] = q,
           request[r].got = NoEntry,
           \A q \in Others(r, p) : GotOf(request[q], e, OnWorker(q)),
           EntryOr(e).ref_count = Cardinality(Counted(p)),
           \A q \in Others(r, p) : request[q].stage = "free" => EntryOr(e).ref_count = 0,
           Others(r, p) = {} => e = NoEntry
    PROVE  AssetsIInv'
<1>1. p \in Paths /\ p # NoPath /\ r \notin Counted(p)
  BY HandleFacts
<1>2. /\ Closed \in Handle /\ Closed.stage = "closed" /\ Closed.path = NoPath
      /\ Closed.got = NoEntry /\ Closed.stage \notin Destructor
  BY DEF Closed, Handle, Destructor
<1>3. CountedWith(r, p, Closed) = Counted(p)
  BY <1>1, <1>2 DEF CountedWith
<1>4. ~Worker(loading', r)
  BY DEF Worker
<1>5. QED
  BY <1>1, <1>2, <1>3, <1>4, HandleStep

LEMMA CloseLets ==
    ASSUME AssetsIInv, NEW r \in Requests, Close(r)
    PROVE  /\ Put(r, Closed)
           /\ loading' \in [Loads -> Requests \cup {NoRequest}] /\ StateTypes' /\ LoadsActive'
           /\ \A t \in Loads : loading'[t] # r
           /\ \A q \in Requests \ {r} : \A t \in Loads : loading'[t] = q <=> loading[t] = q
<1>1. Put(r, Closed)
  BY DEF Close
<1>2. CASE ~OnWorker(r) /\ UNCHANGED <<loading, tasks>>
  BY <1>1, <1>2, StatesKept DEF OnWorker
<1>3. CASE \E t \in Loads : /\ loading[t] = r
                            /\ loading' = [loading EXCEPT ![t] = NoRequest]
                            /\ EndTask(t)
  BY <1>1, <1>3, LoadEnds
<1>4. QED
  BY <1>2, <1>3 DEF Close

(* What a load inserts.                                                    *)
LEMMA InsertedEntry ==
    ASSUME AssetsIInv, NEW p \in Paths, assets[p] = NoEntry, ObjectLeft(p)
    PROVE  /\ Inserted(p) \in Entry /\ Inserted(p) # NoEntry
           /\ Inserted(p).asset = Loaded(p) /\ Inserted(p).ref_count = 1
           /\ Loaded(p) \in Objects \cup {Null} /\ Loaded(p) # NoEntry
<1>1. Loaded(p) \in Objects \cup {Null}
  BY DEF Loaded, ObjectLeft
<1>2. EntryOf(p) = [asset |-> Null, ref_count |-> 0]
  BY DEF EntryOf, NewEntry
<1>3. Inserted(p) = [asset |-> Loaded(p), ref_count |-> 1]
  <2> DEFINE f == [EntryOf(p) EXCEPT !.asset = Loaded(p)]
             g == [asset |-> Loaded(p), ref_count |-> 0]
  <2>1. f = g
    BY <1>2
  <2>2. Inserted(p) = [f EXCEPT !.ref_count = f.ref_count + 1]
    BY DEF Inserted, Count
  <2>3. Inserted(p) = [g EXCEPT !.ref_count = g.ref_count + 1]
    BY <2>1, <2>2
  <2>4. g.ref_count + 1 = 1
    OBVIOUS
  <2>5. QED
    BY <2>3, <2>4
<1>4. QED
  BY <1>1, <1>3, NullAssumption DEF Entry

LEMMA LoadSyncStep ==
    ASSUME AssetsIInv, NEW r \in Requests, LoadSync(r)
    PROVE  AssetsIInv'
<1> DEFINE p == request[r].path
           h == [Opened(p) EXCEPT !.completed = TRUE, !.got = Loaded(p)]
           e == Inserted(p)
<1>1. request[r].stage = "load" /\ ObjectLeft(p) /\ UNCHANGED <<loading, tasks>>
  BY DEF LoadSync
<1>2. /\ p \in Paths /\ p # NoPath /\ Others(r, p) = {}
      /\ assets \in [Paths -> Entry \cup {NoEntry}]
      /\ (r \in Counted(p) <=> request[r].got # NoEntry)
      /\ GotOf(request[r], assets[p], OnWorker(r))
  BY <1>1, HandleFacts
<1>3. request[r].got = NoEntry /\ assets[p] = NoEntry
  BY <1>1, <1>2 DEF GotOf, Destructor
<1>4. ~OnWorker(r) /\ \A t \in Loads : loading[t] # r
  BY <1>1 DEF AssetsIInv, LoadingAlone, OnWorker, Destructor
<1>5. Counted(p) = {}
  BY <1>2, <1>3 DEF Counted, Others
<1>6. CASE p \in Missing
  <2>1. Put(r, Closed) /\ SetEntry(p, NoEntry)
    BY <1>2, <1>3, <1>6 DEF LoadSync, SetEntry
  <2>2. EntryOr(NoEntry).ref_count = Cardinality(Counted(p))
    BY <1>5, FS_EmptySet DEF EntryOr, NewEntry
  <2>3. /\ loading' = loading /\ loading \in [Loads -> Requests \cup {NoRequest}]
        /\ StateTypes' /\ LoadsActive'
    BY <1>1, StatesKept
  <2>4. request[r].stage # "closed"
    BY <1>1
  <2> HIDE DEF p
  <2>5. p = request[r].path
    BY DEF p
  <2>6. QED
    BY <1>2, <1>3, <1>4, <2>1, <2>2, <2>3, <2>4, <2>5, HandleCloses
<1>7. CASE p \notin Missing
  <2>1. Put(r, h) /\ SetEntry(p, e)
    BY <1>7 DEF LoadSync
  <2>2. /\ e \in Entry /\ e # NoEntry /\ e.asset = Loaded(p) /\ e.ref_count = 1
        /\ Loaded(p) \in Objects \cup {Null} /\ Loaded(p) # NoEntry
    BY <1>1, <1>2, <1>3, InsertedEntry
  <2>3. /\ h \in Handle /\ h.stage = "open" /\ h.path = p /\ h.completed = TRUE
        /\ h.holders = {"client"} /\ h.got = Loaded(p)
    BY <1>2, <2>2 DEF Opened, Closed, Handle, Destructor
  <2> HIDE DEF p, h, e
  <2>4. GotOf(h, e, OnWorker(r))
    BY <2>2, <2>3 DEF GotOf
  <2>5. EntryOr(e).ref_count = Cardinality(CountedWith(r, p, h))
    <3>1. CountedWith(r, p, h) = {r}
      BY <1>5, <2>2, <2>3 DEF CountedWith
    <3>2. QED
      BY <2>2, <3>1, FS_Singleton DEF EntryOr
  <2>6. p = request[r].path /\ request[r].stage # "closed"
    BY <1>1 DEF p
  <2>7. h.stage \in {"open"} \cup Destructor /\ h.stage \notin Destructor /\ h.stage # "free"
    BY <2>3 DEF Destructor
  <2>8. /\ h.holders # {}
        /\ h.holders \subseteq {"client"} \cup {t \in Loads : loading[t] = r}
        /\ \A t \in Loads : loading[t] = r => t \in h.holders
    BY <1>4, <2>3
  <2>9. QED
    BY <1>1, <1>2, <2>1, <2>2, <2>3, <2>4, <2>5, <2>6, <2>7, <2>8, HandleMoves
<1>8. QED
  BY <1>6, <1>7

LEMMA InsertEntryStep ==
    ASSUME AssetsIInv, NEW t \in Loads, loading[t] # NoRequest, InsertEntry(t)
    PROVE  AssetsIInv'
<1> DEFINE r == loading[t]
           p == request[r].path
           h == [request[r] EXCEPT !.valid = p \notin Missing, !.got = Loaded(p)]
           e == Inserted(p)
<1>1. /\ request[r].got = NoEntry /\ request[r].stage = "open" /\ ~request[r].completed
      /\ ObjectLeft(p) /\ SetEntry(p, e) /\ Put(r, h) /\ UNCHANGED <<loading, tasks>>
  BY DEF InsertEntry, PathOf
<1>2. r \in Requests /\ OnWorker(r)
  BY DEF AssetsIInv, AssetsTypeOK, OnWorker
<1> HIDE DEF r
<1>3. /\ request[r] \in Handle /\ p \in Paths /\ p # NoPath /\ Others(r, p) = {}
      /\ (r \in Counted(p) <=> request[r].got # NoEntry)
      /\ GotOf(request[r], assets[p], OnWorker(r))
  BY <1>1, <1>2, HandleFacts
<1>4. assets[p] = NoEntry
  BY <1>1, <1>3 DEF GotOf
<1>5. /\ e \in Entry /\ e # NoEntry /\ e.asset = Loaded(p) /\ e.ref_count = 1
      /\ Loaded(p) \in Objects \cup {Null} /\ Loaded(p) # NoEntry
  BY <1>1, <1>3, <1>4, InsertedEntry
<1>6. /\ h \in Handle /\ h.stage = "open" /\ h.path = p /\ ~h.completed
      /\ h.holders = request[r].holders /\ h.got = Loaded(p)
  BY <1>1, <1>3, <1>5 DEF Handle
<1>7. /\ request[r].holders # {}
      /\ request[r].holders \subseteq {"client"} \cup {u \in Loads : loading[u] = r}
      /\ \A u \in Loads : loading[u] = r => u \in request[r].holders
  BY <1>1, <1>2 DEF AssetsIInv, HoldersKnown
<1> HIDE DEF p, h, e
<1>8. GotOf(h, e, OnWorker(r))
  BY <1>2, <1>5, <1>6 DEF GotOf
<1>9. EntryOr(e).ref_count = Cardinality(CountedWith(r, p, h))
  <2>1. Counted(p) = {}
    BY <1>1, <1>3 DEF Counted, Others
  <2>2. CountedWith(r, p, h) = {r}
    BY <1>5, <1>6, <2>1 DEF CountedWith
  <2>3. QED
    BY <1>5, <2>2, FS_Singleton DEF EntryOr
<1>10. p = request[r].path /\ request[r].stage # "closed"
  BY <1>1 DEF p
<1>11. h.stage \in {"open"} \cup Destructor /\ h.stage \notin Destructor /\ h.stage # "free"
  BY <1>6 DEF Destructor
<1>12. QED
  BY <1>1, <1>2, <1>3, <1>5, <1>6, <1>7, <1>8, <1>9, <1>10, <1>11, HandleMoves

(* Steps that leave the entry as it is.                                    *)
LEMMA EntryKept ==
    ASSUME AssetsIInv, NEW p \in Paths, assets' = assets
    PROVE  SetEntry(p, assets[p])
BY DEF SetEntry, AssetsIInv, AssetsTypeOK

LEMMA CompleteRequestStep ==
    ASSUME AssetsIInv, NEW t \in Loads, loading[t] # NoRequest, CompleteRequest(t)
    PROVE  AssetsIInv'
<1> DEFINE r == loading[t]
           p == request[r].path
           h == [request[r] EXCEPT !.completed = TRUE]
           e == assets[p]
<1>1. /\ request[r].got # NoEntry /\ ~request[r].completed
      /\ Put(r, h) /\ UNCHANGED <<assets, loading, tasks>>
  BY DEF CompleteRequest, Completion
<1>2. r \in Requests /\ OnWorker(r)
  BY DEF AssetsIInv, AssetsTypeOK, OnWorker
<1> HIDE DEF r
<1>3. request[r].stage = "open"
  BY <1>1, <1>2 DEF AssetsIInv, GotMatches, GotOf
<1>4. /\ request[r] \in Handle /\ p \in Paths /\ p # NoPath /\ Others(r, p) = {}
      /\ e \in Entry \cup {NoEntry} /\ EntryOf(p) = EntryOr(e) /\ r \in Counted(p)
      /\ GotOf(request[r], e, OnWorker(r))
  BY <1>1, <1>2, <1>3, HandleFacts
<1>5. /\ h \in Handle /\ h.stage = "open" /\ h.path = p /\ h.completed = TRUE
      /\ h.holders = request[r].holders /\ h.got = request[r].got
  BY <1>3, <1>4 DEF Handle
<1>6. /\ request[r].holders # {}
      /\ request[r].holders \subseteq {"client"} \cup {u \in Loads : loading[u] = r}
      /\ \A u \in Loads : loading[u] = r => u \in request[r].holders
  BY <1>2, <1>3 DEF AssetsIInv, HoldersKnown
<1>7. SetEntry(p, e)
  BY <1>1, <1>4, EntryKept
<1> HIDE DEF p, h, e
<1>8. GotOf(h, e, OnWorker(r))
  BY <1>1, <1>3, <1>4, <1>5 DEF GotOf
<1>9. EntryOr(e).ref_count = Cardinality(CountedWith(r, p, h))
  <2>1. CountedWith(r, p, h) = Counted(p)
    BY <1>1, <1>4, <1>5 DEF CountedWith
  <2>2. QED
    BY <1>4, <2>1, CountedRequests
<1>10. p = request[r].path /\ request[r].stage # "closed"
  BY <1>3 DEF p
<1>11. h.stage \in {"open"} \cup Destructor /\ h.stage \notin Destructor /\ h.stage # "free"
  BY <1>5 DEF Destructor
<1>12. QED
  BY <1>1, <1>2, <1>4, <1>5, <1>6, <1>7, <1>8, <1>9, <1>10, <1>11, HandleMoves

(* An open handle of a request that has completed is counted.              *)
LEMMA OpenHandle ==
    ASSUME AssetsIInv, NEW r \in Requests, request[r].stage = "open",
           NEW p, p = request[r].path
    PROVE  /\ request[r].holders # {}
           /\ request[r].holders \subseteq {"client"} \cup {t \in Loads : loading[t] = r}
           /\ \A t \in Loads : loading[t] = r => t \in request[r].holders
           /\ ~OnWorker(r) => request[r].completed
           /\ request[r].completed => /\ request[r].got # NoEntry /\ r \in Counted(p)
                                      /\ assets[p] # NoEntry /\ assets[p].asset = request[r].got
<1>1. /\ request[r].holders # {}
      /\ request[r].holders \subseteq {"client"} \cup {t \in Loads : loading[t] = r}
      /\ \A t \in Loads : loading[t] = r => t \in request[r].holders
  BY DEF AssetsIInv, HoldersKnown
<1>2. GotOf(request[r], assets[p], OnWorker(r)) /\ (r \in Counted(p) <=> request[r].got # NoEntry)
  BY HandleFacts
<1>3. QED
  BY <1>1, <1>2 DEF GotOf

LEMMA ClientDropsStep ==
    ASSUME AssetsIInv, NEW r \in Requests, ClientDrops(r)
    PROVE  AssetsIInv'
<1> DEFINE p == request[r].path
           h == Dropped(r, "client")
           e == assets[p]
           rest == request[r].holders \ {"client"}
<1>1. /\ request[r].stage = "open" /\ "client" \in request[r].holders /\ ~MainBusy
      /\ Put(r, h) /\ UNCHANGED <<assets, loading, tasks>>
  BY DEF ClientDrops
<1>2. /\ request[r] \in Handle /\ p \in Paths /\ p # NoPath
      /\ e \in Entry \cup {NoEntry} /\ EntryOf(p) = EntryOr(e)
      /\ GotOf(request[r], e, OnWorker(r))
      /\ \A q \in Others(r, p) : /\ GotOf(request[q], e, OnWorker(q))
                                 /\ request[q].stage = "free" => EntryOr(e).ref_count = 0
      /\ (r \in Counted(p) <=> request[r].got # NoEntry)
  BY <1>1, HandleFacts
<1>3. /\ request[r].holders \subseteq {"client"} \cup {t \in Loads : loading[t] = r}
      /\ \A t \in Loads : loading[t] = r => t \in request[r].holders
      /\ ~OnWorker(r) => request[r].completed
      /\ request[r].completed => request[r].got # NoEntry
  BY <1>1, OpenHandle
<1>4. /\ h \in Handle /\ h.path = p /\ h.completed = request[r].completed
      /\ h.holders = rest /\ h.got = request[r].got
      /\ h.stage = IF rest = {} THEN "decrement" ELSE "open"
  BY <1>1, <1>2 DEF Handle, Dropped, Destructor
<1>5. SetEntry(p, e)
  BY <1>1, <1>2, EntryKept
<1>6. /\ rest \subseteq {"client"} \cup {t \in Loads : loading[t] = r}
      /\ \A t \in Loads : loading[t] = r => t \in rest
      /\ OnWorker(r) => rest # {}
  BY <1>3, AssetsAssumption DEF OnWorker
<1> HIDE DEF p, h, e, rest
<1>7. GotOf(h, e, OnWorker(r))
  BY <1>1, <1>2, <1>3, <1>4, <1>6 DEF GotOf
<1>8. EntryOr(e).ref_count = Cardinality(CountedWith(r, p, h))
  <2>1. CountedWith(r, p, h) = Counted(p)
    BY <1>2, <1>4 DEF CountedWith
  <2>2. QED
    BY <1>2, <2>1, CountedRequests
<1>9. p = request[r].path /\ request[r].stage # "closed"
  BY <1>1 DEF p
<1>10. /\ h.stage \in {"open"} \cup Destructor /\ h.stage # "free"
       /\ h.stage \in Destructor => rest = {}
       /\ h.stage = "open" => rest # {}
  BY <1>4 DEF Destructor
<1>11. QED
  BY <1>1, <1>2, <1>4, <1>5, <1>6, <1>7, <1>8, <1>9, <1>10, HandleMoves

LEMMA JobDropsStep ==
    ASSUME AssetsIInv, NEW t \in Loads, loading[t] # NoRequest, JobDrops(t)
    PROVE  AssetsIInv'
<1> DEFINE r == loading[t]
           p == request[r].path
           h == Dropped(r, t)
           e == assets[p]
           rest == request[r].holders \ {t}
<1>1. /\ request[r].completed /\ t \in request[r].holders
      /\ Put(r, h) /\ UNCHANGED assets
      /\ IF "client" \in request[r].holders
         THEN loading' = [loading EXCEPT ![t] = NoRequest] /\ EndTask(t)
         ELSE UNCHANGED <<loading, tasks>>
  BY DEF JobDrops
<1>2. r \in Requests /\ OnWorker(r)
  BY DEF AssetsIInv, AssetsTypeOK, OnWorker
<1>3. \A u \in Loads : loading[u] = r => u = t
  BY DEF AssetsIInv, LoadsActive
<1>4. loading[t] = r
  OBVIOUS
<1> HIDE DEF r
<1>5. request[r].stage = "open"
  BY <1>1, <1>2 DEF AssetsIInv, LoadingAlone, HoldersKnown
<1>6. /\ request[r] \in Handle /\ p \in Paths /\ p # NoPath /\ Others(r, p) = {}
      /\ e \in Entry \cup {NoEntry} /\ EntryOf(p) = EntryOr(e)
      /\ GotOf(request[r], e, OnWorker(r))
  BY <1>2, <1>5, HandleFacts
<1>7. /\ request[r].holders \subseteq {"client"} \cup {u \in Loads : loading[u] = r}
      /\ request[r].got # NoEntry /\ r \in Counted(p)
      /\ e # NoEntry /\ e.asset = request[r].got
  BY <1>1, <1>2, <1>5, OpenHandle
<1>8. /\ h \in Handle /\ h.path = p /\ h.completed = TRUE
      /\ h.holders = rest /\ h.got = request[r].got
      /\ h.stage = IF rest = {} THEN "decrement" ELSE "open"
  <2>1. /\ h \in Handle /\ h.path = p /\ h.completed = request[r].completed
        /\ h.holders = rest /\ h.got = request[r].got
        /\ h.stage = IF rest = {} THEN "decrement" ELSE "open"
    BY <1>5, <1>6 DEF Handle, Dropped, Destructor
  <2>2. request[r].completed = TRUE
    BY <1>1, <1>6 DEF Handle
  <2>3. QED
    BY <2>1, <2>2
<1>9. SetEntry(p, e)
  BY <1>1, <1>6, EntryKept
<1>10. rest = IF "client" \in request[r].holders THEN {"client"} ELSE {}
  BY <1>1, <1>3, <1>7, AssetsAssumption
<1> HIDE DEF p, h, e, rest
<1>12. EntryOr(e).ref_count = Cardinality(CountedWith(r, p, h))
  <2>1. CountedWith(r, p, h) = Counted(p)
    BY <1>7, <1>8 DEF CountedWith
  <2>2. QED
    BY <1>6, <2>1, CountedRequests
<1>13. p = request[r].path /\ request[r].stage # "closed"
  BY <1>5 DEF p
<1>14. CASE "client" \in request[r].holders
  <2>1. h.stage = "open" /\ h.holders = {"client"} /\ h.stage \notin Destructor
    BY <1>8, <1>10, <1>14 DEF Destructor
  <2>2. /\ loading' \in [Loads -> Requests \cup {NoRequest}] /\ StateTypes' /\ LoadsActive'
        /\ \A u \in Loads : loading'[u] # r
        /\ \A q \in Requests \ {r} : \A u \in Loads : loading'[u] = q <=> loading[u] = q
    BY <1>1, <1>2, <1>4, <1>14, LoadEnds
  <2>3. ~Worker(loading', r)
    BY <2>2 DEF Worker
  <2>4. h.stage \notin {"closed", "load", "free"}
    BY <2>1
  <2>5. GotOf(h, e, Worker(loading', r))
    BY <1>7, <1>8 DEF GotOf
  <2>6. QED
    BY <1>1, <1>2, <1>6, <1>8, <1>9, <1>12, <1>13, <2>1, <2>2, <2>3, <2>4, <2>5, HandleStep
<1>15. CASE "client" \notin request[r].holders
  <2>1. h.stage = "decrement" /\ h.holders = {} /\ h.stage \in Destructor
    BY <1>8, <1>10, <1>15 DEF Destructor
  <2>2. GotOf(h, e, OnWorker(r))
    BY <1>7, <1>8 DEF GotOf
  <2>3. QED
    BY <1>1, <1>2, <1>6, <1>8, <1>9, <1>12, <1>13, <1>15, <2>1, <2>2, HandleMoves
<1>16. QED
  BY <1>14, <1>15

LEMMA DecrementStep ==
    ASSUME AssetsIInv, NEW r \in Requests, Decrement(r)
    PROVE  AssetsIInv'
<1> DEFINE p == request[r].path
           h == [request[r] EXCEPT !.stage = "test", !.got = NoEntry]
           f == EntryOf(p)
           e == [f EXCEPT !.ref_count = f.ref_count - 1]
<1>1. request[r].stage = "decrement"
  BY DEF Decrement
<1>2. /\ request[r] \in Handle /\ p \in Paths /\ p # NoPath
      /\ assets[p] \in Entry \cup {NoEntry} /\ f = EntryOr(assets[p])
      /\ GotOf(request[r], assets[p], OnWorker(r))
      /\ \A q \in Others(r, p) : /\ GotOf(request[q], assets[p], OnWorker(q))
                                 /\ request[q].stage = "free" => f.ref_count = 0
      /\ (r \in Counted(p) <=> request[r].got # NoEntry)
  BY <1>1, HandleFacts
<1>3. request[r].got # NoEntry /\ assets[p] # NoEntry /\ request[r].completed
  BY <1>1, <1>2 DEF GotOf
<1>4. f = assets[p] /\ f \in Entry
  BY <1>2, <1>3 DEF EntryOr
<1>5. f.ref_count = Cardinality(Counted(p)) /\ Cardinality(Counted(p)) > 0
      /\ Cardinality(Counted(p) \ {r}) = f.ref_count - 1
  BY <1>2, <1>3, CountedRequests
<1>6. f.ref_count \in Nat \ {0}
  BY <1>4, <1>5 DEF Entry
<1>7. SetEntry(p, e) /\ Put(r, h) /\ UNCHANGED <<loading, tasks>>
  BY <1>6 DEF Decrement
<1>8. e \in Entry /\ e # NoEntry /\ e.asset = assets[p].asset /\ e.ref_count = f.ref_count - 1
  BY <1>4, <1>6, NullAssumption DEF Entry
<1>9. /\ h \in Handle /\ h.stage = "test" /\ h.path = p /\ h.got = NoEntry
      /\ h.holders = request[r].holders
  BY <1>2 DEF Handle, Destructor
<1>10. request[r].holders = {}
  BY <1>1 DEF AssetsIInv, HoldersKnown, Destructor
<1>11. ~OnWorker(r) => Busy(r)
  BY <1>1 DEF Busy, Destructor
<1>12. p = request[r].path
  OBVIOUS
<1> HIDE DEF p, h, f, e
<1>13. GotOf(h, e, OnWorker(r))
  BY <1>9 DEF GotOf
<1>14. \A q \in Others(r, p) : GotOf(request[q], e, OnWorker(q))
  BY <1>2, <1>3, <1>8 DEF GotOf
<1>15. EntryOr(e).ref_count = Cardinality(CountedWith(r, p, h))
  <2>1. CountedWith(r, p, h) = Counted(p) \ {r} /\ EntryOr(e) = e
    BY <1>8, <1>9 DEF CountedWith, EntryOr
  <2>2. QED
    BY <1>5, <1>8, <2>1
<1>16. \A q \in Others(r, p) : request[q].stage # "free"
  BY <1>2, <1>6
<1>17. request[r].stage # "closed" /\ h.stage \in Destructor /\ h.stage \notin {"open", "free"}
  BY <1>1, <1>9 DEF Destructor
<1>18. QED
  BY <1>2, <1>7, <1>8, <1>9, <1>10, <1>11, <1>12, <1>13, <1>14, <1>15, <1>16, <1>17, HandleMoves

LEMMA TestCountStep ==
    ASSUME AssetsIInv, NEW r \in Requests, TestCount(r)
    PROVE  AssetsIInv'
<1> DEFINE p == request[r].path
           h == [request[r] EXCEPT !.stage = "free"]
           e == assets[p]
<1>1. request[r].stage = "test" /\ UNCHANGED assets
  BY DEF TestCount
<1>2. /\ request[r] \in Handle /\ p \in Paths /\ p # NoPath
      /\ e \in Entry \cup {NoEntry} /\ EntryOf(p) = EntryOr(e)
      /\ GotOf(request[r], e, OnWorker(r))
      /\ \A q \in Others(r, p) : /\ GotOf(request[q], e, OnWorker(q))
                                 /\ request[q].stage = "free" => EntryOr(e).ref_count = 0
      /\ (r \in Counted(p) <=> request[r].got # NoEntry)
  BY <1>1, HandleFacts
<1>3. request[r].got = NoEntry /\ r \notin Counted(p)
  BY <1>1, <1>2 DEF GotOf
<1>4. EntryOr(e).ref_count = Cardinality(Counted(p))
  BY <1>2, CountedRequests
<1>5. SetEntry(p, e) /\ p = request[r].path /\ request[r].stage # "closed"
  BY <1>1, <1>2, EntryKept
<1>6. CASE EntryOr(e).ref_count = 0
  <2>1. Put(r, h) /\ UNCHANGED <<loading, tasks>>
    BY <1>2, <1>6 DEF TestCount, IsLast
  <2>2. /\ h \in Handle /\ h.stage = "free" /\ h.path = p /\ h.got = NoEntry
        /\ h.holders = request[r].holders
    BY <1>2, <1>3 DEF Handle, Destructor
  <2>3. request[r].holders = {}
    BY <1>1 DEF AssetsIInv, HoldersKnown, Destructor
  <2>4. ~OnWorker(r) => Busy(r)
    BY <1>1 DEF Busy, Destructor
  <2> HIDE DEF p, h, e
  <2>5. GotOf(h, e, OnWorker(r))
    BY <2>2 DEF GotOf
  <2>6. CountedWith(r, p, h) = Counted(p)
    BY <1>3, <2>2 DEF CountedWith
  <2>7. h.stage \in Destructor /\ h.stage # "open"
    BY <2>2 DEF Destructor
  <2>8. QED
    BY <1>2, <1>4, <1>5, <1>6, <2>1, <2>2, <2>3, <2>4, <2>5, <2>6, <2>7, HandleMoves
<1>7. CASE EntryOr(e).ref_count # 0
  <2>1. Close(r)
    BY <1>2, <1>7 DEF TestCount, IsLast
  <2>2. Others(r, p) # {}
    <3>1. Counted(p) # {}
      BY <1>4, <1>7, FS_EmptySet
    <3>2. QED
      BY <1>3, <3>1 DEF Others, Counted
  <2> HIDE DEF p, e
  <2>3. QED
    BY <1>2, <1>3, <1>4, <1>5, <2>1, <2>2, CloseLets, HandleCloses
<1>8. QED
  BY <1>6, <1>7

LEMMA FreeAssetStep ==
    ASSUME AssetsIInv, NEW r \in Requests, FreeAsset(r)
    PROVE  AssetsIInv'
<1> DEFINE p == request[r].path
<1>1. request[r].stage = "free" /\ SetEntry(p, NoEntry) /\ Close(r)
  BY DEF FreeAsset
<1>2. /\ p \in Paths
      /\ GotOf(request[r], assets[p], OnWorker(r))
      /\ \A q \in Others(r, p) :
            /\ GotOf(request[q], assets[p], OnWorker(q))
            /\ request[q].stage \notin {"load", "closed"} /\ ~OnWorker(q)
  BY <1>1, HandleFacts
<1>3. request[r].got = NoEntry
  BY <1>1, <1>2 DEF GotOf
<1>4. EntryOf(p).ref_count = 0
  BY <1>1 DEF AssetsIInv, CountZero
<1>5. Counted(p) = {}
  BY <1>2, <1>4, CountedRequests, FS_EmptySet
<1>6. \A q \in Others(r, p) : GotOf(request[q], NoEntry, OnWorker(q))
  <2> SUFFICES ASSUME NEW q \in Others(r, p)
               PROVE  GotOf(request[q], NoEntry, OnWorker(q))
    OBVIOUS
  <2>1. request[q].got = NoEntry
    BY <1>5 DEF Others, Counted
  <2>2. request[q].stage \notin {"open", "decrement", "load"}
    BY <1>2, <2>1 DEF GotOf
  <2>3. QED
    BY <2>1, <2>2 DEF GotOf
<1>7. EntryOr(NoEntry).ref_count = Cardinality(Counted(p)) /\ EntryOr(NoEntry).ref_count = 0
  BY <1>5, FS_EmptySet DEF EntryOr, NewEntry
<1>8. p = request[r].path /\ request[r].stage # "closed"
  BY <1>1
<1> HIDE DEF p
<1>9. QED
  BY <1>1, <1>3, <1>6, <1>7, <1>8, CloseLets, HandleCloses

-----------------------------------------------------------------------------
(* Steps that leave the assets alone, and whether their jobs are active.   *)

LEMMA AssetsFrame ==
    ASSUME AssetsIInv, StateTypes', UNCHANGED assetVars,
           \A t \in Loads : Active(t) <=> state'[t] \in {"scheduled", "running"}
    PROVE  AssetsIInv'
<1>1. assets' = assets /\ request' = request /\ loading' = loading
  BY DEF assetVars
<1>2. LoadsActive'
  BY <1>1, LoadsKept
<1>3. AssetsTypeOK' /\ ClosedHandles' /\ HoldersKnown' /\ UnloadedWhenUnreferenced'
  BY <1>1 DEF AssetsIInv, AssetsTypeOK, ClosedHandles, HoldersKnown, UnloadedWhenUnreferenced, On
<1>4. OneCall'
  BY <1>1 DEF AssetsIInv, OneCall, Busy, OnWorker
<1>5. LoadingAlone'
  BY <1>1 DEF AssetsIInv, LoadingAlone, Alone, On, OnWorker
<1>6. GotMatches'
  BY <1>1 DEF AssetsIInv, GotMatches, GotOf, OnWorker
<1>7. CountMatches' /\ CountZero'
  BY <1>1 DEF AssetsIInv, CountMatches, CountZero, EntryOf, On
<1>8. QED
  BY <1>2, <1>3, <1>4, <1>5, <1>6, <1>7 DEF AssetsIInv

(* With no handle left, no entry is left either.                           *)
LEMMA UnloadAllStep ==
    ASSUME AssetsIInv, UnloadAll
    PROVE  AssetsIInv'
<1>1. \A p \in Paths : On(p) = {}
  BY NullAssumption DEF UnloadAll, On, Closed
<1>2. \A p \in Paths : assets[p] = NoEntry
  BY <1>1 DEF AssetsIInv, UnloadedWhenUnreferenced
<1>3. assets' = assets
  BY <1>2 DEF UnloadAll, AssetsIInv, AssetsTypeOK
<1>4. state' = state /\ UNCHANGED assetVars
  BY <1>3 DEF UnloadAll, tasks, assetVars
<1>5. StateTypes'
  BY <1>4 DEF AssetsIInv, StateTypes
<1>6. QED
  BY <1>4, <1>5, AssetsFrame DEF Active

LEMMA CompilationStates ==
    ASSUME NEW c \in Clients, EffectStep(c)
    PROVE  \A u \in Loads : state'[u] = state[u]
<1>1. tasks' = tasks => \A u \in Loads : state'[u] = state[u]
  BY DEF tasks
<1>2. Lookup(c) \/ Compile(c) \/ Test(c) \/ Use(c) \/ (\E p \in Perms : Ask(c, p)) => tasks' = tasks
  BY DEF Lookup, Compile, Test, Use, Ask
<1>3. ASSUME Spawn(c) PROVE \A u \in Loads : state'[u] = state[u]
  <2> DEFINE free == {u \in Compilations : Free(u)}
             t == CHOOSE u \in free : TRUE
  <2>1. t \in Compilations /\ Async(t)
    BY <1>3 DEF Spawn
  <2> HIDE DEF t
  <2>2. t \notin Loads
    BY <2>1, ContentAssumption
  <2>3. QED
    BY <2>1, <2>2 DEF Async, Reach
<1>4. QED
  BY <1>1, <1>2, <1>3 DEF EffectStep, EffectClient

LEMMA InitAssetsIInv == ContentInit => AssetsIInv
<1> SUFFICES ASSUME ContentInit PROVE AssetsIInv
  OBVIOUS
<1>1. /\ assets = [p \in Paths |-> NoEntry] /\ request = [r \in Requests |-> Closed]
      /\ loading = [t \in Loads |-> NoRequest] /\ state = [t \in Task |-> "unused"]
  BY DEF ContentInit, AssetsInit, TasksInit
<1>2. /\ Closed \in Handle /\ Closed.stage = "closed" /\ Closed.path = NoPath
      /\ Closed.got = NoEntry
  BY DEF Closed, Handle, Destructor
<1>3. StateTypes /\ LoadsActive
  BY <1>1, AssetsAssumption DEF StateTypes, AsyncStates, LoadsActive, Active
<1>4. AssetsTypeOK
  BY <1>1, <1>2 DEF AssetsTypeOK, Handle
<1>5. ClosedHandles /\ HoldersKnown /\ CountZero
  BY <1>1, <1>2 DEF ClosedHandles, HoldersKnown, CountZero, Destructor
<1>6. \A r : ~OnWorker(r) \/ r \notin Requests
  BY <1>1, NullAssumption DEF OnWorker
<1>7. OneCall /\ LoadingAlone /\ GotMatches
  BY <1>1, <1>2, <1>6 DEF OneCall, Busy, LoadingAlone, GotMatches, GotOf, Destructor
<1>8. CountMatches
  <2> SUFFICES ASSUME NEW p \in Paths
               PROVE  EntryOf(p).ref_count = Cardinality({r \in On(p) : request[r].got # NoEntry})
    BY DEF CountMatches
  <2>1. EntryOf(p).ref_count = 0
    BY <1>1 DEF EntryOf, NewEntry
  <2>2. {r \in On(p) : request[r].got # NoEntry} = {}
    BY <1>1, <1>2 DEF On
  <2>3. QED
    BY <2>1, <2>2, FS_EmptySet
<1>9. UnloadedWhenUnreferenced
  BY <1>1 DEF UnloadedWhenUnreferenced
<1>10. QED
  BY <1>3, <1>4, <1>5, <1>7, <1>8, <1>9 DEF AssetsIInv

LEMMA NextAssetsIInv ==
    ASSUME NoOverlap, EffectsIInv, AssetsIInv, [ContentNext]_contentVars
    PROVE  AssetsIInv'
<1>1. StateTypes /\ StateTypes'
  BY NextEffectsIInv DEF EffectsIInv
<1>2. ASSUME NEW t \in Task, Begin(t) PROVE AssetsIInv'
  <2>1. BeginTask(t) /\ UNCHANGED assetVars
    BY <1>2 DEF Begin
  <2>2. QED
    BY <1>1, <2>1, BeginStates, AssetsFrame, AssetsAssumption
<1>3. ASSUME NEW c \in Clients, EffectStep(c) PROVE AssetsIInv'
  <2>1. UNCHANGED assetVars
    BY <1>3 DEF EffectStep
  <2>2. QED
    BY <1>1, <1>3, <2>1, CompilationStates, AssetsFrame DEF Active
<1>4. ASSUME MainStep PROVE AssetsIInv'
  <2>1. ASSUME NEW r \in Requests, MainAssets(r) PROVE AssetsIInv'
    BY <2>1, LoadSyncStep, DecrementStep, TestCountStep, FreeAssetStep DEF MainAssets, Destroy
  <2>2. ASSUME NEW r \in Requests, NEW p \in Paths, RequestAsset(r, p) PROVE AssetsIInv'
    BY <2>2, FindAssetStep, MissSyncStep, MissAsyncStep DEF RequestAsset
  <2>3. QED
    BY <1>4, <2>1, <2>2, ClientDropsStep DEF MainStep
<1>5. ASSUME UnloadAll PROVE AssetsIInv'
  BY <1>5, UnloadAllStep
<1>6. ASSUME NEW t \in Compilations, CompileStep(t) PROVE AssetsIInv'
  <2>1. UNCHANGED assetVars
    BY <1>6 DEF CompileStep
  <2>2. \A u \in Loads : state'[u] = state[u]
    <3>1. Publish(t) \/ FillShaders(t) \/ FillLayout(t) => state' = state
      BY DEF Publish, FillShaders, FillLayout, tasks
    <3>2. Announce(t) => \A u \in Loads : state'[u] = state[u]
      BY ContentAssumption DEF Announce, EndTask, Reach
    <3>3. QED
      BY <1>6, <3>1, <3>2 DEF CompileStep, EffectJob
  <2>3. QED
    BY <1>1, <2>1, <2>2, AssetsFrame DEF Active
<1>7. ASSUME NEW t \in Loads, LoadStep(t) PROVE AssetsIInv'
  <2>1. loading[t] # NoRequest => loading[t] \in Requests
    BY DEF AssetsIInv, AssetsTypeOK
  <2>2. QED
    BY <1>7, <2>1, InsertEntryStep, CompleteRequestStep, JobDropsStep, DecrementStep,
       TestCountStep, FreeAssetStep DEF LoadStep, AssetJob, Destroy
<1>8. ASSUME UNCHANGED contentVars PROVE AssetsIInv'
  <2>1. state' = state /\ UNCHANGED assetVars
    BY <1>8 DEF contentVars, tasks
  <2>2. QED
    BY <1>1, <2>1, AssetsFrame DEF Active
<1>9. QED
  BY <1>2, <1>3, <1>4, <1>5, <1>6, <1>7, <1>8 DEF ContentNext

(* The inductive invariant of the asset manager, while nobody asks for a   *)
(* path that a job is at work on.                                          *)
THEOREM AssetsInvariance ==
    ASSUME NoOverlap
    PROVE  ContentSpec => [](EffectsIInv /\ AssetsIInv)
<1>1. ContentInit => EffectsIInv /\ AssetsIInv
  BY InitEffectsIInv, InitAssetsIInv
<1>2. EffectsIInv /\ AssetsIInv /\ [ContentNext]_contentVars => EffectsIInv' /\ AssetsIInv'
  BY NextEffectsIInv, NextAssetsIInv
<1>3. QED
  BY <1>1, <1>2, PTL DEF ContentSpec

(* Every variable of effects and assets has its type, and no count exceeds *)
(* the handles there are.                                                  *)
THEOREM ContentTypeCorrect ==
    ASSUME NoOverlap
    PROVE  ContentSpec => []ContentTypeOK
<1>1. EffectsIInv /\ AssetsIInv => ContentTypeOK
  BY DEF EffectsIInv, AssetsIInv, ContentTypeOK
<1>2. QED
  BY <1>1, AssetsInvariance, PTL

(* An asset stays loaded, and the same object, as long as the handle of a  *)
(* completed request refers to it (~AssetRequestHandle, AssetManager.cpp). *)
THEOREM HandlesKeepAssets ==
    ASSUME NoOverlap
    PROVE  ContentSpec => []HandleKeepsAsset
<1>1. AssetsIInv => HandleKeepsAsset
  <2> SUFFICES ASSUME AssetsIInv, NEW r \in Requests,
                      request[r].stage = "open", request[r].completed
               PROVE  /\ assets[request[r].path] # NoEntry
                      /\ assets[request[r].path].asset = request[r].got
    BY DEF HandleKeepsAsset
  <2>1. QED
    BY OpenHandle
<1>2. QED
  BY <1>1, AssetsInvariance, PTL

(* The count of an entry is the number of requests that count on it,       *)
(* whichever way they were counted and whoever destroys them.              *)
THEOREM CountsMatch ==
    ASSUME NoOverlap
    PROVE  ContentSpec => []CountMatches
<1>1. AssetsIInv => CountMatches
  BY DEF AssetsIInv
<1>2. QED
  BY <1>1, AssetsInvariance, PTL

(* A path that no handle refers to has no entry, also after a load that    *)
(* failed.                                                                 *)
THEOREM UnreferencedIsUnloaded ==
    ASSUME NoOverlap
    PROVE  ContentSpec => []UnloadedWhenUnreferenced
<1>1. AssetsIInv => UnloadedWhenUnreferenced
  BY DEF AssetsIInv
<1>2. QED
  BY <1>1, AssetsInvariance, PTL

=============================================================================
