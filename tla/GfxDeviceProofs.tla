-------------------------- MODULE GfxDeviceProofs --------------------------
(***************************************************************************)
(* Theorems about GfxDevice, for any number of frames in flight, threads,  *)
(* resources, render passes and lists: type correctness whatever clients   *)
(* do and, for disciplined clients, the device's safety properties and     *)
(* that it implements ResourceLifetime.                                    *)
(***************************************************************************)
EXTENDS GfxDevice, SequenceTheorems, TLAPS

(* Frames end before the next starts, and no recording straddles them.     *)
Disciplined == Uses = {}

-----------------------------------------------------------------------------
(* Types.                                                                  *)

LEMMA SlotFacts ==
    /\ max_frames_in_flight \in Nat \ {0} /\ 0 \in FrameSlots
    /\ \A c \in FrameSlots :
          /\ c \in Nat /\ c < max_frames_in_flight
          /\ (c + 1) % max_frames_in_flight =
                 IF c + 1 = max_frames_in_flight THEN 0 ELSE c + 1
          /\ (c + 1) % max_frames_in_flight \in FrameSlots
BY FramesAssumption DEF FrameSlots

LEMMA InitTypes == Init => TypeOK
<1> SUFFICES ASSUME Init PROVE TypeOK
  OBVIOUS
<1>1. gfx_lists \in [FrameSlots -> Seq(Lists)] /\ gpu \in Seq(Batches)
  BY EmptySeq DEF Init
<1>2. QED
  BY <1>1, SlotFacts, FramesAssumption, UsesAssumption
  DEF Init, TypeOK, Places, Phases, ListStates

LEMMA QueuedTypes ==
    ASSUME TypeOK, NEW f \in FrameSlots
    PROVE  Queued(f) \subseteq Lists
<1>1. gfx_lists[f] \in Seq(Lists)
  BY DEF TypeOK
<1>2. QED
  BY <1>1, ElementOfSeq DEF Queued

LEMMA ExecuteTypes ==
    ASSUME TypeOK, ExecuteQueued, pc' \in Places, phase' \in Phases
    PROVE  TypeOK'
<1> DEFINE f == current_frame
           b == [frame |-> f, lists |-> Queued(f),
                 uses |-> UNION {uses[l] : l \in Queued(f)}]
<1>1. f \in FrameSlots /\ Queued(f) \subseteq Lists
  BY QueuedTypes DEF TypeOK
<1>2. UNION {uses[l] : l \in Queued(f)} \subseteq Resources \cup RenderPasses
  BY <1>1 DEF TypeOK
<1>3. b \in Batches
  BY <1>1, <1>2 DEF Batches
<1>4. gpu' = IF Submits THEN Append(gpu, b) ELSE gpu
  BY DEF ExecuteQueued
<1> HIDE DEF b
<1>5. gpu' \in Seq(Batches)
  BY <1>3, <1>4, AppendProperties DEF TypeOK
<1>6. <<>> \in Seq(Lists)
  BY EmptySeq
<1>7. gfx_lists' \in [FrameSlots -> Seq(Lists)]
  BY <1>1, <1>6 DEF TypeOK, ExecuteQueued
<1>8. uses' \in [Lists -> SUBSET (Resources \cup RenderPasses)]
  BY DEF TypeOK, ExecuteQueued
<1>9. gfx_submitted' \in [FrameSlots -> BOOLEAN] /\ wait_fences' \in [FrameSlots -> BOOLEAN]
  BY DEF TypeOK, ExecuteQueued, WaitsFor, Submits
<1>10. QED
  BY <1>5, <1>7, <1>8, <1>9 DEF TypeOK, ExecuteQueued, passVars

LEMMA ClientTypes ==
    ASSUME TypeOK, NEW t \in Threads, Client(t)
    PROVE  TypeOK'
<1>1. ASSUME NEW r \in Resources, CreateResource(t, r)
      PROVE  TypeOK'
  BY <1>1 DEF TypeOK, CreateResource, frameVars, poolVars, passVars, gpuVars
<1>2. ASSUME NEW r \in Resources, DestroyResource(t, r)
      PROVE  TypeOK'
  BY <1>2 DEF TypeOK, DestroyResource, ExpiresIn, frameVars, poolVars, passVars, gpuVars
<1>3. ASSUME NEW R \in SUBSET Resources, NEW K \in SUBSET RenderPasses, Record(t, R, K)
      PROVE  TypeOK'
  <2> DEFINE f == current_frame
             l == NextList(f, t)
  <2>1. /\ l \in Lists /\ l[3] \in 0 .. MaxLists - 1 /\ l[3] + 1 \in 0 .. MaxLists
        /\ f \in FrameSlots
    BY <1>3, UsesAssumption DEF Record, Lists, TypeOK, NextList
  <2>2. command_lists' \in [FrameSlots -> [Threads -> 0 .. MaxLists]]
    BY <1>3, <2>1 DEF Record, TypeOK
  <2>3. free_command_list' \in [FrameSlots -> [Threads -> 0 .. MaxLists + 1]]
    BY <1>3, UsesAssumption DEF Record, TypeOK
  <2>4. /\ state' \in [Lists -> ListStates]
        /\ uses' \in [Lists -> SUBSET (Resources \cup RenderPasses)]
        /\ recording' \in [Threads -> Lists \cup {NoList}]
    BY <1>3, <2>1 DEF Record, TypeOK, ListStates
  <2>5. cached' \subseteq RenderPasses /\ frames' \in [RenderPasses -> 0 .. max_lifetime]
    BY <1>3, FramesAssumption DEF Record, TypeOK
  <2>6. QED
    BY <1>3, <2>2, <2>3, <2>4, <2>5 DEF Record, TypeOK, frameVars, gpuVars
<1>4. CASE Submit(t)
  <2> DEFINE l == recording[t]
  <2>1. l \in Lists /\ current_frame \in FrameSlots
    BY <1>4 DEF Submit, TypeOK
  <2>2. Append(gfx_lists[current_frame], l) \in Seq(Lists)
    BY <2>1, AppendProperties DEF TypeOK
  <2>3. gfx_lists' \in [FrameSlots -> Seq(Lists)]
    BY <1>4, <2>2 DEF Submit, TypeOK
  <2>4. /\ state' \in [Lists -> ListStates]
        /\ recording' \in [Threads -> Lists \cup {NoList}]
        /\ phase' \in Phases
    BY <1>4, <2>1 DEF Submit, TypeOK, ListStates, Phases
  <2>5. QED
    BY <1>4, <2>3, <2>4 DEF Submit, TypeOK, passVars, gpuVars
<1>5. QED
  BY <1>1, <1>2, <1>3, <1>4 DEF Client

LEMMA AdvanceTypes ==
    ASSUME TypeOK, Advance
    PROVE  current_frame' \in FrameSlots /\ first_frame' \in BOOLEAN /\ pc' \in Places
BY SlotFacts DEF TypeOK, Advance, Places

LEMMA AgeTypes ==
    ASSUME TypeOK, NEW evicted, NEW skipped, AgeRenderPasses(evicted, skipped)
    PROVE  cached' \subseteq RenderPasses /\ frames' \in [RenderPasses -> 0 .. max_lifetime]
<1>1. cached' \subseteq RenderPasses
  BY DEF TypeOK, AgeRenderPasses
<1>2. ASSUME NEW k \in RenderPasses, k \in cached' \ skipped
      PROVE  frames[k] + 1 \in 0 .. max_lifetime
  BY <1>2, FramesAssumption DEF TypeOK, AgeRenderPasses, TooOld
<1>3. QED
  BY <1>1, <1>2, FramesAssumption DEF TypeOK, AgeRenderPasses

LEMMA NextTypes == TypeOK /\ [Next]_vars => TypeOK'
<1> SUFFICES ASSUME TypeOK, [Next]_vars PROVE TypeOK'
  OBVIOUS
<1>0. <<>> \in Seq(Lists)
  BY EmptySeq
<1>1. CASE UNCHANGED vars
  BY <1>1 DEF TypeOK, vars, frameVars, poolVars, passVars, gpuVars
<1>2. ASSUME NEW t \in Threads, Client(t)
      PROVE  TypeOK'
  BY <1>2, ClientTypes
<1>3. CASE NewFrame
  BY <1>3, AdvanceTypes DEF NewFrame, TypeOK, Phases, frameVars, poolVars, passVars, gpuVars
<1>4. CASE EndFrame
  <2>1. pc' \in Places /\ phase' \in Phases
    BY <1>4 DEF EndFrame, TypeOK, Phases
  <2>2. QED
    BY <1>4, <2>1, ExecuteTypes DEF EndFrame
<1>5. CASE CancelFrame
  BY <1>5 DEF CancelFrame, TypeOK, poolVars, passVars, gpuVars
<1>6. CASE WaitGpuIdle
  <2>1. pc' \in Places /\ phase' \in Phases
    BY <1>6 DEF WaitGpuIdle, TypeOK, Places
  <2>2. QED
    BY <1>6, <2>1, ExecuteTypes DEF WaitGpuIdle
<1>7. CASE DestroyDevice
  BY <1>0, <1>7, UsesAssumption, FramesAssumption
  DEF DestroyDevice, TypeOK, Places, ListStates, gpuVars
<1>8. ASSUME NEW evicted, NEW skipped, StartFrame(evicted, skipped)
      PROVE  TypeOK'
  <2>1. /\ signalled' \in [FrameSlots -> BOOLEAN] /\ wait_fences' \in [FrameSlots -> BOOLEAN]
        /\ gfx_submitted' \in [FrameSlots -> BOOLEAN]
        /\ frame_cancelled' \in [FrameSlots -> BOOLEAN]
        /\ gfx_lists' \in [FrameSlots -> Seq(Lists)]
        /\ expired' \in [FrameSlots -> SUBSET Resources] /\ live' \subseteq Resources
    BY <1>0, <1>8 DEF StartFrame, TypeOK, AfterReset
  <2>2. free_command_list' \in [FrameSlots -> [Threads -> 0 .. MaxLists + 1]]
    BY <1>8, UsesAssumption DEF StartFrame, TypeOK
  <2>3. /\ state' \in [Lists -> ListStates]
        /\ uses' \in [Lists -> SUBSET (Resources \cup RenderPasses)]
    BY <1>8 DEF StartFrame, TypeOK, ListStates
  <2>4. pc' \in Places
    BY <1>8 DEF StartFrame, Places
  <2>5. AgeRenderPasses(evicted, skipped)
    BY <1>8 DEF StartFrame
  <2>6. QED
    BY <1>8, <2>1, <2>2, <2>3, <2>4, <2>5, AgeTypes DEF StartFrame, TypeOK
<1>9. CASE GpuIsIdle
  <2>0. signalled' \in [FrameSlots -> BOOLEAN]
    BY <1>9 DEF GpuIsIdle, TypeOK, AfterReset
  <2>1. /\ wait_fences' \in [FrameSlots -> BOOLEAN]
        /\ command_lists' \in [FrameSlots -> [Threads -> 0 .. MaxLists]]
        /\ state' \in [Lists -> ListStates]
        /\ uses' \in [Lists -> SUBSET (Resources \cup RenderPasses)]
        /\ phase' \in Phases
    BY <1>9, UsesAssumption DEF GpuIsIdle, TypeOK, AfterReset, ListStates, Phases
  <2>2. QED
    BY <1>9, <2>0, <2>1, AdvanceTypes DEF GpuIsIdle, TypeOK, passVars
<1>10. CASE FinishBatch
  <2>1. gpu' \in Seq(Batches)
    BY <1>10, HeadTailProperties DEF FinishBatch, TypeOK
  <2>2. signalled' \in [FrameSlots -> BOOLEAN]
    BY <1>10 DEF FinishBatch, TypeOK
  <2>3. QED
    BY <1>10, <2>1, <2>2 DEF FinishBatch, TypeOK, frameVars, poolVars, passVars
<1>11. QED
  BY <1>1, <1>2, <1>3, <1>4, <1>5, <1>6, <1>7, <1>8, <1>9, <1>10
  DEF Next, FrameLoop, BeginFrame

(* Every variable keeps its type whatever clients do: the counters of the  *)
(* cache and of the pools stay in range, and what is queued are lists.     *)
THEOREM TypeCorrect == Spec => []TypeOK
BY InitTypes, NextTypes, PTL DEF Spec

-----------------------------------------------------------------------------
(* The inductive invariant of the disciplined device.                      *)

(* How many slots the device starts before slot f, from slot c; and the    *)
(* same counted from the slot in use when the last frame started.          *)
Ahead(c, f) == IF f > c THEN f - c - 1 ELSE f - c - 1 + max_frames_in_flight
Turns(f) ==
    IF pc # "fence" THEN Ahead(current_frame, f)
    ELSE IF f = current_frame THEN 0 ELSE Ahead(current_frame, f) + 1

(* The lists that are recorded or queued and may still be executed.        *)
Open ==
    {l \in Lists : \/ ~frame_cancelled[current_frame] /\ l \in Queued(current_frame)
                  \/ \E t \in Threads : recording[t] = l}

(* Open lists are distinct live objects of the current frame's pools, they *)
(* use what exists and is not expiring in another frame, and render passes *)
(* found in this frame.                                                    *)
OpenInPool ==
    /\ \A l \in Open :
          /\ l[1] = current_frame
          /\ l[3] < command_lists[l[1]][l[2]] /\ l[3] < free_command_list[l[1]][l[2]]
    /\ ~frame_cancelled[current_frame] =>
          \A l \in Queued(current_frame) : state[l] = "executable"
    /\ \A t \in Threads : recording[t] # NoList =>
          state[recording[t]] = "recording" /\ recording[t][2] = t
OpenUses ==
    \A l \in Open :
        /\ uses[l] \subseteq live \cup cached
        /\ \A f \in FrameSlots \ {current_frame} : uses[l] \cap expired[f] = {}
        /\ \A k \in uses[l] \cap RenderPasses : frames[k] = 0

(* Outside a frame nothing is open; in it the slot's fence is at rest.     *)
Settled ==
    /\ pc # "client" \/ phase = "ended" => Open = {}
    /\ phase # "used" => gfx_lists[current_frame] = <<>> \/ frame_cancelled[current_frame]
    /\ pc = "client" /\ phase # "ended" => ~wait_fences[current_frame]

(* A resource expires once, and exists until then.                         *)
ExpiredOnce ==
    /\ \A f \in FrameSlots : expired[f] \subseteq live
    /\ \A f, g \in FrameSlots : f # g => expired[f] \cap expired[g] = {}

(* A batch that uses an expired resource is waited for before the slot the *)
(* resource expires in is, or with it.                                     *)
ExpiresLater ==
    \A i \in DOMAIN gpu : \A f \in FrameSlots :
        gpu[i].uses \cap expired[f] # {} => Turns(gpu[i].frame) <= Turns(f)

(* A render pass has not been in the cache for longer, since it was last   *)
(* found, than the batches that use it have been running.                  *)
PassesYoung ==
    \A i \in DOMAIN gpu : \A k \in gpu[i].uses \cap RenderPasses :
        frames[k] + Turns(gpu[i].frame) <= max_frames_in_flight - 1

OwnLists == \A i \in DOMAIN gpu : \A l \in gpu[i].lists : l[1] = gpu[i].frame

Properties ==
    /\ NoUseAfterFree /\ PendingIntact /\ FenceReady
    /\ WaitsMatchBatches /\ NoLostSubmission

IInv ==
    /\ TypeOK /\ Properties
    /\ OpenInPool /\ OpenUses /\ Settled
    /\ ExpiredOnce /\ ExpiresLater /\ PassesYoung /\ OwnLists

-----------------------------------------------------------------------------
(* The ring of slots.                                                      *)

LEMMA AheadFacts ==
    ASSUME NEW c \in FrameSlots, NEW f \in FrameSlots
    PROVE  LET d == (c + 1) % max_frames_in_flight IN
           /\ Ahead(c, f) \in 0 .. max_frames_in_flight - 1
           /\ Ahead(c, c) = max_frames_in_flight - 1
           /\ f = d => Ahead(c, f) = 0
           /\ f # d => Ahead(c, f) = Ahead(d, f) + 1
<1> DEFINE d == (c + 1) % max_frames_in_flight
<1>1. c \in Nat /\ f \in Nat /\ c < max_frames_in_flight /\ f < max_frames_in_flight
  BY SlotFacts
<1>2. d = (IF c + 1 = max_frames_in_flight THEN 0 ELSE c + 1)
  BY SlotFacts
<1> HIDE DEF d
<1>3. /\ Ahead(c, f) \in 0 .. max_frames_in_flight - 1
      /\ Ahead(c, c) = max_frames_in_flight - 1
      /\ f = d => Ahead(c, f) = 0
      /\ f # d => Ahead(c, f) = Ahead(d, f) + 1
  BY <1>1, <1>2, FramesAssumption DEF Ahead
<1>4. QED
  BY <1>3 DEF d

LEMMA TurnsFacts ==
    ASSUME TypeOK, NEW f \in FrameSlots
    PROVE  /\ Turns(f) \in 0 .. max_frames_in_flight - 1
           /\ pc # "fence" => Turns(current_frame) = max_frames_in_flight - 1
           /\ pc = "fence" => (Turns(f) = 0 <=> f = current_frame)
<1>1. current_frame \in FrameSlots /\ current_frame \in Nat /\ f \in Nat
      /\ current_frame < max_frames_in_flight /\ f < max_frames_in_flight
  BY SlotFacts DEF TypeOK
<1>2. QED
  BY <1>1, SlotFacts DEF Turns, Ahead

LEMMA BatchTypes ==
    ASSUME TypeOK, NEW i \in DOMAIN gpu
    PROVE  /\ gpu[i] \in Batches /\ gpu[i].frame \in FrameSlots
           /\ gpu[i].lists \subseteq Lists
           /\ gpu[i].uses \subseteq Resources \cup RenderPasses
<1>1. gpu[i] \in Batches
  BY ElementOfSeq DEF TypeOK
<1>2. QED
  BY <1>1 DEF Batches

LEMMA InitIInv == Init => IInv
<1> SUFFICES ASSUME Init PROVE IInv
  OBVIOUS
<1>1. TypeOK
  BY InitTypes
<1>2. DOMAIN gpu = {}
  BY EmptySeq DEF Init
<1>3. Open = {}
  <2>1. Queued(current_frame) = {}
    BY SlotFacts DEF Init, Queued
  <2>2. \A t \in Threads : recording[t] \notin Lists
    BY ThreadsAssumption DEF Init
  <2>3. QED
    BY <2>1, <2>2 DEF Open
<1>4. OpenInPool /\ OpenUses
  <2>1. Queued(current_frame) = {}
    BY SlotFacts DEF Init, Queued
  <2>2. QED
    BY <1>3, <2>1 DEF Init, OpenInPool, OpenUses
<1>5. Settled /\ ExpiredOnce
  BY <1>3, SlotFacts DEF Init, Settled, ExpiredOnce
<1>6. ExpiresLater /\ PassesYoung /\ OwnLists
  BY <1>2 DEF ExpiresLater, PassesYoung, OwnLists
<1>7. Properties
  BY <1>2 DEF Init, Properties, NoUseAfterFree, PendingIntact, FenceReady,
     WaitsMatchBatches, NoLostSubmission
<1>8. QED
  BY <1>1, <1>4, <1>5, <1>6, <1>7 DEF IInv

-----------------------------------------------------------------------------
(* The actions of clients.                                                 *)

LEMMA CreateStep ==
    ASSUME IInv, NEW t \in Threads, NEW r \in Resources, CreateResource(t, r)
    PROVE  IInv'
<1> USE DEF CreateResource, frameVars, poolVars, passVars, gpuVars
<1>1. TypeOK'
  <2>1. Client(t)
    BY DEF Client
  <2>2. QED
    BY <2>1, ClientTypes DEF IInv
<1>2. Open' = Open
  BY DEF Open, Queued
<1>3. Properties'
  BY DEF IInv, Properties, NoUseAfterFree, PendingIntact, FenceReady,
     WaitsMatchBatches, NoLostSubmission
<1>4. OpenInPool'
  BY <1>2 DEF IInv, OpenInPool, Queued
<1>5. OpenUses'
  BY <1>2 DEF IInv, OpenUses
<1>6. Settled'
  BY <1>2 DEF IInv, Settled
<1>7. ExpiredOnce'
  BY DEF IInv, ExpiredOnce
<1>8. ExpiresLater' /\ PassesYoung' /\ OwnLists'
  BY DEF IInv, ExpiresLater, PassesYoung, OwnLists, Turns
<1>9. QED
  BY <1>1, <1>3, <1>4, <1>5, <1>6, <1>7, <1>8 DEF IInv

LEMMA DestroyStep ==
    ASSUME IInv, Disciplined, NEW t \in Threads, NEW r \in Resources, DestroyResource(t, r)
    PROVE  IInv'
<1> USE DEF DestroyResource, ExpiresIn, frameVars, poolVars, passVars, gpuVars
<1>1. TypeOK /\ TypeOK'
  <2>1. Client(t)
    BY DEF Client
  <2>2. QED
    BY <2>1, ClientTypes DEF IInv
<1>2. Open' = Open
  BY DEF Open, Queued
<1>3. Properties'
  BY DEF IInv, Properties, NoUseAfterFree, PendingIntact, FenceReady,
     WaitsMatchBatches, NoLostSubmission
<1>4. OpenInPool'
  BY <1>2 DEF IInv, OpenInPool, Queued
<1>5. /\ expired \in [FrameSlots -> SUBSET Resources]
      /\ expired' = [expired EXCEPT ![current_frame] = expired[current_frame] \cup {r}]
      /\ current_frame \in FrameSlots
  BY <1>1 DEF TypeOK
<1>6. OpenUses'
  BY <1>2, <1>5 DEF IInv, OpenUses
<1>7. Settled'
  BY <1>2 DEF IInv, Settled
<1>8. ExpiredOnce'
  BY <1>5 DEF IInv, ExpiredOnce, Expiring
<1>9. PassesYoung' /\ OwnLists'
  BY DEF IInv, PassesYoung, OwnLists, Turns
<1>10. pc = "client"
  BY DEF MayRecord, Disciplined
<1>11. ExpiresLater'
  <2> SUFFICES ASSUME NEW i \in DOMAIN gpu, NEW f \in FrameSlots,
                      gpu[i].uses \cap expired'[f] # {}
               PROVE  Turns(gpu[i].frame) <= Turns(f)
    BY DEF ExpiresLater, Turns
  <2>1. CASE f = current_frame
    BY <1>1, <1>10, <2>1, BatchTypes, TurnsFacts
  <2>2. CASE f # current_frame
    BY <1>5, <2>2 DEF IInv, ExpiresLater
  <2>3. QED
    BY <2>1, <2>2
<1>12. QED
  BY <1>1, <1>3, <1>4, <1>6, <1>7, <1>8, <1>9, <1>11 DEF IInv

LEMMA RecordStep ==
    ASSUME IInv, Disciplined, NEW t \in Threads, NEW R \in SUBSET Resources,
           NEW K \in SUBSET RenderPasses, Record(t, R, K)
    PROVE  IInv'
<1> DEFINE f == current_frame
           n == NextList(f, t)
<1> USE DEF frameVars, gpuVars
<1>1. TypeOK /\ TypeOK'
  <2>1. Client(t)
    BY DEF Client
  <2>2. QED
    BY <2>1, ClientTypes DEF IInv
<1>2. /\ f \in FrameSlots /\ n \in Lists /\ n[1] = f /\ n[2] = t
      /\ n[3] < command_lists'[f][t] /\ n[3] < free_command_list'[f][t]
      /\ n[3] = command_lists[f][t] \/ n[3] = free_command_list[f][t]
  <2>1. command_lists[f][t] \in Nat /\ free_command_list[f][t] \in Nat /\ f \in FrameSlots
    BY <1>1 DEF TypeOK
  <2>2. /\ n \in Lists /\ n[1] = f /\ n[2] = t
        /\ n[3] = IF free_command_list[f][t] < command_lists[f][t]
                  THEN free_command_list[f][t] ELSE command_lists[f][t]
    BY DEF Record, NextList
  <2>3. /\ command_lists'[f][t] =
               IF n[3] = command_lists[f][t] THEN command_lists[f][t] + 1
               ELSE command_lists[f][t]
        /\ free_command_list'[f][t] = free_command_list[f][t] + 1
    BY <1>1, <2>1 DEF Record, TypeOK
  <2>4. QED
    BY <2>1, <2>2, <2>3
<1> HIDE DEF n
<1>3. \A g \in FrameSlots, u \in Threads :
          /\ command_lists'[g][u] >= command_lists[g][u]
          /\ free_command_list'[g][u] >= free_command_list[g][u]
  BY <1>1 DEF Record, TypeOK
<1>4. /\ state' = [state EXCEPT ![n] = "recording"]
      /\ uses' = [uses EXCEPT ![n] = R \cup K]
      /\ recording' = [recording EXCEPT ![t] = n]
      /\ recording[t] = NoList /\ R \subseteq live \ Expiring
      /\ cached' = cached \cup K
      /\ frames' = [k \in RenderPasses |-> IF k \in K THEN 0 ELSE frames[k]]
      /\ UNCHANGED <<current_frame, pc, phase, gfx_lists, gfx_submitted,
                     frame_cancelled, wait_fences, expired, live, signalled, gpu>>
  BY DEF Record, n
<1>5. pc = "client" /\ phase # "ended"
  BY DEF Record, MayRecord, Disciplined
<1>6. Open' = Open \cup {n}
  BY <1>1, <1>2, <1>4, ThreadsAssumption DEF Open, Queued, TypeOK
<1>7. n \notin Open
  <2> SUFFICES ASSUME n \in Open PROVE FALSE
    OBVIOUS
  <2>1. n[3] < command_lists[f][t] /\ n[3] < free_command_list[f][t]
    BY <1>2 DEF IInv, OpenInPool
  <2>2. command_lists[f][t] \in Nat /\ free_command_list[f][t] \in Nat
    BY <1>1 DEF TypeOK
  <2>3. QED
    BY <1>2, <2>1, <2>2
<1>8. \A i \in DOMAIN gpu : gpu[i].frame # f /\ n \notin gpu[i].lists
  BY <1>2, <1>5 DEF IInv, Properties, WaitsMatchBatches, Settled, OwnLists
<1>9. Properties'
  <2>1. NoUseAfterFree' /\ FenceReady' /\ WaitsMatchBatches' /\ NoLostSubmission'
    BY <1>4 DEF IInv, Properties, NoUseAfterFree, FenceReady, WaitsMatchBatches,
       NoLostSubmission
  <2>2. PendingIntact'
    BY <1>1, <1>4, <1>8, BatchTypes DEF IInv, Properties, PendingIntact, TypeOK
  <2>3. QED
    BY <2>1, <2>2 DEF Properties
<1>10. OpenInPool'
  <2>1. ASSUME NEW l \in Open
        PROVE  /\ l[1] = f
               /\ l[3] < command_lists'[l[1]][l[2]]
               /\ l[3] < free_command_list'[l[1]][l[2]]
    <3>1. l[1] \in FrameSlots /\ l[2] \in Threads /\ l[3] \in Nat
      BY DEF Open, Lists
    <3>0. \A g \in FrameSlots, u \in Threads :
              /\ command_lists[g][u] \in Nat /\ free_command_list[g][u] \in Nat
              /\ command_lists'[g][u] \in Nat /\ free_command_list'[g][u] \in Nat
      BY <1>1 DEF TypeOK
    <3>2. /\ command_lists[l[1]][l[2]] \in Nat /\ free_command_list[l[1]][l[2]] \in Nat
          /\ command_lists'[l[1]][l[2]] \in Nat /\ free_command_list'[l[1]][l[2]] \in Nat
      BY <3>0, <3>1
    <3>3. QED
      BY <1>3, <2>1, <3>1, <3>2 DEF IInv, OpenInPool
  <2>2. ASSUME ~frame_cancelled[f], NEW l \in Queued(f)
        PROVE  state'[l] = "executable"
    <3>1. l \in Open /\ l \in Lists /\ l # n
      BY <1>1, <1>7, <2>2, QueuedTypes DEF Open, TypeOK
    <3>2. QED
      BY <1>1, <1>4, <2>2, <3>1 DEF IInv, OpenInPool, TypeOK
  <2>3. ASSUME NEW u \in Threads, recording'[u] # NoList
        PROVE  state'[recording'[u]] = "recording" /\ recording'[u][2] = u
    <3>1. CASE u = t
      BY <1>1, <1>2, <1>4, <3>1 DEF TypeOK
    <3>2. CASE u # t
      <4>1. recording'[u] = recording[u] /\ recording[u] \in Lists
        BY <1>1, <1>4, <2>3, <3>2 DEF TypeOK
      <4>2. recording[u] # n
        BY <1>7, <4>1 DEF Open
      <4>3. QED
        BY <1>1, <1>4, <2>3, <4>1, <4>2 DEF IInv, OpenInPool, TypeOK
    <3>3. QED
      BY <3>1, <3>2
  <2>4. Queued(f)' = Queued(f)
    BY <1>4 DEF Queued
  <2>5. QED
    BY <1>2, <1>4, <1>6, <2>1, <2>2, <2>3, <2>4 DEF OpenInPool
<1>11. OpenUses'
  <2>1. ASSUME NEW l \in Open
        PROVE  uses'[l] = uses[l] /\ l \in Lists
    BY <1>1, <1>4, <1>7 DEF TypeOK, Open
  <2>2. uses'[n] = R \cup K
    BY <1>1, <1>2, <1>4 DEF TypeOK
  <2>3. ASSUME NEW k \in (R \cup K) \cap RenderPasses
        PROVE  frames'[k] = 0
    BY <1>4, ObjectsAssumption
  <2>4. ASSUME NEW g \in FrameSlots
        PROVE  (R \cup K) \cap expired[g] = {}
    BY <1>1, <1>4, ObjectsAssumption DEF TypeOK, Expiring
  <2>5. \A k \in RenderPasses : frames[k] = 0 => frames'[k] = 0
    BY <1>4
  <2>6. QED
    BY <1>4, <1>6, <2>1, <2>2, <2>3, <2>4, <2>5 DEF IInv, OpenUses
<1>12. Settled'
  BY <1>4, <1>5 DEF IInv, Settled
<1>13. ExpiredOnce' /\ ExpiresLater' /\ OwnLists'
  BY <1>4 DEF IInv, ExpiredOnce, ExpiresLater, OwnLists, Turns
<1>14. PassesYoung'
  <2> SUFFICES ASSUME NEW i \in DOMAIN gpu, NEW k \in gpu[i].uses \cap RenderPasses
               PROVE  frames'[k] + Turns(gpu[i].frame) <= max_frames_in_flight - 1
    BY <1>4 DEF PassesYoung, Turns
  <2>1. /\ frames[k] \in Nat /\ frames'[k] \in {0, frames[k]}
        /\ Turns(gpu[i].frame) \in 0 .. max_frames_in_flight - 1
    BY <1>1, <1>4, BatchTypes, TurnsFacts DEF TypeOK
  <2>2. frames[k] + Turns(gpu[i].frame) <= max_frames_in_flight - 1
    BY DEF IInv, PassesYoung
  <2>3. QED
    BY <2>1, <2>2, SlotFacts
<1>15. QED
  BY <1>1, <1>9, <1>10, <1>11, <1>12, <1>13, <1>14 DEF IInv

LEMMA SubmitStep ==
    ASSUME IInv, Disciplined, NEW t \in Threads, Submit(t)
    PROVE  IInv'
<1> DEFINE f == current_frame
           l == recording[t]
<1> USE DEF passVars, gpuVars
<1>1. TypeOK /\ TypeOK'
  <2>1. Client(t)
    BY DEF Client
  <2>2. QED
    BY <2>1, ClientTypes DEF IInv
<1>2. /\ l \in Lists /\ f \in FrameSlots /\ l \in Open
      /\ state[l] = "recording" /\ pc = "client"
  BY <1>1 DEF Submit, TypeOK, Open, IInv, OpenInPool, MayRecord, Disciplined
<1>4. /\ state' = [state EXCEPT ![l] = "executable"]
      /\ gfx_lists' = [gfx_lists EXCEPT ![f] = Append(gfx_lists[f], l)]
      /\ recording' = [recording EXCEPT ![t] = NoList]
      /\ phase' = "used"
      /\ UNCHANGED <<current_frame, pc, frame_cancelled, wait_fences, expired,
                     command_lists, free_command_list, uses, live, cached, frames,
                     signalled, gpu>>
  BY <1>1, <1>2 DEF Submit, IInv, Settled, TypeOK
<1>5. Queued(f)' = Queued(f) \cup {l}
  <2>1. gfx_lists[f] \in Seq(Lists)
    BY <1>1, <1>2 DEF TypeOK
  <2>2. gfx_lists'[f] = Append(gfx_lists[f], l)
    BY <1>1, <1>2, <1>4 DEF TypeOK
  <2>3. {Append(gfx_lists[f], l)[i] : i \in DOMAIN Append(gfx_lists[f], l)}
            = {gfx_lists[f][i] : i \in DOMAIN gfx_lists[f]} \cup {l}
    BY <1>2, <2>1, AppendProperties, LenProperties
  <2>4. QED
    BY <1>4, <2>2, <2>3 DEF Queued
<1>6. Open' \subseteq Open
  <2>1. \A u \in Threads : recording'[u] \in {recording[u], NoList}
    BY <1>1, <1>4 DEF TypeOK
  <2>2. QED
    BY <1>2, <1>4, <1>5, <2>1, ThreadsAssumption DEF Open
<1>7. Properties'
  <2>1. NoUseAfterFree' /\ FenceReady' /\ WaitsMatchBatches'
    BY <1>4 DEF IInv, Properties, NoUseAfterFree, FenceReady, WaitsMatchBatches
  <2>2. PendingIntact'
    BY <1>1, <1>4, BatchTypes DEF IInv, Properties, PendingIntact, TypeOK
  <2>3. NoLostSubmission'
    BY <1>1, <1>4 DEF IInv, Properties, NoLostSubmission, TypeOK
  <2>4. QED
    BY <2>1, <2>2, <2>3 DEF Properties
<1>8. OpenInPool'
  <2>1. ASSUME ~frame_cancelled[f], NEW q \in Queued(f) \cup {l}
        PROVE  state'[q] = "executable"
    <3>1. q \in Lists
      BY <1>1, <1>2, QueuedTypes
    <3>2. QED
      BY <1>1, <1>4, <2>1, <3>1 DEF IInv, OpenInPool, TypeOK
  <2>2. ASSUME NEW u \in Threads, recording'[u] # NoList
        PROVE  state'[recording'[u]] = "recording" /\ recording'[u][2] = u
    <3>1. u # t /\ recording'[u] = recording[u] /\ recording[u] \in Lists
      BY <1>1, <1>4, <2>2 DEF TypeOK
    <3>2. recording[u][2] = u /\ l[2] = t /\ state[recording[u]] = "recording"
      BY <1>2, <2>2, <3>1, ThreadsAssumption DEF IInv, OpenInPool
    <3>3. QED
      BY <1>1, <1>4, <3>1, <3>2 DEF TypeOK
  <2>3. QED
    BY <1>4, <1>5, <1>6, <2>1, <2>2 DEF IInv, OpenInPool
<1>9. OpenUses'
  BY <1>4, <1>6 DEF IInv, OpenUses
<1>10. Settled'
  BY <1>2, <1>4 DEF IInv, Settled
<1>11. ExpiredOnce' /\ ExpiresLater' /\ PassesYoung' /\ OwnLists'
  BY <1>4 DEF IInv, ExpiredOnce, ExpiresLater, PassesYoung, OwnLists, Turns
<1>12. QED
  BY <1>1, <1>7, <1>8, <1>9, <1>10, <1>11 DEF IInv

-----------------------------------------------------------------------------
(* The frame loop.                                                         *)

LEMMA CancelStep ==
    ASSUME IInv, TypeOK', CancelFrame
    PROVE  IInv'
<1> USE DEF CancelFrame, poolVars, passVars, gpuVars
<1>1. Open' \subseteq Open
  BY DEF IInv, TypeOK, Open, Queued
<1>2. Properties'
  BY DEF IInv, TypeOK, Properties, NoUseAfterFree, PendingIntact, FenceReady,
     WaitsMatchBatches, NoLostSubmission
<1>3. frame_cancelled'[current_frame]
  BY DEF IInv, TypeOK
<1>4. OpenInPool'
  BY <1>1, <1>3 DEF IInv, OpenInPool
<1>5. OpenUses'
  BY <1>1 DEF IInv, OpenUses
<1>6. Settled'
  BY <1>1, <1>3 DEF IInv, Settled
<1>7. ExpiredOnce' /\ ExpiresLater' /\ PassesYoung' /\ OwnLists'
  BY DEF IInv, ExpiredOnce, ExpiresLater, PassesYoung, OwnLists, Turns
<1>8. QED
  BY <1>2, <1>4, <1>5, <1>6, <1>7 DEF IInv

LEMMA ExecuteStep ==
    ASSUME IInv, TypeOK', Disciplined, MayChangeFrame, ExecuteQueued,
           \/ pc' = "client" /\ phase' = "ended"
           \/ pc' = "idle" /\ phase' = phase
    PROVE  IInv'
<1> DEFINE f == current_frame
           b == [frame |-> f, lists |-> Queued(f),
                 uses |-> UNION {uses[l] : l \in Queued(f)}]
<1> USE DEF passVars
<1>1. /\ TypeOK /\ f \in FrameSlots /\ pc = "client"
      /\ \A t \in Threads : recording[t] = NoList
  BY DEF IInv, TypeOK, MayChangeFrame, Disciplined, NothingRecorded
<1>2. /\ UNCHANGED <<current_frame, frame_cancelled, expired, command_lists,
                     free_command_list, state, recording, live, cached, frames,
                     signalled>>
      /\ Submits \/ gfx_lists' = gfx_lists
      /\ Submits => gfx_lists' = [gfx_lists EXCEPT ![f] = <<>>]
  BY <1>1 DEF ExecuteQueued, TypeOK
<1>3. gfx_lists'[f] = <<>> \/ frame_cancelled'[f]
  BY <1>1, <1>2 DEF Submits, TypeOK
<1>4. Open' = {}
  <2>1. ASSUME gfx_lists'[f] = <<>> PROVE Queued(f)' = {}
    BY <1>2, <2>1 DEF Queued
  <2>2. QED
    BY <1>1, <1>2, <1>3, <2>1, ThreadsAssumption DEF Open
<1>5. OpenInPool'
  <2>1. ~frame_cancelled'[f] => Queued(f)' = {}
    BY <1>2, <1>3 DEF Queued
  <2>2. QED
    BY <1>1, <1>2, <1>4, <2>1 DEF OpenInPool
<1>6. OpenUses' /\ Settled' /\ ExpiredOnce'
  BY <1>2, <1>3, <1>4 DEF IInv, OpenUses, Settled, ExpiredOnce
<1>7. NoLostSubmission'
  BY <1>1, <1>2 DEF IInv, Properties, NoLostSubmission, TypeOK
<1>8. \A g \in FrameSlots : Turns(g)' = Turns(g)
  BY <1>1, <1>2 DEF Turns
<1>9. CASE ~Submits
  <2>1. gpu' = gpu /\ wait_fences' = wait_fences
    BY <1>1, <1>9 DEF ExecuteQueued, WaitsFor, TypeOK
  <2>2. ExpiresLater' /\ PassesYoung' /\ OwnLists'
    BY <1>2, <1>1, <1>8, <2>1, BatchTypes DEF IInv, ExpiresLater, PassesYoung, OwnLists
  <2>3. Properties'
    BY <1>2, <1>7, <2>1 DEF IInv, Properties, NoUseAfterFree, PendingIntact,
       FenceReady, WaitsMatchBatches
  <2>4. QED
    BY <1>5, <1>6, <2>2, <2>3 DEF IInv
<1>10. CASE Submits
  <2>1. ~frame_cancelled[f] /\ gfx_lists[f] # <<>> /\ Queued(f) \subseteq Open
    BY <1>1, <1>10, QueuedTypes DEF Submits, Open
  <2>2. phase # "ended"
    <3>1. gfx_lists[f] \in Seq(Lists)
      BY <1>1 DEF TypeOK
    <3>2. 1 \in DOMAIN gfx_lists[f]
      BY <2>1, <3>1, EmptySeq, LenProperties
    <3>3. gfx_lists[f][1] \in Queued(f)
      BY <3>2 DEF Queued
    <3>4. QED
      BY <2>1, <3>3 DEF IInv, Settled
  <2>3. /\ ~wait_fences[f] /\ ~signalled[f]
        /\ \A i \in DOMAIN gpu : gpu[i].frame # f
    BY <1>1, <2>2 DEF IInv, Settled, Properties, WaitsMatchBatches
  <2>4. gpu' = Append(gpu, b)
    BY <1>10 DEF ExecuteQueued
  <2>5. wait_fences' = [wait_fences EXCEPT ![f] = TRUE]
    BY <1>1, <1>10 DEF ExecuteQueued, WaitsFor, TypeOK
  <2>6. /\ b.frame = f /\ b.lists = Queued(f)
        /\ b.uses = UNION {uses[l] : l \in Queued(f)}
    OBVIOUS
  <2> HIDE DEF b
  <2>7. /\ gpu \in Seq(Batches) /\ Len(gpu) \in Nat /\ DOMAIN gpu = 1 .. Len(gpu)
        /\ gpu' \in Seq(Batches) /\ DOMAIN gpu' = 1 .. Len(gpu) + 1
    BY <1>1, <2>4, LenProperties, AppendProperties DEF TypeOK
  <2>8. b \in Batches
    BY <1>1, <2>6, QueuedTypes DEF TypeOK, Batches, b
  <2>9. /\ \A i \in DOMAIN gpu : i \in DOMAIN gpu' /\ gpu'[i] = gpu[i]
        /\ Len(gpu) + 1 \in DOMAIN gpu' /\ gpu'[Len(gpu) + 1] = b
        /\ \A i \in DOMAIN gpu' : i \in DOMAIN gpu \/ i = Len(gpu) + 1
    BY <2>4, <2>7, <2>8, AppendProperties
  <2> DEFINE n == Len(gpu) + 1
  <2>10. n \notin DOMAIN gpu
    BY <2>7
  <2> HIDE DEF n
  <2>11. /\ \A i \in DOMAIN gpu : i \in DOMAIN gpu' /\ gpu'[i] = gpu[i]
         /\ n \in DOMAIN gpu' /\ gpu'[n] = b
         /\ \A i \in DOMAIN gpu' : i \in DOMAIN gpu \/ i = n
    BY <2>9 DEF n
  <2>12. NoUseAfterFree'
    <3>1. b.uses \subseteq live \cup cached
      BY <2>1, <2>6 DEF IInv, OpenUses
    <3>2. QED
      BY <1>2, <2>11, <3>1 DEF IInv, Properties, NoUseAfterFree
  <2>13. PendingIntact' /\ OwnLists'
    <3>1. \A l \in b.lists : state[l] = "executable" /\ l[1] = f
      BY <2>1, <2>6 DEF IInv, OpenInPool
    <3>2. QED
      BY <1>2, <2>6, <2>11, <3>1 DEF IInv, Properties, PendingIntact, OwnLists
  <2>14. FenceReady'
    BY <1>2, <2>3, <2>6, <2>11 DEF IInv, Properties, FenceReady
  <2>15. WaitsMatchBatches'
    <3>1. ASSUME NEW g \in FrameSlots
          PROVE  wait_fences'[g] <=>
                    signalled[g] \/ \E i \in DOMAIN gpu' : gpu'[i].frame = g
      <4>1. CASE g = f
        <5>1. wait_fences'[g]
          BY <1>1, <2>5, <4>1 DEF TypeOK
        <5>2. gpu'[n].frame = g
          BY <2>6, <2>11, <4>1
        <5>3. QED
          BY <2>11, <5>1, <5>2
      <4>2. CASE g # f
        <5>1. wait_fences'[g] = wait_fences[g]
          BY <1>1, <2>5, <4>2 DEF TypeOK
        <5>2. (\E i \in DOMAIN gpu' : gpu'[i].frame = g) <=>
                  \E i \in DOMAIN gpu : gpu[i].frame = g
          BY <2>6, <2>11, <4>2
        <5>3. QED
          BY <5>1, <5>2 DEF IInv, Properties, WaitsMatchBatches
      <4>3. QED
        BY <4>1, <4>2
    <3>2. QED
      BY <1>2, <3>1 DEF WaitsMatchBatches
  <2>16. ExpiresLater'
    <3>1. ASSUME NEW g \in FrameSlots, b.uses \cap expired[g] # {}
          PROVE  g = f
      BY <2>1, <2>6, <3>1 DEF IInv, OpenUses
    <3>2. ASSUME NEW i \in DOMAIN gpu', NEW g \in FrameSlots,
                 gpu'[i].uses \cap expired[g] # {}
          PROVE  Turns(gpu'[i].frame) <= Turns(g)
      <4>1. CASE i \in DOMAIN gpu
        BY <2>11, <3>2, <4>1 DEF IInv, ExpiresLater
      <4>2. CASE i = n
        <5>1. g = f /\ gpu'[i].frame = f
          BY <2>6, <2>11, <3>1, <3>2, <4>2
        <5>2. QED
          BY <1>1, <5>1, TurnsFacts
      <4>3. QED
        BY <2>11, <4>1, <4>2
    <3>3. \A i \in DOMAIN gpu' : gpu'[i].frame \in FrameSlots
      BY <1>1, <2>6, <2>11, BatchTypes
    <3>4. QED
      BY <1>2, <1>8, <3>2, <3>3 DEF ExpiresLater
  <2>17. PassesYoung'
    <3>1. ASSUME NEW i \in DOMAIN gpu', NEW k \in gpu'[i].uses \cap RenderPasses
          PROVE  frames[k] + Turns(gpu'[i].frame) <= max_frames_in_flight - 1
      <4>1. CASE i \in DOMAIN gpu
        BY <2>11, <3>1, <4>1 DEF IInv, PassesYoung
      <4>2. CASE i = n
        <5>1. gpu'[i].frame = f /\ frames[k] = 0
          BY <2>1, <2>6, <2>11, <3>1, <4>2 DEF IInv, OpenUses
        <5>2. Turns(f) = max_frames_in_flight - 1
          BY <1>1, TurnsFacts
        <5>3. QED
          BY <5>1, <5>2, SlotFacts
      <4>3. QED
        BY <2>11, <4>1, <4>2
    <3>2. \A i \in DOMAIN gpu' : gpu'[i].frame \in FrameSlots
      BY <1>1, <2>6, <2>11, BatchTypes
    <3>3. QED
      BY <1>2, <1>8, <3>1, <3>2 DEF PassesYoung
  <2>18. QED
    BY <1>5, <1>6, <1>7, <2>12, <2>13, <2>14, <2>15, <2>16, <2>17 DEF IInv, Properties
<1>11. QED
  BY <1>9, <1>10

LEMMA EndFrameStep ==
    ASSUME IInv, TypeOK', Disciplined, EndFrame \/ WaitGpuIdle
    PROVE  IInv'
BY ExecuteStep DEF EndFrame, WaitGpuIdle, MayChangeFrame

LEMMA NewFrameStep ==
    ASSUME IInv, TypeOK', Disciplined, NewFrame
    PROVE  IInv'
<1> USE DEF frameVars, poolVars, passVars, gpuVars
<1>1. /\ TypeOK /\ pc = "client" /\ current_frame \in FrameSlots
      /\ \A t \in Threads : recording[t] = NoList
  BY DEF IInv, TypeOK, NewFrame, MayChangeFrame, Disciplined, NothingRecorded
<1>2. CASE first_frame
  <2>1. UNCHANGED <<current_frame, pc, phase, frameVars, expired, poolVars,
                    recording, live, passVars, gpuVars>>
    BY <1>1, <1>2 DEF NewFrame, Advance, IsFirst
  <2>2. Open' = Open
    BY <2>1 DEF Open, Queued
  <2>3. Properties'
    BY <2>1 DEF IInv, Properties, NoUseAfterFree, PendingIntact, FenceReady,
       WaitsMatchBatches, NoLostSubmission
  <2>4. OpenInPool' /\ OpenUses' /\ Settled'
    BY <2>1, <2>2 DEF IInv, OpenInPool, OpenUses, Settled, Queued
  <2>5. ExpiredOnce' /\ ExpiresLater' /\ PassesYoung' /\ OwnLists'
    BY <2>1 DEF IInv, ExpiredOnce, ExpiresLater, PassesYoung, OwnLists, Turns
  <2>6. QED
    BY <2>3, <2>4, <2>5 DEF IInv
<1>3. CASE ~first_frame
  <2>1. /\ UNCHANGED <<frameVars, expired, poolVars, recording, live, passVars, gpuVars>>
        /\ pc' = "fence" /\ phase' = "fresh" /\ phase # "used"
        /\ current_frame' = (current_frame + 1) % max_frames_in_flight
    BY <1>3 DEF NewFrame, Advance, IsFirst, Disciplined
  <2>2. current_frame' \in FrameSlots
    BY <1>1, <2>1, SlotFacts
  <2>3. gfx_lists[current_frame] = <<>> \/ frame_cancelled[current_frame]
    BY <2>1 DEF IInv, Settled
  <2>4. NoLostSubmission' /\ (gfx_lists[current_frame'] = <<>> \/ frame_cancelled[current_frame'])
    BY <2>1, <2>2, <2>3 DEF IInv, Properties, NoLostSubmission
  <2>5. Open' = {}
    BY <1>1, <2>1, <2>4, ThreadsAssumption DEF Open, Queued
  <2>6. OpenInPool' /\ OpenUses' /\ Settled'
    <3>1. ~frame_cancelled[current_frame'] => Queued(current_frame)' = {}
      BY <2>1, <2>4 DEF Queued
    <3>2. QED
      BY <1>1, <2>1, <2>4, <2>5, <3>1 DEF IInv, OpenInPool, OpenUses, Settled
  <2>7. Properties'
    BY <2>1, <2>4 DEF IInv, Properties, NoUseAfterFree, PendingIntact, FenceReady,
       WaitsMatchBatches
  <2>8. \A f \in FrameSlots : Turns(f)' = Turns(f)
    BY <1>1, <2>1, AheadFacts DEF Turns
  <2>9. ExpiredOnce' /\ ExpiresLater' /\ PassesYoung' /\ OwnLists'
    BY <1>1, <2>1, <2>8, BatchTypes DEF IInv, ExpiredOnce, ExpiresLater, PassesYoung, OwnLists
  <2>10. QED
    BY <2>6, <2>7, <2>9 DEF IInv
<1>4. QED
  BY <1>2, <1>3

LEMMA StartFrameStep ==
    ASSUME IInv, TypeOK', NEW evicted, NEW skipped, StartFrame(evicted, skipped)
    PROVE  IInv'
<1> DEFINE f == current_frame
<1>1. TypeOK /\ f \in FrameSlots /\ pc = "fence" /\ Open = {}
  BY DEF IInv, TypeOK, StartFrame, Settled
<1>2. /\ UNCHANGED <<current_frame, first_frame, phase, command_lists, recording, gpu>>
      /\ pc' = "client"
      /\ signalled' = [signalled EXCEPT ![f] = AfterReset(f)]
      /\ wait_fences' = [wait_fences EXCEPT ![f] = FALSE]
      /\ live' = live \ expired[f]
      /\ expired' = [expired EXCEPT ![f] = {}]
      /\ gfx_lists' = [gfx_lists EXCEPT ![f] = <<>>]
      /\ frame_cancelled' = [frame_cancelled EXCEPT ![f] = FALSE]
      /\ AgeRenderPasses(evicted, skipped)
      /\ wait_fences[f] => signalled[f]
  BY DEF StartFrame, FencesDone, Freed
<1>3. \A l \in Lists : l[1] # f => state'[l] = state[l]
  BY <1>1 DEF StartFrame, PoolOf, TypeOK
<1>4. \A i \in DOMAIN gpu : gpu[i].frame # f
  BY <1>1, <1>2 DEF IInv, Properties, WaitsMatchBatches, FenceReady
<1>5. \A t \in Threads : recording[t] = NoList
  BY <1>1 DEF Open, TypeOK
<1>6. gfx_lists'[f] = <<>> /\ Queued(f)' = {}
  BY <1>1, <1>2 DEF TypeOK, Queued
<1>7. Open' = {}
  BY <1>2, <1>5, <1>6, ThreadsAssumption DEF Open
<1>8. OpenInPool' /\ OpenUses'
  BY <1>2, <1>5, <1>6, <1>7 DEF OpenInPool, OpenUses
<1>9. Settled'
  BY <1>1, <1>2, <1>6, <1>7 DEF Settled, TypeOK
<1>10. ExpiredOnce'
  BY <1>1, <1>2 DEF IInv, ExpiredOnce, TypeOK
<1>11. \A g \in FrameSlots \ {f} : Turns(g)' = Turns(g) - 1 /\ Turns(g) \in Nat /\ Turns(g) > 0
  BY <1>1, <1>2, AheadFacts DEF Turns
<1>12. ASSUME NEW i \in DOMAIN gpu
       PROVE  gpu[i].uses \cap expired[f] = {}
  <2>1. gpu[i].frame \in FrameSlots \ {f}
    BY <1>1, <1>4, BatchTypes
  <2>2. Turns(gpu[i].frame) > 0 /\ Turns(gpu[i].frame) \in Nat /\ Turns(f) = 0
    BY <1>1, <1>11, <2>1 DEF Turns
  <2>3. QED
    BY <1>1, <2>2 DEF IInv, ExpiresLater
<1>13. ASSUME NEW i \in DOMAIN gpu, NEW k \in gpu[i].uses \cap RenderPasses
       PROVE  /\ k \in cached => k \in cached'
              /\ frames'[k] \in {0, frames[k], frames[k] + 1} /\ frames[k] \in Nat
  <2>1. gpu[i].frame \in FrameSlots \ {f} /\ k \in RenderPasses
    BY <1>1, <1>4, BatchTypes
  <2>2. /\ Turns(gpu[i].frame) > 0 /\ Turns(gpu[i].frame) \in Nat
        /\ frames[k] + Turns(gpu[i].frame) <= max_frames_in_flight - 1
        /\ frames[k] \in Nat
    BY <1>1, <1>11, <2>1 DEF IInv, PassesYoung, TypeOK
  <2>3. ~TooOld(k)
    BY <2>2, FramesAssumption DEF TooOld
  <2>4. QED
    BY <1>2, <2>1, <2>2, <2>3 DEF AgeRenderPasses
<1>14. NoUseAfterFree'
  <2>1. \A i \in DOMAIN gpu : gpu[i].uses \subseteq live \cup cached
    BY DEF IInv, Properties, NoUseAfterFree
  <2>2. cached \subseteq RenderPasses
    BY <1>1 DEF TypeOK
  <2>3. QED
    BY <1>2, <1>12, <1>13, <2>1, <2>2 DEF NoUseAfterFree
<1>15. PendingIntact' /\ OwnLists'
  <2>1. \A i \in DOMAIN gpu : \A l \in gpu[i].lists : l[1] # f /\ l \in Lists
    BY <1>1, <1>4, BatchTypes DEF IInv, OwnLists
  <2>2. QED
    BY <1>2, <1>3, <2>1 DEF IInv, Properties, PendingIntact, OwnLists
<1>16. FenceReady' /\ NoLostSubmission'
  BY <1>1, <1>2, <1>4, BatchTypes
  DEF IInv, Properties, FenceReady, NoLostSubmission, TypeOK
<1>17. WaitsMatchBatches'
  <2>1. ~wait_fences'[f] /\ ~signalled'[f]
    BY <1>1, <1>2 DEF AfterReset, TypeOK, IInv, Properties, WaitsMatchBatches
  <2>2. \A g \in FrameSlots \ {f} :
            wait_fences'[g] = wait_fences[g] /\ signalled'[g] = signalled[g]
    BY <1>1, <1>2 DEF TypeOK
  <2>3. QED
    BY <1>2, <1>4, <2>1, <2>2 DEF IInv, Properties, WaitsMatchBatches
<1>18. ExpiresLater'
  <2> SUFFICES ASSUME NEW i \in DOMAIN gpu, NEW g \in FrameSlots,
                      gpu[i].uses \cap expired'[g] # {}
               PROVE  Turns(gpu[i].frame)' <= Turns(g)'
    BY <1>2 DEF ExpiresLater
  <2>1. g # f /\ gpu[i].uses \cap expired[g] # {}
    BY <1>1, <1>2 DEF TypeOK
  <2>2. gpu[i].frame \in FrameSlots \ {f} /\ gpu'[i] = gpu[i]
    BY <1>1, <1>2, <1>4, BatchTypes
  <2>3. Turns(gpu[i].frame) <= Turns(g)
    BY <2>1 DEF IInv, ExpiresLater
  <2>4. /\ Turns(gpu[i].frame)' = Turns(gpu[i].frame) - 1 /\ Turns(gpu[i].frame) \in Nat
        /\ Turns(g)' = Turns(g) - 1 /\ Turns(g) \in Nat
    BY <1>11, <2>1, <2>2
  <2>5. QED
    BY <2>3, <2>4
<1>19. PassesYoung'
  <2> SUFFICES ASSUME NEW i \in DOMAIN gpu, NEW k \in gpu[i].uses \cap RenderPasses
               PROVE  frames'[k] + Turns(gpu[i].frame)' <= max_frames_in_flight - 1
    BY <1>2 DEF PassesYoung
  <2>1. gpu[i].frame \in FrameSlots \ {f} /\ gpu'[i] = gpu[i]
    BY <1>1, <1>2, <1>4, BatchTypes
  <2>2. Turns(gpu[i].frame)' = Turns(gpu[i].frame) - 1 /\ Turns(gpu[i].frame) \in Nat
    BY <1>11, <2>1
  <2>3. frames[k] + Turns(gpu[i].frame) <= max_frames_in_flight - 1
    BY DEF IInv, PassesYoung
  <2>4. QED
    BY <1>13, <2>2, <2>3, SlotFacts
<1>20. QED
  BY <1>8, <1>9, <1>10, <1>14, <1>15, <1>16, <1>17, <1>18, <1>19 DEF IInv, Properties

LEMMA GpuIsIdleStep ==
    ASSUME IInv, TypeOK', GpuIsIdle
    PROVE  IInv'
<1>1. TypeOK /\ current_frame \in FrameSlots /\ pc = "idle" /\ Open = {} /\ gpu = <<>>
  BY DEF IInv, TypeOK, GpuIsIdle, Settled
<1>2. /\ UNCHANGED <<gfx_lists, frame_cancelled, expired, recording, live, cached,
                     frames, gpu>>
      /\ signalled' = [f \in FrameSlots |-> AfterReset(f)]
      /\ wait_fences' = [f \in FrameSlots |-> FALSE]
      /\ phase' = "idle"
  BY DEF GpuIsIdle, passVars
<1>3. DOMAIN gpu' = {}
  BY <1>1, <1>2, EmptySeq
<1>4. \A t \in Threads : recording[t] = NoList
  BY <1>1 DEF Open, TypeOK
<1>5. gfx_lists[current_frame] = <<>> \/ frame_cancelled[current_frame]
  <2>1. ASSUME ~frame_cancelled[current_frame], gfx_lists[current_frame] # <<>>
        PROVE  FALSE
    <3>1. gfx_lists[current_frame] \in Seq(Lists)
      BY <1>1 DEF TypeOK
    <3>2. 1 \in DOMAIN gfx_lists[current_frame]
      BY <2>1, <3>1, EmptySeq, LenProperties
    <3>3. gfx_lists[current_frame][1] \in Queued(current_frame)
      BY <3>2 DEF Queued
    <3>4. gfx_lists[current_frame][1] \in Open
      BY <1>1, <2>1, <3>3, QueuedTypes DEF Open
    <3>5. QED
      BY <1>1, <3>4
  <2>2. QED
    BY <2>1
<1>6. \A f \in FrameSlots : gfx_lists[f] = <<>> \/ frame_cancelled[f]
  BY <1>5 DEF IInv, Properties, NoLostSubmission
<1>7. current_frame' \in FrameSlots
  BY DEF TypeOK
<1>8. Open' = {}
  BY <1>2, <1>4, <1>6, <1>7, ThreadsAssumption DEF Open, Queued
<1>9. OpenInPool' /\ OpenUses'
  <2>1. ~frame_cancelled[current_frame'] => Queued(current_frame)' = {}
    BY <1>2, <1>6, <1>7 DEF Queued
  <2>2. QED
    BY <1>2, <1>4, <1>8, <2>1 DEF OpenInPool, OpenUses
<1>10. Settled'
  BY <1>2, <1>6, <1>7, <1>8 DEF Settled
<1>11. ExpiredOnce'
  BY <1>2 DEF IInv, ExpiredOnce
<1>12. ExpiresLater' /\ PassesYoung' /\ OwnLists'
  BY <1>3 DEF ExpiresLater, PassesYoung, OwnLists
<1>13. NoUseAfterFree' /\ PendingIntact' /\ FenceReady'
  BY <1>3 DEF NoUseAfterFree, PendingIntact, FenceReady
<1>14. WaitsMatchBatches'
  <2>1. DOMAIN gpu = {}
    BY <1>1, EmptySeq
  <2>2. \A f \in FrameSlots : ~AfterReset(f)
    BY <2>1 DEF AfterReset, IInv, Properties, WaitsMatchBatches
  <2>3. QED
    BY <1>2, <1>3, <2>2 DEF WaitsMatchBatches
<1>15. NoLostSubmission'
  BY <1>2, <1>6 DEF NoLostSubmission
<1>16. QED
  BY <1>9, <1>10, <1>11, <1>12, <1>13, <1>14, <1>15 DEF IInv, Properties

LEMMA DestroyDeviceStep ==
    ASSUME IInv, TypeOK', DestroyDevice
    PROVE  IInv'
<1> USE DEF gpuVars
<1>1. TypeOK /\ gpu = <<>> /\ gpu' = <<>> /\ \A t \in Threads : recording'[t] = NoList
  BY DEF IInv, DestroyDevice, NothingRecorded
<1>2. DOMAIN gpu' = {} /\ DOMAIN gpu = {}
  BY <1>1, EmptySeq
<1>3. /\ current_frame' = current_frame /\ current_frame \in FrameSlots
      /\ \A f \in FrameSlots : gfx_lists'[f] = <<>> /\ expired'[f] = {}
      /\ pc' = "destroyed" /\ phase' = phase
      /\ wait_fences' = wait_fences /\ signalled' = signalled
  BY <1>1 DEF TypeOK, DestroyDevice
<1>4. Queued(current_frame)' = {}
  BY <1>3 DEF Queued
<1>5. Open' = {}
  BY <1>1, <1>4, ThreadsAssumption DEF Open
<1>6. OpenInPool' /\ OpenUses' /\ Settled' /\ ExpiredOnce'
  BY <1>1, <1>3, <1>4, <1>5 DEF OpenInPool, OpenUses, Settled, ExpiredOnce
<1>7. ExpiresLater' /\ PassesYoung' /\ OwnLists'
  BY <1>2 DEF ExpiresLater, PassesYoung, OwnLists
<1>8. Properties'
  BY <1>2, <1>3 DEF IInv, Properties, NoUseAfterFree, PendingIntact, FenceReady,
     WaitsMatchBatches, NoLostSubmission
<1>9. QED
  BY <1>6, <1>7, <1>8 DEF IInv

LEMMA FinishBatchStep ==
    ASSUME IInv, TypeOK', FinishBatch
    PROVE  IInv'
<1> USE DEF FinishBatch, frameVars, poolVars, passVars
<1> DEFINE h == gpu[1].frame
<1>1. /\ TypeOK /\ gpu \in Seq(Batches) /\ gpu # <<>> /\ Len(gpu) \in Nat \ {0}
      /\ DOMAIN gpu = 1 .. Len(gpu)
  BY EmptySeq, LenProperties DEF IInv, TypeOK
<1>2. /\ gpu' = Tail(gpu) /\ DOMAIN gpu' = 1 .. Len(gpu) - 1
      /\ \A i \in DOMAIN gpu' : i + 1 \in DOMAIN gpu /\ gpu'[i] = gpu[i + 1]
      /\ Head(gpu) = gpu[1] /\ 1 \in DOMAIN gpu
  BY <1>1, HeadTailProperties, LenProperties
<1>3. signalled' = [signalled EXCEPT ![h] = TRUE] /\ h \in FrameSlots
  BY <1>1, <1>2, BatchTypes
<1>4. \A i \in DOMAIN gpu' : gpu'[i].frame # h
  BY <1>1, <1>2 DEF IInv, Properties, FenceReady
<1>5. Open' = Open
  BY DEF Open, Queued
<1>6. OpenInPool' /\ OpenUses' /\ Settled' /\ ExpiredOnce' /\ NoLostSubmission'
  BY <1>5 DEF IInv, OpenInPool, OpenUses, Settled, ExpiredOnce, Properties,
     NoLostSubmission, Queued
<1>7. NoUseAfterFree' /\ PendingIntact' /\ OwnLists'
  BY <1>2 DEF IInv, Properties, NoUseAfterFree, PendingIntact, OwnLists
<1>8. ExpiresLater' /\ PassesYoung'
  BY <1>2 DEF IInv, ExpiresLater, PassesYoung, Turns
<1>9. FenceReady'
  <2>1. \A i \in DOMAIN gpu' : ~signalled'[gpu'[i].frame]
    <3> TAKE i \in DOMAIN gpu'
    <3>1. gpu'[i].frame \in FrameSlots /\ gpu'[i].frame # h
      BY <1>1, <1>2, <1>4, BatchTypes
    <3>2. ~signalled[gpu'[i].frame]
      BY <1>2 DEF IInv, Properties, FenceReady
    <3>3. QED
      BY <1>1, <1>3, <3>1, <3>2 DEF TypeOK
  <2>2. ASSUME NEW i \in DOMAIN gpu', NEW j \in DOMAIN gpu', gpu'[i].frame = gpu'[j].frame
        PROVE  i = j
    <3>1. i + 1 = j + 1
      BY <1>2, <2>2 DEF IInv, Properties, FenceReady
    <3>2. QED
      BY <1>1, <1>2, <3>1
  <2>3. QED
    BY <2>1, <2>2 DEF FenceReady
<1>10. WaitsMatchBatches'
  <2>1. ASSUME NEW f \in FrameSlots
        PROVE  wait_fences[f] <=> signalled'[f] \/ \E i \in DOMAIN gpu' : gpu'[i].frame = f
    <3>1. CASE f = h
      <4>1. signalled'[f]
        BY <1>1, <1>3, <3>1 DEF TypeOK
      <4>2. wait_fences[f]
        BY <1>2, <3>1 DEF IInv, Properties, WaitsMatchBatches
      <4>3. QED
        BY <4>1, <4>2
    <3>2. CASE f # h
      <4>1. signalled'[f] = signalled[f]
        BY <1>1, <1>3, <3>2 DEF TypeOK
      <4>2. ASSUME NEW i \in DOMAIN gpu, gpu[i].frame = f
            PROVE  \E j \in DOMAIN gpu' : gpu'[j].frame = f
        <5>1. i # 1 /\ i \in Nat
          BY <1>1, <3>2, <4>2
        <5>2. i - 1 \in DOMAIN gpu' /\ gpu'[i - 1] = gpu[(i - 1) + 1] /\ (i - 1) + 1 = i
          BY <1>1, <1>2, <4>2, <5>1
        <5>3. QED
          BY <4>2, <5>2
      <4>3. (\E j \in DOMAIN gpu' : gpu'[j].frame = f) =>
                \E i \in DOMAIN gpu : gpu[i].frame = f
        BY <1>2
      <4>4. QED
        BY <4>1, <4>2, <4>3 DEF IInv, Properties, WaitsMatchBatches
    <3>3. QED
      BY <3>1, <3>2
  <2>2. QED
    BY <2>1 DEF WaitsMatchBatches
<1>11. QED
  BY <1>6, <1>7, <1>8, <1>9, <1>10 DEF IInv, Properties

LEMMA NextIInv == Disciplined /\ IInv /\ [Next]_vars => IInv'
<1> SUFFICES ASSUME Disciplined, IInv, [Next]_vars PROVE IInv'
  OBVIOUS
<1>1. TypeOK'
  BY NextTypes DEF IInv
<1>2. CASE UNCHANGED vars
  <2>1. Open' = Open
    BY <1>2 DEF Open, Queued, vars, frameVars
  <2>2. QED
    BY <1>1, <1>2, <2>1 DEF vars, frameVars, poolVars, passVars, gpuVars, IInv, Properties,
       NoUseAfterFree, PendingIntact, FenceReady, WaitsMatchBatches, NoLostSubmission,
       OpenInPool, OpenUses, Settled, ExpiredOnce, ExpiresLater, PassesYoung, OwnLists,
       Turns, Queued
<1>3. ASSUME NEW t \in Threads, Client(t)
      PROVE  IInv'
  BY <1>3, CreateStep, DestroyStep, RecordStep, SubmitStep DEF Client
<1>4. CASE FrameLoop
  BY <1>1, <1>4, NewFrameStep, EndFrameStep, CancelStep, DestroyDeviceStep DEF FrameLoop
<1>5. CASE BeginFrame
  BY <1>1, <1>5, StartFrameStep DEF BeginFrame
<1>6. CASE GpuIsIdle \/ FinishBatch
  BY <1>1, <1>6, GpuIsIdleStep, FinishBatchStep
<1>7. QED
  BY <1>2, <1>3, <1>4, <1>5, <1>6 DEF Next

(* The invariant holds in every state of every disciplined behaviour.      *)
THEOREM Invariance ==
    ASSUME Disciplined
    PROVE  Spec => []IInv
<1>1. IInv /\ [Next]_vars => IInv'
  BY NextIInv
<1>2. QED
  BY <1>1, InitIInv, PTL DEF Spec

(* Unfinished GPU work uses only what exists: deferred destruction frees   *)
(* no resource, and the cache evicts no render pass, that the GPU may      *)
(* still touch, however many frames are in flight.                         *)
THEOREM UseAfterFreeFree ==
    ASSUME Disciplined
    PROVE  Spec => []NoUseAfterFree
<1>1. IInv => NoUseAfterFree
  BY DEF IInv, Properties
<1>2. QED
  BY <1>1, Invariance, PTL

(* No pool is reset or trimmed under the GPU, and no list recorded again.  *)
THEOREM PendingListsIntact ==
    ASSUME Disciplined
    PROVE  Spec => []PendingIntact
<1>1. IInv => PendingIntact
  BY DEF IInv, Properties
<1>2. QED
  BY <1>1, Invariance, PTL

(* Fences are at rest when they are submitted, and are waited for exactly  *)
(* when something will signal them (submit, gfx_device_wait_for_fences).   *)
THEOREM FencesSound ==
    ASSUME Disciplined
    PROVE  Spec => [](FenceReady /\ WaitsMatchBatches)
<1>1. IInv => FenceReady /\ WaitsMatchBatches
  BY DEF IInv, Properties
<1>2. QED
  BY <1>1, Invariance, PTL

(* No list that was queued for submission is dropped by the frame that     *)
(* queued it.                                                              *)
THEOREM SubmissionsKept ==
    ASSUME Disciplined
    PROVE  Spec => []NoLostSubmission
<1>1. IInv => NoLostSubmission
  BY DEF IInv, Properties
<1>2. QED
  BY <1>1, Invariance, PTL

-----------------------------------------------------------------------------
(* The device implements ResourceLifetime.                                 *)

Existing == live \cup cached
Running == [i \in 1 .. Len(gpu) |-> gpu[i].uses]
Objects == Resources \cup RenderPasses

LEMMA InitLifetime == Init => Lifetime!Init
<1> SUFFICES ASSUME Init PROVE Lifetime!Init
  OBVIOUS
<1>1. Len(gpu) = 0 /\ live \cup cached = {}
  BY EmptySeq DEF Init
<1>2. Running = <<>>
  BY <1>1 DEF Running
<1>3. QED
  BY <1>1, <1>2 DEF Lifetime!Init, Running

LEMMA StepLifetime ==
    ASSUME Disciplined, IInv, IInv', [Next]_vars
    PROVE  [Lifetime!Next]_(Lifetime!vars)
<1>1. /\ TypeOK /\ live \subseteq Resources /\ cached \subseteq RenderPasses
      /\ gpu \in Seq(Batches) /\ Len(gpu) \in Nat /\ DOMAIN gpu = 1 .. Len(gpu)
  BY LenProperties DEF IInv, TypeOK
<1>2. Existing \subseteq Objects /\ Existing' \subseteq Objects
  BY DEF IInv, TypeOK, Existing, Objects
<1>3. ASSUME Existing' = Existing, Running' = Running
      PROVE  [Lifetime!Next]_(Lifetime!vars)
  BY <1>3 DEF Lifetime!vars, Existing, Running
<1>4. ASSUME NEW S \in SUBSET Objects, Existing' = Existing \cup S, Running' = Running
      PROVE  Lifetime!Next
  BY <1>4 DEF Lifetime!Next, Lifetime!Create, Existing, Running, Objects
<1>5. ASSUME NEW S \in SUBSET Objects, S \subseteq Existing, Existing' = Existing,
             Running' = Append(Running, S)
      PROVE  Lifetime!Next
  BY <1>5 DEF Lifetime!Next, Lifetime!Start, Existing, Running, Objects
<1>6. ASSUME Running # <<>>, Existing' = Existing, Running' = Tail(Running)
      PROVE  Lifetime!Next
  BY <1>6 DEF Lifetime!Next, Lifetime!Finish, Existing, Running
<1>7. ASSUME NEW S \in SUBSET Objects, \A i \in DOMAIN gpu : gpu[i].uses \cap S = {},
             Existing' = Existing \ S, Running' = Running
      PROVE  Lifetime!Next
  <2>1. S \cap UNION {Running[i] : i \in DOMAIN Running} = {}
    BY <1>1, <1>7 DEF Running
  <2>2. QED
    BY <1>7, <2>1
    DEF Lifetime!Next, Lifetime!Free, Lifetime!InUse, Existing, Running, Objects
<1>8. CASE UNCHANGED vars
  BY <1>3, <1>8 DEF vars, passVars, gpuVars, Existing, Running
<1>9. ASSUME NEW t \in Threads, Client(t)
      PROVE  [Lifetime!Next]_(Lifetime!vars)
  <2>1. ASSUME NEW r \in Resources, CreateResource(t, r)
        PROVE  [Lifetime!Next]_(Lifetime!vars)
    <3>1. Existing' = Existing \cup {r} /\ Running' = Running /\ {r} \in SUBSET Objects
      BY <2>1 DEF CreateResource, passVars, gpuVars, Existing, Running, Objects
    <3>2. QED
      BY <1>4, <3>1
  <2>2. ASSUME NEW r \in Resources, DestroyResource(t, r)
        PROVE  [Lifetime!Next]_(Lifetime!vars)
    BY <1>3, <2>2 DEF DestroyResource, passVars, gpuVars, Existing, Running
  <2>3. ASSUME NEW R \in SUBSET Resources, NEW K \in SUBSET RenderPasses, Record(t, R, K)
        PROVE  [Lifetime!Next]_(Lifetime!vars)
    <3>1. Existing' = Existing \cup K /\ Running' = Running /\ K \in SUBSET Objects
      BY <2>3 DEF Record, gpuVars, Existing, Running, Objects
    <3>2. QED
      BY <1>4, <3>1
  <2>4. CASE Submit(t)
    BY <1>3, <2>4 DEF Submit, passVars, gpuVars, Existing, Running
  <2>5. QED
    BY <1>9, <2>1, <2>2, <2>3, <2>4 DEF Client
<1>10. ASSUME MayChangeFrame, ExecuteQueued
       PROVE  [Lifetime!Next]_(Lifetime!vars)
  <2> DEFINE b == [frame |-> current_frame, lists |-> Queued(current_frame),
                   uses |-> UNION {uses[l] : l \in Queued(current_frame)}]
  <2>1. Existing' = Existing
    BY <1>10 DEF ExecuteQueued, passVars, Existing
  <2>2. CASE ~Submits
    BY <1>3, <1>10, <2>1, <2>2 DEF ExecuteQueued, Running
  <2>3. CASE Submits
    <3>1. gpu' = Append(gpu, b)
      BY <1>10, <2>3 DEF ExecuteQueued
    <3>2. b.uses \subseteq Existing
      <4>1. Queued(current_frame) \subseteq Open
        BY <1>1, <2>3, QueuedTypes DEF Submits, Open, TypeOK
      <4>2. QED
        BY <4>1 DEF IInv, OpenUses, Existing
    <3>3. b \in Batches
      BY <1>1, <1>2, <3>2, QueuedTypes DEF TypeOK, Batches, Objects
    <3> HIDE DEF b
    <3>4. /\ Len(gpu') = Len(gpu) + 1 /\ gpu'[Len(gpu) + 1] = b
          /\ \A i \in 1 .. Len(gpu) : gpu'[i] = gpu[i]
      BY <1>1, <3>1, <3>3, AppendProperties
    <3>5. /\ Running \in Seq(SUBSET Objects) /\ Len(Running) = Len(gpu)
          /\ \A i \in 1 .. Len(gpu) : Running[i] = gpu[i].uses
      <4>1. \A i \in 1 .. Len(gpu) : gpu[i].uses \in SUBSET Objects
        BY <1>1, BatchTypes DEF Objects
      <4>2. Running \in [1 .. Len(gpu) -> SUBSET Objects]
        BY <4>1 DEF Running
      <4>3. Running \in Seq(SUBSET Objects)
        BY <1>1, <4>2
      <4>4. QED
        BY <1>1, <4>2, <4>3, LenProperties DEF Running
    <3>6. b.uses \in SUBSET Objects
      BY <1>2, <3>2
    <3>7. Running' = Append(Running, b.uses)
      <4> DEFINE u == Append(Running, b.uses)
      <4>1. /\ u \in Seq(SUBSET Objects) /\ Len(u) = Len(gpu) + 1
            /\ u[Len(gpu) + 1] = b.uses
            /\ \A i \in 1 .. Len(gpu) : u[i] = gpu[i].uses
        BY <3>5, <3>6, AppendProperties
      <4>2. DOMAIN u = 1 .. Len(gpu) + 1
        BY <4>1, LenProperties
      <4> HIDE DEF u
      <4>3. u = [i \in 1 .. Len(gpu) + 1 |-> u[i]]
        BY <4>1, <4>2
      <4>4. \A i \in 1 .. Len(gpu) + 1 : u[i] = gpu'[i].uses
        BY <1>1, <3>4, <4>1
      <4>5. Running' = [i \in 1 .. Len(gpu) + 1 |-> gpu'[i].uses]
        BY <3>4 DEF Running
      <4>6. Running' = u
        BY <4>3, <4>4, <4>5
      <4>7. QED
        BY <4>6 DEF u
    <3>8. QED
      BY <1>5, <2>1, <3>2, <3>6, <3>7
  <2>4. QED
    BY <2>2, <2>3
<1>11. CASE NewFrame \/ CancelFrame
  BY <1>3, <1>11 DEF NewFrame, CancelFrame, passVars, gpuVars, Existing, Running
<1>12. CASE EndFrame \/ WaitGpuIdle
  BY <1>10, <1>12 DEF EndFrame, WaitGpuIdle
<1>13. CASE GpuIsIdle
  BY <1>3, <1>13 DEF GpuIsIdle, passVars, Existing, Running
<1>14. ASSUME Existing' \subseteq Existing, gpu' = gpu
       PROVE  Lifetime!Next
  <2> DEFINE S == Existing \ Existing'
  <2>1. \A i \in DOMAIN gpu : gpu[i].uses \cap S = {}
    BY <1>14 DEF IInv, Properties, NoUseAfterFree, Existing
  <2>2. S \in SUBSET Objects /\ Existing' = Existing \ S /\ Running' = Running
    BY <1>2, <1>14 DEF Running
  <2> HIDE DEF S
  <2>3. QED
    BY <1>7, <2>1, <2>2
<1>15. ASSUME NEW evicted, NEW skipped, StartFrame(evicted, skipped)
       PROVE  Lifetime!Next
  <2>1. Existing' \subseteq Existing /\ gpu' = gpu
    BY <1>15 DEF StartFrame, AgeRenderPasses, Existing
  <2>2. QED
    BY <1>14, <2>1
<1>16. CASE DestroyDevice
  <2>1. Existing' \subseteq Existing /\ gpu' = gpu
    BY <1>16 DEF DestroyDevice, gpuVars, Existing
  <2>2. QED
    BY <1>14, <2>1
<1>17. CASE FinishBatch
  <2>1. Existing' = Existing /\ gpu' = Tail(gpu) /\ gpu # <<>>
    BY <1>17 DEF FinishBatch, passVars, Existing
  <2>2. /\ Len(gpu) \in Nat \ {0} /\ Len(gpu') = Len(gpu) - 1
        /\ \A i \in 1 .. Len(gpu) - 1 : gpu'[i] = gpu[i + 1]
    BY <1>1, <2>1, EmptySeq, HeadTailProperties
  <2>3. Running # <<>> /\ Running' = Tail(Running)
    <3>1. /\ Running \in Seq(SUBSET Objects) /\ Len(Running) = Len(gpu)
          /\ \A i \in 1 .. Len(gpu) : Running[i] = gpu[i].uses
      <4>1. \A i \in 1 .. Len(gpu) : gpu[i].uses \in SUBSET Objects
        BY <1>1, BatchTypes DEF Objects
      <4>2. Running \in [1 .. Len(gpu) -> SUBSET Objects]
        BY <4>1 DEF Running
      <4>3. Running \in Seq(SUBSET Objects)
        BY <1>1, <4>2
      <4>4. QED
        BY <1>1, <4>2, <4>3, LenProperties DEF Running
    <3>2. Running # <<>>
      BY <2>2, <3>1, EmptySeq
    <3> DEFINE u == Tail(Running)
    <3>3. /\ u \in Seq(SUBSET Objects) /\ Len(u) = Len(gpu) - 1
          /\ \A i \in 1 .. Len(gpu) - 1 : u[i] = Running[i + 1]
      BY <3>1, <3>2, HeadTailProperties
    <3> HIDE DEF u
    <3>4. u = [i \in 1 .. Len(gpu) - 1 |-> u[i]]
      BY <3>3, LenProperties
    <3>5. \A i \in 1 .. Len(gpu) - 1 : u[i] = gpu'[i].uses
      BY <2>2, <3>1, <3>3
    <3>6. Running' = [i \in 1 .. Len(gpu) - 1 |-> gpu'[i].uses]
      BY <2>2 DEF Running
    <3>7. QED
      BY <3>2, <3>4, <3>5, <3>6 DEF u
  <2>4. QED
    BY <1>6, <2>1, <2>3
<1>18. QED
  BY <1>8, <1>9, <1>11, <1>12, <1>13, <1>15, <1>16, <1>17
  DEF Next, FrameLoop, BeginFrame

(* The disciplined device implements ResourceLifetime: objects are freed   *)
(* only when no unfinished work refers to them, and work starts only on    *)
(* objects that exist.                                                     *)
THEOREM ImplementsLifetime ==
    ASSUME Disciplined
    PROVE  Spec => KeepsLifetimes
<1>1. IInv /\ IInv' /\ [Next]_vars => [Lifetime!Next]_(Lifetime!vars)
  BY StepLifetime
<1>2. QED
  BY <1>1, InitLifetime, Invariance, PTL DEF Spec, KeepsLifetimes, Lifetime!Spec
=============================================================================
