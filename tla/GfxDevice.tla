----------------------------- MODULE GfxDevice -----------------------------
(***************************************************************************)
(* gfx::Device of engine/gfx: a ring of frames in flight, each with its    *)
(* command pools, the lists it will submit, the resources to destroy when  *)
(* its slot comes round again and the fences to wait for then; and the GPU *)
(* that executes what is submitted. Resources stand for buffers, textures, *)
(* views, shaders, layouts, samplers, swapchains and semaphores, which the *)
(* device treats alike; render passes live in a cache that evicts.         *)
(***************************************************************************)
EXTENDS Integers, Sequences, FiniteSets

CONSTANTS
    Main,               \* the thread that runs the frame loop
    Helpers,            \* other threads that record and submit lists
    Resources,          \* slots of the device's sparse arrays
    RenderPasses,       \* keys of the render pass cache
    NoList,             \* a thread is recording no list
    max_frames_in_flight,
    max_lifetime,       \* LifetimeHashMap::default_lifetime
    MaxLists,           \* bound: command lists allocated from a pool
    Uses                \* what clients do beyond the disciplined use

Threads == {Main} \cup Helpers
FrameSlots == 0 .. max_frames_in_flight - 1
Lists == FrameSlots \X Threads \X (0 .. MaxLists - 1)

(***************************************************************************)
(* Disciplined clients submit lists between a frame's start and its end,   *)
(* and record no list across a change of frame.                            *)
(*   outside   lists are also submitted after end_frame, and in a frame    *)
(*             that is left without end_frame                              *)
(*   straddle  other threads record and submit while the frame changes     *)
(***************************************************************************)
Features == {"outside", "straddle"}

ASSUME ThreadsAssumption == Main \notin Helpers /\ NoList \notin Lists
ASSUME ObjectsAssumption == Resources \cap RenderPasses = {}
ASSUME FramesAssumption ==
    /\ max_frames_in_flight \in Nat \ {0}
    /\ max_lifetime \in Nat
    /\ max_frames_in_flight <= max_lifetime + 1
ASSUME UsesAssumption == MaxLists \in Nat /\ Uses \subseteq Features

VARIABLES
    current_frame, first_frame,
    pc,                 \* what the main thread is doing, see Places
    phase,              \* ghost: how far the client is in the frame, see Phases
    gfx_lists, gfx_submitted, frame_cancelled, expired,     \* struct Frame
    wait_fences,        \* does a frame's wait_fences hold its gfx_fence?
    command_lists,      \* how many lists each pool holds
    free_command_list,  \* the next list each pool hands out
    state,              \* of each command list
    uses,               \* what the commands of each unsubmitted list refer to
    recording,          \* the list each thread is recording
    live,               \* the occupied slots of the sparse arrays
    frames,             \* the render pass cache: frames since the last find
    cached,             \* the render passes that are in it
    signalled,          \* is a frame's gfx_fence signalled?
    gpu                 \* the batches submitted and not finished, oldest first

frameVars == <<gfx_lists, gfx_submitted, frame_cancelled, wait_fences>>
poolVars == <<command_lists, free_command_list, state, uses>>
passVars == <<frames, cached>>
gpuVars == <<signalled, gpu>>
vars == <<current_frame, first_frame, pc, phase, frameVars, expired, poolVars,
          recording, live, passVars, gpuVars>>

Places == {"client", "fence", "idle", "destroyed"}
Phases == {"fresh", "idle", "used", "ended"}
ListStates == {"none", "initial", "recording", "executable"}
Batches == [frame : FrameSlots, lists : SUBSET Lists,
            uses : SUBSET (Resources \cup RenderPasses)]

PoolOf(f) == {l \in Lists : l[1] = f}
Queued(f) == {gfx_lists[f][i] : i \in DOMAIN gfx_lists[f]}
Expiring == UNION {expired[f] : f \in FrameSlots}
NothingRecorded == \A t \in Threads : recording[t] = NoList

Init ==
    /\ current_frame = 0 /\ first_frame = TRUE
    /\ pc = "client" /\ phase = "fresh"
    /\ gfx_lists = [f \in FrameSlots |-> <<>>]
    /\ gfx_submitted = [f \in FrameSlots |-> FALSE]
    /\ frame_cancelled = [f \in FrameSlots |-> FALSE]
    /\ expired = [f \in FrameSlots |-> {}]
    /\ wait_fences = [f \in FrameSlots |-> FALSE]
    /\ command_lists = [f \in FrameSlots |-> [t \in Threads |-> 0]]
    /\ free_command_list = [f \in FrameSlots |-> [t \in Threads |-> 0]]
    /\ state = [l \in Lists |-> "none"]
    /\ uses = [l \in Lists |-> {}]
    /\ recording = [t \in Threads |-> NoList]
    /\ live = {}
    /\ frames = [k \in RenderPasses |-> 0] /\ cached = {}
    /\ signalled = [f \in FrameSlots |-> FALSE]
    /\ gpu = <<>>

-----------------------------------------------------------------------------
(* Threads: create, record, destroy and submit.                            *)

MayRecord(t) ==
    IF "straddle" \in Uses /\ t # Main THEN pc # "destroyed" ELSE pc = "client"

(* create_buffer, create_texture, ...: a free slot of the sparse array.    *)
CreateResource(t, r) ==
    /\ MayRecord(t)
    /\ r \notin live
    /\ live' = live \cup {r}
    /\ UNCHANGED <<current_frame, first_frame, pc, phase, frameVars, expired,
                   poolVars, recording, passVars, gpuVars>>

(* Pool::allocate_cmd_list hands out the next free list, or a new one when *)
(* free_command_list has reached the lists the pool holds.                 *)
NextList(f, t) ==
    LET n == command_lists[f][t] IN
    <<f, t, IF free_command_list[f][t] < n THEN free_command_list[f][t] ELSE n>>

(* allocate_cmd_list, then the commands of the list: they refer to the     *)
(* resources in R and begin the render passes in K, which are found in the *)
(* cache, or created and inserted. Nobody records a use of a resource it   *)
(* has passed to a destroy function.                                       *)
Record(t, R, K) ==
    LET f == current_frame
        l == NextList(f, t) IN
    /\ MayRecord(t)
    /\ phase # "ended" \/ "outside" \in Uses
    /\ recording[t] = NoList
    /\ l \in Lists /\ free_command_list[f][t] <= MaxLists
    /\ R \subseteq live \ Expiring
    /\ command_lists' = [command_lists EXCEPT ![f][t] =
                            IF l[3] = @ THEN @ + 1 ELSE @]
    /\ free_command_list' = [free_command_list EXCEPT ![f][t] = @ + 1]
    /\ state' = [state EXCEPT ![l] = "recording"]
    /\ uses' = [uses EXCEPT ![l] = R \cup K]
    /\ recording' = [recording EXCEPT ![t] = l]
    /\ cached' = cached \cup K
    /\ frames' = [k \in RenderPasses |-> IF k \in K THEN 0 ELSE frames[k]]
    /\ UNCHANGED <<current_frame, first_frame, pc, phase, frameVars, expired,
                   live, gpuVars>>

(* destroy_buffer, destroy_texture, ...: the handle joins the lists of     *)
(* expired resources of the current frame.                                 *)
\* mutant: of the frame that comes next
NextSlot == (current_frame + 1) % max_frames_in_flight
ExpiresIn == current_frame

DestroyResource(t, r) ==
    /\ MayRecord(t)
    /\ r \in live \ Expiring
    /\ expired' = [expired EXCEPT ![ExpiresIn] = @ \cup {r}]
    /\ UNCHANGED <<current_frame, first_frame, pc, phase, frameVars, poolVars,
                   recording, live, passVars, gpuVars>>

(* submit: end the list and queue it in what is now the current frame.     *)
Submit(t) ==
    LET l == recording[t] IN
    /\ MayRecord(t)
    /\ l # NoList
    /\ state' = [state EXCEPT ![l] = IF @ = "recording" THEN "executable" ELSE @]
    /\ gfx_lists' = [gfx_lists EXCEPT ![current_frame] = Append(@, l)]
    /\ recording' = [recording EXCEPT ![t] = NoList]
    /\ phase' = IF phase = "ended" THEN "ended" ELSE "used"
    /\ UNCHANGED <<current_frame, first_frame, pc, gfx_submitted, frame_cancelled,
                   wait_fences, expired, command_lists, free_command_list, uses,
                   live, passVars, gpuVars>>

-----------------------------------------------------------------------------
(* The frame loop of the main thread.                                      *)

(* The frame changes only when nobody is recording.                        *)
MayChangeFrame ==
    /\ pc = "client"
    /\ recording[Main] = NoList
    /\ "straddle" \in Uses \/ NothingRecorded

(* wait_fences.push_back(gfx_fence), next to the submission.               *)
\* mutant: done whether or not something is submitted
AlwaysWaited(submits) == TRUE
WaitsFor(submits) == submits

(* end_frame: unless the frame was cancelled, submit_queue executes what   *)
(* is queued with the frame's fence, which joins wait_fences.              *)
Submits == ~frame_cancelled[current_frame] /\ gfx_lists[current_frame] # <<>>

ExecuteQueued ==
    LET f == current_frame IN
    /\ gpu' = IF Submits
              THEN Append(gpu, [frame |-> f, lists |-> Queued(f),
                                uses |-> UNION {uses[l] : l \in Queued(f)}])
              ELSE gpu
    /\ gfx_lists' = [gfx_lists EXCEPT ![f] = IF Submits THEN <<>> ELSE @]
    /\ gfx_submitted' = [gfx_submitted EXCEPT ![f] = @ \/ Submits]
    /\ wait_fences' = [wait_fences EXCEPT ![f] = @ \/ WaitsFor(Submits)]
    /\ uses' = [l \in Lists |-> IF Submits /\ l \in Queued(f) THEN {} ELSE uses[l]]
    /\ UNCHANGED <<current_frame, first_frame, frame_cancelled, expired,
                   command_lists, free_command_list, state, recording, live,
                   passVars, signalled>>

EndFrame ==
    /\ MayChangeFrame
    /\ phase # "ended"
    /\ ExecuteQueued
    /\ phase' = "ended"
    /\ UNCHANGED pc

CancelFrame ==
    /\ pc = "client"
    /\ frame_cancelled' = [frame_cancelled EXCEPT ![current_frame] = TRUE]
    /\ UNCHANGED <<current_frame, first_frame, pc, phase, gfx_lists, gfx_submitted,
                   wait_fences, expired, poolVars, recording, live, passVars, gpuVars>>

(* The first call of new_frame only notes that it was the first; any other *)
(* moves to the next slot, then waits for the fences of that slot.         *)
\* mutant: the first call is like any other
NeverFirst == FALSE
IsFirst == first_frame

Advance ==
    /\ first_frame' = FALSE
    /\ current_frame' =
           IF IsFirst THEN current_frame ELSE (current_frame + 1) % max_frames_in_flight
    /\ pc' = IF IsFirst THEN "client" ELSE "fence"

NewFrame ==
    /\ MayChangeFrame
    /\ phase # "used" \/ first_frame \/ "outside" \in Uses
    /\ Advance
    /\ phase' = IF IsFirst THEN phase ELSE "fresh"
    /\ UNCHANGED <<frameVars, expired, poolVars, recording, live, passVars, gpuVars>>

(* LifetimeHashMap::new_frame: frames++ >= max_lifetime.                   *)
\* mutants: evicted at once; kept a frame too long
AlwaysTooOld(k) == TRUE
LateTooOld(k) == frames[k] > max_lifetime
TooOld(k) == frames[k] >= max_lifetime

(* The pass over the cache ages what it visits and evicts what is too old. *)
(* It erases from the map it iterates over, which moves the entry that     *)
(* follows under the iterator: entries may be skipped once one is erased.  *)
AgeRenderPasses(evicted, skipped) ==
    /\ evicted \cup skipped \subseteq cached
    /\ evicted \cap skipped = {}
    /\ \A k \in cached \ skipped : k \in evicted <=> TooOld(k)
    /\ evicted = {} => skipped = {}
    /\ cached' = cached \ evicted
    /\ frames' = [k \in RenderPasses |->
                     IF k \in cached' \ skipped THEN frames[k] + 1
                     ELSE IF k \in cached' THEN frames[k] ELSE 0]

(* wait_for_fences returns once every fence the frame waits for is         *)
(* signalled, and reset_fences makes those unsignalled again.              *)
\* mutant: the wait is left out
Unwaited(f) == TRUE
FencesDone(f) == wait_fences[f] => signalled[f]

\* mutant: the reset is left out
StaysSignalled(f) == signalled[f]
AfterReset(f) == signalled[f] /\ ~wait_fences[f]

(* free_resources removes from the sparse arrays what has expired in the   *)
(* slot, whatever became of the frame that expired it; the removal runs    *)
(* the destructor, which destroys the backend object.                      *)
\* mutant: only if that frame submitted something
FreedIfSubmitted(f) == IF gfx_submitted[f] THEN expired[f] ELSE {}
Freed(f) == expired[f]

(* The rest of new_frame, once the fences of the slot are signalled.       *)
StartFrame(evicted, skipped) ==
    LET f == current_frame IN
    /\ pc = "fence"
    /\ FencesDone(f)
    /\ signalled' = [signalled EXCEPT ![f] = AfterReset(f)]
    /\ wait_fences' = [wait_fences EXCEPT ![f] = FALSE]
    /\ AgeRenderPasses(evicted, skipped)
    /\ live' = live \ Freed(f)
    /\ expired' = [expired EXCEPT ![f] = {}]
    /\ free_command_list' =
           IF gfx_submitted[f]
           THEN [free_command_list EXCEPT ![f] = [t \in Threads |-> 0]]
           ELSE free_command_list
    /\ state' = [l \in Lists |->
                    IF gfx_submitted[f] /\ l \in PoolOf(f) /\ state[l] # "none"
                    THEN "initial" ELSE state[l]]
    /\ uses' = [l \in Lists |->
                    IF gfx_submitted[f] /\ l \in PoolOf(f) THEN {} ELSE uses[l]]
    /\ gfx_submitted' = [gfx_submitted EXCEPT ![f] = FALSE]
    /\ gfx_lists' = [gfx_lists EXCEPT ![f] = <<>>]
    /\ frame_cancelled' = [frame_cancelled EXCEPT ![f] = FALSE]
    /\ pc' = "client"
    /\ UNCHANGED <<current_frame, first_frame, phase, command_lists, recording, gpu>>

(* wait_gpu_idle: end_frame and device_wait_idle ...                       *)
WaitGpuIdle ==
    /\ MayChangeFrame
    /\ ExecuteQueued
    /\ pc' = "idle"
    /\ UNCHANGED phase

(* ... then, with the GPU idle, reset the fences that are waited for, trim *)
(* the pools and call new_frame. Trimming frees the lists of every pool    *)
(* but leaves free_command_list.                                           *)
GpuIsIdle ==
    /\ pc = "idle"
    /\ gpu = <<>>
    /\ signalled' = [f \in FrameSlots |-> AfterReset(f)]
    /\ wait_fences' = [f \in FrameSlots |-> FALSE]
    /\ command_lists' = [f \in FrameSlots |-> [t \in Threads |-> 0]]
    /\ state' = [l \in Lists |-> "none"]
    /\ uses' = [l \in Lists |-> {}]
    /\ Advance
    /\ phase' = "idle"
    /\ UNCHANGED <<gfx_lists, gfx_submitted, frame_cancelled, expired,
                   free_command_list, recording, live, passVars, gpu>>

(* Device::destroy waits for nothing: the application has waited before.   *)
DestroyDevice ==
    /\ MayChangeFrame
    /\ phase = "idle" /\ gpu = <<>> /\ NothingRecorded
    /\ pc' = "destroyed"
    /\ live' = live \ Expiring
    /\ expired' = [f \in FrameSlots |-> {}]
    /\ gfx_lists' = [f \in FrameSlots |-> <<>>]
    /\ gfx_submitted' = [f \in FrameSlots |-> FALSE]
    /\ frame_cancelled' = [f \in FrameSlots |-> FALSE]
    /\ command_lists' = [f \in FrameSlots |-> [t \in Threads |-> 0]]
    /\ state' = [l \in Lists |-> "none"]
    /\ uses' = [l \in Lists |-> {}]
    /\ cached' = {}
    /\ frames' = [k \in RenderPasses |-> 0]
    /\ UNCHANGED <<current_frame, first_frame, phase, wait_fences, free_command_list,
                   recording, gpuVars>>

(* The GPU finishes its oldest batch and signals the fence given with it.  *)
FinishBatch ==
    /\ gpu # <<>>
    /\ signalled' = [signalled EXCEPT ![Head(gpu).frame] = TRUE]
    /\ gpu' = Tail(gpu)
    /\ UNCHANGED <<current_frame, first_frame, pc, phase, frameVars, expired, poolVars,
                   recording, live, passVars>>

-----------------------------------------------------------------------------
BeginFrame ==
    \E evicted \in SUBSET RenderPasses : \E skipped \in SUBSET RenderPasses :
        StartFrame(evicted, skipped)
FrameLoop == NewFrame \/ EndFrame \/ CancelFrame \/ WaitGpuIdle \/ DestroyDevice
Client(t) ==
    \/ \E r \in Resources : CreateResource(t, r) \/ DestroyResource(t, r)
    \/ \E R \in SUBSET Resources : \E K \in SUBSET RenderPasses : Record(t, R, K)
    \/ Submit(t)

Next ==
    \/ \E t \in Threads : Client(t)
    \/ FrameLoop
    \/ BeginFrame
    \/ GpuIsIdle
    \/ FinishBatch

Spec == Init /\ [][Next]_vars

(* The GPU keeps working, and a blocked call returns once it can.          *)
FairSpec == Spec /\ WF_vars(FinishBatch) /\ WF_vars(BeginFrame) /\ WF_vars(GpuIsIdle)

-----------------------------------------------------------------------------
TypeOK ==
    /\ current_frame \in FrameSlots /\ first_frame \in BOOLEAN
    /\ pc \in Places /\ phase \in Phases
    /\ gfx_lists \in [FrameSlots -> Seq(Lists)]
    /\ gfx_submitted \in [FrameSlots -> BOOLEAN]
    /\ frame_cancelled \in [FrameSlots -> BOOLEAN]
    /\ expired \in [FrameSlots -> SUBSET Resources]
    /\ wait_fences \in [FrameSlots -> BOOLEAN]
    /\ command_lists \in [FrameSlots -> [Threads -> 0 .. MaxLists]]
    /\ free_command_list \in [FrameSlots -> [Threads -> 0 .. MaxLists + 1]]
    /\ state \in [Lists -> ListStates]
    /\ uses \in [Lists -> SUBSET (Resources \cup RenderPasses)]
    /\ recording \in [Threads -> Lists \cup {NoList}]
    /\ live \subseteq Resources
    /\ cached \subseteq RenderPasses
    /\ frames \in [RenderPasses -> 0 .. max_lifetime]
    /\ signalled \in [FrameSlots -> BOOLEAN]
    /\ gpu \in Seq(Batches)

(* Work that the GPU has not finished refers only to resources and render  *)
(* passes that exist: free_resources destroys what is known to have been   *)
(* processed, and the cache evicts no pass that is still in use.           *)
NoUseAfterFree == \A i \in DOMAIN gpu : gpu[i].uses \subseteq live \cup cached

(* While the GPU executes a command list, nobody resets its pool, frees it *)
(* or records it again: it stays as it was when it was submitted.          *)
PendingIntact ==
    \A i \in DOMAIN gpu : \A l \in gpu[i].lists : state[l] = "executable"

(* A fence is given to queue_execute only when it is not signalled and no  *)
(* other unfinished batch will signal it.                                  *)
FenceReady ==
    /\ \A i \in DOMAIN gpu : ~signalled[gpu[i].frame]
    /\ \A i, j \in DOMAIN gpu : gpu[i].frame = gpu[j].frame => i = j

(* new_frame never waits for a fence that nothing will signal, and never   *)
(* leaves a batch of a slot without waiting for it.                        *)
WaitsMatchBatches ==
    \A f \in FrameSlots :
        wait_fences[f] <=> signalled[f] \/ \E i \in DOMAIN gpu : gpu[i].frame = f

(* "All submissions are processed at the end of the frame" (Gfx.h:898): no *)
(* list is left queued in a slot the device has moved on from, unless that *)
(* frame was cancelled; its next reset would drop the list.                *)
NoLostSubmission ==
    \A f \in FrameSlots \ {current_frame} : gfx_lists[f] = <<>> \/ frame_cancelled[f]

(* new_frame and wait_gpu_idle return.                                     *)
FramesStart == pc \in {"fence", "idle"} ~> pc = "client"

(* If frames keep starting, what was passed to a destroy function is freed *)
(* in the end: no expired list is cleared without being freed, and every   *)
(* slot comes round again.                                                 *)
ExpiredAreFreed ==
    []<><<BeginFrame>>_vars => \A r \in Resources : (r \in Expiring) ~> (r \notin live)

(* The device keeps the promise of ResourceLifetime.                       *)
Lifetime == INSTANCE ResourceLifetime WITH
    Objects <- Resources \cup RenderPasses,
    existing <- live \cup cached,
    running <- [i \in 1 .. Len(gpu) |-> gpu[i].uses]
KeepsLifetimes == Lifetime!Spec
=============================================================================
