---------------------------- MODULE VulkanCaches ----------------------------
(***************************************************************************)
(* Two caches of the Vulkan backend: the framebuffers made for texture     *)
(* views, and the descriptor sets a pipeline layout has written. Both are  *)
(* keyed by addresses, count the frames since an entry was last asked for, *)
(* and drop it when they reach MaxLifetime, whatever the GPU is doing; it  *)
(* is the order of the frames that makes this right.                       *)
(*                                                                         *)
(* The frames are those of Device, with one list per frame.                *)
(***************************************************************************)
EXTENDS Naturals, Sequences, Functions

CONSTANTS
    FramesInFlight, MaxLifetime, SetsPerPool,
    Views,          \* addresses of texture views
    Framebuffers,   \* framebuffers that may exist at once
    Sets,           \* descriptor sets somebody may still refer to at once
    Null,
    Scopes          \* bounds: the views a behaviour draws to and those it binds

ASSUME LifetimeAssumption ==
    /\ {FramesInFlight, MaxLifetime, SetsPerPool} \subseteq Nat \ {0}
    /\ FramesInFlight + 2 <= MaxLifetime
ASSUME NullAssumption ==
    /\ Null \notin Views \cup Framebuffers \cup Sets
    /\ Framebuffers \cap Sets = {}
ASSUME ScopesAssumption == Scopes \subseteq [attachments : SUBSET Views, textures : SUBSET Views]

VARIABLES
    phase, current_frame,
    recording,          \* <<object, view>>: what the frame's list uses, and for which view
    executing,          \* per slot, the uses of the list the GPU has not finished
    views,              \* where a texture view is that clients use
    expired,            \* per slot, the views to be freed
    rested,             \* history: the new_frame calls since the view there was freed
    framebuffers, descriptor_sets,
    free_descriptor_sets,
    allocations,        \* of the last descriptor pool; the others are full
    contents,           \* per set, the view its descriptors were written for
    outdated,           \* what is held or used, and made with a view that has been freed
    scope

Slots == 0 .. FramesInFlight - 1
Objects == Framebuffers \cup Sets

frames == <<phase, current_frame, recording, executing>>
heap == <<views, expired, rested>>
pools == <<free_descriptor_sets, allocations, contents>>
cacheVars == <<frames, heap, framebuffers, descriptor_sets, pools, outdated, scope>>

None == [object |-> Null, lifetime |-> 0]

(* Bound of rested: by then what was made with the view has expired.       *)
Enough == MaxLifetime - FramesInFlight

CachesInit ==
    /\ phase = "startup" /\ current_frame = 0
    /\ recording = {} /\ executing = [s \in Slots |-> {}]
    /\ views = {}
    /\ expired = [s \in Slots |-> {}]
    /\ rested = [v \in Views |-> Enough]
    /\ framebuffers = [v \in Views |-> None]
    /\ descriptor_sets = [v \in Views |-> None]
    /\ free_descriptor_sets = <<>>
    /\ allocations = 0
    /\ contents = [s \in Sets |-> Null]
    /\ outdated = {}
    /\ scope \in Scopes

Held(cache) == {cache[v].object : v \in Views} \ {Null}
InUse == {u[1] : u \in recording \cup UNION {executing[s] : s \in Slots}}

(* Lists are recorded in a frame, or before the first one.                 *)
MayRecord == phase \in {"startup", "frame"}
Use(object, v) == recording' = recording \cup {<<object, v>>}
New(object) == outdated' = outdated \ {object}

-----------------------------------------------------------------------------
(* Entries.                                                                *)

\* mutant: an entry that is found stays as old as it is
KeptEntry(entry) == entry
Found(entry) == [entry EXCEPT !.lifetime = 0]
Made(object) == [object |-> object, lifetime |-> 0]

\* mutant: the comparison is >
LateExpiry(entry) == entry.lifetime + 1 > MaxLifetime
Expires(entry) == entry.lifetime + 1 >= MaxLifetime

(* The ageing of a cache: update_framebuffers, PipelineLayout::new_frame.  *)
Aged(cache) ==
    [v \in Views |-> IF cache[v] = None \/ Expires(cache[v]) THEN None
                     ELSE [cache[v] EXCEPT !.lifetime = @ + 1]]

-----------------------------------------------------------------------------
(* begin_render_pass with a texture view as attachment.                    *)
GetFramebuffer(v) ==
    /\ MayRecord /\ v \in views \cap scope.attachments
    /\ IF framebuffers[v] # None
       THEN /\ framebuffers' = [framebuffers EXCEPT ![v] = Found(@)]
            /\ Use(framebuffers[v].object, v)
            /\ UNCHANGED outdated
       ELSE LET fresh == Framebuffers \ (Held(framebuffers) \cup InUse)
                fb == CHOOSE f \in fresh : TRUE
            IN /\ fresh # {}
               /\ framebuffers' = [framebuffers EXCEPT ![v] = Made(fb)]
               /\ Use(fb, v) /\ New(fb)
    /\ UNCHANGED <<phase, current_frame, executing, heap, descriptor_sets, pools, scope>>

(* PipelineLayout::allocate_set, in its three cases.                       *)
WriteSet(s, v) ==
    /\ contents' = [contents EXCEPT ![s] = v]
    /\ descriptor_sets' = [descriptor_sets EXCEPT ![v] = Made(s)]
    /\ Use(s, v) /\ New(s)

FindSet(v) ==
    /\ descriptor_sets[v] # None
    /\ descriptor_sets' = [descriptor_sets EXCEPT ![v] = Found(@)]
    /\ Use(descriptor_sets[v].object, v)
    /\ UNCHANGED <<pools, outdated>>

\* mutant: the set is not popped
Unpopped(queue) == queue
Popped(queue) == Tail(queue)

RecycleSet(v) ==
    /\ descriptor_sets[v] = None /\ free_descriptor_sets # <<>>
    /\ WriteSet(Head(free_descriptor_sets), v)
    /\ free_descriptor_sets' = Popped(free_descriptor_sets)
    /\ UNCHANGED allocations

\* mutant: a full pool gives one more
AlmostFull == allocations <= SetsPerPool
HasRoom == allocations < SetsPerPool

(* Sets that have expired are not given back: one nobody refers to any     *)
(* more stands for the next the pool gives.                                *)
Lost == Sets \ (Held(descriptor_sets) \cup InUse \cup Range(free_descriptor_sets))

AllocateSet(v) ==
    /\ descriptor_sets[v] = None /\ free_descriptor_sets = <<>>
    /\ Lost # {}
    /\ WriteSet(CHOOSE s \in Lost : TRUE, v)
    /\ allocations' = IF HasRoom THEN allocations + 1 ELSE 1
    /\ UNCHANGED free_descriptor_sets

BindSet(v) ==
    /\ MayRecord /\ v \in views \cap scope.textures
    /\ FindSet(v) \/ RecycleSet(v) \/ AllocateSet(v)
    /\ UNCHANGED <<phase, current_frame, executing, heap, framebuffers, scope>>

(* free_set, by a client that has a set nobody uses. What has expired      *)
(* since, it may give back too: the entry of its contents goes.            *)
FreeSet(s) ==
    /\ s \notin InUse \cup Range(free_descriptor_sets) /\ contents[s] # Null
    /\ descriptor_sets' = [descriptor_sets EXCEPT ![contents[s]] = None]
    /\ free_descriptor_sets' = Append(free_descriptor_sets, s)
    /\ UNCHANGED <<frames, heap, framebuffers, allocations, contents, outdated, scope>>

-----------------------------------------------------------------------------
(* Texture views: they are freed when their slot comes round, and the heap *)
(* may give the address of a freed one to the next.                        *)

Expired(v) == \E s \in Slots : v \in expired[s]

CreateView(v) ==
    /\ v \in scope.attachments \cup scope.textures
    /\ v \notin views /\ ~Expired(v)
    /\ views' = views \cup {v}
    /\ UNCHANGED <<frames, expired, rested, framebuffers, descriptor_sets, pools, outdated, scope>>

DestroyView(v) ==
    /\ v \in views /\ phase # "waiting"
    /\ views' = views \ {v}
    /\ expired' = [expired EXCEPT ![current_frame] = @ \cup {v}]
    /\ UNCHANGED <<frames, rested, framebuffers, descriptor_sets, pools, outdated, scope>>

-----------------------------------------------------------------------------
(* The frame loop. A frame may be cancelled: its list is dropped.          *)

EndFrame ==
    /\ phase = "frame"
    /\ phase' = "ended"
    /\ executing' \in {[executing EXCEPT ![current_frame] = recording], executing}
    /\ recording' = {}
    /\ UNCHANGED <<current_frame, heap, framebuffers, descriptor_sets, pools, outdated, scope>>

(* Backend::new_frame, before any fence is waited for. The first frame     *)
(* keeps its slot and waits for nothing.                                   *)
AgeCaches ==
    /\ phase \in {"startup", "ended"}
    /\ framebuffers' = Aged(framebuffers)
    /\ descriptor_sets' = Aged(descriptor_sets)
    /\ rested' = [v \in Views |-> IF v \in views \/ Expired(v) \/ rested[v] = Enough
                                 THEN rested[v] ELSE rested[v] + 1]
    /\ phase' = IF phase = "startup" THEN "frame" ELSE "waiting"
    /\ outdated' = outdated \cap (Held(framebuffers') \cup Held(descriptor_sets') \cup InUse)
    /\ UNCHANGED <<current_frame, recording, executing, views, expired, pools, scope>>

(* What was made with a view outlives it.                                  *)
MadeWith(v) == {framebuffers[v].object, descriptor_sets[v].object} \ {Null}

StartFrame ==
    LET slot == (current_frame + 1) % FramesInFlight
        freed == expired[slot]
    IN /\ phase = "waiting" /\ executing[slot] = {}
       /\ phase' = "frame"
       /\ current_frame' = slot
       /\ expired' = [expired EXCEPT ![slot] = {}]
       /\ rested' = [v \in Views |-> IF v \in freed THEN 0 ELSE rested[v]]
       /\ outdated' = outdated \cup UNION {MadeWith(v) : v \in freed}
       /\ UNCHANGED <<recording, executing, views, framebuffers, descriptor_sets, pools, scope>>

FinishList(s) ==
    /\ executing[s] # {}
    /\ executing' = [executing EXCEPT ![s] = {}]
    /\ UNCHANGED <<phase, current_frame, recording, heap, framebuffers, descriptor_sets,
                   pools, outdated, scope>>

-----------------------------------------------------------------------------
CachesNext ==
    \/ \E v \in Views : GetFramebuffer(v) \/ BindSet(v) \/ CreateView(v) \/ DestroyView(v)
    \/ \E s \in Sets : FreeSet(s)
    \/ EndFrame \/ AgeCaches \/ StartFrame
    \/ \E s \in Slots : FinishList(s)

CachesSpec == CachesInit /\ [][CachesNext]_cacheVars

-----------------------------------------------------------------------------
(* Properties.                                                             *)

Entries(objects) == {None} \cup [object : objects, lifetime : 0 .. MaxLifetime - 1]

(* Every variable has its type; no pool gives more sets than it has.       *)
CachesTypeOK ==
    /\ phase \in {"startup", "frame", "ended", "waiting"}
    /\ current_frame \in Slots
    /\ recording \subseteq Objects \X Views
    /\ executing \in [Slots -> SUBSET (Objects \X Views)]
    /\ views \subseteq Views
    /\ expired \in [Slots -> SUBSET Views]
    /\ rested \in [Views -> 0 .. Enough]
    /\ framebuffers \in [Views -> Entries(Framebuffers)]
    /\ descriptor_sets \in [Views -> Entries(Sets)]
    /\ free_descriptor_sets \in Seq(Sets)
    /\ allocations \in 0 .. SetsPerPool
    /\ contents \in [Sets -> Views \cup {Null}]
    /\ outdated \subseteq Objects

(* A framebuffer is not destroyed while a list that uses it is recorded or *)
(* executed, although the cache drops it before new_frame waits for any    *)
(* fence (update_framebuffers, RenderPass.cpp).                            *)
FramebuffersExist == InUse \cap Framebuffers \subseteq Held(framebuffers)

AllUses == recording \cup UNION {executing[s] : s \in Slots}

(* A descriptor set is not written again while a list uses it: neither by  *)
(* a recycled set nor by one that two entries share                        *)
(* (PipelineLayout::allocate_set).                                         *)
SetsIntact == \A u \in AllUses : u[1] \in Sets => contents[u[1]] = u[2]

(* What the caches find at an address was made for the view that is there  *)
(* now, or the heap gave the address again within Enough frames of its     *)
(* being freed, when nothing tells the views apart: however often and for  *)
(* whatever else the entries of the old view are looked up, they are gone  *)
(* after that (get_or_create_framebuffer, allocate_set).                   *)
FoundIsCurrent == \A u \in AllUses : u[1] \in outdated => rested[u[2]] < Enough
=============================================================================
