# ZinoEngine, specified and checked

TLA+ modules for the parts of ZinoEngine whose state is shared, cached or moved:
the job system, the graphics device and the caches of its Vulkan backend,
effects and assets, entities and their components, tickables and the loop that
calls them. TLC checks them on small instances; TLAPS proves their safety
properties, and three refinements, for every value of the constants. Paths below
are relative to `src/Sources/`.

## The modules

| module | what it is |
| --- | --- |
| `JobSystem` | `engine/core/.../threading/jobsystem`: workers, deques, jobs, `wait`, `finish`, sleeping, `stop` |
| `MCJobSystem` | the constants of its TLC runs |
| `Tasks` | what the job system promises its clients; `JobSystem` implements it, `Content` builds on it |
| `JobSystemProofs` | its types, and that sleepers have no work |
| `JobTasksProofs` | the inductive invariant of jobs, counters, slots and deques, its theorems, and the refinement of `Tasks` |
| `GfxDevice` | `gfx::Device`: frames in flight, deferred destruction, command pools, fences, render pass cache, and the GPU |
| `ResourceLifetime` | what the device promises, as an abstract specification |
| `GfxDeviceProofs` | the inductive invariant of the device, its theorems, and the refinement of `ResourceLifetime` |
| `VulkanCaches` | `engine/vulkangfx`: the caches of framebuffers and of descriptor sets, in the frames of the device |
| `VulkanCachesProofs` | the inductive invariant of the caches, and its theorems |
| `Presentation`, `MCPresentation` | `SwapChain` and the window callbacks of `engine/imgui`: a window acquired, drawn, presented and resized in those frames |
| `PresentationProofs` | that what is presented has been drawn, and that a window leaves the caches what they are |
| `Effects` | `engine/effect`: permutations, the jobs that compile them, the threads that wait for them |
| `Assets` | `engine/asset`: the map of loaded assets, its counts, requests and their handles |
| `Content` | both on one job system, of which only `Tasks` counts |
| `ContentProofs` | the inductive invariants of effects and of assets, and their theorems |
| `Components` | `engine/engine/.../ecs`: entities, archetypes, chunks, and a system's `for_each` |
| `ComponentStore` | what they promise: a value or none for each entity and class |
| `TickSystem` | `engine/engine/.../TickSystem`: registration and the passes of a frame |
| `World`, `MCWorld` | the engine's loop over a world whose system is a tickable |
| `WorldProofs` | the inductive invariant of the world, its theorems, and the refinement of `ComponentStore` |
| `TickSystemProofs` | the inductive invariants of the tickables, and the theorems about the loop and its passes |

`PROJECT.json` maps every definition that models code to its lines and lists
the runs, the theorems, the hazards and the disagreements found.

Beside some definitions stands a second one under a comment `mutant:`. It is
the definition as a plausible bug would make it. Nothing uses it: substituted
for the definition below it, it makes TLC report the property `PROJECT.json`
names, so each property is known to depend on the code it is about.

## Inventory

The repository holds an engine (`engine/`), an editor (`editor/`) and vendored
code (`thirdparty/`). It has no tests, and its documents are build
instructions, so comments in the headers are what states its intent.

| component | state | operations | made correct by | hard because | status |
| --- | --- | --- | --- | --- | --- |
| Job system | workers, a deque each, a job ring per thread, counters, one condition variable | create, schedule, wait, execute, finish, flush, stop | a job runs once, after its dependences; counters mean what they say; waits return | threads, sleeping, stealing, reuse of slots | modelled |
| Graphics device | ring of frames, pools per thread, queued lists, expired resources, fences, render pass cache | create/destroy, record, submit, new/end/cancel frame, wait_gpu_idle, destroy | the GPU uses only what exists; no list is lost or touched while executed; frames start | GPU runs behind the CPU; helper threads; cancelled frames | modelled; presentation in `Presentation` |
| Vulkan backend | descriptor sets, framebuffers, swapchain, semaphores | allocate, look up, age, acquire, present | a cached object outlives the work that uses it, and belongs to what is there | entries are found by address, and die while the GPU may use them | caches and swapchain modelled |
| Effects | map of permutations, set of pending compilations | get, compile (a job), poll | compiled by one job at a time; complete when used; a poll ends | jobs insert while threads look up, partly without the lock | modelled, but for destruction |
| Asset manager | map from path to asset and count | load (sync, async), handle destruction, free | kept while referenced, gone after; counts match | unlocked map, jobs, failures, destructors on any thread | modelled, but for saving |
| Asset database | path tree, data map | scan (a job), register, query | what is registered is found | readers without the lock | not modelled |
| Entities and components | archetypes, chunks, index of each entity | spawn, destroy, add, remove, for_each | an entity's components are those added and not removed | rows move between chunks; chunks fill up and empty | modelled |
| Tick system and loop | queue of registrations, lists per pass | register, unregister, tick | every live tickable ticks once, no dead one | callbacks make and destroy tickables | modelled |
| Modules, file systems | lists | load, unload; add, look up | order of start and stop | shutdown while jobs run | not modelled |
| Containers, reflection, serialization, maths, UI, compilers | - | - | - | sequential, or wrappers of libraries | not modelled |

How they interact: `Main.cpp` starts the job system, then loads the modules,
creates the backend and the device. The editor's loop calls `new_frame`,
records through the ImGui renderer, calls `end_frame` and presents. Effects
are compiled by jobs, which create shaders on the device; the asset manager
and the database may load and scan on jobs. At exit the effects and the device
are destroyed before the job system is stopped (`Main.cpp:219-245`).

## JobSystem

**State.** Each thread is a stack of frames, one per call in progress: a job
that waits runs other jobs on top of itself, and `finish` recurses into the
parent and into Lightweight dependents, so a program counter would not do. The
last frame says where the thread is. `queue[w]` is the deque of a worker (pop
at the front, steal at the back), the fields of `struct Job` are functions on
job slots, and `allocated` is the index into a thread's ring. Ghost variables
(`life`, `creator`, `after`, `runs`) record what the code does not: whether a
slot holds a job, who made it, which dependences it was given, how often its
body was entered. `runs` and `after` appear in properties; `life` and `creator`
only keep client code within its contract.

**Actions.** One per access to shared state. `schedule` pushes (`Schedule`) and
notifies (`Notify`); `schedule(job, dependence)` increments `dependent_count`
(`ScheduleAfter`) and writes the slot (`LinkWrite`); `finish` decrements
(`Finish`), reads the counter again (`Check`) and visits dependents one by one
(`Dependents`). `flush` looks at its own deque, the main worker's, its own
again, a random one (`PopOwn`, `Steal`), reads `should_sleep` (`Doze`) and only
then starts to wait (`Sleep`), so a notify in between is lost, as in the code.
`notify_one` wakes any sleeper; wake-ups without a notify (`SpuriousWake`) are
allowed, not relied upon.

**Clients.** Bodies of jobs and the main thread create, schedule, link and wait
in any order the constant `Uses` admits. What `Uses` leaves out is a use that
the code accepts and that fails:

* `manyLinks`, several dependences of one job: the first that finishes queues
  it, each other queues it again (`dependances_count` is never read).
  `StartsAfterDependences` fails.
* `lateLink`, a dependence that was already scheduled: it may have finished,
  and then nobody visits the slot. `LinkedNotLost` fails.
* `deepFinish`, a job with children that has a parent or dependents: run
  `JobDoubleFinish`.

**Assumptions.** `initialize()` has finished: the code lets a worker look
itself up before its entry is constructed. Workers wait on one condition
variable with different mutexes, which the standard leaves undefined; the model
takes it to work. A failed `ZE_ASSERT` ends the process, so asserted
conditions are guards. `WorkerThread.h:24` says that Partial threads "should
never be waited from"; the opposite holds, see `JobProgress`.

## GfxDevice

**State.** `gfx_lists`, `gfx_submitted`, `frame_cancelled`, `expired` and
`wait_fences` are the fields of `Device::Frame`, per slot. A command list is
named by slot, thread and index; `state` is its Vulkan state and `uses` what
its commands refer to. `live` is the set of occupied slots in the sparse
arrays: all resource types are created, expire and are freed alike, so one set
stands for eight arrays. `cached` and `frames` are the `LifetimeHashMap` of
render passes. `gpu` is the sequence of batches given to the queue, each with
its fence (that of its slot), its lists and what they use.

**Actions.** `new_frame` is `NewFrame` up to the wait and `StartFrame` from
where the fences are signalled: `fence_reset`, ageing the cache, freeing what
has expired, resetting pools, `Frame::reset`, in one step, since only the GPU
could interleave and it shares only the fence. `wait_gpu_idle` is likewise
`WaitGpuIdle` and `GpuIsIdle`, each with the whole of the `end_frame` and
`new_frame` it calls. `LifetimeHashMap::new_frame` erases from the map it
iterates over, which moves entries under the iterator: once something is
evicted, any others may be skipped (`AgeRenderPasses`). Allocating from a pool
(`NextList`) keeps the mismatch `trim()` leaves between `command_lists` and
`free_command_list`.

**Clients.** Disciplined ones (`Uses = {}`) record and submit between a
frame's start and its end, and let no recording straddle a change of frame.
`phase` is a ghost for this contract. The editor's loop keeps to it except
where it waits for the GPU in the middle of a frame. With `"outside"`, lists are
also submitted after `end_frame` and in frames left without it; with
`"straddle"`, helper threads record while the frame changes. Both are things
the interface invites (a pool per thread, Gfx.h:684; "submissions that have
happend outside frame context", Device.cpp:190).

**ResourceLifetime** knows objects that exist and work that uses them: work
starts on existing objects, an object is freed only when no unfinished work
refers to it. `KeepsLifetimes` maps `live` and `cached` to the objects and
`gpu` to the work, forgetting frames, fences, pools and ages.

**Left out.** Semaphores, swapchain images and present (see `Presentation`); compute and transfer
lists, which nothing allocates (`allocate_cmd_list` ignores its argument);
pipelines; failures to create an object; unlocked accesses from several
threads to the map of pools and to `gfx_lists`, taken to be atomic.

## Tasks

`JobSafety` checks `ImplementsTasks`: a job is `unused`, `created`, `scheduled`,
`running`, `returned`, `done`, in this order; it begins after what it needs is
done, and is done after its parts are. `StateOf` reads this off the counters,
stacks and ghosts of `JobSystem`. `Tasks` also has the two steps its clients
take, `Async` (`create_job` and `schedule`, one step since nobody knows the job
in between) and `EndTask` (the end of a job without children). Slots may be
used again when their task is done, so `Content` has few slots and any number of
compilations and loads. The features of `JobSystem` outside `Uses` are outside
`Tasks` too; `deepFinish` breaks the refinement as it breaks `FinishedStays`.

## Effects, Assets, Content

**Effects.** `status[p]` is `absent` while the map has no entry for p;
`operator[]` adds one (`Test`, `FirstStatus`), as `is_available` does without the
lock. `get_permutation` is `Lookup` under the lock and, after the lock is
released, `compile()`: `Compile` under it again and `Spawn`. The job holds the
lock from `Publish` to `Announce`; since others read without it, the shaders
(`FillShaders`), the layout (`FillLayout`) and the status are written in steps of
their own. What compiles and what does not is given (`Broken`). Two kinds of clients
wait: `operator->` looks up until the pointer is there and the status `Available`;
`Pollers` do as `ImGuiRenderer.cpp:279-283`.

Between the look-up and `compile()` another thread's compilation may begin and end, and
then the permutation is compiled again, against "If the effect doesn't exist compile it"
(Effect.cpp:121). `built` says what an entry holds: a second compilation replaces the
shaders of the first (`mixed`) and then its layout, while the status goes on saying
`Available` to those who read it without the lock. `UsesComplete` is what is left to
them: shaders and layout, of one compilation, or of two for as long as the job has the
lock. It does not speak of pointers: the renderer's stems from before the compilation
and is null whenever it had to wait, so that its own `ZE_CHECK(permutation)`
(ImGuiRenderer.cpp:282) fails; and the layout it copies a line later is destroyed by a
second compilation. Both are plain from those lines, and no property claims otherwise.

A permutation that fails stays `CompileError` ("It can be recompiled if
possible", Effect.h: nothing does), and `operator->` spins for ever on it;
`PollEnds` is about the others.

**Assets.** The main thread asks, and loads or hands the load to a job; a handle
is dropped by its client and by the job, and the last one runs the destructor,
whose three accesses (`Decrement`, `TestCount`, `FreeAsset`) are steps, because
a request may come in between. A failed load on a job is inserted, counted and
completed like any other; the failed `load_asset_sync` is not. `got` is a ghost:
what a request found or loaded. `UnloadAll` has no caller and is modelled for a
manager without handles.

**Discipline.** `AssetUses = {}`: a path is not asked for while a job is still at
work on it (loading, or destroying its handle). With `overlap`, two loads of one
path both insert, the second replaces the asset the first handed out, and
`HandleKeepsAsset` fails; a request between `TestCount` and `FreeAsset` loses its
entry likewise.

**Content** lets one main thread use both, with `WorkerCount` tasks running at a
time. Accesses without a lock are taken to be atomic: that a map is rehashed
under a reader is undefined behaviour no property survives.

## Components, TickSystem, World

**Components.** An archetype is a set of classes, a chunk has a column of slots
and a size per class; `ClassSize`, `ChunkSize` and `IsFull` keep the arithmetic
of `is_full`, which compares rows of all columns with the size of one column.
`AddComponent` and `RemoveComponent` are the whole functions: find or create the
archetype and its free chunk, copy the row, shrink the chunk left, update index
and lists. `free_chunk` of `-1` is 0. `add_component` never makes the chunk it
empties the free one (`next_free_chunk` is never set), so an archetype gets new
chunks for ever as entities pass through it: `MaxChunks` bounds that.
`for_each` is the one of `SinusMovementSystem`.

**Discipline.** `WorldUses` lists what the code accepts and does not carry out;
each was run and breaks the property named.

* `hole`: an entity that is not the last of its chunk moves. The condition of
  "fill hole" (ComponentManager.cpp:67, 139) holds only for the last, so the hole
  stays and the last row is cut off: `KeepsComponents`. That every such move breaks the
  agreement of rows and index, and no other does, is the theorem `HolesAreNotFilled`.
* `refill`: `remove_component` fills the chunk it moves the entity to and leaves
  it the free one: `FreeChunkHasRoom`, then a write beyond the column.
* `destroy`: `unregister_entity` is empty, against "This will free all components
  attached to the entity" (ComponentManager.h:156): `KeepsComponents`.
* `partial`: an entity has the last type of a `for_each` and not the first. The
  comma in World.h:41 leaves only the last in `required_classes`, and
  `class_to_chunk_type_idx[]` reads 0: another component is overwritten, and
  `KeepsComponents` fails.

**TickSystem.** Objects queue themselves, are registered when the next pass
begins, and leave the lists in their destructor. The loop makes a `Variable` and
a `Late` pass; nothing makes a `Fixed` one ("Called at a fixed rate",
TickSystem.h:18), so an object with that flag alone is never called
(`EveryoneTicks` excepts it). Outside `TickUses = {}`: `early`, destroyed before it
is registered (`TickablesLive` fails); `during`, destroyed in a pass over its list
(`CalledOncePerFrame`); `both`, two flags (`TickablesLive` and
`CalledOncePerFrame`: it is in two lists, and each pass calls it for every flag).
`Picked` is the filter of both loops over vectors, the one of `std::remove` and the
one that empties the queue: a recursive function, because the provers know nothing
of `SelectSeq`.

**World** puts a system of the world among the tickables: its `variable_tick` is
`ForEach`. Client code changes the world and the tickables between frames and in
callbacks, so also while a pass is at the middle of its list.
`ComponentStore` knows nothing of chunks; `KeepsComponents` maps it to the rows.

## VulkanCaches

**State.** Both caches map an address (of a texture view, or of what a descriptor
refers to; one attachment and one descriptor stand for all) to an object and the
frames since it was last asked for. `recording` and `executing` hold what lists use,
and for which address; `outdated` and `rested` are ghosts: objects made with a view
that has been freed, and how many frames began between that and the next view at the
address. `contents` is the hash a set keeps.

**Actions.** `new_frame` of the device begins with `Backend::new_frame`, which
ages both caches and destroys framebuffers (`AgeCaches`), and only then waits for
the fence of its slot (`StartFrame`); the first keeps its slot and waits for
nothing. `allocate_set` finds, recycles or allocates. Sets that expire are lost
(they leave the cache, and only `free_set`, which nobody calls, fills the list of
free sets); one that nobody refers to any more stands for the next a pool gives,
so `Sets` bounds those in use and not those allocated. `free_set` is modelled as a
client could call it, for a set that no list uses.

**What it rests on.** `FramesInFlight + 2 <= MaxLifetime` (2 and 10 in the code): one
less, and a list recorded before the first frame loses its framebuffer. Nothing is
assumed of the heap: it may give an address again in the frame in which the view there
was freed, and then the new view is drawn with the framebuffer of the old, and bound
with its set. The code has nothing against that. `FoundIsCurrent` says how far it goes:
once `Enough` frames, `MaxLifetime - FramesInFlight`, have begun between the two views,
nothing of the old one is found, since nobody could look it up in the meantime. The key
of a framebuffer leaves out `layers` and the render pass, too; neither is modelled.

## Presentation

**State.** `stage` says how far the window is in this frame:
`imgui_render_window_callback` (`BeginDraw`, then `AcquireImage` or `AcquireFails`),
`end_frame` (`SubmitFrame`), `imgui_swap_buffers_callback` (`SwapBuffers`). `renders`
are submitted lists that draw to an image, in the order of the queue; `presents` the
calls of `presentKHR` it has not executed; `screen` the images shown now and after.
`image_ready` are the images that signal the semaphore of that name, each once it is
off the screen. `in_present_layout` is a ghost: the images that what was submitted
leaves in layout `Present`; `has_rendered_one_frame` is what the code thinks of that.

**Composition.** The frames are those of `VulkanCaches`: `SubmitFrame` is its `EndFrame`,
`NewFrame` and `WaitFence` are `AgeCaches` and `StartFrame`, and a slot waits for the list
that drew the window as for any other. So one run checks the caches and the window,
with scopes in which a frame has only one of them, or both.

**What orders the GPU.** `submit_queue` passes no semaphores to wait for: the list does
not wait for `image_ready`, only the present does, together with `render_finished`. The
presentation engine may give any image that is neither acquired nor the last one shown
(`Available`), at any time. Three things follow that no property forbids, because the
code does nothing against them:

* an image is acquired while it is still on the screen, which Vulkan allows (the
  semaphore tells when it is free), and the list writes to it;
* an image is acquired before the last present has executed. The one `image_ready` is
  signalled twice and waited for twice, two signals become one, a present never
  executes, and the main thread waits in `new_frame` or `acquireNextImage`;
* an image comes with `eSuboptimal`, `acquire_swapchain_texture` returns false
  (SwapChain.cpp:50), and it is never presented and never given back. When all are
  held, `acquireNextImage`, which has no timeout, does not return.

`PresentedIsDrawn` holds in all of them: one `render_finished` and one
`has_submitted_work` for all frames and images still put an image on the screen only
after the list that draws it. So does `LayoutKnown`: across resizes, frames that draw
nothing and failed acquisitions the flag of an image agrees with its layout.

## Runs

All under five minutes with two workers.

| run | shows | instance |
| --- | --- | --- |
| `JobSafety` | each job is entered once; dependents start late enough and are not forgotten; the job system implements `Tasks` | 2 Full workers, 3 jobs of the main thread, both types, children and links |
| `JobNested` | for jobs that create and wait for jobs, with `stop`: a parent outlives its children, no worker sleeps on its own work | 2 Full workers, 3 jobs |
| `JobProgress` | `wait` on the main thread returns; work on Full workers is taken; counters stay in range at their limit | as above, a counter of 2 at most |
| `JobDoubleFinish` | *violation*: a chain of parent, child and grandchild is finished twice | 3 jobs |
| `JobSleepingWait` | *violation*: a job that waits for a job sleeps for ever | 2 jobs |
| `GfxFrames` | all safety of the device, and the refinement | 2 slots, a helper thread, 1 resource, 1 list per pool, no passes |
| `GfxProgress` | frames start, expired resources are freed; the cache of passes is safe | 2 slots, 1 thread, 1 resource, 2 passes |
| `Content` | handles keep assets and counts match, also when loads fail; one job at a time compiles a permutation, waiting ends, requests complete | 2 permutations and 2 paths, one of each broken; main thread (polls, loads) and a helper (`operator->`); 1 worker, 3 task slots, 2 handles |
| `World` | a free chunk has room; the world implements `ComponentStore`; tickables are called once a frame, and all in the end | 2 classes, chunks of 1 or 2 rows, 2 chunks; the scopes below |
| `Presentation` | lists use framebuffers that exist and sets nobody rewrites; what the caches find is outdated only if an address came back soon; what is presented has been drawn, and its layout is known | 2 slots, a lifetime of 4, 2 addresses, pools of 2 sets, 3 images; the scopes below |
| `GfxOutside` | *violation*: a list submitted after `end_frame` is dropped | 2 slots, 1 thread |
| `GfxStraddle` | *violation*: a recording that straddles frames uses a freed resource | 2 slots, a helper thread |

**Why the bounds are enough.** Three jobs are the fewest that give a parent two
children, a dependence two dependents or a chain of three, and two Full workers
plus the main thread the fewest that let two threads finish a job's relatives
while a third looks on. Slots are not reused in the runs (`MaxJobs` is below
`PoolSize`): a live job that is constructed again breaks everything at once,
and the code relies on 4096 being enough. The 8-bit counter has its real size
where it wraps below 0, and three values where its upper limit is the point.
Two slots are the code's `max_frames_in_flight`; the theorems cover every
number. One resource suffices because the device treats each by itself; two
passes are needed for one to be skipped while the other is evicted. A cache
lifetime of 1 is the least the assumption allows for two slots, hence the
hardest; the code has 8.

In `Content` one worker suffices: jobs share the lock and the map with threads
that wait, not with each other, and two slots for compilations let one be queued
while the other runs. Two handles are the fewest that count on one entry, and
two objects the fewest for a replaced one. The scopes of `World` take turns with
what interacts: three entities with one value (two chunks, one full), two with
two values (each keeps its own), one entity and all four tickables, among them
one that can never tick. Chunks of size 2 hold two rows of one class and one row
of two, so that an archetype fills while another has room. The scopes of
`Presentation` are two views to draw to, two to bind, one for both, a window, and a
window beside one view to draw to; a lifetime of 4 is the least
`LifetimeAssumption` admits, so that `Enough` is 2. Two sets are as many as can be in
use or held for a view, one each, or one in use while the other is free or lost. Three
images are `minImageCount + 1` where the window system asks for two: one on the
screen, one to follow it, one to draw to.

**Deadlock** is checked except where the system may really stop: workers ended
or asleep after `stop` (`JobNested`), the device destroyed (`Gfx*`), and a window that
waits for an image or a present for ever (`Presentation`).

**Fairness.** `JobSystem`: a thread in the job system, or in the body of a job,
goes on (the operating system schedules every thread); the main thread's own
code need not, and no wake-up comes for nothing. Which deque a thief draws is
random and gets no fairness, `MainWaitReturns` and `FullQueuesDrain` hold
without it. `GfxDevice`: the GPU finishes what it is given (`FinishBatch`), and
a call that waits for it goes on when it can (`BeginFrame`, `GpuIsIdle`);
clients are not fair. `ExpiredAreFreed` therefore asks that frames keep
starting. `Content`: a thread in a call and a job that has begun go on; clients
need not ask. That a queued job is begun is not assumed, since a worker may have
missed the notify: `PollEnds` and `AsyncCompletes` have it as their premise, and
`JobSleepingWait` shows why it is one. `World`: the loop goes on. `Presentation`
assumes none and claims no progress.

## Proofs

`tlapm` checks every step; nothing is assumed but the named `ASSUME`s of the modules
and, where a theorem states them, the discipline of its clients. Each theorem holds
for any number of workers, frames, images, entities, classes, paths, handles and so on.

*Assumptions on constants worth knowing.* `max_frames_in_flight <= max_lifetime + 1`
(2 and 8 in the code): else the cache could evict a pass in use.
`FramesInFlight + 2 <= MaxLifetime` (2 and 10) as under VulkanCaches. Framebuffers are not descriptor sets, clients are not tasks,
there are finitely many requests and classes, and no null is an object. Hypotheses of
theorems, each false in a system that uses what the section of its component lists as
undisciplined: `Disciplined` (`Uses = {}` in `GfxDevice`; neither `deepFinish` nor
`manyLinks` nor `lateLink` in `JobSystem`), `NoOverlap`
(`AssetUses = {}`), `NoRefill` (no `refill`), `NoHoles` (nor `hole`), `Undisturbed`
(`WorldUses = {}`), and, for tickables,
`QueuedFirst`, `OneFlag` and `KeptDuring` (neither `early` nor `both` nor `during`).
`RowsFit`: one row of any
archetype fits in a chunk (16 KB in the code, which does not test it). `NoReuse`: no
thread creates more jobs than its ring has slots (4096; the index wraps and the code
looks at nothing, so a longer run needs the old jobs to be over, and one that is not is
constructed again under its workers).

*Job system.* `TypeCorrect` and `SleepersIdle` hold for any `Uses`. `TypeOK` is not
inductive: that a frame's job is a job, and an index within `dependents`, depends on
the place of the frame. `StacksOK` says so for every frame of every stack.
`SleepersHaveNoWork` needs `SeekersHaveNoWork`: from the moment a worker finds its own
deque empty the second time until it wakes, nobody pushes to that deque, because a
thread pushes only to its own.

*Jobs.* With `Disciplined` and `NoReuse`, for any number of workers, jobs, dependents and
values of the counter. `JInv` speaks of `Calls`, the frames of all stacks that are about a
job, and says three things. *Counters* (`Counter`): `unfinished_jobs` is 1 while the body
has not begun, plus the bodies and calls of `finish` in progress that will decrement it,
plus the children that are not finished or have yet to look at their counter. It is
what makes a parent wait; and since a job that has children has neither parent nor
dependents, the double finish of `JobDoubleFinish`, two `Check`s at once that both read
0, does no harm (`LeafOnce`: of any other job there is one call). *Slots*
(`Linked`, `Slots`, `Released`): a linked job is in exactly one slot of its dependence,
or in a `schedule(job, dependence)` that is about to write it, and it is neither queued
nor run exactly until that slot is visited. *Deques* (`QueueOnce`, `QueuedKnown`): a
queued job is in one place and has not run. Two conjuncts are about places:
`LinksOnTop`, that a call that links is the innermost of its thread, so that the
dependence cannot be scheduled meanwhile, and `Outermost`. Each action's lemma proves
the invariant and what the step does to the jobs (`TaskStep`); `FinishedJobsStay` and
`RefinesTasks` follow from the second. `JInv` was checked with TLC on the instances of
`JobSafety` and `JobNested` before it was proved. `NobodyWaitsInVain` is the safety half
of `MainWaitReturns`: in every state a scheduled job that is not finished has work left
that must end first (`WorkLeft`), so nobody spins in `wait()` for a job that was dropped.
It needs one fact beside `JInv`, `ScheduledQueued`: what `schedule()` was called for is
in a deque until it is entered. A step keeps it because whoever takes a job out of a
deque enters it (`QueueKeeps`). No run lists `WorkLeft`; it and `ScheduledQueued` were
checked with TLC on the same two instances first.

*Device.* `TypeCorrect` holds for any `Uses`; the rest for disciplined clients.
The core of `IInv` counts, for each slot, the turns until it starts again.
`ExpiresLater`: a batch that uses an expired resource is waited for no later
than the slot the resource expires in comes round. `PassesYoung`: the age of a
pass plus the turns a batch that uses it still has is at most
`max_frames_in_flight - 1`, hence within the lifetime. `OpenInPool` and
`OpenUses` say the same of lists before they are submitted: they belong to the
current slot, use what exists and do not use what expires in another slot.
`Settled` ties the contract of clients to the state, and carries
`NoLostSubmission`. `FencesSound` proves, beside `FenceReady`, that a fence is waited
for exactly when a batch signals it. `ImplementsLifetime` uses the invariant where a
step frees.

*Vulkan caches.* `Left(s)` counts the turns until the fence of slot s has been waited
for. `EntryOutlivesList`: the age of an entry plus the turns its list still has is at
most `FramesInFlight + 1`, hence below `MaxLifetime` when the ageing, which waits for
no fence, comes. `EntriesExpireInTime` is the opposite bound: an entry of a view that
was destroyed ages with `rested`, so it is gone when that reaches `Enough`; from it
`FoundIsCurrent`, without a word about the heap. That no two entries share an object and
no set of an entry is free (`OneFramebuffer`, `SetsOfEntries`, `FreeOnce`) ties the two
together.

*Presentation.* `PresentationKeepsCaches` shows that a behaviour with a window is a
behaviour of `CachesSpec`, so `WindowCachesSafe` follows from the theorems about the
caches. `LayoutKnown` needs `FlagsMatchLayouts` (the renderer's flags against what was
submitted). `PresentedIsDrawn` needs the order of the queue: the images due to be
presented (`Due`) are those rendered, in that order (`RendersAreDue`), each once, and
all held; so whatever the semaphores did, the first present is that of the first list
that has finished.

*Content.* Effects (`EffectsIInv`): a permutation is pending iff exactly one of the
steps between `Compile` and `Announce` is about it, whoever is in it (`OneCompiler`);
who looks at an absent entry knows it is pending (`AbsentIsPending`): hence
`UnavailableIsPending`. `FillingMatches` ties what an entry holds to what the job that
has the lock has written; an entry that was whole stays usable while it is compiled
again, hence `UsesComplete` for those who read without the lock. Assets
(`AssetsIInv`), with `NoOverlap`: a path at which a job or the main thread is at work
has one handle (`LoadingAlone`), a handle's holders are those that will drop it
(`HoldersKnown`), and what it got is what the entry holds (`GotMatches`); from these
the counts.

*World.* `ChunkOK`: the indices of a chunk's entities are exactly the rows `0 .. n -
1`, one each, n is the size of every column, and n rows fit; `ArchetypeOK`: an
archetype's entities are those the index puts there, in chunks that exist, and its
free chunk has room. `HolesAreNotFilled` is about both kinds of moves: from a state
with this invariant, a move of the last entity of a chunk leads to one where rows and
index agree (`RowsMatchEntities`), and after a move of any other the entity in the
last row has an index beyond the size of its chunk. For `ImplementsStore` the
invariant says also that dead entities have nothing and who has a motion has a
position (`AliveHave`); a lemma for each operation says which rows of which archetype
keep their values (`ArchetypeKept`, `ArchetypeJoined`, `ArchetypeLeft`).

*Tick system.* `ListsOK`: an object is in the queue or, when it can tick, in the list
of each of its flags, once, and nobody else is in either. It needs `QueuedFirst` only:
the destructor looks at the lists, so whoever is in one leaves it. With `OneFlag` the
lists are disjoint, whence `TickablesLive`. `CalledOncePerFrame` is not inductive: when
the late pass begins it must be known that no late object was called before, which
`CallsOK` carries through the `Variable` pass and the moment between the passes.
`KeptDuring` keeps the list in use as it is, since everything made meanwhile is queued.
From both follow `NobodySkipped`, the safety half of `EveryoneTicks` (the other half is
that frames go on, and stays with TLC), and `NobodyTwice`, which also speaks of objects
that are in no list any more; no run lists these two. All four were checked with TLC on
the instance of `World` before they were proved. That the types of the tickables are right needs no
hypothesis. `PickedIs` says what filtering keeps: what is in the set, and nobody twice.

*What the provers cannot do.* Fairness and `ENABLED`. Induction over data with the
library's theorems, since they take operators as parameters. `RowSize`, a sum over a
set, and `Picked`, a filter of a sequence, are all the same described for every
argument (`RowSizeBounds`, `PickedIs`): a set or a prefix of the least size that
violates the statement is a counterexample to itself (`LeastNatural`, from the
library's fact that `<` is well-founded on the naturals).

*Only model-checked:* the liveness properties (`MainWaitReturns`, `FullQueuesDrain`,
`FramesStart`, `ExpiredAreFreed`, `PollEnds`, `AsyncCompletes`, `EveryoneTicks`). Every other property of a passing run is a theorem.

## Not modelled

Several windows (each has a swapchain and semaphores of its own), failures to
create a swapchain and its destruction, the images' texture handles of the device.
The asset database: a scan fills a path tree and a map; it tests
`entry.path` and registers `path / entry.path` (AssetDatabase.cpp), so a second
scan registers everything again, which needs no model to see. Exit: `Exit()` stops
the job system after effects and device are gone (Main.cpp:219-245), so a job that
still compiles uses them. Startup of the job system. Layout in memory, as in
`SparseArray::resize`, which reads one element more than the old block has
(SparseArray.h:265), or in the lambda of `compile()`, which captures its parameter
`in_format` by reference and runs when the caller has returned (Effect.cpp:62).
`ParallelFor` (no caller; the template does not compile). Module loading, file
systems, containers, reflection, serialization, consoles, editors: sequential, or
wrappers of libraries.

## Plan

1. Done: `JobSystem`, `GfxDevice`, `ResourceLifetime` and their first theorems.
2. Done: `Tasks` and its refinement, `Effects`, `Assets`, `Content`, `Components`,
   `ComponentStore`, `TickSystem`, `World`, `VulkanCaches`, `Presentation`.
3. Done: the proofs of `GfxDevice`, `VulkanCaches`, `Presentation`, `Content`,
   `World` and `TickSystem`, with the refinements of `ResourceLifetime` and `ComponentStore`.
4. Done: the proofs of `JobSystem`: counters, slots and deques, and the refinement of
   `Tasks`.
5. If there is room: startup of the job system, destruction of effects.
