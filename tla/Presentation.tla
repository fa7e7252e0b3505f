----------------------------- MODULE Presentation -----------------------------
(***************************************************************************)
(* A window in the frames of VulkanCaches: the ImGui renderer acquires an  *)
(* image of its swapchain, submits a list that renders to it, and presents *)
(* it when the frame has ended. Two semaphores order what the GPU does:    *)
(* image_ready, of the swapchain, and render_finished, of the viewport;    *)
(* only present waits for them.                                            *)
(***************************************************************************)
EXTENDS VulkanCaches, SequencesExt

CONSTANTS
    Images,         \* of the swapchain
    NoImage,
    WindowScopes    \* bounds: the scopes in which the window is drawn to

ASSUME ImagesAssumption == NoImage \notin Images /\ Images # {}
ASSUME WindowAssumption == WindowScopes \subseteq Scopes

VARIABLES
    stage,              \* of the window in the frame
    current_image,
    has_submitted_work,
    has_rendered_one_frame,     \* the images with this flag
    drawn,              \* what the frame's list renders to, and has it a barrier?
    renders,            \* the submitted lists not finished: their slots and images
    render_finished,    \* is it signalled?
    image_ready,        \* the images that signal it, each once it is off the screen
    held,               \* images acquired and not presented
    presents,           \* those the queue is to present
    screen,             \* the image on the screen, then those that follow
    in_present_layout   \* images in layout Present after what is submitted

windowState == <<stage, current_image, has_submitted_work, has_rendered_one_frame>>
swapchain == <<image_ready, held, presents, screen, in_present_layout>>
windowVars == <<windowState, swapchain, drawn, renders, render_finished>>
presentationVars == <<cacheVars, windowVars>>

NotDrawn == [image |-> NoImage, barrier |-> FALSE]

(* SwapChain::create, by the constructor or a resize.                      *)
NewSwapchain ==
    [current_image |-> CHOOSE i \in Images : TRUE, image_ready |-> {},
     held |-> {}, screen |-> <<>>, in_present_layout |-> {}]

PresentationInit ==
    /\ CachesInit
    /\ stage = "idle" /\ has_submitted_work = FALSE
    /\ has_rendered_one_frame = {}
    /\ drawn = NotDrawn /\ renders = <<>> /\ render_finished = FALSE
    /\ presents = <<>>
    /\ current_image = NewSwapchain.current_image /\ image_ready = NewSwapchain.image_ready
    /\ held = NewSwapchain.held /\ screen = NewSwapchain.screen
    /\ in_present_layout = NewSwapchain.in_present_layout

-----------------------------------------------------------------------------
(* imgui_render_window_callback: acquire, then record and submit a list.   *)

\* mutant: the flag of the last frame stays
WorkKept == has_submitted_work
NoWork == FALSE

BeginDraw ==
    /\ scope \in WindowScopes
    /\ phase = "frame" /\ stage = "idle"
    /\ stage' = "acquire"
    /\ has_submitted_work' = NoWork
    /\ UNCHANGED <<cacheVars, swapchain, drawn, renders, render_finished,
                   current_image, has_rendered_one_frame>>

(* The engine may give an image that is still on the screen, but never the *)
(* last there: its signal says when the image may be used.                 *)
Available(i) == i \notin held /\ (screen # <<>> => i # Last(screen))

(* A result that is neither eSuccess nor an error gives an image, too, but *)
(* acquire_swapchain_texture returns false.                                *)
Results == {"eSuccess", "eSuboptimal"}

(* The first list that renders to an image takes it to layout Present,     *)
(* which the render pass expects and leaves.                               *)
Draw(i) ==
    /\ drawn' = [image |-> i, barrier |-> i \notin has_rendered_one_frame]
    /\ has_rendered_one_frame' = has_rendered_one_frame \cup {i}
    /\ has_submitted_work' = TRUE

(* The last present may not have executed yet, nor consumed the signal.    *)
Acquire(i, result) ==
    /\ stage = "acquire" /\ Available(i)
    /\ stage' = "drawn"
    /\ current_image' = i
    /\ held' = held \cup {i}
    /\ image_ready' = image_ready \cup {i}
    /\ IF result = "eSuccess" THEN Draw(i)
       ELSE UNCHANGED <<drawn, has_rendered_one_frame, has_submitted_work>>
    /\ UNCHANGED <<cacheVars, presents, screen, in_present_layout, renders, render_finished>>

AcquireImage(i) == \E result \in Results : Acquire(i, result)

(* An error (the surface is out of date, say) leaves an index without      *)
(* meaning.                                                                *)
AcquireFails ==
    /\ stage = "acquire"
    /\ stage' = "drawn"
    /\ current_image' \in Images
    /\ UNCHANGED <<cacheVars, swapchain, drawn, renders, render_finished,
                   has_submitted_work, has_rendered_one_frame>>

-----------------------------------------------------------------------------
(* The frame. Nobody cancels one with a drawn window (pop_task).           *)

SubmitFrame ==
    /\ stage \in {"idle", "drawn"}
    /\ EndFrame
    /\ IF drawn = NotDrawn THEN UNCHANGED <<renders, in_present_layout>>
       ELSE /\ executing' = [executing EXCEPT ![current_frame] = recording]
            /\ renders' = Append(renders, [slot |-> current_frame, image |-> drawn.image])
            /\ in_present_layout' = IF drawn.barrier
                                    THEN in_present_layout \cup {drawn.image}
                                    ELSE in_present_layout
    /\ drawn' = NotDrawn
    /\ stage' = IF stage = "drawn" THEN "swap" ELSE "idle"
    /\ UNCHANGED <<current_image, has_submitted_work, has_rendered_one_frame, image_ready,
                   held, presents, screen, render_finished>>

(* imgui_swap_buffers_callback, after end_frame.                           *)
SwapBuffers ==
    /\ phase = "ended" /\ stage = "swap"
    /\ stage' = "idle"
    /\ presents' = IF has_submitted_work THEN Append(presents, current_image) ELSE presents
    /\ UNCHANGED <<cacheVars, current_image, has_submitted_work, has_rendered_one_frame,
                   image_ready, held, screen, in_present_layout, drawn, renders,
                   render_finished>>

NewFrame ==
    /\ stage = "idle"
    /\ AgeCaches
    /\ UNCHANGED windowVars

(* The fence of a slot is also that of the list that drew the window.      *)
WaitFence ==
    /\ \A r \in Range(renders) : r.slot # (current_frame + 1) % FramesInFlight
    /\ StartFrame
    /\ UNCHANGED windowVars

(* imgui_set_window_size and the editor's resize event: after              *)
(* wait_gpu_idle, which has ended a frame and begun the next.              *)
\* mutant: the flags of the old images stay
FlagsKept == has_rendered_one_frame
FlagsReset == {}

Resize ==
    /\ scope \in WindowScopes
    /\ phase = "frame" /\ stage = "idle" /\ recording = {}
    /\ \A s \in Slots : executing[s] = {}
    /\ renders = <<>> /\ presents = <<>>
    /\ current_image' = NewSwapchain.current_image /\ image_ready' = NewSwapchain.image_ready
    /\ held' = NewSwapchain.held /\ screen' = NewSwapchain.screen
    /\ in_present_layout' = NewSwapchain.in_present_layout
    /\ has_rendered_one_frame' = FlagsReset
    /\ UNCHANGED <<cacheVars, stage, has_submitted_work, presents, drawn, renders, render_finished>>

-----------------------------------------------------------------------------
(* The queue of the GPU, and the presentation engine.                      *)

FinishRender ==
    /\ renders # <<>> /\ ~render_finished
    /\ renders' = Tail(renders)
    /\ render_finished' = TRUE
    /\ UNCHANGED <<cacheVars, windowState, swapchain, drawn>>

ImageReady == ~(image_ready \subseteq Range(screen))
PresentMayStart == render_finished /\ ImageReady

(* Signals that have come before it are one for a semaphore.               *)
ExecutePresent ==
    /\ presents # <<>> /\ PresentMayStart
    /\ render_finished' = FALSE
    /\ image_ready' = image_ready \cap Range(screen)
    /\ screen' = Append(screen, Head(presents))
    /\ held' = held \ {Head(presents)}
    /\ presents' = Tail(presents)
    /\ UNCHANGED <<cacheVars, windowState, in_present_layout, drawn, renders>>

ShowNext ==
    /\ Len(screen) > 1
    /\ screen' = Tail(screen)
    /\ UNCHANGED <<cacheVars, windowState, image_ready, held, presents, in_present_layout,
                   drawn, renders, render_finished>>

-----------------------------------------------------------------------------
Finish(s) == FinishList(s) /\ UNCHANGED windowVars

Record ==
    /\ stage # "acquire"
    /\ \/ \E v \in Views : GetFramebuffer(v) \/ BindSet(v) \/ CreateView(v) \/ DestroyView(v)
       \/ \E s \in Sets : FreeSet(s)
    /\ UNCHANGED windowVars

PresentationNext ==
    \/ Record
    \/ BeginDraw
    \/ \E i \in Images : AcquireImage(i)
    \/ AcquireFails \/ SubmitFrame \/ SwapBuffers \/ NewFrame \/ WaitFence \/ Resize
    \/ \E s \in Slots : Finish(s)
    \/ FinishRender \/ ExecutePresent \/ ShowNext

PresentationSpec == PresentationInit /\ [][PresentationNext]_presentationVars

-----------------------------------------------------------------------------
(* Properties.                                                             *)

(* Every variable has its type; no pool gives more sets than it has.       *)
PresentationTypeOK ==
    /\ CachesTypeOK
    /\ stage \in {"idle", "acquire", "drawn", "swap"}
    /\ current_image \in Images
    /\ {has_submitted_work, render_finished} \subseteq BOOLEAN
    /\ has_rendered_one_frame \subseteq Images /\ in_present_layout \subseteq Images
    /\ drawn \in [image : Images \cup {NoImage}, barrier : BOOLEAN]
    /\ renders \in Seq([slot : Slots, image : Images])
    /\ image_ready \subseteq Images /\ held \subseteq Images
    /\ presents \in Seq(Images) /\ screen \in Seq(Images)

(* An image that is put on the screen was acquired for it, and the list    *)
(* that renders to it is neither still recorded nor unfinished, although   *)
(* later images are acquired before the present executes, acquisitions     *)
(* fail, and all frames share two semaphores and one flag                  *)
(* (imgui_swap_buffers_callback, present).                                 *)
PresentedIsDrawn ==
    [][\A i \in Images : screen' = Append(screen, i) =>
            /\ i \in held /\ drawn.image # i
            /\ \A r \in Range(renders) : r.image # i]_presentationVars

(* A render pass that begins with an image finds it in layout Present,     *)
(* also when the swapchain has been created again                          *)
(* (has_rendered_one_frame).                                               *)
LayoutKnown == drawn = NotDrawn \/ drawn.barrier \/ drawn.image \in in_present_layout
=============================================================================
