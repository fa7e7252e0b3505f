------------------------- MODULE PresentationProofs -------------------------
(***************************************************************************)
(* Theorems about Presentation, for any number of images and frames in     *)
(* flight: the caches keep their properties while a window is drawn, what  *)
(* is put on the screen has been drawn for it, and a render pass knows the *)
(* layout it finds.                                                        *)
(***************************************************************************)
EXTENDS Presentation, VulkanCachesProofs

-----------------------------------------------------------------------------
(* The caches.                                                             *)

LEMMA WindowKeepsCaches ==
    [PresentationNext]_presentationVars => [CachesNext]_cacheVars
<1> SUFFICES ASSUME [PresentationNext]_presentationVars PROVE [CachesNext]_cacheVars
  OBVIOUS
<1>1. CASE UNCHANGED presentationVars
  BY <1>1 DEF presentationVars
<1>2. CASE Record
  BY <1>2 DEF Record, CachesNext
<1>3. CASE SubmitFrame
  BY <1>3 DEF SubmitFrame, CachesNext
<1>4. CASE NewFrame \/ WaitFence
  BY <1>4 DEF NewFrame, WaitFence, CachesNext
<1>5. ASSUME NEW s \in Slots, Finish(s)
      PROVE  CachesNext
  BY <1>5 DEF Finish, CachesNext
<1>6. ASSUME NEW i \in Images, AcquireImage(i)
      PROVE  UNCHANGED cacheVars
  BY <1>6 DEF AcquireImage, Acquire
<1>7. CASE BeginDraw \/ AcquireFails \/ SwapBuffers \/ Resize
  BY <1>7 DEF BeginDraw, AcquireFails, SwapBuffers, Resize
<1>8. CASE FinishRender \/ ExecutePresent \/ ShowNext
  BY <1>8 DEF FinishRender, ExecutePresent, ShowNext
<1>9. QED
  BY <1>1, <1>2, <1>3, <1>4, <1>5, <1>6, <1>7, <1>8 DEF PresentationNext

(* A window that is drawn, presented and resized leaves the caches what    *)
(* they are without one.                                                   *)
THEOREM PresentationKeepsCaches == PresentationSpec => CachesSpec
<1>1. PresentationInit => CachesInit
  BY DEF PresentationInit
<1>2. QED
  BY <1>1, WindowKeepsCaches, PTL DEF PresentationSpec, CachesSpec

-----------------------------------------------------------------------------
(* The inductive invariant.                                                *)

(* The images whose turn to be presented is still to come, in order: those *)
(* of the queue, and the frame's.                                          *)
Pending == stage \in {"drawn", "swap"} /\ has_submitted_work
DueCount == Len(presents) + IF Pending THEN 1 ELSE 0
Due(k) == IF k <= Len(presents) THEN presents[k] ELSE current_image

(* Rendered and not presented: none, or the first that is due.             *)
Rendered == IF render_finished THEN 1 ELSE 0

DrawnWhenSubmitted ==
    /\ stage = "acquire" => ~has_submitted_work
    /\ drawn # NotDrawn <=> (stage = "drawn" /\ has_submitted_work)
    /\ drawn # NotDrawn => /\ drawn.image = current_image
                           /\ drawn.image \in has_rendered_one_frame
    /\ drawn = NotDrawn \/ drawn.image \in Images

(* The lists not finished render to the images that are due, in order.     *)
RendersAreDue ==
    /\ Len(renders) + Rendered + (IF drawn # NotDrawn THEN 1 ELSE 0) = DueCount
    /\ \A i \in 1 .. Len(renders) : renders[i].image = Due(i + Rendered)

DueOnce == \A j, k \in 1 .. DueCount : Due(j) = Due(k) => j = k
DueHeld == \A k \in 1 .. DueCount : Due(k) \in held

(* An image whose flag is set is in layout Present, or the frame's list    *)
(* takes it there.                                                         *)
FlagsMatchLayouts ==
    \A i \in has_rendered_one_frame : i \in in_present_layout \/ (drawn.barrier /\ drawn.image = i)

DrawIInv ==
    /\ PresentationTypeOK
    /\ DrawnWhenSubmitted
    /\ FlagsMatchLayouts

ImagesIInv ==
    /\ DrawIInv
    /\ RendersAreDue
    /\ DueOnce /\ DueHeld

-----------------------------------------------------------------------------
(* Types.                                                                  *)

WindowTypes ==
    /\ stage \in {"idle", "acquire", "drawn", "swap"}
    /\ current_image \in Images
    /\ {has_submitted_work, render_finished} \subseteq BOOLEAN
    /\ has_rendered_one_frame \subseteq Images /\ in_present_layout \subseteq Images
    /\ drawn \in [image : Images \cup {NoImage}, barrier : BOOLEAN]
    /\ renders \in Seq([slot : Slots, image : Images])
    /\ image_ready \subseteq Images /\ held \subseteq Images
    /\ presents \in Seq(Images) /\ screen \in Seq(Images)

LEMMA SwapchainTypes ==
    /\ NewSwapchain.current_image \in Images /\ NewSwapchain.image_ready = {}
    /\ NewSwapchain.held = {} /\ NewSwapchain.screen = <<>>
    /\ NewSwapchain.in_present_layout = {}
<1>1. (CHOOSE i \in Images : TRUE) \in Images
  BY ImagesAssumption
<1>2. QED
  BY <1>1 DEF NewSwapchain

LEMMA InitWindowTypes == PresentationInit => PresentationTypeOK
<1> SUFFICES ASSUME PresentationInit PROVE PresentationTypeOK
  OBVIOUS
<1>1. <<>> \in Seq([slot : Slots, image : Images]) /\ <<>> \in Seq(Images)
  BY EmptySeq
<1>2. NotDrawn \in [image : Images \cup {NoImage}, barrier : BOOLEAN]
  BY DEF NotDrawn
<1>3. CachesTypeOK
  BY InitTypes DEF PresentationInit
<1>4. QED
  BY <1>1, <1>2, <1>3, SwapchainTypes DEF PresentationInit, PresentationTypeOK

LEMMA AcquireTypes ==
    ASSUME WindowTypes, NEW i \in Images, AcquireImage(i)
    PROVE  WindowTypes'
<1>1. PICK result \in Results : Acquire(i, result)
  BY DEF AcquireImage
<1>2. /\ stage' = "drawn" /\ current_image' = i /\ held' = held \cup {i}
      /\ image_ready' = image_ready \cup {i}
      /\ UNCHANGED <<presents, screen, in_present_layout, renders, render_finished>>
  BY <1>1 DEF Acquire
<1>3. /\ drawn' \in [image : Images \cup {NoImage}, barrier : BOOLEAN]
      /\ has_rendered_one_frame' \subseteq Images /\ has_submitted_work' \in BOOLEAN
  <2>1. CASE result = "eSuccess"
    <3>1. /\ drawn' = [image |-> i, barrier |-> i \notin has_rendered_one_frame]
          /\ has_rendered_one_frame' = has_rendered_one_frame \cup {i}
          /\ has_submitted_work' = TRUE
      BY <1>1, <2>1 DEF Acquire, Draw
    <3>2. (i \notin has_rendered_one_frame) \in BOOLEAN
      OBVIOUS
    <3>3. drawn' \in [image : Images \cup {NoImage}, barrier : BOOLEAN]
      BY <3>1, <3>2
    <3>4. QED
      BY <3>1, <3>3 DEF WindowTypes
  <2>2. CASE result # "eSuccess"
    BY <1>1, <2>2 DEF Acquire, WindowTypes
  <2>3. QED
    BY <2>1, <2>2
<1>4. QED
  BY <1>2, <1>3 DEF WindowTypes

LEMMA SubmitTypes ==
    ASSUME PresentationTypeOK, drawn = NotDrawn \/ drawn.image \in Images, SubmitFrame
    PROVE  WindowTypes'
<1>1. /\ stage' = IF stage = "drawn" THEN "swap" ELSE "idle"
      /\ drawn' = NotDrawn
      /\ UNCHANGED <<current_image, has_submitted_work, has_rendered_one_frame, image_ready,
                     held, presents, screen, render_finished>>
  BY DEF SubmitFrame
<1>2. NotDrawn \in [image : Images \cup {NoImage}, barrier : BOOLEAN]
  BY DEF NotDrawn
<1>3. renders' \in Seq([slot : Slots, image : Images]) /\ in_present_layout' \subseteq Images
  <2>1. CASE drawn = NotDrawn
    BY <2>1 DEF SubmitFrame, PresentationTypeOK
  <2>2. CASE drawn # NotDrawn /\ drawn.image \in Images
    <3>1. [slot |-> current_frame, image |-> drawn.image] \in [slot : Slots, image : Images]
      BY <2>2 DEF PresentationTypeOK, CachesTypeOK
    <3>2. /\ renders' = Append(renders, [slot |-> current_frame, image |-> drawn.image])
          /\ in_present_layout' \subseteq in_present_layout \cup {drawn.image}
      BY <2>2 DEF SubmitFrame
    <3>3. QED
      BY <2>2, <3>1, <3>2, AppendProperties DEF PresentationTypeOK
  <2>3. QED
    BY <2>1, <2>2
<1>4. QED
  BY <1>1, <1>2, <1>3 DEF PresentationTypeOK, WindowTypes

LEMMA ExecuteTypes ==
    ASSUME WindowTypes, ExecutePresent
    PROVE  WindowTypes'
<1>1. presents # <<>> /\ presents \in Seq(Images) /\ screen \in Seq(Images)
  BY DEF ExecutePresent, WindowTypes
<1>2. Head(presents) \in Images /\ Tail(presents) \in Seq(Images)
  BY <1>1, HeadTailProperties
<1>3. Append(screen, Head(presents)) \in Seq(Images)
  BY <1>1, <1>2, AppendProperties
<1>4. QED
  BY <1>2, <1>3 DEF ExecutePresent, WindowTypes, windowState

LEMMA NextWindowTypes ==
    ASSUME PresentationTypeOK, DrawnWhenSubmitted, [PresentationNext]_presentationVars
    PROVE  PresentationTypeOK'
<1>1. CachesTypeOK'
  BY NextTypes, WindowKeepsCaches DEF PresentationTypeOK
<1>2. WindowTypes /\ CachesTypeOK
  BY DEF PresentationTypeOK, WindowTypes
<1>3. SUFFICES WindowTypes'
  BY <1>1 DEF PresentationTypeOK, WindowTypes
<1>4. CASE UNCHANGED windowVars
  BY <1>2, <1>4 DEF windowVars, windowState, swapchain, WindowTypes
<1>5. CASE Record \/ NewFrame \/ WaitFence \/ \E s \in Slots : Finish(s)
  BY <1>4, <1>5 DEF Record, NewFrame, WaitFence, Finish
<1>6. ASSUME NEW i \in Images, AcquireImage(i)
      PROVE  WindowTypes'
  BY <1>2, <1>6, AcquireTypes
<1>7. CASE SubmitFrame
  BY <1>7, SubmitTypes DEF DrawnWhenSubmitted
<1>8. CASE ExecutePresent
  BY <1>2, <1>8, ExecuteTypes
<1>9. CASE BeginDraw \/ AcquireFails
  BY <1>2, <1>9 DEF BeginDraw, NoWork, AcquireFails, swapchain, WindowTypes
<1>10. CASE SwapBuffers
  <2>1. presents' \in Seq(Images)
    BY <1>2, <1>10, AppendProperties DEF SwapBuffers, WindowTypes
  <2>2. QED
    BY <1>2, <1>10, <2>1 DEF SwapBuffers, WindowTypes
<1>11. CASE Resize
  <2>1. <<>> \in Seq(Images)
    BY EmptySeq
  <2>2. QED
    BY <1>2, <1>11, <2>1, SwapchainTypes DEF Resize, FlagsReset, WindowTypes
<1>12. CASE FinishRender
  <2>1. renders' \in Seq([slot : Slots, image : Images])
    BY <1>2, <1>12, HeadTailProperties DEF FinishRender, WindowTypes
  <2>2. QED
    BY <1>2, <1>12, <2>1 DEF FinishRender, windowState, swapchain, WindowTypes
<1>13. CASE ShowNext
  <2>1. screen # <<>> /\ screen \in Seq(Images)
    BY <1>2, <1>13, EmptySeq DEF ShowNext, WindowTypes
  <2>2. screen' \in Seq(Images)
    BY <1>13, <2>1, HeadTailProperties DEF ShowNext
  <2>3. QED
    BY <1>2, <1>13, <2>2 DEF ShowNext, windowState, WindowTypes
<1>14. QED
  BY <1>4, <1>5, <1>6, <1>7, <1>8, <1>9, <1>10, <1>11, <1>12, <1>13
  DEF PresentationNext, presentationVars

-----------------------------------------------------------------------------
(* The layouts.                                                            *)

LEMMA AcquireDraws ==
    ASSUME DrawIInv, NEW i \in Images, AcquireImage(i)
    PROVE  DrawnWhenSubmitted' /\ FlagsMatchLayouts'
<1>1. PICK result \in Results : Acquire(i, result)
  BY DEF AcquireImage
<1>2. /\ stage = "acquire" /\ stage' = "drawn" /\ current_image' = i
      /\ in_present_layout' = in_present_layout
  BY <1>1 DEF Acquire
<1>3. drawn = NotDrawn /\ ~has_submitted_work /\ i # NoImage
  BY <1>2, ImagesAssumption DEF DrawIInv, DrawnWhenSubmitted
<1>4. has_rendered_one_frame \subseteq in_present_layout
  BY <1>3 DEF DrawIInv, FlagsMatchLayouts, NotDrawn
<1>5. CASE result = "eSuccess"
  <2>1. /\ drawn' = [image |-> i, barrier |-> i \notin has_rendered_one_frame]
        /\ has_rendered_one_frame' = has_rendered_one_frame \cup {i}
        /\ has_submitted_work'
    BY <1>1, <1>5 DEF Acquire, Draw
  <2>2. drawn'.image = i /\ (drawn'.barrier <=> i \notin has_rendered_one_frame)
    BY <2>1
  <2>3. drawn' # NotDrawn
    BY <1>3, <2>2 DEF NotDrawn
  <2>4. FlagsMatchLayouts'
    BY <1>2, <1>4, <2>1, <2>2 DEF FlagsMatchLayouts
  <2>5. QED
    BY <1>2, <2>1, <2>2, <2>3, <2>4 DEF DrawnWhenSubmitted
<1>6. CASE result # "eSuccess"
  <2>1. UNCHANGED <<drawn, has_rendered_one_frame, has_submitted_work>>
    BY <1>1, <1>6 DEF Acquire
  <2>2. QED
    BY <1>2, <1>3, <2>1 DEF DrawIInv, DrawnWhenSubmitted, FlagsMatchLayouts
<1>7. QED
  BY <1>5, <1>6

LEMMA NextDrawIInv == DrawIInv /\ [PresentationNext]_presentationVars => DrawIInv'
<1> SUFFICES ASSUME DrawIInv, [PresentationNext]_presentationVars PROVE DrawIInv'
  OBVIOUS
<1>1. PresentationTypeOK'
  BY NextWindowTypes DEF DrawIInv
<1>2. SUFFICES DrawnWhenSubmitted' /\ FlagsMatchLayouts'
  BY <1>1 DEF DrawIInv
<1>3. CASE UNCHANGED windowVars
  BY <1>3 DEF windowVars, windowState, swapchain, DrawIInv, DrawnWhenSubmitted, FlagsMatchLayouts
<1>4. CASE Record \/ NewFrame \/ WaitFence \/ \E s \in Slots : Finish(s)
  BY <1>3, <1>4 DEF Record, NewFrame, WaitFence, Finish
<1>5. ASSUME NEW i \in Images, AcquireImage(i)
      PROVE  DrawnWhenSubmitted' /\ FlagsMatchLayouts'
  BY <1>5, AcquireDraws
<1>6. CASE SubmitFrame
  <2>1. /\ stage' = (IF stage = "drawn" THEN "swap" ELSE "idle") /\ drawn' = NotDrawn
        /\ UNCHANGED <<has_submitted_work, has_rendered_one_frame>>
    BY <1>6 DEF SubmitFrame
  <2>2. DrawnWhenSubmitted'
    BY <2>1 DEF DrawnWhenSubmitted
  <2>3. CASE drawn = NotDrawn
    <3>1. in_present_layout' = in_present_layout
      BY <1>6, <2>3 DEF SubmitFrame
    <3>2. QED
      BY <2>1, <2>2, <2>3, <3>1 DEF DrawIInv, FlagsMatchLayouts
  <2>4. CASE drawn # NotDrawn
    <3>1. in_present_layout' = IF drawn.barrier THEN in_present_layout \cup {drawn.image}
                               ELSE in_present_layout
      BY <1>6, <2>4 DEF SubmitFrame
    <3>2. QED
      BY <2>1, <2>2, <3>1 DEF DrawIInv, FlagsMatchLayouts
  <2>5. QED
    BY <2>3, <2>4
<1>7. CASE BeginDraw
  BY <1>7 DEF BeginDraw, NoWork, swapchain, DrawIInv, DrawnWhenSubmitted, FlagsMatchLayouts
<1>8. CASE AcquireFails
  BY <1>8 DEF AcquireFails, swapchain, DrawIInv, DrawnWhenSubmitted, FlagsMatchLayouts
<1>9. CASE SwapBuffers
  BY <1>9 DEF SwapBuffers, DrawIInv, DrawnWhenSubmitted, FlagsMatchLayouts
<1>10. CASE Resize
  <2>1. /\ stage = "idle" /\ has_rendered_one_frame' = {}
        /\ UNCHANGED <<stage, has_submitted_work, drawn>>
    BY <1>10 DEF Resize, FlagsReset
  <2>2. drawn = NotDrawn
    BY <2>1 DEF DrawIInv, DrawnWhenSubmitted
  <2>3. QED
    BY <2>1, <2>2 DEF DrawnWhenSubmitted, FlagsMatchLayouts
<1>11. CASE FinishRender \/ ExecutePresent \/ ShowNext
  BY <1>11 DEF FinishRender, ExecutePresent, ShowNext, windowState, swapchain, DrawIInv,
     DrawnWhenSubmitted, FlagsMatchLayouts
<1>12. QED
  BY <1>3, <1>4, <1>5, <1>6, <1>7, <1>8, <1>9, <1>10, <1>11
  DEF PresentationNext, presentationVars

LEMMA InitDrawIInv == PresentationInit => DrawIInv
<1> SUFFICES ASSUME PresentationInit PROVE DrawIInv
  OBVIOUS
<1>1. /\ stage = "idle" /\ drawn = NotDrawn /\ has_rendered_one_frame = {}
  BY DEF PresentationInit
<1>2. QED
  BY <1>1, InitWindowTypes DEF DrawIInv, DrawnWhenSubmitted, FlagsMatchLayouts

(* In every state of the window, what is drawn goes with the stage of the  *)
(* frame, and the renderer's flags with the layouts of the images.         *)
THEOREM DrawInvariance == PresentationSpec => []DrawIInv
<1>1. QED
  BY InitDrawIInv, NextDrawIInv, PTL DEF PresentationSpec

(* The types of the window's state hold, whatever acquiring an image       *)
(* returns (ImGuiRenderer.cpp, Swapchain).                                 *)
THEOREM PresentationTypeCorrect == PresentationSpec => []PresentationTypeOK
<1>1. DrawIInv => PresentationTypeOK
  BY DEF DrawIInv
<1>2. QED
  BY <1>1, DrawInvariance, PTL

(* A render pass of the window finds the image in layout Present, or its   *)
(* list takes it there, also after the swapchain has been created again    *)
(* (has_rendered_one_frame).                                               *)
THEOREM LayoutsKnown == PresentationSpec => []LayoutKnown
<1>1. DrawIInv => LayoutKnown
  BY DEF DrawIInv, DrawnWhenSubmitted, FlagsMatchLayouts, LayoutKnown
<1>2. QED
  BY <1>1, DrawInvariance, PTL

-----------------------------------------------------------------------------
(* The images.                                                             *)

ImagesParts == RendersAreDue /\ DueOnce /\ DueHeld

LEMMA CountFacts ==
    ASSUME DrawIInv
    PROVE  /\ presents \in Seq(Images) /\ Len(presents) \in Nat
           /\ Len(renders) \in Nat /\ Rendered \in {0, 1}
           /\ DueCount = IF Pending THEN Len(presents) + 1 ELSE Len(presents)
           /\ DueCount \in Nat /\ current_image \in Images
           /\ render_finished \in BOOLEAN /\ has_submitted_work \in BOOLEAN
BY LenProperties DEF DrawIInv, PresentationTypeOK, DueCount, Rendered

(* A step that leaves what is due, rendered and held.                      *)
LEMMA SameImages ==
    ASSUME ImagesIInv, Pending' <=> Pending, Pending => current_image' = current_image,
           (drawn' # NotDrawn) <=> (drawn # NotDrawn),
           UNCHANGED <<renders, render_finished, presents, held>>
    PROVE  ImagesParts'
<1>1. DueCount' = DueCount /\ Rendered' = Rendered
  BY DEF DueCount, Rendered
<1>2. \A k \in 1 .. DueCount : Due(k)' = Due(k)
  BY CountFacts DEF ImagesIInv, Due
<1>3. \A i \in 1 .. Len(renders) : i + Rendered \in 1 .. DueCount
  BY CountFacts DEF ImagesIInv, RendersAreDue
<1>4. RendersAreDue'
  BY <1>1, <1>2, <1>3 DEF ImagesIInv, RendersAreDue
<1>5. DueOnce' /\ DueHeld'
  BY <1>1, <1>2 DEF ImagesIInv, DueOnce, DueHeld
<1>6. QED
  BY <1>4, <1>5 DEF ImagesParts

LEMMA AcquireImages ==
    ASSUME ImagesIInv, NEW i \in Images, AcquireImage(i)
    PROVE  ImagesParts'
<1>1. PICK result \in Results : Acquire(i, result)
  BY DEF AcquireImage
<1>2. /\ stage = "acquire" /\ stage' = "drawn" /\ current_image' = i
      /\ i \notin held /\ held' = held \cup {i}
      /\ UNCHANGED <<presents, screen, renders, render_finished>>
  BY <1>1 DEF Acquire, Available
<1>3. drawn = NotDrawn /\ ~has_submitted_work /\ ~Pending /\ i # NoImage
  BY <1>2, ImagesAssumption DEF ImagesIInv, DrawIInv, DrawnWhenSubmitted, Pending
<1>4. DueCount = Len(presents) /\ \A k \in 1 .. Len(presents) : Due(k) = presents[k]
  BY <1>3, CountFacts DEF ImagesIInv, Due
<1>5. Len(presents) \in Nat /\ Len(renders) \in Nat /\ Rendered \in {0, 1}
      /\ Rendered' = Rendered
  BY <1>2, CountFacts DEF ImagesIInv, Rendered
<1>6. Len(renders) + Rendered = Len(presents)
      /\ \A k \in 1 .. Len(renders) : renders[k].image = presents[k + Rendered]
  <2>1. Len(renders) + Rendered = Len(presents)
    BY <1>3, <1>4, <1>5 DEF ImagesIInv, RendersAreDue
  <2>2. \A k \in 1 .. Len(renders) : k + Rendered \in 1 .. Len(presents)
    BY <1>5, <2>1
  <2>3. QED
    BY <1>4, <2>1, <2>2 DEF ImagesIInv, RendersAreDue
<1>7. \A k \in 1 .. Len(presents) : Due(k)' = presents[k] /\ presents[k] \in held
  BY <1>2, <1>4, <1>5 DEF ImagesIInv, DueHeld, Due
<1>8. CASE has_submitted_work' /\ drawn' # NotDrawn
  <2>1. DueCount' = Len(presents) + 1
    BY <1>2, <1>8 DEF DueCount, Pending
  <2>2. \A k : k = Len(presents) + 1 => Due(k)' = i
    BY <1>2, <1>5 DEF Due
  <2>3. \A k \in 1 .. Len(presents) + 1 : k \in 1 .. Len(presents) \/ k = Len(presents) + 1
    BY <1>5
  <2>4. RendersAreDue'
    <3>1. \A k \in 1 .. Len(renders) : k + Rendered \in 1 .. Len(presents)
      BY <1>5, <1>6
    <3>2. Len(renders) + Rendered + 1 = Len(presents) + 1
      BY <1>5, <1>6
    <3>3. QED
      BY <1>2, <1>5, <1>6, <1>7, <1>8, <2>1, <3>1, <3>2 DEF RendersAreDue
  <2>5. DueOnce'
    <3>1. \A j, k \in 1 .. Len(presents) : presents[j] = presents[k] => j = k
      BY <1>4 DEF ImagesIInv, DueOnce
    <3>2. \A k \in 1 .. Len(presents) : presents[k] # i
      BY <1>2, <1>7
    <3>3. SUFFICES ASSUME NEW j \in 1 .. Len(presents) + 1, NEW k \in 1 .. Len(presents) + 1,
                          Due(j)' = Due(k)'
                   PROVE  j = k
      BY <2>1 DEF DueOnce
    <3>4. CASE j \in 1 .. Len(presents) /\ k \in 1 .. Len(presents)
      BY <1>7, <3>1, <3>3, <3>4
    <3>5. CASE j = Len(presents) + 1
      BY <1>7, <2>2, <2>3, <3>2, <3>3, <3>5
    <3>6. CASE k = Len(presents) + 1
      BY <1>7, <2>2, <2>3, <3>2, <3>3, <3>6
    <3>7. QED
      BY <2>3, <3>4, <3>5, <3>6
  <2>6. DueHeld'
    BY <1>2, <1>7, <2>1, <2>2, <2>3 DEF DueHeld
  <2>7. QED
    BY <2>4, <2>5, <2>6 DEF ImagesParts
<1>9. CASE ~has_submitted_work' /\ drawn' = NotDrawn
  <2>1. DueCount' = Len(presents)
    BY <1>2, <1>5, <1>9 DEF DueCount, Pending
  <2>2. RendersAreDue'
    <3>1. \A k \in 1 .. Len(renders) : k + Rendered \in 1 .. Len(presents)
      BY <1>5, <1>6
    <3>2. Len(renders) + Rendered + 0 = Len(presents)
      BY <1>5, <1>6
    <3>3. QED
      BY <1>2, <1>5, <1>6, <1>7, <1>9, <2>1, <3>1, <3>2 DEF RendersAreDue
  <2>3. DueOnce'
    BY <1>4, <1>7, <2>1 DEF ImagesIInv, DueOnce
  <2>4. DueHeld'
    BY <1>2, <1>7, <2>1 DEF DueHeld
  <2>5. QED
    BY <2>2, <2>3, <2>4 DEF ImagesParts
<1>10. has_submitted_work' <=> drawn' # NotDrawn
  <2>1. DrawnWhenSubmitted'
    BY AcquireDraws DEF ImagesIInv
  <2>2. QED
    BY <1>2, <2>1 DEF DrawnWhenSubmitted
<1>11. QED
  BY <1>8, <1>9, <1>10

LEMMA SubmitImages ==
    ASSUME ImagesIInv, SubmitFrame
    PROVE  ImagesParts'
<1>1. /\ stage' = (IF stage = "drawn" THEN "swap" ELSE "idle") /\ drawn' = NotDrawn
      /\ stage \in {"idle", "drawn"}
      /\ UNCHANGED <<current_image, has_submitted_work, held, presents, screen, render_finished>>
  BY DEF SubmitFrame
<1>2. Pending' <=> Pending
  BY <1>1 DEF Pending
<1>3. CASE drawn = NotDrawn
  <2>1. renders' = renders
    BY <1>3 DEF SubmitFrame
  <2>2. QED
    BY <1>1, <1>2, <1>3, <2>1, SameImages
<1>4. CASE drawn # NotDrawn
  <2> DEFINE r == [slot |-> current_frame, image |-> drawn.image]
  <2>1. drawn.image = current_image /\ Pending
    BY <1>4 DEF ImagesIInv, DrawIInv, DrawnWhenSubmitted, Pending
  <2>2. renders' = Append(renders, r) /\ r.image = current_image
    BY <1>4, <2>1 DEF SubmitFrame
  <2>3. renders \in Seq([slot : Slots, image : Images]) /\ r \in [slot : Slots, image : Images]
    BY <2>1 DEF ImagesIInv, DrawIInv, PresentationTypeOK, CachesTypeOK
  <2> HIDE DEF r
  <2>4. /\ Len(renders') = Len(renders) + 1 /\ renders'[Len(renders) + 1] = r
        /\ \A k \in 1 .. Len(renders) : renders'[k] = renders[k]
    BY <2>2, <2>3, AppendProperties
  <2>5. /\ Len(renders) \in Nat /\ Len(presents) \in Nat /\ Rendered \in {0, 1}
        /\ Rendered' = Rendered /\ DueCount' = DueCount /\ DueCount = Len(presents) + 1
        /\ \A k : Due(k)' = Due(k)
    BY <1>1, <1>2, <2>1, CountFacts DEF ImagesIInv, Rendered, DueCount, Due
  <2>6. Len(renders) + Rendered + 1 = DueCount
    BY <1>4 DEF ImagesIInv, RendersAreDue
  <2>7. Due(Len(renders) + 1 + Rendered) = current_image
    BY <2>5, <2>6 DEF Due
  <2>8. RendersAreDue'
    <3>1. ASSUME NEW k \in 1 .. Len(renders')
          PROVE  renders'[k].image = Due(k + Rendered)
      <4>1. CASE k = Len(renders) + 1
        BY <2>2, <2>4, <2>7, <4>1
      <4>2. CASE k # Len(renders) + 1
        <5>1. k \in 1 .. Len(renders)
          BY <2>4, <2>5, <4>2
        <5>2. QED
          BY <2>4, <5>1 DEF ImagesIInv, RendersAreDue
      <4>3. QED
        BY <4>1, <4>2
    <3>2. Len(renders') + Rendered + 0 = DueCount
      BY <2>4, <2>5, <2>6
    <3>3. QED
      BY <1>1, <2>5, <3>1, <3>2 DEF RendersAreDue
  <2>9. DueOnce' /\ DueHeld'
    BY <1>1, <2>5 DEF ImagesIInv, DueOnce, DueHeld
  <2>10. QED
    BY <2>8, <2>9 DEF ImagesParts
<1>5. QED
  BY <1>3, <1>4

LEMMA SwapImages ==
    ASSUME ImagesIInv, SwapBuffers
    PROVE  ImagesParts'
<1>1. /\ stage = "swap" /\ stage' = "idle"
      /\ UNCHANGED <<current_image, has_submitted_work, held, screen, drawn, renders, render_finished>>
  BY DEF SwapBuffers
<1>2. CASE ~has_submitted_work
  <2>1. presents' = presents
    BY <1>2 DEF SwapBuffers
  <2>2. ~Pending /\ ~Pending'
    BY <1>1, <1>2 DEF Pending
  <2>3. QED
    BY <1>1, <2>1, <2>2, SameImages
<1>3. CASE has_submitted_work
  <2>1. presents' = Append(presents, current_image) /\ Pending /\ ~Pending'
    BY <1>1, <1>3 DEF SwapBuffers, Pending
  <2>2. /\ Len(presents) \in Nat /\ Len(presents') = Len(presents) + 1
        /\ presents'[Len(presents) + 1] = current_image
        /\ \A k \in 1 .. Len(presents) : presents'[k] = presents[k]
    BY <2>1, CountFacts, AppendProperties DEF ImagesIInv
  <2>3. DueCount' = DueCount /\ DueCount = Len(presents) + 1 /\ Rendered' = Rendered
    BY <1>1, <2>1, <2>2 DEF DueCount, Rendered
  <2>4. \A k \in 1 .. DueCount : Due(k)' = Due(k)
    <3> SUFFICES ASSUME NEW k \in 1 .. DueCount PROVE Due(k)' = Due(k)
      OBVIOUS
    <3>1. CASE k = Len(presents) + 1
      BY <1>1, <2>2, <3>1 DEF Due
    <3>2. CASE k # Len(presents) + 1
      <4>1. k \in 1 .. Len(presents)
        BY <2>2, <2>3, <3>2
      <4>2. QED
        BY <2>2, <4>1 DEF Due
    <3>3. QED
      BY <3>1, <3>2
  <2>5. \A i \in 1 .. Len(renders) : i + Rendered \in 1 .. DueCount
    BY CountFacts DEF ImagesIInv, RendersAreDue
  <2>6. RendersAreDue'
    BY <1>1, <2>3, <2>4, <2>5 DEF ImagesIInv, RendersAreDue
  <2>7. DueOnce' /\ DueHeld'
    BY <1>1, <2>3, <2>4 DEF ImagesIInv, DueOnce, DueHeld
  <2>8. QED
    BY <2>6, <2>7 DEF ImagesParts
<1>4. QED
  BY <1>2, <1>3

LEMMA FinishRenderImages ==
    ASSUME ImagesIInv, FinishRender
    PROVE  ImagesParts'
<1>1. /\ renders # <<>> /\ ~render_finished /\ renders' = Tail(renders) /\ render_finished'
      /\ UNCHANGED <<stage, current_image, has_submitted_work, held, screen, presents, drawn>>
  BY DEF FinishRender, windowState, swapchain
<1>2. renders \in Seq([slot : Slots, image : Images])
  BY DEF ImagesIInv, DrawIInv, PresentationTypeOK
<1>3. /\ Len(renders) \in Nat \ {0} /\ Len(renders') = Len(renders) - 1
      /\ \A k \in 1 .. Len(renders) - 1 : renders'[k] = renders[k + 1]
  BY <1>1, <1>2, HeadTailProperties, EmptySeq
<1>4. Rendered = 0 /\ Rendered' = 1 /\ DueCount' = DueCount /\ DueCount \in Nat
      /\ \A k : Due(k)' = Due(k)
  BY <1>1, CountFacts DEF ImagesIInv, Rendered, DueCount, Pending, Due
<1>5. RendersAreDue'
  <2>1. \A k \in 1 .. Len(renders) - 1 : renders'[k].image = Due(k + 1)
    <3> SUFFICES ASSUME NEW k \in 1 .. Len(renders) - 1 PROVE renders'[k].image = Due(k + 1)
      OBVIOUS
    <3>1. k + 1 \in 1 .. Len(renders) /\ k + 1 + 0 = k + 1
      BY <1>3
    <3>2. renders[k + 1].image = Due(k + 1 + 0)
      BY <1>4, <3>1 DEF ImagesIInv, RendersAreDue
    <3>3. QED
      BY <1>3, <3>1, <3>2
  <2>2. Len(renders') + 1 + (IF drawn' # NotDrawn THEN 1 ELSE 0) = DueCount
    <3>1. Len(renders) + 0 + (IF drawn # NotDrawn THEN 1 ELSE 0) = DueCount
      BY <1>4 DEF ImagesIInv, RendersAreDue
    <3>2. drawn' = drawn
      BY <1>1
    <3>3. QED
      BY <1>3, <3>1, <3>2
  <2>3. QED
    BY <1>3, <1>4, <2>1, <2>2 DEF RendersAreDue
<1>6. DueOnce' /\ DueHeld'
  BY <1>1, <1>4 DEF ImagesIInv, DueOnce, DueHeld
<1>7. QED
  BY <1>5, <1>6 DEF ImagesParts

LEMMA PresentImages ==
    ASSUME ImagesIInv, ExecutePresent
    PROVE  ImagesParts'
<1> DEFINE head == Head(presents)
<1>1. /\ presents # <<>> /\ presents' = Tail(presents)
      /\ render_finished /\ ~render_finished'
      /\ held' = held \ {head}
      /\ UNCHANGED <<stage, current_image, has_submitted_work, drawn, renders>>
  BY DEF ExecutePresent, PresentMayStart, windowState
<1>2. presents \in Seq(Images)
  BY DEF ImagesIInv, DrawIInv, PresentationTypeOK
<1>3. /\ Len(presents) \in Nat \ {0} /\ Len(presents') = Len(presents) - 1
      /\ \A k \in 1 .. Len(presents) - 1 : presents'[k] = presents[k + 1]
      /\ head = presents[1] /\ head \in Images
  BY <1>1, <1>2, HeadTailProperties, EmptySeq
<1> HIDE DEF head
<1>4. Rendered = 1 /\ Rendered' = 0 /\ DueCount \in Nat /\ DueCount' = DueCount - 1
      /\ Len(renders) \in Nat
  BY <1>1, <1>3, CountFacts DEF ImagesIInv, Rendered, DueCount, Pending
<1>5. \A k \in 1 .. DueCount' : k + 1 \in 1 .. DueCount /\ Due(k)' = Due(k + 1)
  <2> SUFFICES ASSUME NEW k \in 1 .. DueCount - 1
               PROVE  k + 1 \in 1 .. DueCount /\ Due(k)' = Due(k + 1)
    BY <1>4
  <2>1. k \in Nat /\ k >= 1 /\ k + 1 \in 1 .. DueCount
    BY <1>4
  <2>2. CASE k <= Len(presents) - 1
    <3>1. k \in 1 .. Len(presents) - 1 /\ k + 1 <= Len(presents) /\ k <= Len(presents')
      BY <1>3, <2>1, <2>2
    <3>2. QED
      BY <1>3, <2>1, <3>1 DEF Due
  <2>3. CASE ~(k <= Len(presents) - 1)
    <3>1. ~(k + 1 <= Len(presents)) /\ ~(k <= Len(presents'))
      BY <1>3, <2>1, <2>3
    <3>2. QED
      BY <1>1, <2>1, <3>1 DEF Due
  <2>4. QED
    BY <2>2, <2>3
<1>6. 1 \in 1 .. DueCount /\ Due(1) = head
  BY <1>3, CountFacts DEF ImagesIInv, Due
<1>7. RendersAreDue'
  <2>1. Len(renders) + 1 + (IF drawn # NotDrawn THEN 1 ELSE 0) = DueCount
    BY <1>4 DEF ImagesIInv, RendersAreDue
  <2>2. Len(renders') + 0 + (IF drawn' # NotDrawn THEN 1 ELSE 0) = DueCount'
    BY <1>1, <1>4, <2>1
  <2>3. ASSUME NEW k \in 1 .. Len(renders)
        PROVE  renders[k].image = Due(k + 0)'
    <3>1. k \in 1 .. DueCount' /\ k + 0 = k
      BY <1>4, <2>1
    <3>2. renders[k].image = Due(k + 1)
      BY <1>4 DEF ImagesIInv, RendersAreDue
    <3>3. QED
      BY <1>5, <3>1, <3>2
  <2>4. QED
    BY <1>1, <1>4, <2>2, <2>3 DEF RendersAreDue
<1>8. DueOnce'
  <2> SUFFICES ASSUME NEW j \in 1 .. DueCount', NEW k \in 1 .. DueCount', Due(j)' = Due(k)'
               PROVE  j = k
    BY DEF DueOnce
  <2>1. j + 1 = k + 1
    BY <1>5 DEF ImagesIInv, DueOnce
  <2>2. QED
    BY <1>4, <2>1
<1>9. DueHeld'
  <2> SUFFICES ASSUME NEW k \in 1 .. DueCount' PROVE Due(k)' \in held'
    BY DEF DueHeld
  <2>1. Due(k + 1) \in held
    BY <1>5 DEF ImagesIInv, DueHeld
  <2>2. k + 1 # 1
    BY <1>4
  <2>3. Due(k + 1) # head
    BY <1>5, <1>6, <2>2 DEF ImagesIInv, DueOnce
  <2>4. QED
    BY <1>1, <1>5, <2>1, <2>3
<1>10. QED
  BY <1>7, <1>8, <1>9 DEF ImagesParts

LEMMA ResizeImages ==
    ASSUME ImagesIInv, Resize
    PROVE  ImagesParts'
<1>1. /\ stage = "idle" /\ renders = <<>> /\ presents = <<>> /\ held' = {}
      /\ UNCHANGED <<stage, has_submitted_work, presents, drawn, renders, render_finished>>
  BY SwapchainTypes DEF Resize
<1>2. Len(presents) = 0 /\ Len(renders) = 0 /\ ~Pending /\ ~Pending'
  BY <1>1, EmptySeq DEF Pending
<1>3. DueCount = 0 /\ DueCount' = 0 /\ Rendered' = Rendered
  BY <1>1, <1>2 DEF DueCount, Rendered
<1>4. RendersAreDue' /\ DueOnce' /\ DueHeld'
  BY <1>1, <1>2, <1>3 DEF ImagesIInv, RendersAreDue, DueOnce, DueHeld
<1>5. QED
  BY <1>4 DEF ImagesParts

LEMMA ShowImages ==
    ASSUME ImagesIInv, ShowNext
    PROVE  ImagesParts'
<1>1. UNCHANGED <<stage, current_image, has_submitted_work, held, presents, drawn, renders,
                  render_finished>>
  BY DEF ShowNext, windowState
<1>2. Pending' <=> Pending
  BY <1>1 DEF Pending
<1>3. QED
  BY <1>1, <1>2, SameImages

LEMMA NextImagesIInv ==
    ImagesIInv /\ [PresentationNext]_presentationVars => ImagesIInv'
<1> SUFFICES ASSUME ImagesIInv, [PresentationNext]_presentationVars
             PROVE  ImagesIInv'
  OBVIOUS
<1>1. DrawIInv'
  BY NextDrawIInv DEF ImagesIInv
<1>2. SUFFICES ImagesParts'
  BY <1>1 DEF ImagesIInv, ImagesParts
<1>3. CASE UNCHANGED windowVars
  <2>1. UNCHANGED <<stage, current_image, has_submitted_work, renders, render_finished, presents,
                    held, drawn>>
    BY <1>3 DEF windowVars, windowState, swapchain
  <2>2. Pending' <=> Pending
    BY <2>1 DEF Pending
  <2>3. QED
    BY <2>1, <2>2, SameImages
<1>4. CASE Record \/ NewFrame \/ WaitFence \/ \E s \in Slots : Finish(s)
  BY <1>3, <1>4 DEF Record, NewFrame, WaitFence, Finish
<1>5. ASSUME NEW i \in Images, AcquireImage(i)
      PROVE  ImagesParts'
  BY <1>5, AcquireImages
<1>6. CASE BeginDraw
  <2>1. /\ stage = "idle" /\ stage' = "acquire"
        /\ UNCHANGED <<current_image, renders, render_finished, presents, held, drawn>>
    BY <1>6 DEF BeginDraw, swapchain
  <2>2. ~Pending /\ ~Pending'
    BY <2>1 DEF Pending
  <2>3. QED
    BY <2>1, <2>2, SameImages
<1>7. CASE AcquireFails
  <2>1. /\ stage = "acquire" /\ has_submitted_work' = has_submitted_work
        /\ UNCHANGED <<renders, render_finished, presents, held, drawn>>
    BY <1>7 DEF AcquireFails, swapchain
  <2>2. ~Pending /\ ~Pending'
    BY <2>1 DEF Pending, ImagesIInv, DrawIInv, DrawnWhenSubmitted
  <2>3. QED
    BY <2>1, <2>2, SameImages
<1>8. QED
  BY <1>3, <1>4, <1>5, <1>6, <1>7, SubmitImages, SwapImages, ResizeImages, FinishRenderImages,
     PresentImages, ShowImages DEF PresentationNext, presentationVars

LEMMA InitImagesIInv == PresentationInit => ImagesIInv
<1> SUFFICES ASSUME PresentationInit PROVE ImagesIInv
  OBVIOUS
<1>1. /\ stage = "idle" /\ drawn = NotDrawn /\ renders = <<>> /\ presents = <<>>
      /\ ~render_finished /\ held = {}
  BY SwapchainTypes DEF PresentationInit
<1>2. Len(presents) = 0 /\ Len(renders) = 0 /\ ~Pending
  BY <1>1, EmptySeq DEF Pending
<1>3. DueCount = 0 /\ Rendered = 0
  BY <1>1, <1>2 DEF DueCount, Rendered
<1>4. QED
  BY <1>1, <1>2, <1>3, InitDrawIInv DEF ImagesIInv, RendersAreDue, DueOnce, DueHeld

(* What PresentedIsDrawn says of a step.                                   *)
DrawnFor(i) == /\ i \in held /\ drawn.image # i
               /\ \A r \in Range(renders) : r.image # i

PutsOnScreen(i) == screen' = Append(screen, i)

LEMMA FirstIsDrawn ==
    ASSUME ImagesIInv, presents # <<>>, render_finished
    PROVE  DrawnFor(Head(presents))
<1> DEFINE head == Head(presents)
<1>1. /\ DueCount \in Nat /\ Rendered = 1 /\ Len(renders) \in Nat
      /\ Len(presents) \in Nat \ {0} /\ DueCount >= Len(presents)
      /\ head = presents[1] /\ head \in Images
  BY CountFacts, HeadTailProperties, EmptySeq DEF ImagesIInv, Rendered
<1> HIDE DEF head
<1>2. 1 \in 1 .. DueCount /\ Due(1) = head
  BY <1>1 DEF Due
<1>3. \A k \in 1 .. DueCount : k # 1 => Due(k) # head
  BY <1>2 DEF ImagesIInv, DueOnce
<1>4. head \in held
  BY <1>2 DEF ImagesIInv, DueHeld
<1>5. drawn.image # head
  <2>1. CASE drawn = NotDrawn
    BY <1>1, <2>1, ImagesAssumption DEF NotDrawn
  <2>2. CASE drawn # NotDrawn
    <3>1. Pending /\ drawn.image = current_image
      BY <2>2 DEF ImagesIInv, DrawIInv, DrawnWhenSubmitted, Pending
    <3>2. DueCount = Len(presents) + 1 /\ Due(DueCount) = current_image
      BY <1>1, <3>1 DEF DueCount, Due
    <3>3. DueCount \in 1 .. DueCount /\ DueCount # 1
      BY <1>1, <3>2
    <3>4. QED
      BY <1>3, <3>1, <3>2, <3>3
  <2>3. QED
    BY <2>1, <2>2
<1>6. ASSUME NEW r \in Range(renders)
      PROVE  r.image # head
  <2>1. PICK k \in 1 .. Len(renders) : r = renders[k]
    BY LenProperties DEF Range, ImagesIInv, DrawIInv, PresentationTypeOK
  <2>2. k + 1 \in 1 .. DueCount /\ k + 1 # 1 /\ r.image = Due(k + 1)
    BY <1>1, <2>1 DEF ImagesIInv, RendersAreDue
  <2>3. QED
    BY <1>3, <2>2
<1>7. QED
  BY <1>4, <1>5, <1>6 DEF DrawnFor, head

LEMMA OnlyPresentPuts ==
    ASSUME PresentationTypeOK, [PresentationNext]_presentationVars,
           NEW i \in Images, PutsOnScreen(i)
    PROVE  ExecutePresent /\ i = Head(presents)
<1>1. screen \in Seq(Images) /\ presents \in Seq(Images)
  BY DEF PresentationTypeOK
<1>2. /\ Len(screen) \in Nat /\ Len(screen') = Len(screen) + 1
      /\ screen'[Len(screen) + 1] = i
  BY <1>1, AppendProperties DEF PutsOnScreen
<1>3. screen' # screen
  BY <1>2
<1>4. ~ShowNext
  BY <1>1, <1>2, HeadTailProperties, EmptySeq DEF ShowNext
<1>5. ~Resize
  BY <1>2, EmptySeq, SwapchainTypes DEF Resize
<1>6. \A j \in Images : ~AcquireImage(j)
  BY <1>3 DEF AcquireImage, Acquire
<1>7. ExecutePresent
  BY <1>3, <1>4, <1>5, <1>6 DEF PresentationNext, presentationVars, windowVars, swapchain, Record,
     BeginDraw, AcquireFails, SubmitFrame, SwapBuffers, NewFrame, WaitFence, Finish, FinishRender
<1>8. screen' = Append(screen, Head(presents)) /\ Head(presents) \in Images
  BY <1>1, <1>7, HeadTailProperties DEF ExecutePresent
<1>9. screen'[Len(screen) + 1] = Head(presents)
  BY <1>1, <1>8, AppendProperties
<1>10. QED
  BY <1>2, <1>7, <1>9

LEMMA StepsPresentDrawn ==
    ASSUME ImagesIInv, [PresentationNext]_presentationVars
    PROVE  \A i \in Images : PutsOnScreen(i) => DrawnFor(i)
<1> SUFFICES ASSUME NEW i \in Images, PutsOnScreen(i) PROVE DrawnFor(i)
  OBVIOUS
<1>1. ExecutePresent /\ i = Head(presents)
  BY OnlyPresentPuts DEF ImagesIInv, DrawIInv
<1>2. QED
  BY <1>1, FirstIsDrawn DEF ExecutePresent, PresentMayStart

(* Whatever image the engine gives and when, and however many presents are *)
(* still queued: an image is put on the screen only if it was acquired for *)
(* it and the list that renders to it has finished (acquire_image,         *)
(* present, imgui_swap_buffers_callback).                                  *)
THEOREM PresentsAreDrawn == PresentationSpec => PresentedIsDrawn
<1>1. ImagesIInv /\ [PresentationNext]_presentationVars => ImagesIInv'
  BY NextImagesIInv
<1>2. ImagesIInv /\ [PresentationNext]_presentationVars
      => [\A i \in Images : PutsOnScreen(i) => DrawnFor(i)]_presentationVars
  BY StepsPresentDrawn
<1>3. PresentationSpec => [][\A i \in Images : PutsOnScreen(i) => DrawnFor(i)]_presentationVars
  BY <1>1, <1>2, InitImagesIInv, PTL DEF PresentationSpec
<1>4. QED
  BY <1>3 DEF PresentedIsDrawn, PutsOnScreen, DrawnFor

(* The theorems about the caches hold of a program that draws a window.    *)
THEOREM WindowCachesSafe ==
    PresentationSpec => [](FramebuffersExist /\ SetsIntact /\ FoundIsCurrent)
<1>1. QED
  BY PresentationKeepsCaches, CachesInvariance, CachesSafe, PTL
=============================================================================
