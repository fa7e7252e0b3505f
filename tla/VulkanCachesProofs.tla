------------------------- MODULE VulkanCachesProofs -------------------------
(***************************************************************************)
(* Theorems about VulkanCaches, for any number of frames in flight, views, *)
(* framebuffers and descriptor sets: no framebuffer is destroyed and no    *)
(* set written while a list uses it, and what the caches find was made     *)
(* for the view that is there or for one freed a few frames before. All of *)
(* them rest on how many frames pass before the list of a slot is waited   *)
(* for; none on what addresses the heap gives.                             *)
(***************************************************************************)
EXTENDS VulkanCaches, SequenceTheorems, TLAPS

-----------------------------------------------------------------------------
(* Types.                                                                  *)

LEMMA SlotFacts ==
    /\ FramesInFlight \in Nat \ {0} /\ MaxLifetime \in Nat /\ SetsPerPool \in Nat \ {0}
    /\ FramesInFlight + 2 <= MaxLifetime /\ 0 \in Slots
    /\ \A c \in Slots :
          /\ c \in Nat /\ c < FramesInFlight
          /\ (c + 1) % FramesInFlight = IF c + 1 = FramesInFlight THEN 0 ELSE c + 1
          /\ (c + 1) % FramesInFlight \in Slots
BY LifetimeAssumption DEF Slots

LEMMA EnoughFacts == Enough \in Nat /\ Enough = MaxLifetime - FramesInFlight
BY SlotFacts DEF Enough

LEMMA EntryFacts ==
    ASSUME CachesTypeOK, NEW v \in Views
    PROVE  /\ framebuffers[v] # None =>
                 /\ framebuffers[v].object \in Framebuffers
                 /\ framebuffers[v].lifetime \in 0 .. MaxLifetime - 1
           /\ descriptor_sets[v] # None =>
                 /\ descriptor_sets[v].object \in Sets
                 /\ descriptor_sets[v].lifetime \in 0 .. MaxLifetime - 1
           /\ framebuffers[v].object = Null <=> framebuffers[v] = None
           /\ descriptor_sets[v].object = Null <=> descriptor_sets[v] = None
<1>1. framebuffers[v] \in Entries(Framebuffers) /\ descriptor_sets[v] \in Entries(Sets)
  BY DEF CachesTypeOK
<1>2. QED
  BY <1>1, NullAssumption DEF Entries, None

LEMMA MadeTypes ==
    ASSUME NEW objects, NEW o \in objects
    PROVE  Made(o) \in Entries(objects) /\ None \in Entries(objects)
BY SlotFacts DEF Made, Entries

LEMMA AgedTypes ==
    ASSUME NEW objects, NEW cache \in [Views -> Entries(objects)]
    PROVE  Aged(cache) \in [Views -> Entries(objects)]
<1>1. ASSUME NEW v \in Views, cache[v] # None, ~Expires(cache[v])
      PROVE  [cache[v] EXCEPT !.lifetime = @ + 1] \in Entries(objects)
  BY <1>1, SlotFacts DEF Entries, Expires
<1>2. None \in Entries(objects)
  BY DEF Entries
<1>3. QED
  BY <1>1, <1>2 DEF Aged

LEMMA InitTypes == CachesInit => CachesTypeOK
<1> SUFFICES ASSUME CachesInit PROVE CachesTypeOK
  OBVIOUS
<1>1. <<>> \in Seq(Sets)
  BY EmptySeq
<1>2. QED
  BY <1>1, SlotFacts, EnoughFacts DEF CachesInit, CachesTypeOK, Entries

LEMMA GetFramebufferTypes ==
    ASSUME CachesTypeOK, NEW v \in Views, GetFramebuffer(v)
    PROVE  CachesTypeOK'
<1>1. CASE framebuffers[v] # None
  <2>1. framebuffers[v].object \in Objects
    BY <1>1, EntryFacts DEF Objects
  <2>2. Found(framebuffers[v]) \in Entries(Framebuffers)
    BY <1>1, SlotFacts DEF CachesTypeOK, Entries, Found
  <2>3. framebuffers' = [framebuffers EXCEPT ![v] = Found(@)] /\ outdated' = outdated
        /\ recording' = recording \cup {<<framebuffers[v].object, v>>}
    BY <1>1 DEF GetFramebuffer, Use
  <2>4. QED
    BY <2>1, <2>2, <2>3 DEF CachesTypeOK, GetFramebuffer, heap, pools
<1>2. CASE framebuffers[v] = None
  <2> DEFINE fresh == Framebuffers \ (Held(framebuffers) \cup InUse)
             fb == CHOOSE f \in fresh : TRUE
  <2>1. fb \in Framebuffers
    BY <1>2 DEF GetFramebuffer
  <2>2. framebuffers' = [framebuffers EXCEPT ![v] = Made(fb)] /\ Use(fb, v) /\ New(fb)
    BY <1>2 DEF GetFramebuffer
  <2> HIDE DEF fb
  <2>3. Made(fb) \in Entries(Framebuffers)
    BY <2>1, MadeTypes
  <2>4. QED
    BY <2>1, <2>2, <2>3 DEF CachesTypeOK, GetFramebuffer, Use, New, heap, pools, Objects
<1>3. QED
  BY <1>1, <1>2

LEMMA WriteSetTypes ==
    ASSUME CachesTypeOK, NEW v \in Views, NEW s \in Sets, WriteSet(s, v)
    PROVE  /\ contents' \in [Sets -> Views \cup {Null}]
           /\ descriptor_sets' \in [Views -> Entries(Sets)]
           /\ recording' \subseteq Objects \X Views
           /\ outdated' \subseteq Objects
BY MadeTypes DEF CachesTypeOK, WriteSet, Use, New, Objects

LEMMA FreeHead ==
    ASSUME CachesTypeOK, free_descriptor_sets # <<>>
    PROVE  /\ Head(free_descriptor_sets) \in Sets
           /\ Head(free_descriptor_sets) = free_descriptor_sets[1]
           /\ Tail(free_descriptor_sets) \in Seq(Sets)
           /\ Len(free_descriptor_sets) \in Nat \ {0}
           /\ Len(Tail(free_descriptor_sets)) = Len(free_descriptor_sets) - 1
           /\ \A i \in 1 .. Len(free_descriptor_sets) - 1 :
                 Tail(free_descriptor_sets)[i] = free_descriptor_sets[i + 1]
BY HeadTailProperties, EmptySeq DEF CachesTypeOK

LEMMA BindSetTypes ==
    ASSUME CachesTypeOK, NEW v \in Views, BindSet(v)
    PROVE  CachesTypeOK'
<1>1. CASE FindSet(v)
  <2>1. descriptor_sets[v].object \in Objects
    BY <1>1, EntryFacts DEF Objects, FindSet
  <2>2. Found(descriptor_sets[v]) \in Entries(Sets)
    BY <1>1, SlotFacts DEF CachesTypeOK, Entries, Found, FindSet
  <2>3. QED
    BY <1>1, <2>1, <2>2 DEF CachesTypeOK, BindSet, FindSet, Use, heap, pools
<1>2. CASE RecycleSet(v)
  <2>1. Head(free_descriptor_sets) \in Sets /\ Tail(free_descriptor_sets) \in Seq(Sets)
    BY <1>2, FreeHead DEF RecycleSet
  <2>2. QED
    BY <1>2, <2>1, WriteSetTypes DEF CachesTypeOK, BindSet, RecycleSet, Popped, heap
<1>3. CASE AllocateSet(v)
  <2> DEFINE s == CHOOSE s \in Lost : TRUE
  <2>1. s \in Sets /\ WriteSet(s, v)
    BY <1>3 DEF AllocateSet, Lost
  <2> HIDE DEF s
  <2>2. allocations' \in 0 .. SetsPerPool
    BY <1>3, SlotFacts DEF AllocateSet, HasRoom, CachesTypeOK
  <2>3. QED
    BY <1>3, <2>1, <2>2, WriteSetTypes DEF CachesTypeOK, BindSet, AllocateSet, heap
<1>4. QED
  BY <1>1, <1>2, <1>3 DEF BindSet

LEMMA NextTypes == CachesTypeOK /\ [CachesNext]_cacheVars => CachesTypeOK'
<1> SUFFICES ASSUME CachesTypeOK, [CachesNext]_cacheVars PROVE CachesTypeOK'
  OBVIOUS
<1>1. CASE UNCHANGED cacheVars
  BY <1>1 DEF CachesTypeOK, cacheVars, frames, heap, pools
<1>2. ASSUME NEW v \in Views, GetFramebuffer(v) \/ BindSet(v) \/ CreateView(v) \/ DestroyView(v)
      PROVE  CachesTypeOK'
  <2>1. CASE CreateView(v)
    BY <2>1 DEF CachesTypeOK, CreateView, frames, heap, pools
  <2>2. CASE DestroyView(v)
    BY <2>2 DEF CachesTypeOK, DestroyView, frames, heap, pools
  <2>3. QED
    BY <1>2, <2>1, <2>2, GetFramebufferTypes, BindSetTypes
<1>3. ASSUME NEW s \in Sets, FreeSet(s)
      PROVE  CachesTypeOK'
  <2>1. free_descriptor_sets' \in Seq(Sets)
    BY <1>3, AppendProperties DEF CachesTypeOK, FreeSet
  <2>2. None \in Entries(Sets)
    BY DEF Entries
  <2>3. descriptor_sets' \in [Views -> Entries(Sets)]
    BY <1>3, <2>2 DEF CachesTypeOK, FreeSet
  <2>4. QED
    BY <1>3, <2>1, <2>3 DEF CachesTypeOK, FreeSet, frames, heap
<1>4. CASE EndFrame
  BY <1>4 DEF CachesTypeOK, EndFrame, heap, pools
<1>5. CASE AgeCaches
  <2>1. /\ framebuffers' \in [Views -> Entries(Framebuffers)]
        /\ descriptor_sets' \in [Views -> Entries(Sets)]
    BY <1>5, AgedTypes DEF CachesTypeOK, AgeCaches
  <2>2. rested' \in [Views -> 0 .. Enough]
    BY <1>5, EnoughFacts DEF CachesTypeOK, AgeCaches
  <2>3. QED
    BY <1>5, <2>1, <2>2 DEF CachesTypeOK, AgeCaches, pools
<1>6. CASE StartFrame
  <2>1. ASSUME NEW v \in Views
        PROVE  MadeWith(v) \subseteq Objects
    BY <2>1, EntryFacts DEF MadeWith, Objects
  <2>2. outdated' \subseteq Objects
    BY <1>6, <2>1, SlotFacts DEF CachesTypeOK, StartFrame
  <2>3. QED
    BY <1>6, <2>2, SlotFacts, EnoughFacts DEF CachesTypeOK, StartFrame, pools
<1>7. ASSUME NEW s \in Slots, FinishList(s)
      PROVE  CachesTypeOK'
  BY <1>7 DEF CachesTypeOK, FinishList, heap, pools
<1>8. QED
  BY <1>1, <1>2, <1>3, <1>4, <1>5, <1>6, <1>7 DEF CachesNext

(* The types of the caches hold, whatever is drawn and bound               *)
(* (RenderPass.cpp, PipelineLayout.cpp).                                   *)
THEOREM CachesTypeCorrect == CachesSpec => []CachesTypeOK
<1>1. QED
  BY InitTypes, NextTypes, PTL DEF CachesSpec

-----------------------------------------------------------------------------
(* The inductive invariant.                                                *)

(* How many times the caches age before the fence of a slot is waited for. *)
Ahead(s) == IF s > current_frame THEN s - current_frame
            ELSE s - current_frame + FramesInFlight
Left(s) == IF phase = "startup" THEN Ahead(s) + 1
           ELSE IF phase = "waiting" THEN Ahead(s) - 1 ELSE Ahead(s)

(* What the list of a slot uses, while it is recorded and executed.        *)
SlotUses(s) == executing[s] \cup IF s = current_frame THEN recording ELSE {}

(* A framebuffer in use has its entry, which is younger the longer its     *)
(* list is still to be waited for.                                         *)
EntryOutlivesList(s, u) ==
    u[1] \in Framebuffers =>
        /\ framebuffers[u[2]].object = u[1]
        /\ framebuffers[u[2]].lifetime + Left(s) <= FramesInFlight + 1

(* A view is freed when the last list that was given it is waited for, or  *)
(* later.                                                                  *)
FreedAfterList(s, u) == \A e \in Slots : u[2] \in expired[e] => Left(s) <= Left(e)

UseSafe(s, u) ==
    /\ EntryOutlivesList(s, u) /\ FreedAfterList(s, u)
    /\ u[1] \in Sets => contents[u[1]] = u[2]
    /\ u[1] \notin Range(free_descriptor_sets)
    /\ u[2] \in views \/ Expired(u[2])
    /\ u[1] \in outdated => rested[u[2]] < Enough

UsesSafe == \A s \in Slots : \A u \in SlotUses(s) : UseSafe(s, u)

(* No two entries share an object, and no set of an entry is free.         *)
OneFramebuffer ==
    \A v, w \in Views : framebuffers[v] # None /\ framebuffers[v].object = framebuffers[w].object
                        => v = w

SetsOfEntries ==
    \A v \in Views : descriptor_sets[v] # None =>
        /\ contents[descriptor_sets[v].object] = v
        /\ descriptor_sets[v].object \notin Range(free_descriptor_sets)

FreeOnce ==
    \A i, j \in DOMAIN free_descriptor_sets :
        free_descriptor_sets[i] = free_descriptor_sets[j] => i = j

ListEnded == phase \in {"ended", "waiting"} => recording = {}

ExpiredOnce ==
    \A e \in Slots : \A v \in expired[e] :
        v \notin views /\ \A d \in Slots : v \in expired[d] => d = e

(* The entries of a view that was destroyed are old enough to expire       *)
(* before its address has rested for Enough frames.                        *)
OldEntry(entry, v) ==
    entry # None =>
        /\ \A e \in Slots : v \in expired[e] => entry.lifetime + Left(e) >= FramesInFlight
        /\ (\A e \in Slots : v \notin expired[e]) =>
               entry.lifetime >= FramesInFlight + rested[v]

EntriesExpireInTime ==
    \A v \in Views \ views : OldEntry(framebuffers[v], v) /\ OldEntry(descriptor_sets[v], v)

(* A client finds nothing that is outdated where the address has rested.   *)
FindsCurrent(v) ==
    framebuffers[v].object \in outdated \/ descriptor_sets[v].object \in outdated
        => rested[v] < Enough

ViewsFindCurrent == \A v \in views : FindsCurrent(v)

CachesIInv ==
    /\ CachesTypeOK
    /\ UsesSafe
    /\ OneFramebuffer /\ SetsOfEntries /\ FreeOnce
    /\ ListEnded /\ ExpiredOnce
    /\ EntriesExpireInTime /\ ViewsFindCurrent

LEMMA LeftFacts ==
    ASSUME CachesTypeOK, NEW s \in Slots
    PROVE  /\ Left(s) \in Nat /\ Left(s) <= Left(current_frame)
           /\ Left(current_frame) \in Nat /\ Left(current_frame) <= FramesInFlight + 1
           /\ phase # "waiting" => Left(s) >= 1 /\ Left(current_frame) >= FramesInFlight
<1>1. current_frame \in Slots
  BY DEF CachesTypeOK
<1>2. QED
  BY <1>1, SlotFacts DEF Left, Ahead

LEMMA LeftKept ==
    ASSUME CachesTypeOK, NEW s \in Slots, current_frame' = current_frame,
           phase' = phase \/ (phase = "frame" /\ phase' = "ended")
    PROVE  Left(s)' = Left(s)
BY DEF Left, Ahead

LEMMA LeftAges ==
    ASSUME CachesTypeOK, NEW s \in Slots, AgeCaches
    PROVE  Left(s)' = Left(s) - 1
<1>1. /\ current_frame \in Slots /\ current_frame' = current_frame
      /\ phase \in {"startup", "ended"}
      /\ phase' = IF phase = "startup" THEN "frame" ELSE "waiting"
  BY DEF CachesTypeOK, AgeCaches
<1>2. QED
  BY <1>1, SlotFacts DEF Left, Ahead

LEMMA LeftStarts ==
    ASSUME CachesTypeOK, StartFrame, NEW s \in Slots
    PROVE  /\ current_frame' \in Slots
           /\ Left(current_frame') = 0
           /\ s = current_frame' => Left(s)' = FramesInFlight
           /\ s # current_frame' => Left(s)' = Left(s) /\ Left(s) > 0
<1>1. /\ current_frame \in Slots /\ phase = "waiting" /\ phase' = "frame"
      /\ current_frame' = IF current_frame + 1 = FramesInFlight THEN 0 ELSE current_frame + 1
  BY SlotFacts DEF StartFrame, CachesTypeOK
<1>2. /\ current_frame' \in Slots
      /\ s \in Nat /\ s < FramesInFlight /\ current_frame \in Nat
      /\ current_frame < FramesInFlight /\ FramesInFlight \in Nat \ {0}
  BY <1>1, SlotFacts
<1>3. Left(s) = Ahead(s) - 1 /\ Left(s)' = Ahead(s)' /\ Left(current_frame') = Ahead(current_frame') - 1
  BY <1>1 DEF Left
<1>4. QED
  BY <1>1, <1>2, <1>3 DEF Ahead

LEMMA UseFacts ==
    ASSUME CachesTypeOK, NEW s \in Slots, NEW u \in SlotUses(s)
    PROVE  /\ u[1] \in Objects /\ u[2] \in Views
           /\ u \in AllUses /\ u[1] \in InUse
<1>1. u \in recording \cup UNION {executing[t] : t \in Slots}
  BY DEF SlotUses
<1>2. u \in Objects \X Views
  BY <1>1 DEF CachesTypeOK
<1>3. QED
  BY <1>1, <1>2 DEF AllUses, InUse

LEMMA InitCachesIInv == CachesInit => CachesIInv
<1> SUFFICES ASSUME CachesInit PROVE CachesIInv
  OBVIOUS
<1>1. \A s \in Slots : SlotUses(s) = {} /\ expired[s] = {}
  BY DEF CachesInit, SlotUses
<1>2. \A v \in Views : framebuffers[v] = None /\ descriptor_sets[v] = None
  BY DEF CachesInit
<1>3. FreeOnce /\ ViewsFindCurrent /\ ListEnded
  BY EmptySeq DEF CachesInit, FreeOnce, ViewsFindCurrent, FindsCurrent, ListEnded
<1>4. QED
  BY <1>1, <1>2, <1>3, InitTypes DEF CachesIInv, UsesSafe, OneFramebuffer, SetsOfEntries,
     ExpiredOnce, EntriesExpireInTime, OldEntry

(* A framebuffer, found or made, is that of one entry, and outdated only   *)
(* if the address of the view has not rested.                              *)
LEMMA FramebufferGot ==
    ASSUME CachesIInv, NEW v \in Views, GetFramebuffer(v)
    PROVE  \E o \in Framebuffers :
              /\ framebuffers' = [framebuffers EXCEPT ![v] = Made(o)]
              /\ recording' = recording \cup {<<o, v>>}
              /\ outdated' \subseteq outdated /\ (o \in outdated' => rested[v] < Enough)
              /\ \A w \in Views \ {v} : framebuffers[w].object # o
              /\ framebuffers[v] # None => framebuffers[v].object = o
              /\ framebuffers[v] = None => o \notin InUse
<1>1. CASE framebuffers[v] # None
  <2> DEFINE o == framebuffers[v].object
  <2>1. o \in Framebuffers
    BY <1>1, EntryFacts DEF CachesIInv
  <2>2. Found(framebuffers[v]) = Made(o)
    <3>1. framebuffers[v] \in [object : Framebuffers, lifetime : 0 .. MaxLifetime - 1]
      BY <1>1 DEF CachesIInv, CachesTypeOK, Entries
    <3>2. QED
      BY <3>1 DEF Found, Made
  <2>3. \A w \in Views \ {v} : framebuffers[w].object # o
    BY <1>1 DEF CachesIInv, OneFramebuffer
  <2>4. v \in views /\ outdated' = outdated /\ recording' = recording \cup {<<o, v>>}
        /\ framebuffers' = [framebuffers EXCEPT ![v] = Found(@)]
    BY <1>1 DEF GetFramebuffer, Use
  <2>5. o \in outdated => rested[v] < Enough
    BY <2>4 DEF CachesIInv, ViewsFindCurrent, FindsCurrent
  <2> HIDE DEF o
  <2>6. framebuffers' = [framebuffers EXCEPT ![v] = Made(o)]
    BY <2>2, <2>4
  <2>7. QED
    BY <1>1, <2>1, <2>3, <2>4, <2>5, <2>6 DEF o
<1>2. CASE framebuffers[v] = None
  <2> DEFINE fresh == Framebuffers \ (Held(framebuffers) \cup InUse)
             fb == CHOOSE f \in fresh : TRUE
  <2>1. fb \in Framebuffers /\ fb \notin Held(framebuffers) /\ fb \notin InUse
    BY <1>2 DEF GetFramebuffer
  <2>2. framebuffers' = [framebuffers EXCEPT ![v] = Made(fb)] /\ Use(fb, v) /\ New(fb)
    BY <1>2 DEF GetFramebuffer
  <2> HIDE DEF fb
  <2>3. \A w \in Views : framebuffers[w].object # fb
    BY <2>1, NullAssumption DEF Held
  <2>4. QED
    BY <1>2, <2>1, <2>2, <2>3 DEF Use, New
<1>3. QED
  BY <1>1, <1>2

LEMMA GetFramebufferStep ==
    ASSUME CachesIInv, NEW v \in Views, GetFramebuffer(v)
    PROVE  CachesIInv'
<1>1. PICK o \in Framebuffers :
              /\ framebuffers' = [framebuffers EXCEPT ![v] = Made(o)]
              /\ recording' = recording \cup {<<o, v>>}
              /\ outdated' \subseteq outdated /\ (o \in outdated' => rested[v] < Enough)
              /\ \A w \in Views \ {v} : framebuffers[w].object # o
              /\ framebuffers[v] # None => framebuffers[v].object = o
              /\ framebuffers[v] = None => o \notin InUse
  BY FramebufferGot
<1>2. /\ v \in views /\ phase \in {"startup", "frame"}
      /\ UNCHANGED <<phase, current_frame, executing, views, expired, rested>>
      /\ UNCHANGED <<descriptor_sets, free_descriptor_sets, contents>>
  BY DEF GetFramebuffer, MayRecord, heap, pools
<1>3. CachesTypeOK /\ CachesTypeOK'
  BY GetFramebufferTypes DEF CachesIInv
<1>4. \A w \in Views : framebuffers'[w] = IF w = v THEN Made(o) ELSE framebuffers[w]
  BY <1>1, <1>3 DEF CachesTypeOK
<1>5. Made(o).object = o /\ Made(o).lifetime = 0
  BY DEF Made
<1>6. \A s \in Slots : Left(s)' = Left(s)
  BY <1>2, <1>3, LeftKept
<1>7. UsesSafe'
  <2> SUFFICES ASSUME NEW s \in Slots, NEW u \in SlotUses(s)'
               PROVE  UseSafe(s, u)'
    BY DEF UsesSafe
  <2>1. CASE u \in SlotUses(s)
    <3>1. UseSafe(s, u) /\ u[1] \in InUse /\ u[2] \in Views
      BY <1>3, <2>1, UseFacts DEF CachesIInv, UsesSafe
    <3>2. EntryOutlivesList(s, u)'
      <4> SUFFICES ASSUME u[1] \in Framebuffers
                   PROVE  /\ framebuffers'[u[2]].object = u[1]
                          /\ framebuffers'[u[2]].lifetime + Left(s)' <= FramesInFlight + 1
        BY DEF EntryOutlivesList
      <4>1. /\ framebuffers[u[2]].object = u[1]
            /\ framebuffers[u[2]].lifetime + Left(s) <= FramesInFlight + 1
        BY <3>1 DEF UseSafe, EntryOutlivesList
      <4>2. CASE u[2] = v
        <5>1. framebuffers[v] # None
          BY <4>1, <4>2, NullAssumption DEF None
        <5>2. o = u[1]
          BY <1>1, <4>1, <4>2, <5>1
        <5>3. Left(s) \in Nat /\ Left(s) <= FramesInFlight + 1 /\ FramesInFlight \in Nat
          BY <1>3, LeftFacts, SlotFacts
        <5>4. QED
          BY <1>4, <1>5, <1>6, <3>1, <4>2, <5>2, <5>3
      <4>3. CASE u[2] # v
        BY <1>4, <1>6, <3>1, <4>1, <4>3
      <4>4. QED
        BY <4>2, <4>3
    <3>3. FreedAfterList(s, u)'
      BY <1>2, <1>6, <3>1 DEF UseSafe, FreedAfterList
    <3>4. QED
      BY <1>1, <1>2, <3>1, <3>2, <3>3 DEF UseSafe, Expired
  <2>2. CASE s = current_frame /\ u = <<o, v>>
    <3>1. u[1] = o /\ u[2] = v
      BY <2>2
    <3>2. EntryOutlivesList(s, u)'
      <4>1. Left(s) \in Nat /\ Left(s) <= FramesInFlight + 1 /\ FramesInFlight \in Nat
        BY <1>3, LeftFacts, SlotFacts
      <4>2. QED
        BY <1>4, <1>5, <1>6, <3>1, <4>1 DEF EntryOutlivesList
    <3>3. FreedAfterList(s, u)'
      BY <1>2, <3>1 DEF FreedAfterList, CachesIInv, ExpiredOnce
    <3>4. o \notin Sets /\ o \notin Range(free_descriptor_sets)
      BY <1>3, NullAssumption, ElementOfSeq DEF CachesTypeOK, Range
    <3>5. QED
      BY <1>1, <1>2, <3>1, <3>2, <3>3, <3>4 DEF UseSafe
  <2>3. QED
    BY <1>1, <1>2, <2>1, <2>2 DEF SlotUses
<1>8. OneFramebuffer'
  BY <1>1, <1>4, <1>5 DEF CachesIInv, OneFramebuffer
<1>9. SetsOfEntries' /\ FreeOnce' /\ ListEnded' /\ ExpiredOnce'
  BY <1>2 DEF CachesIInv, SetsOfEntries, FreeOnce, ListEnded, ExpiredOnce
<1>10. EntriesExpireInTime'
  BY <1>2, <1>4, <1>6 DEF CachesIInv, EntriesExpireInTime, OldEntry
<1>11. ViewsFindCurrent'
  BY <1>1, <1>2, <1>3, <1>4, <1>5 DEF CachesIInv, ViewsFindCurrent, FindsCurrent, CachesTypeOK
<1>12. QED
  BY <1>3, <1>7, <1>8, <1>9, <1>10, <1>11 DEF CachesIInv

(* A descriptor set, found, recycled or allocated, is that of one entry,   *)
(* not free, and outdated only if the address has not rested.              *)
SetGiven(s, v) ==
    /\ descriptor_sets' = [descriptor_sets EXCEPT ![v] = Made(s)]
    /\ recording' = recording \cup {<<s, v>>}
    /\ contents'[s] = v /\ \A t \in Sets \ {s} : contents'[t] = contents[t]
    /\ outdated' \subseteq outdated /\ (s \in outdated' => rested[v] < Enough)
    /\ Range(free_descriptor_sets') \subseteq Range(free_descriptor_sets)
    /\ s \notin Range(free_descriptor_sets')
    /\ FreeOnce'
    /\ \A w \in Views \ {v} : descriptor_sets[w].object # s
    /\ descriptor_sets[v] # None => descriptor_sets[v].object = s /\ contents[s] = v
    /\ descriptor_sets[v] = None => s \notin InUse

LEMMA WriteSetFacts ==
    ASSUME CachesTypeOK, NEW v \in Views, NEW s \in Sets, WriteSet(s, v)
    PROVE  /\ descriptor_sets' = [descriptor_sets EXCEPT ![v] = Made(s)]
           /\ recording' = recording \cup {<<s, v>>}
           /\ contents'[s] = v /\ \A t \in Sets \ {s} : contents'[t] = contents[t]
           /\ outdated' \subseteq outdated /\ s \notin outdated'
BY DEF CachesTypeOK, WriteSet, Use, New

LEMMA FoundSet ==
    ASSUME CachesIInv, NEW v \in Views, v \in views, FindSet(v)
    PROVE  \E s \in Sets : SetGiven(s, v)
<1> DEFINE s == descriptor_sets[v].object
<1>1. descriptor_sets[v] # None /\ s \in Sets /\ CachesTypeOK
  BY EntryFacts DEF CachesIInv, FindSet
<1>2. contents[s] = v /\ s \notin Range(free_descriptor_sets)
      /\ (s \in outdated => rested[v] < Enough)
  BY <1>1 DEF CachesIInv, SetsOfEntries, ViewsFindCurrent, FindsCurrent
<1>3. Found(descriptor_sets[v]) = Made(s)
  <2>1. descriptor_sets[v] \in [object : Sets, lifetime : 0 .. MaxLifetime - 1]
    BY <1>1 DEF CachesTypeOK, Entries
  <2>2. QED
    BY <2>1 DEF Found, Made
<1>4. \A w \in Views \ {v} : descriptor_sets[w].object # s
  BY <1>1, <1>2, EntryFacts, NullAssumption DEF CachesIInv, SetsOfEntries
<1>5. /\ descriptor_sets' = [descriptor_sets EXCEPT ![v] = Found(@)]
      /\ recording' = recording \cup {<<s, v>>}
      /\ UNCHANGED <<contents, free_descriptor_sets, outdated>>
  BY DEF FindSet, Use, pools
<1> HIDE DEF s
<1>6. descriptor_sets' = [descriptor_sets EXCEPT ![v] = Made(s)]
  BY <1>3, <1>5
<1>7. FreeOnce'
  BY <1>5 DEF CachesIInv, FreeOnce
<1>8. SetGiven(s, v)
  BY <1>1, <1>2, <1>4, <1>5, <1>6, <1>7 DEF SetGiven, s
<1>9. QED
  BY <1>1, <1>8

LEMMA RecycledSet ==
    ASSUME CachesIInv, NEW v \in Views, RecycleSet(v)
    PROVE  \E s \in Sets : SetGiven(s, v)
<1> DEFINE s == Head(free_descriptor_sets)
<1>1. CachesTypeOK /\ free_descriptor_sets # <<>> /\ descriptor_sets[v] = None
  BY DEF CachesIInv, RecycleSet
<1>2. free_descriptor_sets' = Tail(free_descriptor_sets) /\ WriteSet(s, v)
  BY DEF RecycleSet, Popped
<1>3. /\ s \in Sets /\ s = free_descriptor_sets[1]
      /\ Len(free_descriptor_sets) \in Nat \ {0}
      /\ DOMAIN free_descriptor_sets = 1 .. Len(free_descriptor_sets)
      /\ DOMAIN free_descriptor_sets' = 1 .. Len(free_descriptor_sets) - 1
      /\ \A i \in 1 .. Len(free_descriptor_sets) - 1 :
            free_descriptor_sets'[i] = free_descriptor_sets[i + 1]
  BY <1>1, <1>2, FreeHead, LenProperties DEF CachesTypeOK
<1> HIDE DEF s
<1>4. s \in Range(free_descriptor_sets)
  BY <1>3 DEF Range
<1>5. \A i \in DOMAIN free_descriptor_sets' : i \in Nat /\ i + 1 \in DOMAIN free_descriptor_sets
  BY <1>3
<1>6. FreeOnce'
  BY <1>3, <1>5 DEF CachesIInv, FreeOnce
<1>7. Range(free_descriptor_sets') \subseteq Range(free_descriptor_sets)
  BY <1>3, <1>5 DEF Range
<1>8. s \notin Range(free_descriptor_sets')
  <2> SUFFICES ASSUME NEW i \in DOMAIN free_descriptor_sets', s = free_descriptor_sets'[i]
               PROVE  FALSE
    BY DEF Range
  <2>1. i \in Nat \ {0} /\ i + 1 \in DOMAIN free_descriptor_sets
    BY <1>3, <1>5
  <2>2. 1 \in DOMAIN free_descriptor_sets
    BY <1>3
  <2>3. free_descriptor_sets[i + 1] = free_descriptor_sets[1]
    <3>1. i \in 1 .. Len(free_descriptor_sets) - 1
      BY <1>3
    <3>2. QED
      BY <1>3, <3>1
  <2>4. i + 1 = 1
    BY <2>1, <2>2, <2>3 DEF CachesIInv, FreeOnce
  <2>5. QED
    BY <2>1, <2>4
<1>9. \A w \in Views : descriptor_sets[w].object # s
  BY <1>3, <1>4, NullAssumption DEF CachesIInv, SetsOfEntries, None
<1>10. s \notin InUse
  <2> SUFFICES ASSUME NEW u \in recording \cup UNION {executing[t] : t \in Slots}
               PROVE  u[1] # s
    BY DEF InUse
  <2>1. PICK t \in Slots : u \in SlotUses(t)
    BY <1>1 DEF SlotUses, CachesTypeOK
  <2>2. QED
    BY <1>4, <2>1 DEF CachesIInv, UsesSafe, UseSafe
<1>11. SetGiven(s, v)
  BY <1>1, <1>2, <1>3, <1>6, <1>7, <1>8, <1>9, <1>10, WriteSetFacts DEF SetGiven
<1>12. QED
  BY <1>3, <1>11

LEMMA AllocatedSet ==
    ASSUME CachesIInv, NEW v \in Views, AllocateSet(v)
    PROVE  \E s \in Sets : SetGiven(s, v)
<1> DEFINE s == CHOOSE t \in Lost : TRUE
<1>1. s \in Lost /\ WriteSet(s, v) /\ descriptor_sets[v] = None
      /\ free_descriptor_sets' = free_descriptor_sets
  BY DEF AllocateSet
<1> HIDE DEF s
<1>2. s \in Sets /\ s \notin InUse /\ s \notin Range(free_descriptor_sets)
      /\ \A w \in Views : descriptor_sets[w].object # s
  BY <1>1, NullAssumption DEF Lost, Held
<1>3. FreeOnce'
  BY <1>1 DEF CachesIInv, FreeOnce
<1>4. CachesTypeOK
  BY DEF CachesIInv
<1>5. SetGiven(s, v)
  BY <1>1, <1>2, <1>3, <1>4, WriteSetFacts DEF SetGiven
<1>6. QED
  BY <1>2, <1>5

LEMMA BindSetStep ==
    ASSUME CachesIInv, NEW v \in Views, BindSet(v)
    PROVE  CachesIInv'
<1>1. PICK o \in Sets : SetGiven(o, v)
  BY FoundSet, RecycledSet, AllocatedSet DEF BindSet
<1>2. /\ v \in views
      /\ UNCHANGED <<phase, current_frame, executing, views, expired, rested, framebuffers>>
  BY DEF BindSet, heap
<1>3. CachesTypeOK /\ CachesTypeOK'
  BY BindSetTypes DEF CachesIInv
<1>4. \A w \in Views : descriptor_sets'[w] = IF w = v THEN Made(o) ELSE descriptor_sets[w]
  BY <1>1, <1>3 DEF CachesTypeOK, SetGiven
<1>5. Made(o).object = o /\ o # Null
  BY NullAssumption DEF Made
<1>6. \A s \in Slots : Left(s)' = Left(s)
  BY <1>2, <1>3, LeftKept
<1>7. UsesSafe'
  <2> SUFFICES ASSUME NEW s \in Slots, NEW u \in SlotUses(s)'
               PROVE  UseSafe(s, u)'
    BY DEF UsesSafe
  <2>1. CASE u \in SlotUses(s)
    <3>1. UseSafe(s, u) /\ u[1] \in InUse
      BY <1>3, <2>1, UseFacts DEF CachesIInv, UsesSafe
    <3>2. EntryOutlivesList(s, u)' /\ FreedAfterList(s, u)'
      BY <1>2, <1>6, <3>1 DEF UseSafe, EntryOutlivesList, FreedAfterList
    <3>3. u[1] \in Sets => contents'[u[1]] = u[2]
      BY <1>1, <3>1 DEF UseSafe, SetGiven
    <3>4. QED
      BY <1>1, <1>2, <3>1, <3>2, <3>3 DEF UseSafe, SetGiven, Expired
  <2>2. CASE s = current_frame /\ u = <<o, v>>
    <3>1. u[1] = o /\ u[2] = v
      BY <2>2
    <3>2. EntryOutlivesList(s, u)'
      BY <3>1, NullAssumption DEF EntryOutlivesList
    <3>3. FreedAfterList(s, u)'
      BY <1>2, <3>1 DEF FreedAfterList, CachesIInv, ExpiredOnce
    <3>4. QED
      BY <1>1, <1>2, <3>1, <3>2, <3>3 DEF UseSafe, SetGiven
  <2>3. QED
    BY <1>1, <1>2, <2>1, <2>2 DEF SlotUses, SetGiven
<1>8. SetsOfEntries'
  <2> SUFFICES ASSUME NEW w \in Views, descriptor_sets'[w] # None
               PROVE  /\ contents'[descriptor_sets'[w].object] = w
                      /\ descriptor_sets'[w].object \notin Range(free_descriptor_sets')
    BY DEF SetsOfEntries
  <2>1. CASE w = v
    BY <1>1, <1>4, <1>5, <2>1 DEF SetGiven
  <2>2. CASE w # v
    <3>1. descriptor_sets'[w] = descriptor_sets[w] /\ descriptor_sets[w].object \in Sets \ {o}
      BY <1>1, <1>3, <1>4, <2>2, EntryFacts DEF SetGiven
    <3>2. QED
      BY <1>1, <3>1 DEF CachesIInv, SetsOfEntries, SetGiven
  <2>3. QED
    BY <2>1, <2>2
<1>9. OneFramebuffer' /\ ExpiredOnce'
  BY <1>2 DEF CachesIInv, OneFramebuffer, ExpiredOnce
<1>10. FreeOnce'
  BY <1>1 DEF SetGiven
<1>11. ListEnded'
  BY <1>2 DEF ListEnded, BindSet, MayRecord
<1>12. EntriesExpireInTime'
  BY <1>2, <1>4, <1>6 DEF CachesIInv, EntriesExpireInTime, OldEntry
<1>13. ViewsFindCurrent'
  <2> SUFFICES ASSUME NEW w \in views'
               PROVE  FindsCurrent(w)'
    BY DEF ViewsFindCurrent
  <2>1. w \in Views /\ FindsCurrent(w)
    BY <1>2, <1>3 DEF CachesTypeOK, CachesIInv, ViewsFindCurrent
  <2>2. QED
    BY <1>1, <1>2, <1>4, <1>5, <2>1 DEF FindsCurrent, SetGiven
<1>14. QED
  BY <1>3, <1>7, <1>8, <1>9, <1>10, <1>11, <1>12, <1>13 DEF CachesIInv

LEMMA FreeSetStep ==
    ASSUME CachesIInv, NEW s \in Sets, FreeSet(s)
    PROVE  CachesIInv'
<1> DEFINE queue == free_descriptor_sets
           v == contents[s]
<1>1. /\ s \notin InUse /\ s \notin Range(queue) /\ v # Null
      /\ descriptor_sets' = [descriptor_sets EXCEPT ![v] = None]
      /\ queue' = Append(queue, s)
      /\ UNCHANGED <<frames, heap, framebuffers, contents, outdated>>
  BY DEF FreeSet
<1>2. CachesTypeOK /\ CachesTypeOK'
  <2>1. CachesTypeOK /\ [CachesNext]_cacheVars
    BY DEF CachesIInv, CachesNext
  <2>2. QED
    BY <2>1, NextTypes
<1>3. v \in Views /\ queue \in Seq(Sets)
  BY <1>1, <1>2 DEF CachesTypeOK
<1>4. /\ Len(queue) \in Nat /\ DOMAIN queue = 1 .. Len(queue)
      /\ DOMAIN queue' = 1 .. Len(queue) + 1
      /\ queue'[Len(queue) + 1] = s
      /\ \A i \in 1 .. Len(queue) : queue'[i] = queue[i]
  BY <1>1, <1>3, AppendProperties, LenProperties
<1> HIDE DEF v, queue
<1>5. Range(queue') = Range(queue) \cup {s}
  <2>1. \A i \in DOMAIN queue' : i \in DOMAIN queue \/ i = Len(queue) + 1
    BY <1>4
  <2>2. \A i \in DOMAIN queue : i \in DOMAIN queue' /\ queue'[i] = queue[i]
    BY <1>4
  <2>3. Len(queue) + 1 \in DOMAIN queue'
    BY <1>4
  <2>4. QED
    BY <1>4, <2>1, <2>2, <2>3 DEF Range
<1>6. FreeOnce'
  <2> SUFFICES ASSUME NEW i \in DOMAIN queue', NEW j \in DOMAIN queue', queue'[i] = queue'[j]
               PROVE  i = j
    BY DEF FreeOnce, queue
  <2>1. CASE i \in DOMAIN queue /\ j \in DOMAIN queue
    BY <1>4, <2>1 DEF CachesIInv, FreeOnce, queue
  <2>2. CASE i \notin DOMAIN queue /\ j \notin DOMAIN queue
    BY <1>4, <2>2
  <2>3. CASE i \in DOMAIN queue /\ j \notin DOMAIN queue
    <3>1. queue[i] = s
      BY <1>4, <2>3
    <3>2. QED
      BY <1>1, <2>3, <3>1 DEF Range
  <2>4. CASE i \notin DOMAIN queue /\ j \in DOMAIN queue
    <3>1. queue[j] = s
      BY <1>4, <2>4
    <3>2. QED
      BY <1>1, <2>4, <3>1 DEF Range
  <2>5. QED
    BY <2>1, <2>2, <2>3, <2>4
<1>7. UNCHANGED <<phase, current_frame, recording, executing, views, expired, rested>>
  BY <1>1 DEF frames, heap
<1>8. \A t \in Slots : Left(t)' = Left(t) /\ SlotUses(t)' = SlotUses(t)
  BY <1>2, <1>7, LeftKept DEF SlotUses
<1>9. \A w \in Views : descriptor_sets'[w] = IF w = v THEN None ELSE descriptor_sets[w]
  BY <1>1, <1>2, <1>3 DEF CachesTypeOK
<1>10. UsesSafe'
  <2> SUFFICES ASSUME NEW t \in Slots, NEW u \in SlotUses(t)
               PROVE  UseSafe(t, u)'
    BY <1>8 DEF UsesSafe
  <2>1. UseSafe(t, u) /\ u[1] # s
    BY <1>1, <1>2, UseFacts DEF CachesIInv, UsesSafe
  <2>2. EntryOutlivesList(t, u)' /\ FreedAfterList(t, u)'
    BY <1>1, <1>7, <1>8, <2>1 DEF UseSafe, EntryOutlivesList, FreedAfterList
  <2>3. QED
    BY <1>1, <1>5, <1>7, <2>1, <2>2 DEF UseSafe, Expired, queue
<1>11. SetsOfEntries'
  <2> SUFFICES ASSUME NEW w \in Views, descriptor_sets'[w] # None
               PROVE  /\ contents[descriptor_sets[w].object] = w /\ w # v
                      /\ descriptor_sets[w].object \notin Range(queue')
    BY <1>1, <1>9 DEF SetsOfEntries, queue
  <2>1. descriptor_sets[w] # None /\ w # v
    BY <1>9
  <2>2. QED
    BY <1>5, <2>1 DEF CachesIInv, SetsOfEntries, v, queue
<1>12. OneFramebuffer' /\ ListEnded' /\ ExpiredOnce'
  BY <1>1, <1>7 DEF CachesIInv, OneFramebuffer, ListEnded, ExpiredOnce
<1>13. EntriesExpireInTime'
  BY <1>1, <1>7, <1>8, <1>9 DEF CachesIInv, EntriesExpireInTime, OldEntry
<1>14. ViewsFindCurrent'
  <2>1. Null \notin outdated
    BY <1>2, NullAssumption DEF CachesTypeOK, Objects
  <2>2. views \subseteq Views
    BY <1>2 DEF CachesTypeOK
  <2>3. QED
    BY <1>1, <1>7, <1>9, <2>1, <2>2 DEF CachesIInv, ViewsFindCurrent, FindsCurrent, None
<1>15. QED
  BY <1>2, <1>6, <1>10, <1>11, <1>12, <1>13, <1>14 DEF CachesIInv

LEMMA CreateViewStep ==
    ASSUME CachesIInv, NEW v \in Views, CreateView(v)
    PROVE  CachesIInv'
<1>1. /\ v \notin views /\ \A e \in Slots : v \notin expired[e]
      /\ views' = views \cup {v}
      /\ UNCHANGED <<phase, current_frame, recording, executing, expired, rested>>
      /\ UNCHANGED <<framebuffers, descriptor_sets, free_descriptor_sets, contents, outdated>>
  BY DEF CreateView, Expired, frames, pools
<1>2. CachesTypeOK /\ CachesTypeOK'
  <2>1. CachesTypeOK /\ [CachesNext]_cacheVars
    BY DEF CachesIInv, CachesNext
  <2>2. QED
    BY <2>1, NextTypes
<1>3. \A t \in Slots : Left(t)' = Left(t) /\ SlotUses(t)' = SlotUses(t)
  BY <1>1, <1>2, LeftKept DEF SlotUses
<1>4. ASSUME ~(rested[v] < Enough)
      PROVE  framebuffers[v] = None /\ descriptor_sets[v] = None
  <2>1. ASSUME NEW entry, OldEntry(entry, v), entry # None
        PROVE  ~(entry.lifetime \in 0 .. MaxLifetime - 1)
    <3>1. rested[v] = Enough
      BY <1>2, <1>4, EnoughFacts DEF CachesTypeOK
    <3>2. QED
      BY <1>1, <2>1, <3>1, EnoughFacts, SlotFacts DEF OldEntry
  <2>2. OldEntry(framebuffers[v], v) /\ OldEntry(descriptor_sets[v], v)
    BY <1>1 DEF CachesIInv, EntriesExpireInTime
  <2>3. QED
    BY <1>2, <2>1, <2>2, EntryFacts
<1>5. UsesSafe'
  <2> SUFFICES ASSUME NEW t \in Slots, NEW u \in SlotUses(t)
               PROVE  UseSafe(t, u)'
    BY <1>3 DEF UsesSafe
  <2>1. UseSafe(t, u)
    BY DEF CachesIInv, UsesSafe
  <2>2. EntryOutlivesList(t, u)' /\ FreedAfterList(t, u)'
    BY <1>1, <1>3, <2>1 DEF UseSafe, EntryOutlivesList, FreedAfterList
  <2>3. QED
    BY <1>1, <2>1, <2>2 DEF UseSafe, Expired
<1>6. OneFramebuffer' /\ SetsOfEntries' /\ FreeOnce' /\ ListEnded'
  BY <1>1 DEF CachesIInv, OneFramebuffer, SetsOfEntries, FreeOnce, ListEnded
<1>7. ExpiredOnce'
  BY <1>1 DEF CachesIInv, ExpiredOnce
<1>8. EntriesExpireInTime'
  BY <1>1, <1>3 DEF CachesIInv, EntriesExpireInTime, OldEntry
<1>9. ViewsFindCurrent'
  <2>1. Null \notin outdated
    BY <1>2, NullAssumption DEF CachesTypeOK, Objects
  <2>2. QED
    BY <1>1, <1>4, <2>1 DEF CachesIInv, ViewsFindCurrent, FindsCurrent, None
<1>10. QED
  BY <1>2, <1>5, <1>6, <1>7, <1>8, <1>9 DEF CachesIInv

LEMMA DestroyViewStep ==
    ASSUME CachesIInv, NEW v \in Views, DestroyView(v)
    PROVE  CachesIInv'
<1>1. /\ v \in views /\ phase # "waiting"
      /\ views' = views \ {v}
      /\ expired' = [expired EXCEPT ![current_frame] = @ \cup {v}]
      /\ UNCHANGED <<phase, current_frame, recording, executing, rested>>
      /\ UNCHANGED <<framebuffers, descriptor_sets, free_descriptor_sets, contents, outdated>>
  BY DEF DestroyView, frames, pools
<1>2. CachesTypeOK /\ CachesTypeOK'
  <2>1. CachesTypeOK /\ [CachesNext]_cacheVars
    BY DEF CachesIInv, CachesNext
  <2>2. QED
    BY <2>1, NextTypes
<1>3. \A t \in Slots : Left(t)' = Left(t) /\ SlotUses(t)' = SlotUses(t)
  BY <1>1, <1>2, LeftKept DEF SlotUses
<1>4. \A e \in Slots : expired'[e] = IF e = current_frame THEN expired[e] \cup {v} ELSE expired[e]
  BY <1>1, <1>2 DEF CachesTypeOK
<1>5. \A e \in Slots : v \notin expired[e]
  BY <1>1 DEF CachesIInv, ExpiredOnce
<1>6. current_frame \in Slots /\ Left(current_frame) >= FramesInFlight
      /\ Left(current_frame) \in Nat
  BY <1>1, <1>2, LeftFacts DEF CachesTypeOK
<1>7. UsesSafe'
  <2> SUFFICES ASSUME NEW t \in Slots, NEW u \in SlotUses(t)
               PROVE  UseSafe(t, u)'
    BY <1>3 DEF UsesSafe
  <2>1. UseSafe(t, u)
    BY DEF CachesIInv, UsesSafe
  <2>2. EntryOutlivesList(t, u)'
    BY <1>1, <1>3, <2>1 DEF UseSafe, EntryOutlivesList
  <2>3. FreedAfterList(t, u)'
    BY <1>2, <1>3, <1>4, <2>1, LeftFacts DEF UseSafe, FreedAfterList
  <2>4. u[2] \in views' \/ Expired(u[2])'
    BY <1>1, <1>4, <1>6, <2>1 DEF UseSafe, Expired
  <2>5. QED
    BY <1>1, <2>1, <2>2, <2>3, <2>4 DEF UseSafe
<1>8. OneFramebuffer' /\ SetsOfEntries' /\ FreeOnce' /\ ListEnded'
  BY <1>1 DEF CachesIInv, OneFramebuffer, SetsOfEntries, FreeOnce, ListEnded
<1>9. ExpiredOnce'
  BY <1>1, <1>4, <1>5 DEF CachesIInv, ExpiredOnce
<1>10. EntriesExpireInTime'
  <2> SUFFICES ASSUME NEW w \in Views, w \notin views'
               PROVE  OldEntry(framebuffers[w], w)' /\ OldEntry(descriptor_sets[w], w)'
    BY <1>1 DEF EntriesExpireInTime
  <2>1. CASE w # v
    <3>1. OldEntry(framebuffers[w], w) /\ OldEntry(descriptor_sets[w], w)
      BY <1>1, <2>1 DEF CachesIInv, EntriesExpireInTime
    <3>2. QED
      BY <1>1, <1>3, <1>4, <2>1, <3>1 DEF OldEntry
  <2>2. CASE w = v
    <3>1. v \in expired'[current_frame] /\ \A e \in Slots : v \in expired'[e] => e = current_frame
      BY <1>4, <1>5, <1>6
    <3>2. ASSUME NEW entry, entry.lifetime \in Nat
          PROVE  entry.lifetime + Left(current_frame) >= FramesInFlight
      BY <1>6, <3>2, SlotFacts
    <3>3. /\ framebuffers[v] # None => framebuffers[v].lifetime \in Nat
          /\ descriptor_sets[v] # None => descriptor_sets[v].lifetime \in Nat
      BY <1>2, EntryFacts
    <3>4. QED
      BY <1>1, <1>3, <1>6, <2>2, <3>1, <3>2, <3>3 DEF OldEntry
  <2>3. QED
    BY <2>1, <2>2
<1>11. ViewsFindCurrent'
  BY <1>1 DEF CachesIInv, ViewsFindCurrent, FindsCurrent
<1>12. QED
  BY <1>2, <1>7, <1>8, <1>9, <1>10, <1>11 DEF CachesIInv

LEMMA EndFrameStep ==
    ASSUME CachesIInv, EndFrame
    PROVE  CachesIInv'
<1>1. /\ phase = "frame" /\ phase' = "ended" /\ recording' = {}
      /\ UNCHANGED <<current_frame, views, expired, rested>>
      /\ UNCHANGED <<framebuffers, descriptor_sets, free_descriptor_sets, contents, outdated>>
  BY DEF EndFrame, heap, pools
<1>2. CachesTypeOK /\ CachesTypeOK'
  <2>1. CachesTypeOK /\ [CachesNext]_cacheVars
    BY DEF CachesIInv, CachesNext
  <2>2. QED
    BY <2>1, NextTypes
<1>3. \A t \in Slots : Left(t)' = Left(t)
  BY <1>1, <1>2, LeftKept
<1>4. \A t \in Slots : SlotUses(t)' \subseteq SlotUses(t)
  BY <1>1, <1>2 DEF SlotUses, EndFrame, CachesTypeOK
<1>5. UsesSafe'
  <2> SUFFICES ASSUME NEW t \in Slots, NEW u \in SlotUses(t)
               PROVE  UseSafe(t, u)'
    BY <1>4 DEF UsesSafe
  <2>1. UseSafe(t, u)
    BY DEF CachesIInv, UsesSafe
  <2>2. EntryOutlivesList(t, u)' /\ FreedAfterList(t, u)'
    BY <1>1, <1>3, <2>1 DEF UseSafe, EntryOutlivesList, FreedAfterList
  <2>3. QED
    BY <1>1, <2>1, <2>2 DEF UseSafe, Expired
<1>6. OneFramebuffer' /\ SetsOfEntries' /\ FreeOnce' /\ ListEnded' /\ ExpiredOnce'
  BY <1>1 DEF CachesIInv, OneFramebuffer, SetsOfEntries, FreeOnce, ListEnded, ExpiredOnce
<1>7. EntriesExpireInTime' /\ ViewsFindCurrent'
  BY <1>1, <1>3 DEF CachesIInv, EntriesExpireInTime, OldEntry, ViewsFindCurrent, FindsCurrent
<1>8. QED
  BY <1>2, <1>5, <1>6, <1>7 DEF CachesIInv

LEMMA AgedFacts ==
    ASSUME CachesTypeOK, AgeCaches, NEW v \in Views
    PROVE  /\ framebuffers'[v] # None =>
                 /\ framebuffers[v] # None
                 /\ framebuffers'[v].object = framebuffers[v].object
                 /\ framebuffers'[v].lifetime = framebuffers[v].lifetime + 1
           /\ descriptor_sets'[v] # None =>
                 /\ descriptor_sets[v] # None
                 /\ descriptor_sets'[v].object = descriptor_sets[v].object
                 /\ descriptor_sets'[v].lifetime = descriptor_sets[v].lifetime + 1
           /\ framebuffers[v] # None /\ framebuffers[v].lifetime + 1 < MaxLifetime =>
                 framebuffers'[v] # None
<1>1. ASSUME NEW objects, Null \notin objects, NEW cache \in [Views -> Entries(objects)]
      PROVE  /\ Aged(cache)[v] # None =>
                   /\ cache[v] # None
                   /\ Aged(cache)[v].object = cache[v].object
                   /\ Aged(cache)[v].lifetime = cache[v].lifetime + 1
             /\ cache[v] # None /\ cache[v].lifetime + 1 < MaxLifetime => Aged(cache)[v] # None
  <2>1. Aged(cache)[v] = IF cache[v] = None \/ Expires(cache[v]) THEN None
                         ELSE [cache[v] EXCEPT !.lifetime = @ + 1]
    BY DEF Aged
  <2>2. CASE cache[v] = None
    BY <2>1, <2>2
  <2>3. CASE cache[v] # None
    <3>1. cache[v] \in [object : objects, lifetime : 0 .. MaxLifetime - 1]
      BY <2>3 DEF Entries
    <3>2. PICK o \in objects, n \in 0 .. MaxLifetime - 1 :
             cache[v] = [object |-> o, lifetime |-> n]
      BY <3>1
    <3>3. [cache[v] EXCEPT !.lifetime = @ + 1] = [object |-> o, lifetime |-> n + 1]
      BY <3>2
    <3>4. Expires(cache[v]) <=> n + 1 >= MaxLifetime
      BY <3>2 DEF Expires
    <3>5. [object |-> o, lifetime |-> n + 1] # None
      BY <1>1 DEF None
    <3>6. CASE n + 1 >= MaxLifetime
      BY <2>1, <3>2, <3>4, <3>6, SlotFacts
    <3>7. CASE ~(n + 1 >= MaxLifetime)
      <4>1. Aged(cache)[v] = [object |-> o, lifetime |-> n + 1]
        BY <2>1, <2>3, <3>3, <3>4, <3>7
      <4>2. QED
        BY <2>3, <3>2, <3>5, <4>1
    <3>8. QED
      BY <3>6, <3>7
  <2>4. QED
    BY <2>2, <2>3
<1>2. /\ framebuffers \in [Views -> Entries(Framebuffers)]
      /\ descriptor_sets \in [Views -> Entries(Sets)]
      /\ framebuffers' = Aged(framebuffers) /\ descriptor_sets' = Aged(descriptor_sets)
      /\ Null \notin Framebuffers /\ Null \notin Sets
  BY NullAssumption DEF CachesTypeOK, AgeCaches
<1>3. QED
  BY <1>1, <1>2

LEMMA AgeCachesStep ==
    ASSUME CachesIInv, AgeCaches
    PROVE  CachesIInv'
<1>1. /\ phase \in {"startup", "ended"}
      /\ phase' = IF phase = "startup" THEN "frame" ELSE "waiting"
      /\ outdated' \subseteq outdated
      /\ rested' = [v \in Views |-> IF v \in views \/ Expired(v) \/ rested[v] = Enough
                                   THEN rested[v] ELSE rested[v] + 1]
      /\ UNCHANGED <<current_frame, recording, executing, views, expired>>
      /\ UNCHANGED <<free_descriptor_sets, contents>>
  BY DEF AgeCaches, pools
<1>2. CachesTypeOK /\ CachesTypeOK'
  <2>1. CachesTypeOK /\ [CachesNext]_cacheVars
    BY DEF CachesIInv, CachesNext
  <2>2. QED
    BY <2>1, NextTypes
<1>3. \A t \in Slots : /\ Left(t)' = Left(t) - 1 /\ SlotUses(t)' = SlotUses(t)
                       /\ Left(t) \in Nat /\ Left(t) >= 1
  BY <1>1, <1>2, LeftAges, LeftFacts DEF SlotUses
<1>4. UsesSafe'
  <2> SUFFICES ASSUME NEW t \in Slots, NEW u \in SlotUses(t)
               PROVE  UseSafe(t, u)'
    BY <1>3 DEF UsesSafe
  <2>1. UseSafe(t, u) /\ u[2] \in Views
    BY <1>2, UseFacts DEF CachesIInv, UsesSafe
  <2>2. EntryOutlivesList(t, u)'
    <3> SUFFICES ASSUME u[1] \in Framebuffers
                 PROVE  /\ framebuffers'[u[2]].object = u[1]
                        /\ framebuffers'[u[2]].lifetime + Left(t)' <= FramesInFlight + 1
      BY DEF EntryOutlivesList
    <3>1. /\ framebuffers[u[2]].object = u[1]
          /\ framebuffers[u[2]].lifetime + Left(t) <= FramesInFlight + 1
      BY <2>1 DEF UseSafe, EntryOutlivesList
    <3>2. framebuffers[u[2]] # None /\ framebuffers[u[2]].lifetime \in Nat
      <4>1. framebuffers[u[2]] # None
        BY <3>1, NullAssumption DEF None
      <4>2. QED
        BY <1>2, <2>1, <4>1, EntryFacts
    <3>3. framebuffers[u[2]].lifetime + 1 < MaxLifetime
      BY <1>3, <3>1, <3>2, SlotFacts
    <3>4. /\ framebuffers'[u[2]].object = framebuffers[u[2]].object
          /\ framebuffers'[u[2]].lifetime = framebuffers[u[2]].lifetime + 1
      BY <1>2, <2>1, <3>2, <3>3, AgedFacts
    <3>5. QED
      BY <1>3, <3>1, <3>2, <3>4, SlotFacts
  <2>3. FreedAfterList(t, u)'
    BY <1>1, <1>3, <2>1 DEF UseSafe, FreedAfterList
  <2>4. rested'[u[2]] = rested[u[2]] /\ Expired(u[2])' = Expired(u[2])
    BY <1>1, <2>1 DEF UseSafe, Expired
  <2>5. QED
    BY <1>1, <2>1, <2>2, <2>3, <2>4 DEF UseSafe
<1>5. OneFramebuffer'
  <2> SUFFICES ASSUME NEW v \in Views, NEW w \in Views, framebuffers'[v] # None,
                      framebuffers'[v].object = framebuffers'[w].object
               PROVE  v = w
    BY DEF OneFramebuffer
  <2>1. framebuffers'[w] # None
    BY <1>2, NullAssumption DEF CachesTypeOK, Entries, None
  <2>2. framebuffers[v] # None /\ framebuffers[v].object = framebuffers[w].object
    BY <1>2, <2>1, AgedFacts
  <2>3. QED
    BY <2>2 DEF CachesIInv, OneFramebuffer
<1>6. SetsOfEntries'
  <2> SUFFICES ASSUME NEW v \in Views, descriptor_sets'[v] # None
               PROVE  /\ contents[descriptor_sets'[v].object] = v
                      /\ descriptor_sets'[v].object \notin Range(free_descriptor_sets)
    BY <1>1 DEF SetsOfEntries
  <2>1. descriptor_sets[v] # None /\ descriptor_sets'[v].object = descriptor_sets[v].object
    BY <1>2, AgedFacts
  <2>2. QED
    BY <2>1 DEF CachesIInv, SetsOfEntries
<1>7. FreeOnce' /\ ListEnded' /\ ExpiredOnce'
  <2>1. ListEnded'
    BY <1>1 DEF CachesIInv, ListEnded
  <2>2. QED
    BY <1>1, <2>1 DEF CachesIInv, FreeOnce, ExpiredOnce
<1>8. EntriesExpireInTime'
  <2> SUFFICES ASSUME NEW v \in Views, v \notin views
               PROVE  OldEntry(framebuffers[v], v)' /\ OldEntry(descriptor_sets[v], v)'
    BY <1>1 DEF EntriesExpireInTime
  <2>1. OldEntry(framebuffers[v], v) /\ OldEntry(descriptor_sets[v], v)
    BY DEF CachesIInv, EntriesExpireInTime
  <2>2. /\ rested[v] \in Nat /\ rested'[v] \in {rested[v], rested[v] + 1}
        /\ FramesInFlight \in Nat
    BY <1>1, <1>2, EnoughFacts, SlotFacts DEF CachesTypeOK
  <2>3. ASSUME NEW entry, OldEntry(entry, v), entry # None, entry.lifetime \in Nat,
               NEW aged, aged.lifetime = entry.lifetime + 1
        PROVE  /\ \A e \in Slots : v \in expired'[e] => aged.lifetime + Left(e)' >= FramesInFlight
               /\ (\A e \in Slots : v \notin expired'[e]) =>
                      aged.lifetime >= FramesInFlight + rested'[v]
    <3>1. ASSUME NEW e \in Slots, v \in expired'[e]
          PROVE  aged.lifetime + Left(e)' >= FramesInFlight
      BY <1>1, <1>3, <2>2, <2>3, <3>1 DEF OldEntry
    <3>2. ASSUME \A e \in Slots : v \notin expired'[e]
          PROVE  aged.lifetime >= FramesInFlight + rested'[v]
      BY <1>1, <2>2, <2>3, <3>2 DEF OldEntry
    <3>3. QED
      BY <3>1, <3>2
  <2>4. /\ framebuffers[v] # None => framebuffers[v].lifetime \in Nat
        /\ descriptor_sets[v] # None => descriptor_sets[v].lifetime \in Nat
    BY <1>2, EntryFacts
  <2>5. OldEntry(framebuffers[v], v)'
    BY <1>2, <2>1, <2>3, <2>4, AgedFacts DEF OldEntry
  <2>6. OldEntry(descriptor_sets[v], v)'
    BY <1>2, <2>1, <2>3, <2>4, AgedFacts DEF OldEntry
  <2>7. QED
    BY <2>5, <2>6
<1>9. ViewsFindCurrent'
  <2> SUFFICES ASSUME NEW v \in views
               PROVE  FindsCurrent(v)'
    BY <1>1 DEF ViewsFindCurrent
  <2>1. v \in Views /\ Null \notin outdated /\ FindsCurrent(v)
    BY <1>2, NullAssumption DEF CachesTypeOK, Objects, CachesIInv, ViewsFindCurrent
  <2>2. rested'[v] = rested[v]
    BY <1>1, <2>1
  <2>3. QED
    BY <1>1, <1>2, <2>1, <2>2, AgedFacts DEF FindsCurrent, None
<1>10. QED
  BY <1>2, <1>4, <1>5, <1>6, <1>7, <1>8, <1>9 DEF CachesIInv

LEMMA StartFrameStep ==
    ASSUME CachesIInv, StartFrame
    PROVE  CachesIInv'
<1> DEFINE slot == current_frame'
           freed == expired[slot]
<1>1. /\ phase = "waiting" /\ phase' = "frame" /\ executing[slot] = {}
      /\ expired' = [expired EXCEPT ![slot] = {}]
      /\ rested' = [v \in Views |-> IF v \in freed THEN 0 ELSE rested[v]]
      /\ outdated' = outdated \cup UNION {MadeWith(v) : v \in freed}
      /\ UNCHANGED <<recording, executing, views>>
      /\ UNCHANGED <<framebuffers, descriptor_sets, free_descriptor_sets, contents>>
  BY DEF StartFrame, pools
<1>2. CachesTypeOK /\ CachesTypeOK'
  <2>1. CachesTypeOK /\ [CachesNext]_cacheVars
    BY DEF CachesIInv, CachesNext
  <2>2. QED
    BY <2>1, NextTypes
<1>3. slot \in Slots /\ recording = {}
  BY <1>1, <1>2 DEF CachesIInv, ListEnded, CachesTypeOK
<1>4. \A t \in Slots : t # slot => Left(t)' = Left(t) /\ Left(t) > 0 /\ Left(t) \in Nat
  BY <1>2, LeftStarts, LeftFacts
<1>5. Left(slot) = 0
  BY <1>2, <1>3, LeftStarts
<1> HIDE DEF slot
<1>6. \A e \in Slots : expired'[e] = IF e = slot THEN {} ELSE expired[e]
  BY <1>1, <1>2, <1>3 DEF CachesTypeOK
<1>7. freed \subseteq Views /\ \A v \in freed : v \notin views
                               /\ \A e \in Slots : v \in expired[e] => e = slot
  BY <1>2, <1>3 DEF CachesTypeOK, CachesIInv, ExpiredOnce
<1> HIDE DEF freed
<1>8. ASSUME NEW v \in freed
      PROVE  /\ framebuffers[v].object \in MadeWith(v) => framebuffers[v].object \in Framebuffers
             /\ descriptor_sets[v].object \in MadeWith(v) => descriptor_sets[v].object \in Sets
             /\ MadeWith(v) = {framebuffers[v].object, descriptor_sets[v].object} \ {Null}
  BY <1>2, <1>7, EntryFacts DEF MadeWith
<1>9. UsesSafe'
  <2> SUFFICES ASSUME NEW t \in Slots, NEW u \in SlotUses(t)'
               PROVE  UseSafe(t, u)'
    BY DEF UsesSafe
  <2>1. u \in executing[t] /\ t # slot /\ u \in SlotUses(t)
    BY <1>1, <1>3 DEF SlotUses
  <2>2. UseSafe(t, u) /\ u[2] \in Views
    BY <1>2, <2>1, UseFacts DEF CachesIInv, UsesSafe
  <2>3. EntryOutlivesList(t, u)'
    BY <1>1, <1>4, <2>1, <2>2 DEF UseSafe, EntryOutlivesList
  <2>4. FreedAfterList(t, u)'
    BY <1>4, <1>6, <2>1, <2>2 DEF UseSafe, FreedAfterList
  <2>5. u[2] \notin freed
    <3>1. u[2] \in freed => Left(t) <= Left(slot)
      BY <1>3, <2>2 DEF UseSafe, FreedAfterList, freed
    <3>2. QED
      BY <1>4, <1>5, <2>1, <3>1
  <2>6. ASSUME NEW v \in freed, u[1] \in MadeWith(v)
        PROVE  FALSE
    <3>1. u[2] # v
      BY <2>5
    <3>2. CASE u[1] = framebuffers[v].object
      <4>1. u[1] \in Framebuffers /\ framebuffers[u[2]].object = u[1]
        BY <1>8, <2>2, <2>6, <3>2 DEF UseSafe, EntryOutlivesList
      <4>2. framebuffers[v] # None
        BY <3>2, <4>1, NullAssumption DEF None
      <4>3. QED
        BY <1>7, <2>2, <3>1, <3>2, <4>1, <4>2 DEF CachesIInv, OneFramebuffer
    <3>3. CASE u[1] = descriptor_sets[v].object
      <4>1. u[1] \in Sets /\ contents[u[1]] = u[2]
        BY <1>8, <2>2, <2>6, <3>3 DEF UseSafe
      <4>2. descriptor_sets[v] # None
        BY <3>3, <4>1, NullAssumption DEF None
      <4>3. QED
        BY <1>7, <3>1, <3>3, <4>1, <4>2 DEF CachesIInv, SetsOfEntries
    <3>4. QED
      BY <1>8, <2>6, <3>2, <3>3
  <2>7. u[1] \in outdated' => rested'[u[2]] < Enough
    BY <1>1, <2>2, <2>5, <2>6 DEF UseSafe
  <2>8. u[2] \in views' \/ Expired(u[2])'
    BY <1>1, <1>6, <2>2, <2>5 DEF UseSafe, Expired, freed
  <2>9. QED
    BY <1>1, <2>2, <2>3, <2>4, <2>7, <2>8 DEF UseSafe
<1>10. OneFramebuffer' /\ SetsOfEntries' /\ FreeOnce'
  BY <1>1 DEF CachesIInv, OneFramebuffer, SetsOfEntries, FreeOnce
<1>11. ListEnded' /\ ExpiredOnce'
  BY <1>1, <1>6 DEF CachesIInv, ListEnded, ExpiredOnce
<1>12. EntriesExpireInTime'
  <2> SUFFICES ASSUME NEW v \in Views, v \notin views
               PROVE  OldEntry(framebuffers[v], v)' /\ OldEntry(descriptor_sets[v], v)'
    BY <1>1 DEF EntriesExpireInTime
  <2>1. OldEntry(framebuffers[v], v) /\ OldEntry(descriptor_sets[v], v)
    BY DEF CachesIInv, EntriesExpireInTime
  <2>2. CASE v \in freed
    <3>1. v \in expired[slot] /\ rested'[v] = 0 /\ \A e \in Slots : v \notin expired'[e]
      BY <1>1, <1>6, <1>7, <2>2 DEF freed
    <3>2. ASSUME NEW entry, OldEntry(entry, v), entry # None, entry.lifetime \in Nat
          PROVE  entry.lifetime >= FramesInFlight + rested'[v]
      <4>1. entry.lifetime + Left(slot) >= FramesInFlight
        BY <1>3, <3>1, <3>2 DEF OldEntry
      <4>2. QED
        BY <1>5, <3>1, <3>2, <4>1, SlotFacts
    <3>3. /\ framebuffers[v] # None => framebuffers[v].lifetime \in Nat
          /\ descriptor_sets[v] # None => descriptor_sets[v].lifetime \in Nat
      BY <1>2, EntryFacts
    <3>4. QED
      BY <1>1, <2>1, <3>1, <3>2, <3>3 DEF OldEntry
  <2>3. CASE v \notin freed
    <3>1. rested'[v] = rested[v] /\ \A e \in Slots : v \in expired'[e] <=> v \in expired[e]
      BY <1>1, <1>6, <2>3 DEF freed
    <3>2. \A e \in Slots : v \in expired[e] => Left(e)' = Left(e)
      BY <1>4, <2>3 DEF freed
    <3>3. QED
      BY <1>1, <2>1, <3>1, <3>2 DEF OldEntry
  <2>4. QED
    BY <2>2, <2>3
<1>13. ViewsFindCurrent'
  <2> SUFFICES ASSUME NEW w \in views
               PROVE  FindsCurrent(w)'
    BY <1>1 DEF ViewsFindCurrent
  <2>1. w \in Views /\ FindsCurrent(w) /\ rested'[w] = rested[w]
    BY <1>1, <1>2, <1>7 DEF CachesTypeOK, CachesIInv, ViewsFindCurrent
  <2>2. ASSUME NEW v \in freed, framebuffers[w].object \in MadeWith(v)
        PROVE  FALSE
    <3>1. framebuffers[w].object # Null
      BY <1>8, <2>2
    <3>2. framebuffers[w] # None /\ framebuffers[w].object \in Framebuffers
      BY <1>2, <2>1, <3>1, EntryFacts
    <3>3. framebuffers[w].object = framebuffers[v].object
      BY <1>8, <2>2, <3>2, NullAssumption
    <3>4. QED
      BY <1>7, <2>1, <3>2, <3>3 DEF CachesIInv, OneFramebuffer
  <2>3. ASSUME NEW v \in freed, descriptor_sets[w].object \in MadeWith(v)
        PROVE  FALSE
    <3>1. descriptor_sets[w].object # Null
      BY <1>8, <2>3
    <3>2. descriptor_sets[w] # None /\ descriptor_sets[w].object \in Sets
      BY <1>2, <2>1, <3>1, EntryFacts
    <3>3. descriptor_sets[w].object = descriptor_sets[v].object
      BY <1>8, <2>3, <3>2, NullAssumption
    <3>4. descriptor_sets[v] # None
      BY <3>1, <3>3 DEF None
    <3>5. QED
      BY <1>7, <2>1, <3>2, <3>3, <3>4 DEF CachesIInv, SetsOfEntries
  <2>4. QED
    BY <1>1, <2>1, <2>2, <2>3 DEF FindsCurrent
<1>14. QED
  BY <1>2, <1>9, <1>10, <1>11, <1>12, <1>13 DEF CachesIInv

LEMMA FinishListStep ==
    ASSUME CachesIInv, NEW s \in Slots, FinishList(s)
    PROVE  CachesIInv'
<1>1. /\ executing' = [executing EXCEPT ![s] = {}]
      /\ UNCHANGED <<phase, current_frame, recording, views, expired, rested>>
      /\ UNCHANGED <<framebuffers, descriptor_sets, free_descriptor_sets, contents, outdated>>
  BY DEF FinishList, heap, pools
<1>2. CachesTypeOK /\ CachesTypeOK'
  <2>1. CachesTypeOK /\ [CachesNext]_cacheVars
    BY DEF CachesIInv, CachesNext
  <2>2. QED
    BY <2>1, NextTypes
<1>3. \A t \in Slots : Left(t)' = Left(t)
  BY <1>1, <1>2, LeftKept
<1>4. \A t \in Slots : SlotUses(t)' \subseteq SlotUses(t)
  BY <1>1, <1>2 DEF SlotUses, CachesTypeOK
<1>5. UsesSafe'
  <2> SUFFICES ASSUME NEW t \in Slots, NEW u \in SlotUses(t)
               PROVE  UseSafe(t, u)'
    BY <1>4 DEF UsesSafe
  <2>1. UseSafe(t, u)
    BY DEF CachesIInv, UsesSafe
  <2>2. EntryOutlivesList(t, u)' /\ FreedAfterList(t, u)'
    BY <1>1, <1>3, <2>1 DEF UseSafe, EntryOutlivesList, FreedAfterList
  <2>3. QED
    BY <1>1, <2>1, <2>2 DEF UseSafe, Expired
<1>6. OneFramebuffer' /\ SetsOfEntries' /\ FreeOnce' /\ ListEnded' /\ ExpiredOnce'
  BY <1>1 DEF CachesIInv, OneFramebuffer, SetsOfEntries, FreeOnce, ListEnded, ExpiredOnce
<1>7. EntriesExpireInTime' /\ ViewsFindCurrent'
  BY <1>1, <1>3 DEF CachesIInv, EntriesExpireInTime, OldEntry, ViewsFindCurrent, FindsCurrent
<1>8. QED
  BY <1>2, <1>5, <1>6, <1>7 DEF CachesIInv

LEMMA StutterCaches ==
    ASSUME CachesIInv, UNCHANGED cacheVars
    PROVE  CachesIInv'
BY DEF cacheVars, frames, heap, pools, CachesIInv, CachesTypeOK, UsesSafe, UseSafe, SlotUses,
   EntryOutlivesList, FreedAfterList, Left, Ahead, OneFramebuffer, SetsOfEntries, FreeOnce,
   ListEnded, ExpiredOnce, Expired, EntriesExpireInTime, OldEntry, ViewsFindCurrent, FindsCurrent

LEMMA NextCachesIInv == CachesIInv /\ [CachesNext]_cacheVars => CachesIInv'
BY StutterCaches, GetFramebufferStep, BindSetStep, CreateViewStep, DestroyViewStep, FreeSetStep,
   EndFrameStep, AgeCachesStep, StartFrameStep, FinishListStep DEF CachesNext

(* The invariant of the caches, and what it says of the properties.        *)
THEOREM CachesInvariance == CachesSpec => []CachesIInv
<1>1. QED
  BY InitCachesIInv, NextCachesIInv, PTL DEF CachesSpec

LEMMA CachesSafe == CachesIInv => FramebuffersExist /\ SetsIntact /\ FoundIsCurrent
<1> SUFFICES ASSUME CachesIInv PROVE FramebuffersExist /\ SetsIntact /\ FoundIsCurrent
  OBVIOUS
<1>1. ASSUME NEW u \in AllUses
      PROVE  \E s \in Slots : u \in SlotUses(s)
  BY DEF AllUses, SlotUses, CachesIInv, CachesTypeOK
<1>2. ASSUME NEW u \in AllUses
      PROVE  /\ u[1] \in Framebuffers => u[1] \in Held(framebuffers)
             /\ u[1] \in Sets => contents[u[1]] = u[2]
             /\ u[1] \in outdated => rested[u[2]] < Enough
  <2>1. PICK s \in Slots : u \in SlotUses(s)
    BY <1>1, <1>2
  <2>2. UseSafe(s, u) /\ u[2] \in Views
    BY <2>1, UseFacts DEF CachesIInv, UsesSafe
  <2>3. u[1] \in Framebuffers => u[1] \in Held(framebuffers)
    BY <2>2, NullAssumption DEF UseSafe, EntryOutlivesList, Held
  <2>4. QED
    BY <2>2, <2>3 DEF UseSafe
<1>3. FramebuffersExist
  BY <1>2 DEF FramebuffersExist, InUse, AllUses
<1>4. QED
  BY <1>2, <1>3 DEF SetsIntact, FoundIsCurrent

(* update_framebuffers, which waits for no fence, destroys no framebuffer  *)
(* that a list uses, if MaxLifetime exceeds the frames in flight by two.   *)
THEOREM FramebuffersOutliveLists == CachesSpec => []FramebuffersExist
<1>1. QED
  BY CachesInvariance, CachesSafe, PTL

(* PipelineLayout::allocate_set writes no descriptor set that a list uses. *)
THEOREM SetsNotRewritten == CachesSpec => []SetsIntact
<1>1. QED
  BY CachesInvariance, CachesSafe, PTL

(* Whatever addresses the heap gives to new views, and when: what          *)
(* get_or_create_framebuffer and allocate_set find at the address of a     *)
(* view was made for another one only if that was freed less than          *)
(* MaxLifetime frames, less those in flight, before this one was made.     *)
THEOREM OutdatedFoundOnlySoon == CachesSpec => []FoundIsCurrent
<1>1. QED
  BY CachesInvariance, CachesSafe, PTL
=============================================================================
