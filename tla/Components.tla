------------------------------ MODULE Components ------------------------------
(***************************************************************************)
(* Entities and their components (World, EntityManager, ComponentManager): *)
(* the entities with the same set of classes form an archetype, whose      *)
(* components lie in the columns of chunks of a fixed size.                *)
(***************************************************************************)
EXTENDS Naturals, Sequences, FiniteSetsExt

CONSTANTS
    MaxEntities,    \* bound: how many entities are spawned
    MaxChunks,      \* bound: how many chunks an archetype gets
    Classes,
    ClassSize,      \* the size of each class
    ChunkSize,      \* chunk_data_size, the size of a column
    Values, None,
    Position, Motion,   \* the types of a system's for_each, in this order
    PositionOf,     \* the position its lambda sets, for each motion
    WorldUses

(* Uses the code accepts and does not carry out:                           *)
(*   hole     an entity that is not the last of its chunk gets or loses a  *)
(*            component                                                    *)
(*   refill   remove_component fills up a chunk of the archetype it moves  *)
(*            the entity to                                                *)
(*   destroy  destroy_entity of an entity that has components              *)
(*   partial  an entity has the last type of a for_each and not the others *)
ASSUME ComponentsAssumption ==
    /\ MaxEntities \in Nat /\ MaxChunks \in Nat /\ ChunkSize \in Nat
    /\ IsFiniteSet(Classes)
    /\ {Position, Motion} \subseteq Classes /\ Position # Motion
    /\ ClassSize \in [Classes -> 1 .. ChunkSize] /\ None \notin Values
    /\ PositionOf \in [Values -> Values]
    /\ WorldUses \subseteq {"hole", "refill", "destroy", "partial"}

Entities == 1 .. MaxEntities
Ids == (SUBSET Classes) \ {{}}

VARIABLES
    entities, next,     \* EntityManager
    entity_data_map,    \* where the components of a registered entity are
    archetypes          \* by their sets of classes

worldVars == <<entities, next, entity_data_map, archetypes>>

(* invalid_idx of an archetype is the empty set of classes; chunks count   *)
(* from 1, and 0 is a free_chunk of -1. An archetype without chunks does   *)
(* not exist yet: it is created with its first one.                        *)
Nowhere == [archetype |-> {}, chunk |-> 0, index |-> 0]
NoArchetype == [entities |-> {}, chunks |-> <<>>, free_chunk |-> 0]

WorldInit ==
    /\ entities = {} /\ next = 0
    /\ entity_data_map = [e \in Entities |-> Nowhere]
    /\ archetypes = [id \in Ids |-> NoArchetype]

-----------------------------------------------------------------------------
(* Chunks: a column of slots and a size for each class of the archetype.   *)

NewChunk(id) ==
    [size |-> [c \in id |-> 0],
     slot |-> [c \in id |-> [i \in 0 .. ChunkSize \div ClassSize[c] - 1 |-> None]]]

RowSize(id) == MapThenSumSet(LAMBDA c : ClassSize[c], id)
AnyColumn(id) == CHOOSE c \in id : TRUE

\* mutant: the row that comes next is not counted
FullTooLate(id, chunk) == chunk.size[AnyColumn(id)] * RowSize(id) > ChunkSize
IsFull(id, chunk) == (chunk.size[AnyColumn(id)] + 1) * RowSize(id) > ChunkSize

(* get_free_chunk: the archetype with a chunk that is free.                *)
WithFreeChunk(id) ==
    LET a == archetypes[id] IN
    IF a.free_chunk # 0 THEN a
    ELSE [a EXCEPT !.chunks = Append(@, NewChunk(id)), !.free_chunk = Len(a.chunks) + 1]

(* size++ in each column, and the moved or new components at row i.        *)
\* mutant: the new row is written over the last one
LastRow(chunk, c) == IF chunk.size[c] = 0 THEN 0 ELSE chunk.size[c] - 1
NewRow(chunk, c) == chunk.size[c]

WithRow(chunk, i, row) ==
    [size |-> [c \in DOMAIN row |-> chunk.size[c] + 1],
     slot |-> [c \in DOMAIN row |-> [chunk.slot[c] EXCEPT ![i] = row[c]]]]

(* The row an entity leaves. "fill hole" only copies the last row onto     *)
(* itself, so a hole stays and the last row ends up beyond the size. What  *)
(* the row held is nobody's: None.                                         *)
WithoutRow(chunk, i) ==
    [size |-> [c \in DOMAIN chunk.size |-> chunk.size[c] - 1],
     slot |-> [c \in DOMAIN chunk.slot |-> [chunk.slot[c] EXCEPT ![i] = None]]]

Row(e) ==
    LET d == entity_data_map[e] IN
    [c \in d.archetype |-> archetypes[d.archetype].chunks[d.chunk].slot[c][d.index]]

(* The archetype an entity leaves. remove_component makes its chunk the    *)
(* free one.                                                               *)
Left(e, free) ==
    LET d == entity_data_map[e] IN
    [archetypes[d.archetype] EXCEPT
        !.entities = @ \ {e},
        !.chunks[d.chunk] = WithoutRow(@, d.index),
        !.free_chunk = IF free THEN d.chunk ELSE @]

(* Only the last entity of a chunk leaves it without a hole (or one that   *)
(* is in no chunk).                                                        *)
LastOfChunk(e) ==
    LET d == entity_data_map[e] IN
    \A c \in d.archetype : d.index = archetypes[d.archetype].chunks[d.chunk].size[c] - 1

MayLeave(e) == LastOfChunk(e) \/ "hole" \in WorldUses

MayHave(id) == Motion \in id => Position \in id \/ "partial" \in WorldUses

-----------------------------------------------------------------------------
(* World.                                                                  *)

SpawnEntity ==
    /\ next < MaxEntities
    /\ next' = next + 1
    /\ entities' = entities \cup {next + 1}
    /\ entity_data_map' = [entity_data_map EXCEPT ![next + 1] = Nowhere]
    /\ UNCHANGED archetypes

(* unregister_entity does nothing.                                         *)
DestroyEntity(e) ==
    /\ e \in entities
    /\ entity_data_map[e].archetype = {} \/ "destroy" \in WorldUses
    /\ entities' = entities \ {e}
    /\ UNCHANGED <<next, entity_data_map, archetypes>>

AddComponent(e, c, v) ==
    LET old == entity_data_map[e].archetype
        new == old \cup {c}
        dst == WithFreeChunk(new)
        k == dst.free_chunk
        i == NewRow(dst.chunks[k], c)
        chunk == WithRow(dst.chunks[k], i,
                         [t \in new |-> IF t = c THEN v ELSE Row(e)[t]]) IN
    /\ e \in entities /\ c \notin old /\ k <= MaxChunks
    /\ MayLeave(e) /\ MayHave(new)
    /\ archetypes' = [id \in Ids |->
          IF id = new
          THEN [dst EXCEPT !.entities = @ \cup {e}, !.chunks[k] = chunk,
                           !.free_chunk = IF IsFull(new, chunk) THEN 0 ELSE k]
          ELSE IF id = old THEN Left(e, FALSE)
          ELSE archetypes[id]]
    /\ entity_data_map' = [entity_data_map EXCEPT ![e] =
          [archetype |-> new, chunk |-> k, index |-> i]]
    /\ UNCHANGED <<entities, next>>

(* The chunk it moves the rest of the entity to stays the free one, even   *)
(* if that was its last row.                                               *)
RemoveComponent(e, c) ==
    LET old == entity_data_map[e].archetype
        new == old \ {c}
        dst == WithFreeChunk(new)
        k == dst.free_chunk
        i == dst.chunks[k].size[AnyColumn(new)]
        chunk == WithRow(dst.chunks[k], i, [t \in new |-> Row(e)[t]]) IN
    /\ e \in entities /\ c \in old
    /\ MayLeave(e) /\ MayHave(new)
    /\ \/ /\ new = {}
          /\ archetypes' = [archetypes EXCEPT ![old] = Left(e, TRUE)]
          /\ entity_data_map' = [entity_data_map EXCEPT ![e].archetype = {}]
       \/ /\ new # {}
          /\ k <= MaxChunks
          /\ ~IsFull(new, chunk) \/ "refill" \in WorldUses
          /\ archetypes' = [archetypes EXCEPT
                ![old] = Left(e, TRUE),
                ![new] = [dst EXCEPT !.entities = @ \cup {e}, !.chunks[k] = chunk]]
          /\ entity_data_map' = [entity_data_map EXCEPT ![e] =
                [archetype |-> new, chunk |-> k, index |-> i]]
    /\ UNCHANGED <<entities, next>>

(* for_each<Position, Motion> with a lambda that sets the position from    *)
(* the motion. The comma in its list of required classes leaves the last   *)
(* one only; where an archetype lacks the other, its column index reads 0. *)
Required == {Motion}
Visited == UNION {archetypes[id].entities : id \in {a \in Ids : Required \subseteq a}}

ColumnOf(id, c) == IF c \in id THEN c ELSE AnyColumn(id)

Moved(id, k) ==
    LET chunk == archetypes[id].chunks[k]
        here == {e \in Visited : /\ entity_data_map[e].archetype = id
                                 /\ entity_data_map[e].chunk = k}
        rows == {entity_data_map[e].index : e \in here}
        p == ColumnOf(id, Position) IN
    [chunk EXCEPT !.slot[p] = [i \in DOMAIN @ |->
        IF i \in rows THEN PositionOf[chunk.slot[Motion][i]] ELSE @[i]]]

ForEach ==
    /\ archetypes' = [id \in Ids |->
          IF Required \subseteq id
          THEN [archetypes[id] EXCEPT !.chunks = [k \in DOMAIN @ |-> Moved(id, k)]]
          ELSE archetypes[id]]
    /\ UNCHANGED <<entities, next, entity_data_map>>

WorldNext ==
    \/ SpawnEntity
    \/ \E e \in entities :
          \/ DestroyEntity(e)
          \/ \E c \in Classes :
                RemoveComponent(e, c) \/ \E v \in Values : AddComponent(e, c, v)
    \/ ForEach

-----------------------------------------------------------------------------
(* Properties.                                                             *)

Has(e) == entity_data_map[e].archetype

WorldTypeOK ==
    /\ entities \subseteq 1 .. next /\ next \in 0 .. MaxEntities
    /\ entity_data_map \in [Entities -> [archetype : SUBSET Classes, chunk : 0 .. MaxChunks,
                                        index : 0 .. ChunkSize - 1]]
    /\ \A id \in Ids :
          LET a == archetypes[id] IN
          /\ a.entities \subseteq Entities /\ a.free_chunk \in 0 .. Len(a.chunks)
          /\ \A k \in DOMAIN a.chunks :
                /\ a.chunks[k].size \in [id -> 0 .. ChunkSize]
                /\ \A c \in id : a.chunks[k].slot[c] \in
                      [0 .. ChunkSize \div ClassSize[c] - 1 -> Values \cup {None}]

(* What an entity has is what was added and not removed since, with the    *)
(* value it was given or a system gave it, through every move from chunk   *)
(* to chunk; and a system visits exactly the entities that are alive and   *)
(* have its components (World, ComponentManager).                          *)
Kept == INSTANCE ComponentStore WITH
    Entity <- Entities, Class <- Classes, Value <- Values,
    alive <- entities, spent <- 1 .. next \ entities,
    value <- [e \in Entities |-> [c \in Classes |-> IF c \in Has(e) THEN Row(e)[c] ELSE None]]

KeepsComponents == Kept!StoreSpec

(* The free chunk has room for another row, so that no column overflows    *)
(* (is_full, free_chunk).                                                  *)
FreeChunkHasRoom ==
    \A id \in Ids : archetypes[id].free_chunk # 0 =>
        \A c \in id :
            (archetypes[id].chunks[archetypes[id].free_chunk].size[c] + 1) * RowSize(id) <= ChunkSize
=============================================================================
