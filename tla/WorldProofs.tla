------------------------------ MODULE WorldProofs ------------------------------
(***************************************************************************)
(* Theorems about the components of a world, for any number of entities,   *)
(* classes, chunks and values: the index and the chunks agree, no column   *)
(* overflows, and the world implements ComponentStore.                     *)
(***************************************************************************)
EXTENDS World, FiniteSetTheorems, NaturalsInduction, WellFoundedInduction, TLAPS

-----------------------------------------------------------------------------
(* The size of a row. RowSize is a fold, and what it returns is shown by   *)
(* the smallest set of classes for which it would not.                     *)

LessThan == {ss \in Nat \X Nat : ss[1] < ss[2]}

LEMMA LeastNatural ==
    ASSUME NEW S, S \subseteq Nat, S # {}
    PROVE  \E n \in S : \A m \in S : n <= m
<1>1. IsWellFoundedOn(LessThan, Nat)
  BY NatLessThanWellFounded DEF OpToRel, LessThan
<1>2. PICK n \in S : \A m \in S : ~ (<<m, n>> \in LessThan)
  BY <1>1, WFMin
<1>3. \A m \in S : ~(m < n)
  <2> TAKE m \in S
  <2>1. <<m, n>> \in Nat \X Nat /\ <<m, n>>[1] = m /\ <<m, n>>[2] = n
    OBVIOUS
  <2>2. <<m, n>> \notin LessThan
    BY <1>2
  <2>3. ~(<<m, n>>[1] < <<m, n>>[2])
    BY <2>1, <2>2 DEF LessThan
  <2>4. QED
    BY <2>1, <2>3
<1>4. QED
  BY <1>3

AnyOf(s) == CHOOSE c \in s : TRUE
Step(g, s) == IF s = {} THEN 0 ELSE ClassSize[AnyOf(s)] + g[s \ {AnyOf(s)}]
Solves(g, D) == g = [s \in D |-> Step(g, s)]
Smaller(S, n) == {s \in SUBSET S : Cardinality(s) <= n}

LEMMA RowSizeSolves ==
    ASSUME NEW id
    PROVE  RowSize(id) = (CHOOSE g : Solves(g, SUBSET id))[id]
BY DEF RowSize, MapThenSumSet, MapThenFoldSet, Solves, Step, AnyOf

LEMMA OneLess ==
    ASSUME NEW S, IsFiniteSet(S), NEW s \in SUBSET S
    PROVE  /\ Cardinality(s) \in Nat /\ IsFiniteSet(s)
           /\ s # {} => /\ AnyOf(s) \in s /\ s \ {AnyOf(s)} \in SUBSET S
                        /\ Cardinality(s \ {AnyOf(s)}) = Cardinality(s) - 1
                        /\ Cardinality(s) > 0
<1>1. IsFiniteSet(s)
  BY FS_Subset
<1>2. Cardinality(s) \in Nat
  BY <1>1, FS_CardinalityType
<1>3. ASSUME s # {}
      PROVE  /\ AnyOf(s) \in s /\ s \ {AnyOf(s)} \in SUBSET S
             /\ Cardinality(s \ {AnyOf(s)}) = Cardinality(s) - 1 /\ Cardinality(s) > 0
  <2>1. AnyOf(s) \in s
    BY <1>3 DEF AnyOf
  <2>2. Cardinality(s \ {AnyOf(s)}) = Cardinality(s) - 1
    BY <1>1, <2>1, FS_RemoveElement
  <2>3. Cardinality(s) # 0
    BY <1>1, <1>3, FS_EmptySet
  <2>4. QED
    BY <1>2, <2>1, <2>2, <2>3
<1>4. QED
  BY <1>1, <1>2, <1>3

LEMMA SolutionExists ==
    ASSUME NEW S, IsFiniteSet(S)
    PROVE  \E g : Solves(g, SUBSET S)
<1> DEFINE Bad == {n \in Nat : ~ \E g : Solves(g, Smaller(S, n))}
<1>1. Bad = {}
  <2> SUFFICES ASSUME Bad # {} PROVE FALSE
    OBVIOUS
  <2>1. PICK n \in Bad : \A m \in Bad : n <= m
    BY LeastNatural
  <2>2. n \in Nat /\ ~ \E g : Solves(g, Smaller(S, n))
    OBVIOUS
  <2>3. CASE n = 0
    <3>1. ASSUME NEW s \in Smaller(S, n) PROVE s = {}
      <4>1. s \in SUBSET S /\ Cardinality(s) <= 0
        BY <2>3 DEF Smaller
      <4>2. Cardinality(s) \in Nat /\ (s # {} => Cardinality(s) > 0)
        BY <4>1, OneLess
      <4>3. QED
        BY <4>1, <4>2
    <3> DEFINE g == [s \in Smaller(S, n) |-> 0]
    <3>2. \A s \in Smaller(S, n) : Step(g, s) = 0
      BY <3>1 DEF Step
    <3>3. Solves(g, Smaller(S, n))
      BY <3>2 DEF Solves
    <3>4. QED
      BY <2>2, <3>3
  <2>4. CASE n # 0
    <3>1. n - 1 \in Nat /\ n - 1 \notin Bad
      BY <2>1, <2>2, <2>4
    <3>2. PICK f : Solves(f, Smaller(S, n - 1))
      BY <3>1
    <3> DEFINE g == [s \in Smaller(S, n) |-> Step(f, s)]
    <3>3. ASSUME NEW s \in Smaller(S, n) PROVE Step(f, s) = Step(g, s)
      <4>1. CASE s = {}
        BY <4>1 DEF Step
      <4>2. CASE s # {}
        <5> DEFINE r == s \ {AnyOf(s)}
        <5>1. r \in Smaller(S, n - 1) /\ r \in Smaller(S, n)
          BY <2>2, <3>1, <3>3, <4>2, OneLess DEF Smaller
        <5>2. f[r] = Step(f, r)
          BY <3>2, <5>1 DEF Solves
        <5>3. g[r] = Step(f, r)
          BY <5>1
        <5>4. QED
          BY <4>2, <5>2, <5>3 DEF Step
      <4>3. QED
        BY <4>1, <4>2
    <3>4. Solves(g, Smaller(S, n))
      <4>1. g = [s \in Smaller(S, n) |-> Step(g, s)]
        BY <3>3
      <4>2. QED
        BY <4>1 DEF Solves
    <3>5. QED
      BY <2>2, <3>4
  <2>5. QED
    BY <2>3, <2>4
<1>2. Cardinality(S) \in Nat
  BY FS_CardinalityType
<1>3. Smaller(S, Cardinality(S)) = SUBSET S
  BY FS_Subset DEF Smaller
<1>4. \E g : Solves(g, Smaller(S, Cardinality(S)))
  BY <1>1, <1>2
<1>5. QED
  BY <1>3, <1>4

(* A row is at least as long as each of its components.                    *)
LEMMA RowSizeBounds ==
    ASSUME NEW id \in SUBSET Classes
    PROVE  RowSize(id) \in Nat /\ \A c \in id : RowSize(id) >= ClassSize[c]
<1>1. IsFiniteSet(id)
  BY ComponentsAssumption, FS_Subset
<1> DEFINE g == CHOOSE g : Solves(g, SUBSET id)
           Good(s) == g[s] \in Nat /\ \A c \in s : g[s] >= ClassSize[c]
           Bad == {Cardinality(s) : s \in {t \in SUBSET id : ~Good(t)}}
<1>2. \A s \in SUBSET id : g[s] = Step(g, s)
  <2>1. Solves(g, SUBSET id)
    BY <1>1, SolutionExists
  <2>2. QED
    BY <2>1 DEF Solves
<1> HIDE DEF g
<1>3. Bad = {}
  <2> SUFFICES ASSUME Bad # {} PROVE FALSE
    OBVIOUS
  <2>1. Bad \subseteq Nat
    <3>1. \A s \in SUBSET id : Cardinality(s) \in Nat
      BY <1>1, OneLess
    <3>2. QED
      BY <3>1
  <2>2. PICK n \in Bad : \A m \in Bad : n <= m
    BY <2>1, LeastNatural
  <2>3. PICK s \in SUBSET id : ~Good(s) /\ n = Cardinality(s)
    OBVIOUS
  <2>4. CASE s = {}
    <3>1. g[s] = 0
      BY <1>2, <2>4 DEF Step
    <3>2. Good(s)
      BY <2>4, <3>1
    <3>3. QED
      BY <2>3, <3>2
  <2>5. CASE s # {}
    <3> DEFINE x == AnyOf(s)
               r == s \ {x}
    <3>1. /\ x \in s /\ r \in SUBSET id /\ Cardinality(r) = Cardinality(s) - 1
          /\ Cardinality(s) \in Nat
      BY <1>1, <2>5, OneLess
    <3>2. Good(r)
      <4>1. Cardinality(r) \notin Bad
        BY <2>1, <2>2, <2>3, <3>1
      <4>2. QED
        BY <3>1, <4>1
    <3>3. g[s] = ClassSize[x] + g[r]
      BY <1>2, <2>5 DEF Step
    <3>4. \A c \in s : ClassSize[c] \in Nat
      BY ComponentsAssumption
    <3>5. g[r] \in Nat /\ \A c \in r : g[r] >= ClassSize[c]
      BY <3>2
    <3> HIDE DEF x
    <3>6. g[s] \in Nat /\ g[s] >= ClassSize[x] /\ g[s] >= g[r]
      BY <3>1, <3>3, <3>4, <3>5
    <3>7. \A c \in s : g[s] >= ClassSize[c]
      <4> TAKE c \in s
      <4>1. CASE c = x
        BY <3>6, <4>1
      <4>2. CASE c # x
        <5>1. g[r] >= ClassSize[c] /\ ClassSize[c] \in Nat
          BY <3>4, <3>5, <4>2
        <5>2. QED
          BY <3>5, <3>6, <5>1
      <4>3. QED
        BY <4>1, <4>2
    <3>8. QED
      BY <2>3, <3>6, <3>7
  <2>6. QED
    BY <2>4, <2>5
<1>4. Good(id)
  <2>1. Cardinality(id) \notin Bad
    BY <1>3
  <2>2. QED
    BY <2>1
<1>5. g[id] = RowSize(id)
  BY RowSizeSolves DEF g
<1>6. QED
  BY <1>4, <1>5

-----------------------------------------------------------------------------
(* The inductive invariant: of a chunk, of an archetype, of the world.     *)

(* Entities leave only as the last of their chunk, remove_component fills  *)
(* no chunk, and a row of every archetype fits in a chunk.                 *)
NoRefill == "refill" \notin WorldUses
NoHoles == NoRefill /\ "hole" \notin WorldUses
RowsFit == \A id \in Ids : RowSize(id) <= ChunkSize

Slots(c) == 0 .. ChunkSize \div ClassSize[c] - 1
Column == UNION {[Slots(c) -> Values \cup {None}] : c \in Classes}
Chunk(id) == [size : [id -> 0 .. ChunkSize], slot : [id -> Column]]
Archetype(id) == [entities : SUBSET Entities, chunks : Seq(Chunk(id)), free_chunk : Nat]

Here(data, id, k) == {e \in Entities : data[e].archetype = id /\ data[e].chunk = k}

(* The rows of the entities S are the first of the chunk and have values.  *)
ChunkOK(id, chunk, S, data) ==
    /\ chunk \in Chunk(id)
    /\ \A c \in id : chunk.slot[c] \in [Slots(c) -> Values \cup {None}]
    /\ \A c \in id : chunk.size[c] = Cardinality(S)
    /\ Cardinality(S) * RowSize(id) <= ChunkSize
    /\ {data[e].index : e \in S} = 0 .. Cardinality(S) - 1
    /\ \A e, f \in S : data[e].index = data[f].index => e = f
    /\ \A e \in S : \A c \in id : chunk.slot[c][data[e].index] \in Values

(* There is room for another row in each column.                           *)
Room(id, chunk) == \A c \in id : (chunk.size[c] + 1) * RowSize(id) <= ChunkSize

ArchetypeOK(id, a, data) ==
    /\ a \in Archetype(id)
    /\ a.entities = {e \in Entities : data[e].archetype = id}
    /\ \A e \in a.entities : data[e].chunk \in DOMAIN a.chunks
    /\ \A k \in DOMAIN a.chunks : ChunkOK(id, a.chunks[k], Here(data, id, k), data)
    /\ a.free_chunk \in 0 .. Len(a.chunks)
    /\ a.free_chunk # 0 => Room(id, a.chunks[a.free_chunk])

IndexOK ==
    /\ entities \subseteq 1 .. next /\ next \in 0 .. MaxEntities
    /\ entity_data_map \in [Entities -> [archetype : SUBSET Classes, chunk : 0 .. MaxChunks,
                                        index : 0 .. ChunkSize - 1]]
    /\ \A e \in Entities : e > next => entity_data_map[e].archetype = {}

WorldIInv ==
    /\ IndexOK
    /\ DOMAIN archetypes = Ids
    /\ \A id \in Ids : ArchetypeOK(id, archetypes[id], entity_data_map)

(* What KeepsComponents needs besides: who is dead has nothing, and who    *)
(* has a motion has a position.                                            *)
Undisturbed == WorldUses = {}
AliveHave ==
    \A e \in Entities :
        /\ Has(e) # {} => e \in entities
        /\ Motion \in Has(e) => Position \in Has(e)

-----------------------------------------------------------------------------
(* Chunks: a row is added at the end, or the last one leaves.              *)

LEMMA EntitiesFinite ==
    ASSUME NEW S \in SUBSET Entities
    PROVE  IsFiniteSet(S) /\ Cardinality(S) \in Nat
<1>1. IsFiniteSet(Entities)
  BY ComponentsAssumption, FS_Interval DEF Entities
<1>2. IsFiniteSet(S)
  BY <1>1, FS_Subset
<1>3. QED
  BY <1>2, FS_CardinalityType

(* If n + 1 rows fit in a chunk, each of its columns has a slot n.         *)
LEMMA RowHasSlots ==
    ASSUME NEW id \in Ids, NEW n \in Nat, (n + 1) * RowSize(id) <= ChunkSize
    PROVE  n + 1 \in 0 .. ChunkSize /\ n \in 0 .. ChunkSize - 1 /\ \A c \in id : n \in Slots(c)
<1>1. id \in SUBSET Classes /\ id # {} /\ ChunkSize \in Nat
  <2>1. id \in SUBSET Classes /\ id # {}
    BY DEF Ids
  <2>2. ChunkSize \in Nat
    BY ComponentsAssumption
  <2>3. QED
    BY <2>1, <2>2
<1>2. RowSize(id) \in Nat /\ \A c \in id : RowSize(id) >= ClassSize[c]
  BY <1>1, RowSizeBounds
<1>3. ASSUME NEW c \in id PROVE n + 1 <= ChunkSize /\ n \in Slots(c)
  <2> DEFINE b == ClassSize[c]
             R == RowSize(id)
  <2>1. b \in 1 .. ChunkSize
    BY <1>1, ComponentsAssumption
  <2>2. R \in Nat /\ R >= b
    BY <1>2
  <2>3. b \in Nat /\ b >= 1
    BY <1>1, <2>1
  <2>4. Slots(c) = 0 .. ChunkSize \div b - 1
    BY DEF Slots
  <2>5. (n + 1) * R <= ChunkSize
    OBVIOUS
  <2> HIDE DEF b, R
  <2>6. (n + 1) * b <= (n + 1) * R
    BY <2>2, <2>3
  <2>7. (n + 1) * b <= ChunkSize /\ (n + 1) * b >= n + 1
    BY <1>1, <2>2, <2>3, <2>5, <2>6
  <2>8. n + 1 <= ChunkSize \div b
    BY <1>1, <2>3, <2>7
  <2>9. ChunkSize \div b \in Nat
    BY <1>1, <2>3
  <2>10. QED
    BY <1>1, <2>3, <2>4, <2>7, <2>8, <2>9
<1>4. QED
  BY <1>1, <1>3

LEMMA SlotsUpTo ==
    ASSUME NEW c \in Classes, NEW n \in Slots(c)
    PROVE  0 .. n \subseteq Slots(c)
<1>1. ClassSize[c] \in Nat \ {0} /\ ChunkSize \in Nat
  BY ComponentsAssumption
<1>2. ChunkSize \div ClassSize[c] \in Nat
  BY <1>1
<1>3. QED
  BY <1>2 DEF Slots

LEMMA ChunkType ==
    ASSUME NEW id \in Ids, NEW size, NEW slot,
           size \in [id -> 0 .. ChunkSize],
           DOMAIN slot = id, slot = [c \in id |-> slot[c]],
           \A c \in id : slot[c] \in [Slots(c) -> Values \cup {None}]
    PROVE  [size |-> size, slot |-> slot] \in Chunk(id)
<1>1. \A c \in id : slot[c] \in Column
  BY DEF Column, Ids
<1>2. slot \in [id -> Column]
  BY <1>1
<1>3. QED
  BY <1>2 DEF Chunk

Same(S, data, then) == \A f \in S : then[f] = data[f]
Follows(S, d) == d.index = Cardinality(S)
RowOf(id, row) == row \in [id -> Values]
RowsKept(id, old, new, S, data, then) ==
    \A f \in S : \A c \in id : new.slot[c][then[f].index] = old.slot[c][data[f].index]
RowAt(id, chunk, d, row) == \A c \in id : chunk.slot[c][d.index] = row[c]

LEMMA ChunkGets ==
    ASSUME NEW id \in Ids, NEW chunk, NEW S \in SUBSET Entities, NEW data, NEW then,
           NEW e \in Entities, e \notin S, NEW row, RowOf(id, row),
           ChunkOK(id, chunk, S, data),
           (Cardinality(S) + 1) * RowSize(id) <= ChunkSize,
           Same(S, data, then),
           Follows(S, then[e])
    PROVE  /\ ChunkOK(id, WithRow(chunk, Cardinality(S), row), S \cup {e}, then)
           /\ RowsKept(id, chunk, WithRow(chunk, Cardinality(S), row), S, data, then)
           /\ RowAt(id, WithRow(chunk, Cardinality(S), row), then[e], row)
<1> DEFINE n == Cardinality(S)
           new == WithRow(chunk, n, row)
<1>1. n \in Nat /\ Cardinality(S \cup {e}) = n + 1
  BY EntitiesFinite, FS_AddElement
<1>2. n + 1 \in 0 .. ChunkSize /\ \A c \in id : n \in Slots(c)
  BY <1>1, RowHasSlots
<1>3. /\ \A c \in id : chunk.slot[c] \in [Slots(c) -> Values \cup {None}]
      /\ \A c \in id : chunk.size[c] = n
  BY DEF ChunkOK
<1>4. new = [size |-> [c \in id |-> n + 1],
             slot |-> [c \in id |-> [chunk.slot[c] EXCEPT ![n] = row[c]]]]
  BY <1>3 DEF WithRow, RowOf
<1>5. /\ new.size = [c \in id |-> n + 1]
      /\ new.slot = [c \in id |-> [chunk.slot[c] EXCEPT ![n] = row[c]]]
      /\ new = [size |-> new.size, slot |-> new.slot]
  BY <1>4
<1>old. /\ {data[f].index : f \in S} = 0 .. n - 1
        /\ \A f, g \in S : data[f].index = data[g].index => f = g
        /\ \A f \in S : \A c \in id : chunk.slot[c][data[f].index] \in Values
  BY DEF ChunkOK
<1>row. row \in [id -> Values]
  BY DEF RowOf
<1> HIDE DEF n, new
<1>6. \A c \in id : new.slot[c] \in [Slots(c) -> Values \cup {None}] /\ new.slot[c][n] = row[c]
  BY <1>2, <1>3, <1>5, <1>row
<1>7. \A c \in id : \A i \in Slots(c) : i # n => new.slot[c][i] = chunk.slot[c][i]
  BY <1>2, <1>3, <1>5
<1>8. new \in Chunk(id)
  <2>1. new.size \in [id -> 0 .. ChunkSize]
    BY <1>2, <1>5
  <2>2. DOMAIN new.slot = id /\ new.slot = [c \in id |-> new.slot[c]]
    BY <1>5
  <2>3. [size |-> new.size, slot |-> new.slot] \in Chunk(id)
    BY <1>6, <2>1, <2>2, ChunkType
  <2>4. QED
    BY <1>5, <2>3
<1>9. \A f \in S : then[f].index \in 0 .. n - 1 /\ then[f].index = data[f].index
  BY <1>old DEF Same
<1>10. then[e].index = n
  BY DEF n, Follows
<1>11. {then[f].index : f \in S \cup {e}} = 0 .. (n + 1) - 1
  <2>1. \A i \in 0 .. n - 1 : \E f \in S : i = then[f].index
    BY <1>old, <1>9
  <2>2. 0 .. (n + 1) - 1 = (0 .. n - 1) \cup {n}
    BY <1>1
  <2>3. QED
    BY <1>9, <1>10, <2>1, <2>2
<1>12. \A f, g \in S \cup {e} : then[f].index = then[g].index => f = g
  BY <1>1, <1>old, <1>9, <1>10
<1>13. ASSUME NEW f \in S, NEW c \in id
       PROVE  new.slot[c][then[f].index] = chunk.slot[c][data[f].index]
  <2>1. 0 .. n \subseteq Slots(c)
    BY <1>2, SlotsUpTo DEF Ids
  <2>2. then[f].index \in Slots(c) /\ then[f].index # n
    BY <1>1, <1>9, <2>1
  <2>3. QED
    BY <1>7, <1>9, <2>2
<1>14. \A f \in S \cup {e} : \A c \in id : new.slot[c][then[f].index] \in Values
  BY <1>old, <1>row, <1>6, <1>10, <1>13
<1>15. \A c \in id : new.size[c] = n + 1
  BY <1>5
<1>16. (n + 1) * RowSize(id) <= ChunkSize
  BY DEF n
<1>17. ChunkOK(id, new, S \cup {e}, then)
  BY <1>1, <1>6, <1>8, <1>11, <1>12, <1>14, <1>15, <1>16 DEF ChunkOK
<1>18. \A c \in id : new.slot[c][then[e].index] = row[c]
  BY <1>6, <1>10
<1>19. QED
  BY <1>13, <1>17, <1>18 DEF n, new, RowsKept, RowAt

LEMMA ChunkLoses ==
    ASSUME NEW id \in Ids, NEW chunk, NEW S \in SUBSET Entities, NEW data, NEW then,
           NEW e \in S, ChunkOK(id, chunk, S, data),
           data[e].index = Cardinality(S) - 1,
           Same(S \ {e}, data, then)
    PROVE  /\ ChunkOK(id, WithoutRow(chunk, data[e].index), S \ {e}, then)
           /\ RowsKept(id, chunk, WithoutRow(chunk, data[e].index), S \ {e}, data, then)
<1> DEFINE n == Cardinality(S)
           i == data[e].index
           new == WithoutRow(chunk, i)
<1>1. n \in Nat /\ Cardinality(S \ {e}) = n - 1 /\ n - 1 \in Nat /\ i = n - 1
  <2>1. n \in Nat /\ IsFiniteSet(S)
    BY EntitiesFinite
  <2>2. Cardinality(S \ {e}) = n - 1
    BY <2>1, FS_RemoveElement
  <2>3. Cardinality(S \ {e}) \in Nat
    BY EntitiesFinite
  <2>4. QED
    BY <2>1, <2>2, <2>3
<1>2. n * RowSize(id) <= ChunkSize /\ RowSize(id) \in Nat /\ ChunkSize \in Nat
  BY RowSizeBounds, ComponentsAssumption DEF ChunkOK, Ids
<1>3. /\ \A c \in id : chunk.slot[c] \in [Slots(c) -> Values \cup {None}]
      /\ \A c \in id : chunk.size[c] = n
      /\ DOMAIN chunk.size = id /\ DOMAIN chunk.slot = id
  BY DEF ChunkOK, Chunk
<1>4. new = [size |-> [c \in id |-> n - 1],
             slot |-> [c \in id |-> [chunk.slot[c] EXCEPT ![i] = None]]]
  BY <1>3 DEF WithoutRow
<1>5. /\ new.size = [c \in id |-> n - 1]
      /\ new.slot = [c \in id |-> [chunk.slot[c] EXCEPT ![i] = None]]
      /\ new = [size |-> new.size, slot |-> new.slot]
  BY <1>4
<1>old. /\ {data[f].index : f \in S} = 0 .. n - 1
        /\ \A f, g \in S : data[f].index = data[g].index => f = g
        /\ \A f \in S : \A c \in id : chunk.slot[c][data[f].index] \in Values
  BY DEF ChunkOK
<1> HIDE DEF n, i, new
<1>mul. ((n - 1) + 1) * RowSize(id) <= ChunkSize
  BY <1>1, <1>2
<1>6. n \in 0 .. ChunkSize /\ \A c \in id : n - 1 \in Slots(c)
  <2>1. (n - 1) + 1 \in 0 .. ChunkSize /\ \A c \in id : n - 1 \in Slots(c)
    BY <1>1, <1>mul, RowHasSlots
  <2>2. (n - 1) + 1 = n
    BY <1>1
  <2>3. QED
    BY <2>1, <2>2
<1>7. ASSUME NEW c \in id PROVE new.slot[c] \in [Slots(c) -> Values \cup {None}]
  <2>1. new.slot[c] = [chunk.slot[c] EXCEPT ![i] = None]
    BY <1>5
  <2>2. chunk.slot[c] \in [Slots(c) -> Values \cup {None}]
    BY <1>3
  <2>3. QED
    BY <2>1, <2>2
<1>8. \A c \in id : \A j \in Slots(c) : j # i => new.slot[c][j] = chunk.slot[c][j]
  BY <1>3, <1>5
<1>9. new \in Chunk(id)
  <2>1. n - 1 \in 0 .. ChunkSize
    BY <1>1, <1>2, <1>6
  <2>s. new.size \in [id -> 0 .. ChunkSize]
    BY <1>5, <2>1
  <2>2. DOMAIN new.slot = id /\ new.slot = [c \in id |-> new.slot[c]]
    BY <1>5
  <2>3. [size |-> new.size, slot |-> new.slot] \in Chunk(id)
    BY <1>7, <2>s, <2>2, ChunkType
  <2>4. QED
    BY <1>5, <2>3
<1>10. \A f \in S \ {e} : then[f].index = data[f].index /\ data[f].index \in (0 .. n - 1) \ {i}
  BY <1>old DEF i, Same
<1>11. {then[f].index : f \in S \ {e}} = 0 .. (n - 1) - 1
  <2>1. \A j \in (0 .. n - 1) \ {i} : \E f \in S \ {e} : j = then[f].index
    BY <1>old, <1>10 DEF i
  <2>2. 0 .. (n - 1) - 1 = (0 .. n - 1) \ {i}
    BY <1>1
  <2>3. QED
    BY <1>10, <2>1, <2>2
<1>12. \A f, g \in S \ {e} : then[f].index = then[g].index => f = g
  BY <1>old, <1>10
<1>13. ASSUME NEW f \in S \ {e}, NEW c \in id
       PROVE  new.slot[c][then[f].index] = chunk.slot[c][data[f].index]
  <2>1. 0 .. n - 1 \subseteq Slots(c)
    BY <1>6, SlotsUpTo DEF Ids
  <2>2. then[f].index \in Slots(c) /\ then[f].index # i
    BY <1>10, <2>1
  <2>3. QED
    BY <1>8, <1>10, <2>2
<1>14. \A f \in S \ {e} : \A c \in id : new.slot[c][then[f].index] \in Values
  BY <1>old, <1>13
<1>15. \A c \in id : new.size[c] = n - 1
  BY <1>5
<1>16. (n - 1) * RowSize(id) <= ChunkSize
  BY <1>1, <1>2
<1>17. ChunkOK(id, new, S \ {e}, then)
  BY <1>1, <1>7, <1>9, <1>11, <1>12, <1>14, <1>15, <1>16 DEF ChunkOK
<1>18. QED
  BY <1>13, <1>17 DEF i, new, RowsKept

LEMMA ChunkKept ==
    ASSUME NEW id, NEW chunk, NEW S, NEW data, NEW then,
           ChunkOK(id, chunk, S, data), \A f \in S : then[f] = data[f]
    PROVE  ChunkOK(id, chunk, S, then)
BY DEF ChunkOK

LEMMA EmptyChunk ==
    ASSUME NEW id \in Ids, NEW data
    PROVE  /\ ChunkOK(id, NewChunk(id), {}, data)
           /\ \A c \in id : NewChunk(id).size[c] = 0
<1> DEFINE new == NewChunk(id)
<1>1. /\ new.size = [c \in id |-> 0]
      /\ new.slot = [c \in id |-> [i \in Slots(c) |-> None]]
      /\ new = [size |-> new.size, slot |-> new.slot]
  BY DEF NewChunk, Slots
<1>2. ChunkSize \in Nat /\ RowSize(id) \in Nat
  BY ComponentsAssumption, RowSizeBounds DEF Ids
<1>3. Cardinality({}) = 0
  BY FS_EmptySet
<1> HIDE DEF new
<1>4. \A c \in id : new.slot[c] \in [Slots(c) -> Values \cup {None}]
  BY <1>1
<1>5. new \in Chunk(id)
  <2>1. new.size \in [id -> 0 .. ChunkSize]
    BY <1>1, <1>2
  <2>2. DOMAIN new.slot = id /\ new.slot = [c \in id |-> new.slot[c]]
    BY <1>1
  <2>3. [size |-> new.size, slot |-> new.slot] \in Chunk(id)
    BY <1>4, <2>1, <2>2, ChunkType
  <2>4. QED
    BY <1>1, <2>3
<1>6. \A c \in id : new.size[c] = 0
  BY <1>1
<1>7. 0 * RowSize(id) <= ChunkSize /\ 0 .. 0 - 1 = {}
  BY <1>2
<1>8. ChunkOK(id, new, {}, data)
  BY <1>3, <1>4, <1>5, <1>6, <1>7 DEF ChunkOK
<1>9. QED
  BY <1>6, <1>8 DEF new

-----------------------------------------------------------------------------
(* Archetypes: one an entity does not touch, joins or leaves.              *)

At(a, d, c) == a.chunks[d.chunk].slot[c][d.index]
RowsHeld(id, a, b, S, data, then) ==
    \A f \in S : \A c \in id : At(b, then[f], c) = At(a, data[f], c)

WithMember(a, e, k, chunk, free) ==
    [entities |-> a.entities \cup {e}, chunks |-> [a.chunks EXCEPT ![k] = chunk],
     free_chunk |-> free]
WithoutMember(a, e, d, free) ==
    [entities |-> a.entities \ {e},
     chunks |-> [a.chunks EXCEPT ![d.chunk] = WithoutRow(@, d.index)],
     free_chunk |-> free]

LEMMA ArchetypeKept ==
    ASSUME NEW id, NEW a, NEW data, NEW then, NEW e,
           ArchetypeOK(id, a, data),
           Same(Entities \ {e}, data, then),
           data[e].archetype # id, then[e].archetype # id
    PROVE  ArchetypeOK(id, a, then)
<1>same. \A f \in Entities : f # e => then[f] = data[f]
  BY DEF Same
<1>1. a.entities = {f \in Entities : then[f].archetype = id}
  BY <1>same DEF ArchetypeOK
<1>2. \A f \in a.entities : then[f] = data[f]
  BY <1>1, <1>same DEF ArchetypeOK
<1>3. ASSUME NEW k \in DOMAIN a.chunks PROVE ChunkOK(id, a.chunks[k], Here(then, id, k), then)
  <2>1. Here(then, id, k) = Here(data, id, k) /\ \A f \in Here(data, id, k) : then[f] = data[f]
    BY <1>same DEF Here
  <2>2. ChunkOK(id, a.chunks[k], Here(data, id, k), data)
    BY DEF ArchetypeOK
  <2>3. QED
    BY <2>1, <2>2, ChunkKept
<1>4. QED
  BY <1>1, <1>2, <1>3 DEF ArchetypeOK

LEMMA ChunksTyped ==
    ASSUME NEW id, NEW a, NEW data, ArchetypeOK(id, a, data)
    PROVE  /\ a = [entities |-> a.entities, chunks |-> a.chunks, free_chunk |-> a.free_chunk]
           /\ a.chunks \in Seq(Chunk(id)) /\ DOMAIN a.chunks = 1 .. Len(a.chunks)
           /\ Len(a.chunks) \in Nat /\ a.free_chunk \in 0 .. Len(a.chunks)
           /\ \A k \in DOMAIN a.chunks :
                 ChunkOK(id, a.chunks[k], Here(data, id, k), data)
BY DEF ArchetypeOK, Archetype

(* get_free_chunk: the archetype that has a free chunk is sound, and what  *)
(* its other chunks hold is unchanged.                                     *)
LEMMA FreeChunk ==
    ASSUME RowsFit, NEW id \in Ids, NEW data, ArchetypeOK(id, archetypes[id], data)
    PROVE  /\ ArchetypeOK(id, WithFreeChunk(id), data)
           /\ WithFreeChunk(id).free_chunk # 0
           /\ WithFreeChunk(id).entities = archetypes[id].entities
           /\ \A k \in DOMAIN archetypes[id].chunks :
                 WithFreeChunk(id).chunks[k] = archetypes[id].chunks[k]
<1> DEFINE a == archetypes[id]
           n == Len(a.chunks) + 1
           chunks == Append(a.chunks, NewChunk(id))
           b == WithFreeChunk(id)
<1>1. CASE a.free_chunk # 0
  <2>1. b = a
    BY <1>1 DEF WithFreeChunk
  <2>2. QED
    BY <1>1, <2>1
<1>2. CASE a.free_chunk = 0
  <2>1. /\ a = [entities |-> a.entities, chunks |-> a.chunks, free_chunk |-> a.free_chunk]
        /\ a.chunks \in Seq(Chunk(id)) /\ DOMAIN a.chunks = 1 .. Len(a.chunks)
        /\ Len(a.chunks) \in Nat
        /\ \A k \in DOMAIN a.chunks : ChunkOK(id, a.chunks[k], Here(data, id, k), data)
    BY ChunksTyped
  <2>2. b = [entities |-> a.entities, chunks |-> chunks, free_chunk |-> n]
    BY <1>2, <2>1 DEF WithFreeChunk
  <2>3. ChunkOK(id, NewChunk(id), {}, data) /\ \A c \in id : NewChunk(id).size[c] = 0
    BY EmptyChunk
  <2>4. NewChunk(id) \in Chunk(id)
    BY <2>3 DEF ChunkOK
  <2>5. /\ chunks \in Seq(Chunk(id)) /\ Len(chunks) = n /\ DOMAIN chunks = 1 .. n
        /\ n \in Nat /\ n # 0
        /\ chunks[n] = NewChunk(id) /\ \A k \in DOMAIN a.chunks : chunks[k] = a.chunks[k]
    BY <2>1, <2>4
  <2> HIDE DEF chunks, n, b
  <2>6. b.entities = a.entities /\ b.chunks = chunks /\ b.free_chunk = n
    BY <2>2
  <2>7. /\ a.entities = {e \in Entities : data[e].archetype = id}
        /\ a.entities \in SUBSET Entities
        /\ \A e \in a.entities : data[e].chunk \in DOMAIN a.chunks
    BY DEF ArchetypeOK
  <2>8. b \in Archetype(id)
    BY <2>2, <2>5, <2>7 DEF Archetype
  <2>9. Here(data, id, n) = {}
    <3>1. n \notin DOMAIN a.chunks
      BY <2>1 DEF n
    <3>2. QED
      BY <2>7, <3>1 DEF Here
  <2>10. ASSUME NEW k \in DOMAIN b.chunks
         PROVE  ChunkOK(id, b.chunks[k], Here(data, id, k), data)
    <3>1. CASE k = n
      BY <2>3, <2>5, <2>6, <2>9, <3>1
    <3>2. CASE k # n
      <4>1. k \in DOMAIN a.chunks
        BY <2>1, <2>5, <2>6, <3>2 DEF n
      <4>2. QED
        BY <2>1, <2>5, <2>6, <4>1
    <3>3. QED
      BY <3>1, <3>2
  <2>11. Room(id, NewChunk(id))
    <3>1. RowSize(id) \in Nat /\ RowSize(id) <= ChunkSize
      BY RowSizeBounds DEF RowsFit, Ids
    <3>2. (0 + 1) * RowSize(id) <= ChunkSize
      BY <3>1
    <3>3. QED
      BY <2>3, <3>2 DEF Room
  <2>12. \A e \in b.entities : data[e].chunk \in DOMAIN b.chunks
    BY <2>1, <2>5, <2>6, <2>7 DEF n
  <2>13. b.free_chunk \in 0 .. Len(b.chunks)
    BY <2>5, <2>6
  <2>14. ArchetypeOK(id, b, data)
    BY <2>5, <2>6, <2>7, <2>8, <2>10, <2>11, <2>12, <2>13 DEF ArchetypeOK
  <2>15. QED
    BY <2>5, <2>6, <2>14 DEF b
<1>3. QED
  BY <1>1, <1>2

LEMMA FreeIndex ==
    ASSUME NEW id \in Ids, NEW a, NEW data, ArchetypeOK(id, a, data), a.free_chunk # 0,
           NEW d \in id
    PROVE  /\ a.free_chunk \in DOMAIN a.chunks
           /\ a.chunks[a.free_chunk].size[d] \in 0 .. ChunkSize - 1
           /\ \A c \in id : a.chunks[a.free_chunk].size[c] = a.chunks[a.free_chunk].size[d]
<1> DEFINE k == a.free_chunk
           S == Here(data, id, k)
           n == Cardinality(S)
<1>1. /\ DOMAIN a.chunks = 1 .. Len(a.chunks)
      /\ Len(a.chunks) \in Nat /\ k \in 0 .. Len(a.chunks)
      /\ \A j \in DOMAIN a.chunks : ChunkOK(id, a.chunks[j], Here(data, id, j), data)
  BY ChunksTyped
<1>2. k \in DOMAIN a.chunks /\ S \in SUBSET Entities
  BY <1>1 DEF Here
<1>3. ChunkOK(id, a.chunks[k], S, data)
  BY <1>1, <1>2
<1>4. \A c \in id : a.chunks[k].size[c] = n
  BY <1>3 DEF ChunkOK
<1>5. (n + 1) * RowSize(id) <= ChunkSize
  <2>1. Room(id, a.chunks[k])
    BY DEF ArchetypeOK
  <2>2. QED
    BY <1>4, <2>1 DEF Room
<1>6. n \in Nat
  BY <1>2, EntitiesFinite
<1>7. n \in 0 .. ChunkSize - 1
  BY <1>5, <1>6, RowHasSlots
<1>8. QED
  BY <1>2, <1>4, <1>7

(* An entity joins an archetype, in its free chunk.                        *)
LEMMA FreeChunkGets ==
    ASSUME NEW id \in Ids, NEW a, NEW data, NEW then, NEW e \in Entities,
           ArchetypeOK(id, a, data), a.free_chunk # 0,
           Same(Entities \ {e}, data, then),
           data[e].archetype # id, NEW row, RowOf(id, row), NEW d \in id,
           NEW k, k = a.free_chunk, NEW old, old = a.chunks[k],
           NEW i, i = old.size[d], then[e].index = i
    PROVE  /\ ChunkOK(id, WithRow(old, i, row), Here(data, id, k) \cup {e}, then)
           /\ RowsKept(id, old, WithRow(old, i, row), Here(data, id, k), data, then)
           /\ RowAt(id, WithRow(old, i, row), then[e], row)
<1> DEFINE S == Here(data, id, k)
           n == Cardinality(S)
<1>1. /\ DOMAIN a.chunks = 1 .. Len(a.chunks)
      /\ Len(a.chunks) \in Nat /\ k \in 0 .. Len(a.chunks)
      /\ \A j \in DOMAIN a.chunks : ChunkOK(id, a.chunks[j], Here(data, id, j), data)
  BY ChunksTyped
<1>2. k \in DOMAIN a.chunks /\ S \in SUBSET Entities /\ e \notin S
  BY <1>1 DEF Here
<1>3. ChunkOK(id, old, S, data)
  BY <1>1, <1>2
<1>4. \A c \in id : old.size[c] = n
  BY <1>3 DEF ChunkOK
<1>5. (n + 1) * RowSize(id) <= ChunkSize
  <2>1. Room(id, old)
    BY DEF ArchetypeOK
  <2>2. QED
    BY <1>4, <2>1 DEF Room
<1>6. Same(S, data, then)
  BY <1>2 DEF Same, Here
<1>7. i = n
  BY <1>4
<1>8. Follows(S, then[e])
  BY <1>7 DEF Follows
<1> HIDE DEF S
<1>11. /\ ChunkOK(id, WithRow(old, n, row), S \cup {e}, then)
       /\ RowsKept(id, old, WithRow(old, n, row), S, data, then)
       /\ RowAt(id, WithRow(old, n, row), then[e], row)
  BY <1>2, <1>3, <1>5, <1>6, <1>8, ChunkGets
<1>12. QED
  BY <1>7, <1>11 DEF S

CanJoin(id, a, b, data, then, e, row, d, free) ==
    LET k == a.free_chunk
        i == a.chunks[k].size[d]
        chunk == WithRow(a.chunks[k], i, row) IN
    /\ ArchetypeOK(id, a, data) /\ k # 0 /\ Same(Entities \ {e}, data, then)
    /\ data[e].archetype # id /\ RowOf(id, row) /\ d \in id
    /\ then[e].archetype = id /\ then[e].chunk = k /\ then[e].index = i
    /\ free \in {0, k} /\ (free # 0 => Room(id, chunk))
    /\ b = WithMember(a, e, k, chunk, free)

HasJoined(id, a, b, data, then, e, row) ==
    /\ ArchetypeOK(id, b, then) /\ RowsHeld(id, a, b, a.entities, data, then)
    /\ \A c \in id : At(b, then[e], c) = row[c]

LEMMA ArchetypeJoined ==
    ASSUME NEW id \in Ids, NEW a, NEW b, NEW data, NEW then, NEW e \in Entities, NEW row,
           NEW d, NEW free, CanJoin(id, a, b, data, then, e, row, d, free)
    PROVE  HasJoined(id, a, b, data, then, e, row)
<1> DEFINE k == a.free_chunk
           old == a.chunks[k]
           i == old.size[d]
           chunk == WithRow(old, i, row)
           S == Here(data, id, k)
<1>can. /\ ArchetypeOK(id, a, data) /\ k # 0 /\ Same(Entities \ {e}, data, then)
        /\ data[e].archetype # id /\ RowOf(id, row) /\ d \in id
        /\ free \in {0, k} /\ (free # 0 => Room(id, chunk))
        /\ k = a.free_chunk /\ old = a.chunks[k] /\ i = old.size[d] /\ chunk = WithRow(old, i, row)
  BY DEF CanJoin
<1>sits. then[e].archetype = id /\ then[e].chunk = k /\ then[e].index = i
  BY DEF CanJoin
<1>same. \A f \in Entities : f # e => then[f] = data[f]
  BY <1>can DEF Same
<1>b. b = [entities |-> a.entities \cup {e},
           chunks |-> [a.chunks EXCEPT ![k] = chunk], free_chunk |-> free]
  BY DEF CanJoin, WithMember
<1> HIDE DEF k, old, i, chunk
<1>1. /\ a.chunks \in Seq(Chunk(id)) /\ DOMAIN a.chunks = 1 .. Len(a.chunks)
      /\ Len(a.chunks) \in Nat /\ k \in 0 .. Len(a.chunks)
      /\ \A j \in DOMAIN a.chunks : ChunkOK(id, a.chunks[j], Here(data, id, j), data)
  BY <1>can, ChunksTyped
<1>11. /\ k \in DOMAIN a.chunks /\ then[e].index \in 0 .. ChunkSize - 1
       /\ ChunkOK(id, chunk, S \cup {e}, then)
       /\ RowsKept(id, old, chunk, S, data, then) /\ RowAt(id, chunk, then[e], row)
  <2> HIDE DEF S
  <2>1. k \in DOMAIN a.chunks
    BY <1>can, FreeIndex
  <2>3. ChunkOK(id, WithRow(old, i, row), S \cup {e}, then)
    BY <1>can, <1>sits, FreeChunkGets DEF S
  <2>4. RowsKept(id, old, WithRow(old, i, row), S, data, then)
    BY <1>can, <1>sits, FreeChunkGets DEF S
  <2>5. RowAt(id, WithRow(old, i, row), then[e], row)
    BY <1>can, <1>sits, FreeChunkGets
  <2>6. then[e].index \in 0 .. ChunkSize - 1
    BY <1>can, <1>sits, FreeIndex
  <2>7. QED
    BY <1>can, <2>1, <2>3, <2>4, <2>5, <2>6
<1>in. k \in DOMAIN a.chunks /\ free \in 0 .. Len(a.chunks)
  BY <1>1, <1>11, <1>can
<1>12. /\ b.entities = a.entities \cup {e} /\ b.free_chunk = free
       /\ b.chunks = [a.chunks EXCEPT ![k] = chunk]
       /\ DOMAIN b.chunks = DOMAIN a.chunks /\ b.chunks[k] = chunk
       /\ \A j \in DOMAIN a.chunks : j # k => b.chunks[j] = a.chunks[j]
  BY <1>b, <1>in
<1>13. b.chunks \in Seq(Chunk(id)) /\ Len(b.chunks) = Len(a.chunks)
  <2>1. chunk \in Chunk(id)
    BY <1>11 DEF ChunkOK
  <2>2. QED
    BY <1>1, <1>in, <1>12, <2>1
<1>14. /\ a.entities \in SUBSET Entities /\ a.entities = {f \in Entities : data[f].archetype = id}
       /\ \A f \in a.entities : data[f].chunk \in DOMAIN a.chunks
  BY <1>can DEF ArchetypeOK
<1>15. b.entities = {f \in Entities : then[f].archetype = id}
  BY <1>same, <1>sits, <1>12, <1>14
<1>16. \A f \in a.entities : f # e /\ then[f] = data[f]
  BY <1>can, <1>same, <1>14
<1>17. \A f \in b.entities : then[f].chunk \in DOMAIN b.chunks
  BY <1>sits, <1>in, <1>12, <1>14, <1>16
<1>18. b \in Archetype(id)
  <2>1. free \in Nat
    BY <1>1, <1>in
  <2>2. b = [entities |-> b.entities, chunks |-> b.chunks, free_chunk |-> free]
    BY <1>b, <1>12
  <2>3. b.entities \in SUBSET Entities
    BY <1>15
  <2>4. QED
    BY <1>13, <2>1, <2>2, <2>3 DEF Archetype
<1>19. ASSUME NEW j \in DOMAIN b.chunks
       PROVE  ChunkOK(id, b.chunks[j], Here(then, id, j), then)
  <2>1. CASE j = k
    <3>1. Here(then, id, k) = S \cup {e}
      BY <1>same, <1>sits DEF Here
    <3>2. QED
      BY <1>11, <1>12, <2>1, <3>1
  <2>2. CASE j # k
    <3>1. Here(then, id, j) = Here(data, id, j) /\ \A f \in Here(data, id, j) : then[f] = data[f]
      BY <1>can, <1>same, <1>sits, <2>2 DEF Here
    <3>2. ChunkOK(id, a.chunks[j], Here(data, id, j), data) /\ b.chunks[j] = a.chunks[j]
      BY <1>1, <1>12, <2>2
    <3>3. QED
      BY <3>1, <3>2, ChunkKept
  <2>3. QED
    BY <2>1, <2>2
<1>20. b.free_chunk \in 0 .. Len(b.chunks) /\ (b.free_chunk # 0 => Room(id, b.chunks[b.free_chunk]))
  BY <1>can, <1>in, <1>12, <1>13
<1>21. ArchetypeOK(id, b, then)
  BY <1>15, <1>17, <1>18, <1>19, <1>20 DEF ArchetypeOK
<1>22. ASSUME NEW f \in a.entities, NEW c \in id PROVE At(b, then[f], c) = At(a, data[f], c)
  <2>1. CASE data[f].chunk = k
    <3>1. f \in S
      BY <1>14, <2>1 DEF Here
    <3>2. chunk.slot[c][then[f].index] = old.slot[c][data[f].index]
      BY <1>11, <3>1 DEF RowsKept
    <3>3. then[f].chunk = k /\ b.chunks[k] = chunk
      BY <1>12, <1>16, <2>1
    <3>4. At(b, then[f], c) = chunk.slot[c][then[f].index]
      BY <3>3 DEF At
    <3>5. At(a, data[f], c) = old.slot[c][data[f].index]
      BY <1>can, <2>1 DEF At
    <3>6. QED
      BY <3>2, <3>4, <3>5
  <2>2. CASE data[f].chunk # k
    <3>1. b.chunks[data[f].chunk] = a.chunks[data[f].chunk]
      BY <1>12, <1>14, <2>2
    <3>2. QED
      BY <1>16, <3>1 DEF At
  <2>3. QED
    BY <2>1, <2>2
<1>23. ASSUME NEW c \in id PROVE At(b, then[e], c) = row[c]
  <2>1. then[e].chunk = k /\ b.chunks[k] = chunk
    BY <1>sits, <1>12
  <2>2. At(b, then[e], c) = chunk.slot[c][then[e].index]
    BY <2>1 DEF At
  <2>3. QED
    BY <1>11, <2>2 DEF RowAt
<1>24. QED
  BY <1>11, <1>21, <1>22, <1>23 DEF RowsHeld, HasJoined

(* The last entity of a chunk leaves it, and with it the archetype.        *)
LEMMA ArchetypeLeft ==
    ASSUME NEW id \in Ids, NEW a, NEW data, NEW then, NEW e \in Entities,
           ArchetypeOK(id, a, data),
           Same(Entities \ {e}, data, then),
           data[e].archetype = id, then[e].archetype # id,
           \A c \in id : data[e].index = a.chunks[data[e].chunk].size[c] - 1,
           NEW free \in {a.free_chunk, data[e].chunk},
           NEW b, b = WithoutMember(a, e, data[e], free)
    PROVE  /\ ArchetypeOK(id, b, then)
           /\ RowsHeld(id, a, b, a.entities \ {e}, data, then)
<1>same. \A f \in Entities : f # e => then[f] = data[f]
  BY DEF Same
<1>b. b = [entities |-> a.entities \ {e},
           chunks |-> [a.chunks EXCEPT ![data[e].chunk] = WithoutRow(@, data[e].index)],
           free_chunk |-> free]
  BY DEF WithoutMember
<1> DEFINE k == data[e].chunk
           S == Here(data, id, k)
           n == Cardinality(S)
           old == a.chunks[k]
           chunk == WithoutRow(old, data[e].index)
<1>1. /\ a.chunks \in Seq(Chunk(id)) /\ DOMAIN a.chunks = 1 .. Len(a.chunks)
      /\ Len(a.chunks) \in Nat /\ a.free_chunk \in 0 .. Len(a.chunks)
      /\ \A j \in DOMAIN a.chunks : ChunkOK(id, a.chunks[j], Here(data, id, j), data)
  BY ChunksTyped
<1>2. /\ a.entities \in SUBSET Entities /\ a.entities = {f \in Entities : data[f].archetype = id}
      /\ \A f \in a.entities : data[f].chunk \in DOMAIN a.chunks
  BY DEF ArchetypeOK
<1>3. k \in DOMAIN a.chunks /\ S \in SUBSET Entities /\ e \in S
  BY <1>2 DEF Here
<1>4. ChunkOK(id, old, S, data)
  BY <1>1, <1>3
<1>5. \A c \in id : old.size[c] = n
  BY <1>4 DEF ChunkOK
<1>6. data[e].index = n - 1
  <2>1. PICK c \in id : TRUE
    BY DEF Ids
  <2>2. QED
    BY <1>5, <2>1
<1>7. \A f \in S \ {e} : then[f] = data[f]
  BY <1>same, <1>3
<1>s. /\ n = Cardinality(S) /\ old = a.chunks[k]
      /\ chunk = WithoutRow(old, data[e].index)
  OBVIOUS
<1> HIDE DEF n, old, S, k, chunk
<1>8. /\ ChunkOK(id, chunk, S \ {e}, then)
      /\ RowsKept(id, old, chunk, S \ {e}, data, then)
  <2>1. data[e].index = Cardinality(S) - 1
    BY <1>6, <1>s
  <2>2. Same(S \ {e}, data, then)
    BY <1>7 DEF Same
  <2>3. /\ ChunkOK(id, WithoutRow(old, data[e].index), S \ {e}, then)
        /\ RowsKept(id, old, WithoutRow(old, data[e].index), S \ {e}, data, then)
    BY <1>3, <1>4, <2>1, <2>2, ChunkLoses
  <2>4. QED
    BY <1>s, <2>3
<1>9. Room(id, chunk)
  <2>1. n \in Nat /\ Cardinality(S \ {e}) = n - 1
    BY <1>3, <1>s, EntitiesFinite, FS_RemoveElement
  <2>2. \A c \in id : chunk.size[c] = n - 1
    BY <1>8, <2>1 DEF ChunkOK
  <2>3. n * RowSize(id) <= ChunkSize
    BY <1>4, <1>s DEF ChunkOK
  <2>4. (n - 1) + 1 = n
    BY <2>1
  <2>5. QED
    BY <2>2, <2>3, <2>4 DEF Room
<1> USE DEF S, k
<1>10. /\ b.entities = a.entities \ {e} /\ b.free_chunk = free
       /\ b.chunks = [a.chunks EXCEPT ![k] = chunk]
       /\ DOMAIN b.chunks = DOMAIN a.chunks /\ b.chunks[k] = chunk
       /\ \A j \in DOMAIN a.chunks : j # k => b.chunks[j] = a.chunks[j]
  BY <1>b, <1>3 DEF chunk, old
<1>11. b.chunks \in Seq(Chunk(id)) /\ Len(b.chunks) = Len(a.chunks)
  <2>1. chunk \in Chunk(id)
    BY <1>8 DEF ChunkOK
  <2>2. QED
    BY <1>1, <1>3, <1>10, <2>1
<1>12. b.entities = {f \in Entities : then[f].archetype = id}
  BY <1>same, <1>2, <1>10
<1>13. \A f \in b.entities : f \in a.entities /\ f # e /\ then[f] = data[f]
  BY <1>same, <1>2, <1>10
<1>14. \A f \in b.entities : then[f].chunk \in DOMAIN b.chunks
  BY <1>2, <1>10, <1>13
<1>15. b \in Archetype(id)
  <2>1. free \in Nat
    BY <1>1, <1>3
  <2>2. b = [entities |-> b.entities, chunks |-> b.chunks, free_chunk |-> free]
    BY <1>b, <1>10
  <2>3. b.entities \in SUBSET Entities
    BY <1>12
  <2>4. QED
    BY <1>11, <2>1, <2>2, <2>3 DEF Archetype
<1>16. ASSUME NEW j \in DOMAIN b.chunks
       PROVE  ChunkOK(id, b.chunks[j], Here(then, id, j), then)
  <2>1. CASE j = k
    <3>1. Here(then, id, k) = S \ {e}
      BY <1>same DEF Here
    <3>2. QED
      BY <1>8, <1>10, <2>1, <3>1
  <2>2. CASE j # k
    <3>1. Here(then, id, j) = Here(data, id, j) /\ \A f \in Here(data, id, j) : then[f] = data[f]
      BY <1>same, <2>2 DEF Here
    <3>2. ChunkOK(id, a.chunks[j], Here(data, id, j), data) /\ b.chunks[j] = a.chunks[j]
      BY <1>1, <1>10, <2>2
    <3>3. QED
      BY <3>1, <3>2, ChunkKept
  <2>3. QED
    BY <2>1, <2>2
<1>17. b.free_chunk \in 0 .. Len(b.chunks)
  BY <1>1, <1>3, <1>10, <1>11
<1>18. ASSUME b.free_chunk # 0 PROVE Room(id, b.chunks[b.free_chunk])
  <2>1. CASE b.free_chunk = k
    BY <1>9, <1>10, <2>1
  <2>2. CASE b.free_chunk # k
    <3>1. b.free_chunk = a.free_chunk /\ a.free_chunk \in DOMAIN a.chunks
      BY <1>1, <1>10, <1>18, <2>2
    <3>2. Room(id, a.chunks[a.free_chunk])
      BY <1>18, <3>1 DEF ArchetypeOK
    <3>3. QED
      BY <1>10, <2>2, <3>1, <3>2
  <2>3. QED
    BY <2>1, <2>2
<1>19. ArchetypeOK(id, b, then)
  BY <1>12, <1>14, <1>15, <1>16, <1>17, <1>18 DEF ArchetypeOK
<1>20. ASSUME NEW f \in a.entities \ {e}, NEW c \in id PROVE At(b, then[f], c) = At(a, data[f], c)
  <2>0. then[f] = data[f]
    BY <1>same, <1>2
  <2>1. CASE data[f].chunk = k
    <3>1. f \in S \ {e}
      BY <1>2, <2>1 DEF Here
    <3>2. chunk.slot[c][then[f].index] = old.slot[c][data[f].index]
      BY <1>8, <3>1 DEF RowsKept
    <3>3. then[f].chunk = k /\ b.chunks[k] = chunk
      BY <1>10, <2>0, <2>1
    <3>4. At(b, then[f], c) = chunk.slot[c][then[f].index]
      BY <3>3 DEF At
    <3>5. At(a, data[f], c) = old.slot[c][data[f].index]
      BY <2>1 DEF At, old
    <3>6. QED
      BY <3>2, <3>4, <3>5
  <2>2. CASE data[f].chunk # k
    <3>1. b.chunks[data[f].chunk] = a.chunks[data[f].chunk]
      BY <1>2, <1>10, <2>2
    <3>2. QED
      BY <2>0, <3>1 DEF At
  <2>3. QED
    BY <2>1, <2>2
<1>21. QED
  BY <1>19, <1>20 DEF RowsHeld

-----------------------------------------------------------------------------
(* What a step of the world does to the archetypes of the entity it is     *)
(* about, and to all others.                                               *)

LEMMA Facts ==
    ASSUME WorldIInv
    PROVE  /\ \A id \in Ids : ArchetypeOK(id, archetypes[id], entity_data_map)
           /\ entities \subseteq Entities
           /\ \A e \in Entities :
                 /\ Has(e) \in SUBSET Classes /\ (Has(e) # {} => Has(e) \in Ids)
                 /\ entity_data_map[e].chunk \in 0 .. MaxChunks
                 /\ entity_data_map[e].index \in 0 .. ChunkSize - 1
<1>1. next \in 0 .. MaxEntities /\ entities \subseteq 1 .. next /\ MaxEntities \in Nat
  BY ComponentsAssumption DEF WorldIInv, IndexOK
<1>2. entities \subseteq Entities
  BY <1>1 DEF Entities
<1>3. \A e \in Entities : entity_data_map[e] \in [archetype : SUBSET Classes,
                              chunk : 0 .. MaxChunks, index : 0 .. ChunkSize - 1]
  BY DEF WorldIInv, IndexOK
<1>4. QED
  BY <1>2, <1>3 DEF WorldIInv, Has, Ids

(* The row of an entity has its classes and values.                        *)
LEMMA RowValued ==
    ASSUME WorldIInv, NEW e \in Entities
    PROVE  /\ \A c \in Has(e) : Row(e)[c] = At(archetypes[Has(e)], entity_data_map[e], c)
           /\ \A c \in Has(e) : Row(e)[c] \in Values
<1>1. \A c \in Has(e) : Row(e)[c] = At(archetypes[Has(e)], entity_data_map[e], c)
  BY DEF Row, Has, At
<1>2. ASSUME NEW c \in Has(e) PROVE Row(e)[c] \in Values
  <2> DEFINE id == Has(e)
             k == entity_data_map[e].chunk
             chunk == archetypes[id].chunks[k]
  <2>1. id \in Ids /\ ArchetypeOK(id, archetypes[id], entity_data_map)
    BY <1>2, Facts
  <2>2. e \in Here(entity_data_map, id, k)
    BY DEF Here, Has
  <2>3. k \in DOMAIN archetypes[id].chunks
    BY <2>1 DEF ArchetypeOK, Has
  <2>4. ChunkOK(id, chunk, Here(entity_data_map, id, k), entity_data_map)
    BY <2>1, <2>3 DEF ArchetypeOK
  <2>5. chunk.slot[c][entity_data_map[e].index] \in Values
    BY <1>2, <2>2, <2>4 DEF ChunkOK
  <2>6. QED
    BY <1>1, <1>2, <2>5 DEF At
<1>3. QED
  BY <1>1, <1>2

(* If is_full does not hold of a chunk that got a row, there is room.      *)
LEMMA NotFull ==
    ASSUME NEW id \in Ids, NEW old, NEW i, NEW row, RowOf(id, row), NEW n \in Nat,
           \A c \in id : old.size[c] = n, ~IsFull(id, WithRow(old, i, row))
    PROVE  Room(id, WithRow(old, i, row))
<1> DEFINE new == WithRow(old, i, row)
<1>1. \A c \in id : new.size[c] = n + 1
  BY DEF WithRow, RowOf
<1>2. AnyColumn(id) \in id
  BY DEF AnyColumn, Ids
<1>3. ~((n + 1 + 1) * RowSize(id) > ChunkSize)
  BY <1>1, <1>2 DEF IsFull
<1>4. RowSize(id) \in Nat /\ ChunkSize \in Nat
  BY RowSizeBounds, ComponentsAssumption DEF Ids
<1>5. (n + 1 + 1) * RowSize(id) <= ChunkSize
  <2> DEFINE m == (n + 1 + 1) * RowSize(id)
  <2>1. m \in Nat
    BY <1>4
  <2>2. QED
    BY <1>3, <1>4, <2>1
<1>6. QED
  BY <1>1, <1>5 DEF Room

MayJoin(id, e, b, then, row, d, free) ==
    LET dst == WithFreeChunk(id)
        k == dst.free_chunk
        i == dst.chunks[k].size[d]
        chunk == WithRow(dst.chunks[k], i, row) IN
    /\ Has(e) # id /\ Same(Entities \ {e}, entity_data_map, then)
    /\ RowOf(id, row) /\ d \in id
    /\ then[e].archetype = id /\ then[e].chunk = k /\ then[e].index = i
    /\ free \in {0, k} /\ (free # 0 => ~IsFull(id, chunk))
    /\ b = WithMember(dst, e, k, chunk, free)

LEMMA Joins ==
    ASSUME RowsFit, WorldIInv, NEW e \in Entities, NEW id \in Ids, NEW b, NEW then, NEW row,
           NEW d, NEW free, MayJoin(id, e, b, then, row, d, free)
    PROVE  /\ HasJoined(id, archetypes[id], b, entity_data_map, then, e, row)
           /\ then[e].index \in 0 .. ChunkSize - 1 /\ then[e].chunk \in Nat \ {0}
<1> DEFINE dst == WithFreeChunk(id)
           k == dst.free_chunk
           i == dst.chunks[k].size[d]
           chunk == WithRow(dst.chunks[k], i, row)
<1>may. /\ Has(e) # id /\ Same(Entities \ {e}, entity_data_map, then)
        /\ RowOf(id, row) /\ d \in id
        /\ then[e].archetype = id /\ then[e].chunk = k /\ then[e].index = i
        /\ free \in {0, k} /\ (free # 0 => ~IsFull(id, chunk))
        /\ b = WithMember(dst, e, k, chunk, free)
        /\ k = dst.free_chunk /\ i = dst.chunks[k].size[d]
        /\ chunk = WithRow(dst.chunks[k], i, row)
  BY DEF MayJoin
<1>1. ArchetypeOK(id, archetypes[id], entity_data_map)
  BY Facts
<1>2. /\ ArchetypeOK(id, dst, entity_data_map) /\ k # 0
      /\ dst.entities = archetypes[id].entities
      /\ \A j \in DOMAIN archetypes[id].chunks : dst.chunks[j] = archetypes[id].chunks[j]
  BY <1>1, FreeChunk
<1> HIDE DEF dst, k, i, chunk
<1>3. entity_data_map[e].archetype # id
  BY <1>may DEF Has
<1>4. /\ k \in DOMAIN dst.chunks /\ i \in 0 .. ChunkSize - 1
      /\ \A c \in id : dst.chunks[k].size[c] = i
  <2>1. ArchetypeOK(id, dst, entity_data_map) /\ dst.free_chunk # 0 /\ d \in id
    BY <1>2, <1>may
  <2>2. k = dst.free_chunk /\ i = dst.chunks[k].size[d]
    BY <1>may
  <2>3. QED
    BY <2>1, <2>2, FreeIndex
<1>5. free # 0 => Room(id, chunk)
  <2>1. i \in Nat
    BY <1>4
  <2>2. QED
    BY <1>4, <1>may, <2>1, NotFull
<1>6. k \in Nat \ {0}
  BY <1>2, <1>may DEF ArchetypeOK
<1>7. HasJoined(id, dst, b, entity_data_map, then, e, row)
  <2>1. CanJoin(id, dst, b, entity_data_map, then, e, row, d, free)
    BY <1>2, <1>3, <1>5, <1>may DEF CanJoin
  <2>2. QED
    BY <2>1, ArchetypeJoined
<1>8. ASSUME NEW f \in archetypes[id].entities, NEW c \in id
      PROVE  At(b, then[f], c) = At(archetypes[id], entity_data_map[f], c)
  <2>1. entity_data_map[f].chunk \in DOMAIN archetypes[id].chunks
    BY <1>1 DEF ArchetypeOK
  <2>2. At(dst, entity_data_map[f], c) = At(archetypes[id], entity_data_map[f], c)
    BY <1>2, <2>1 DEF At
  <2>3. At(b, then[f], c) = At(dst, entity_data_map[f], c)
    BY <1>2, <1>7 DEF RowsHeld, HasJoined
  <2>4. QED
    BY <2>2, <2>3
<1>9. QED
  BY <1>4, <1>6, <1>7, <1>8, <1>may DEF RowsHeld, HasJoined

LEMMA LeavesEither ==
    ASSUME WorldIInv, NEW e \in Entities, NEW id \in Ids, Has(e) = id, LastOfChunk(e),
           NEW free \in BOOLEAN,
           NEW then, Same(Entities \ {e}, entity_data_map, then), then[e].archetype # id
    PROVE  /\ ArchetypeOK(id, Left(e, free), then)
           /\ RowsHeld(id, archetypes[id], Left(e, free), archetypes[id].entities \ {e},
                       entity_data_map, then)
<1> DEFINE a == archetypes[id]
           k == entity_data_map[e].chunk
           b == Left(e, free)
           f == IF free THEN k ELSE a.free_chunk
<1>1. ArchetypeOK(id, a, entity_data_map)
  BY Facts
<1>2. a = [entities |-> a.entities, chunks |-> a.chunks, free_chunk |-> a.free_chunk]
  BY <1>1, ChunksTyped
<1>3. entity_data_map[e].archetype = id
  BY DEF Has
<1>4. b = WithoutMember(a, e, entity_data_map[e], f)
  <2>1. b = [a EXCEPT !.entities = @ \ {e},
                      !.chunks[k] = WithoutRow(@, entity_data_map[e].index), !.free_chunk = f]
    <3>1. CASE free
      BY <1>3, <3>1 DEF Left
    <3>2. CASE ~free
      <4>1. Left(e, free) = [archetypes[id] EXCEPT !.entities = @ \ {e},
                      !.chunks[k] = WithoutRow(@, entity_data_map[e].index), !.free_chunk = @]
        BY <1>3, <3>2 DEF Left
      <4>2. QED
        BY <3>2, <4>1
    <3>3. QED
      BY <3>1, <3>2
  <2> HIDE DEF b
  <2>2. QED
    BY <1>2, <2>1 DEF WithoutMember
<1>5. \A c \in id : entity_data_map[e].index = a.chunks[k].size[c] - 1
  BY <1>3 DEF LastOfChunk
<1>6. f \in {a.free_chunk, k}
  OBVIOUS
<1> HIDE DEF b, f, a
<1>7. ArchetypeOK(id, b, then)
  BY <1>1, <1>3, <1>4, <1>5, <1>6, ArchetypeLeft
<1>8. RowsHeld(id, a, b, a.entities \ {e}, entity_data_map, then)
  BY <1>1, <1>3, <1>4, <1>5, <1>6, ArchetypeLeft
<1>9. QED
  BY <1>7, <1>8 DEF a, b

LEMMA Leaves ==
    ASSUME WorldIInv, NEW e \in Entities, NEW id \in Ids, Has(e) = id, LastOfChunk(e),
           NEW then, Same(Entities \ {e}, entity_data_map, then), then[e].archetype # id
    PROVE  /\ ArchetypeOK(id, Left(e, TRUE), then)
           /\ RowsHeld(id, archetypes[id], Left(e, TRUE), archetypes[id].entities \ {e},
                       entity_data_map, then)
           /\ ArchetypeOK(id, Left(e, FALSE), then)
           /\ RowsHeld(id, archetypes[id], Left(e, FALSE), archetypes[id].entities \ {e},
                       entity_data_map, then)
<1>1. TRUE \in BOOLEAN /\ FALSE \in BOOLEAN
  OBVIOUS
<1>2. /\ ArchetypeOK(id, Left(e, TRUE), then)
      /\ RowsHeld(id, archetypes[id], Left(e, TRUE), archetypes[id].entities \ {e},
                  entity_data_map, then)
  BY <1>1, LeavesEither, Zenon
<1>3. /\ ArchetypeOK(id, Left(e, FALSE), then)
      /\ RowsHeld(id, archetypes[id], Left(e, FALSE), archetypes[id].entities \ {e},
                  entity_data_map, then)
  BY <1>1, LeavesEither, Zenon
<1>4. QED
  BY <1>2, <1>3

-----------------------------------------------------------------------------
(* The steps of the world.                                                 *)

(* Every entity but e stays where it is, with the values it has.           *)
OthersKept(e) ==
    \A f \in Entities : f # e =>
        /\ entity_data_map'[f] = entity_data_map[f]
        /\ \A c \in Has(f) :
              At(archetypes'[Has(f)], entity_data_map'[f], c)
                  = At(archetypes[Has(f)], entity_data_map[f], c)

LEMMA SpawnKeeps ==
    ASSUME WorldIInv, SpawnEntity
    PROVE  /\ WorldIInv' /\ entity_data_map' \in [Entities -> [archetype : SUBSET Classes,
                               chunk : 0 .. MaxChunks, index : 0 .. ChunkSize - 1]]
           /\ next + 1 \in Entities /\ next + 1 \notin 1 .. next
           /\ Has(next + 1) = {} /\ entity_data_map'[next + 1].archetype = {}
           /\ \A f \in Entities : f # next + 1 => entity_data_map'[f] = entity_data_map[f]
<1>1. /\ next \in 0 .. MaxEntities /\ entities \subseteq 1 .. next /\ MaxEntities \in Nat
      /\ MaxChunks \in Nat /\ ChunkSize \in Nat \ {0}
  <2>1. ClassSize[Position] \in 1 .. ChunkSize
    BY ComponentsAssumption
  <2>2. QED
    BY <2>1, ComponentsAssumption DEF WorldIInv, IndexOK
<1> DEFINE e == next + 1
<1>2. e \in Entities /\ e \notin 1 .. next /\ next' = next + 1 /\ next' \in 0 .. MaxEntities
  BY <1>1 DEF SpawnEntity, Entities
<1>3. Has(e) = {}
  <2>1. e > next
    BY <1>1
  <2>2. QED
    BY <1>2, <2>1 DEF WorldIInv, IndexOK, Has
<1>4. /\ entity_data_map \in [Entities -> [archetype : SUBSET Classes,
                                chunk : 0 .. MaxChunks, index : 0 .. ChunkSize - 1]]
      /\ Nowhere \in [archetype : SUBSET Classes, chunk : 0 .. MaxChunks, index : 0 .. ChunkSize - 1]
      /\ Nowhere.archetype = {}
  BY <1>1 DEF WorldIInv, IndexOK, Nowhere
<1>5. entity_data_map' = [entity_data_map EXCEPT ![e] = Nowhere] /\ archetypes' = archetypes
      /\ entities' = entities \cup {e}
  BY DEF SpawnEntity
<1> HIDE DEF e
<1>6. /\ entity_data_map' \in [Entities -> [archetype : SUBSET Classes,
                                 chunk : 0 .. MaxChunks, index : 0 .. ChunkSize - 1]]
      /\ entity_data_map'[e].archetype = {}
      /\ \A f \in Entities : f # e => entity_data_map'[f] = entity_data_map[f]
  BY <1>2, <1>4, <1>5
<1>7. \A f \in Entities : f > next' => entity_data_map'[f].archetype = {}
  <2> SUFFICES ASSUME NEW f \in Entities, f > next' PROVE entity_data_map'[f].archetype = {}
    OBVIOUS
  <2>1. f > next /\ f # e
    BY <1>1, <1>2 DEF e, Entities
  <2>2. QED
    BY <1>6, <2>1 DEF WorldIInv, IndexOK
<1>8. entities' \subseteq 1 .. next'
  BY <1>1, <1>2, <1>5 DEF e
<1>9. IndexOK'
  BY <1>2, <1>6, <1>7, <1>8 DEF IndexOK
<1>10. ASSUME NEW id \in Ids PROVE ArchetypeOK(id, archetypes'[id], entity_data_map')
  <2>1. Same(Entities \ {e}, entity_data_map, entity_data_map')
    BY <1>6 DEF Same
  <2>2. entity_data_map[e].archetype # id /\ entity_data_map'[e].archetype # id
    BY <1>3, <1>6 DEF Has, Ids
  <2>3. ArchetypeOK(id, archetypes[id], entity_data_map')
    BY <2>1, <2>2, Facts, ArchetypeKept
  <2>4. QED
    BY <1>5, <2>3
<1>11. WorldIInv'
  BY <1>5, <1>9, <1>10 DEF WorldIInv
<1>12. QED
  BY <1>2, <1>3, <1>6, <1>11 DEF e

LEMMA DestroyKeeps ==
    ASSUME WorldIInv, NEW e, DestroyEntity(e)
    PROVE  WorldIInv'
BY DEF WorldIInv, IndexOK, DestroyEntity

(* What a step leaves of the entities that are not in the archetypes it    *)
(* changes.                                                                *)
LEMMA OthersStay ==
    ASSUME WorldIInv, NEW e \in Entities, Same(Entities \ {e}, entity_data_map, entity_data_map'),
           \A id \in Ids : \/ archetypes'[id] = archetypes[id]
                           \/ RowsHeld(id, archetypes[id], archetypes'[id],
                                       archetypes[id].entities \ {e},
                                       entity_data_map, entity_data_map')
    PROVE  OthersKept(e)
<1> SUFFICES ASSUME NEW f \in Entities, f # e, NEW c \in Has(f)
             PROVE  At(archetypes'[Has(f)], entity_data_map'[f], c)
                        = At(archetypes[Has(f)], entity_data_map[f], c)
  BY DEF OthersKept, Same
<1> DEFINE id == Has(f)
<1>1. id \in Ids /\ ArchetypeOK(id, archetypes[id], entity_data_map)
  BY Facts
<1>2. f \in archetypes[id].entities \ {e}
  BY <1>1 DEF ArchetypeOK, Has
<1>3. entity_data_map'[f] = entity_data_map[f]
  BY DEF Same
<1>4. CASE archetypes'[id] = archetypes[id]
  BY <1>3, <1>4
<1>5. CASE RowsHeld(id, archetypes[id], archetypes'[id], archetypes[id].entities \ {e},
                    entity_data_map, entity_data_map')
  BY <1>2, <1>5 DEF RowsHeld
<1>6. QED
  BY <1>1, <1>4, <1>5

(* The entity table after an entity has moved.                             *)
LEMMA IndexKept ==
    ASSUME WorldIInv, NEW e \in entities, NEW d \in [archetype : SUBSET Classes,
                              chunk : 0 .. MaxChunks, index : 0 .. ChunkSize - 1],
           entity_data_map' = [entity_data_map EXCEPT ![e] = d],
           UNCHANGED <<entities, next>>
    PROVE  /\ IndexOK' /\ entity_data_map'[e] = d
           /\ Same(Entities \ {e}, entity_data_map, entity_data_map')
<1>1. e \in Entities /\ e \in 1 .. next /\ next \in Nat
  BY Facts DEF WorldIInv, IndexOK
<1>2. entity_data_map \in [Entities -> [archetype : SUBSET Classes,
                                chunk : 0 .. MaxChunks, index : 0 .. ChunkSize - 1]]
  BY DEF WorldIInv, IndexOK
<1>3. /\ entity_data_map' \in [Entities -> [archetype : SUBSET Classes,
                                 chunk : 0 .. MaxChunks, index : 0 .. ChunkSize - 1]]
      /\ entity_data_map'[e] = d
      /\ \A f \in Entities : f # e => entity_data_map'[f] = entity_data_map[f]
  BY <1>1, <1>2
<1>4. \A f \in Entities : f > next => f # e
  BY <1>1
<1>5. IndexOK'
  BY <1>3, <1>4 DEF WorldIInv, IndexOK
<1>6. QED
  BY <1>3, <1>5 DEF Same

Gained(e, c, v) ==
    \A t \in Has(e) \cup {c} :
        At(archetypes'[Has(e) \cup {c}], entity_data_map'[e], t) = IF t = c THEN v ELSE Row(e)[t]

LEMMA AddKeeps ==
    ASSUME RowsFit, WorldIInv, NEW e \in entities, NEW c \in Classes, NEW v \in Values,
           AddComponent(e, c, v), LastOfChunk(e)
    PROVE  /\ WorldIInv' /\ OthersKept(e)
           /\ c \notin Has(e) /\ entity_data_map'[e].archetype = Has(e) \cup {c}
           /\ Gained(e, c, v)
<1> DEFINE old == Has(e)
           new == old \cup {c}
           dst == WithFreeChunk(new)
           k == dst.free_chunk
           i == dst.chunks[k].size[c]
           row == [t \in new |-> IF t = c THEN v ELSE Row(e)[t]]
           chunk == WithRow(dst.chunks[k], i, row)
           free == IF IsFull(new, chunk) THEN 0 ELSE k
           d == [archetype |-> new, chunk |-> k, index |-> i]
           b == [dst EXCEPT !.entities = @ \cup {e}, !.chunks[k] = chunk, !.free_chunk = free]
           then == entity_data_map'
<1>1. /\ c \notin old /\ k <= MaxChunks
      /\ archetypes' = [id \in Ids |-> IF id = new THEN b
                                       ELSE IF id = old THEN Left(e, FALSE)
                                       ELSE archetypes[id]]
      /\ then = [entity_data_map EXCEPT ![e] = d]
      /\ UNCHANGED <<entities, next>>
  BY DEF AddComponent, Has, NewRow
<1>2. e \in Entities /\ old \in SUBSET Classes
  BY Facts
<1>3. new \in Ids /\ new # old /\ c \in new
  BY <1>1, <1>2 DEF Ids
<1>4. RowOf(new, row)
  <2>1. \A t \in old : Row(e)[t] \in Values
    BY <1>2, RowValued
  <2>2. QED
    BY <2>1 DEF RowOf
<1>5. ArchetypeOK(new, dst, entity_data_map)
  BY <1>3, Facts, FreeChunk
<1>6. b = WithMember(dst, e, k, chunk, free)
  <2>1. dst = [entities |-> dst.entities, chunks |-> dst.chunks, free_chunk |-> dst.free_chunk]
    BY <1>5, ChunksTyped
  <2>2. b = [dst EXCEPT !.entities = @ \cup {e}, !.chunks[k] = chunk, !.free_chunk = free]
    OBVIOUS
  <2> HIDE DEF dst, k, chunk, free, b
  <2>3. QED
    BY <2>1, <2>2 DEF WithMember
<1>7. k \in 0 .. MaxChunks /\ i \in 0 .. ChunkSize - 1
  <2>1. k # 0 /\ k \in Nat
    BY <1>3, <1>5, Facts, FreeChunk DEF ArchetypeOK
  <2>2. i \in 0 .. ChunkSize - 1
    BY <1>3, <1>5, <2>1, FreeIndex
  <2>3. k <= MaxChunks /\ MaxChunks \in Nat
    BY <1>1, ComponentsAssumption
  <2> HIDE DEF k, i
  <2>4. QED
    BY <2>1, <2>2, <2>3
<1>8. d \in [archetype : SUBSET Classes, chunk : 0 .. MaxChunks, index : 0 .. ChunkSize - 1]
  BY <1>3, <1>7 DEF Ids
<1>9. /\ IndexOK' /\ then[e] = d /\ Same(Entities \ {e}, entity_data_map, then)
  BY <1>1, <1>8, IndexKept
<1>10. then[e].archetype = new /\ then[e].chunk = k /\ then[e].index = i
  BY <1>9
<1>11. MayJoin(new, e, b, then, row, c, free)
  BY <1>3, <1>4, <1>6, <1>9, <1>10 DEF MayJoin
<1> HIDE DEF b, then, row, free, d, i, k, chunk, dst
<1>12. HasJoined(new, archetypes[new], b, entity_data_map, then, e, row)
  BY <1>2, <1>3, <1>11, Joins
<1>13. archetypes'[new] = b /\ DOMAIN archetypes' = Ids
  BY <1>1, <1>3
<1>14. ASSUME NEW id \in Ids
       PROVE  /\ ArchetypeOK(id, archetypes'[id], then)
              /\ \/ archetypes'[id] = archetypes[id]
                 \/ RowsHeld(id, archetypes[id], archetypes'[id], archetypes[id].entities \ {e},
                             entity_data_map, then)
  <2>1. CASE id = new
    BY <1>12, <1>13, <2>1 DEF HasJoined, RowsHeld
  <2>2. CASE id = old
    <3>1. archetypes'[id] = Left(e, FALSE)
      BY <1>1, <1>3, <2>2
    <3>2. then[e].archetype # id
      BY <1>3, <1>10, <2>2
    <3>3. QED
      BY <1>1, <1>2, <1>9, <2>2, <3>1, <3>2, Leaves
  <2>3. CASE id # new /\ id # old
    <3>1. archetypes'[id] = archetypes[id]
      BY <1>1, <2>3
    <3>2. entity_data_map[e].archetype # id /\ then[e].archetype # id
      BY <1>10, <2>3 DEF Has
    <3>3. ArchetypeOK(id, archetypes[id], then)
      BY <1>9, <3>2, Facts, ArchetypeKept
    <3>4. QED
      BY <3>1, <3>3
  <2>4. QED
    BY <2>1, <2>2, <2>3
<1>15. WorldIInv'
  BY <1>9, <1>13, <1>14 DEF WorldIInv, then
<1>16. OthersKept(e)
  BY <1>2, <1>9, <1>14, OthersStay DEF then
<1>17. \A t \in new : At(archetypes'[new], then[e], t) = IF t = c THEN v ELSE Row(e)[t]
  <2>1. \A t \in new : row[t] = IF t = c THEN v ELSE Row(e)[t]
    BY DEF row
  <2>2. QED
    BY <1>12, <1>13, <2>1 DEF HasJoined
<1>18. QED
  BY <1>1, <1>10, <1>15, <1>16, <1>17 DEF then, Gained

LEMMA RemoveKeeps ==
    ASSUME RowsFit, NoRefill, WorldIInv, NEW e \in entities, NEW c \in Classes,
           RemoveComponent(e, c), LastOfChunk(e)
    PROVE  /\ WorldIInv' /\ OthersKept(e)
           /\ c \in Has(e) /\ entity_data_map'[e].archetype = Has(e) \ {c}
           /\ \A t \in Has(e) \ {c} :
                 At(archetypes'[Has(e) \ {c}], entity_data_map'[e], t) = Row(e)[t]
<1> DEFINE old == Has(e)
           new == old \ {c}
           dst == WithFreeChunk(new)
           k == dst.free_chunk
           i == dst.chunks[k].size[AnyColumn(new)]
           row == [t \in new |-> Row(e)[t]]
           chunk == WithRow(dst.chunks[k], i, row)
           d == [archetype |-> new, chunk |-> k, index |-> i]
           b == [dst EXCEPT !.entities = @ \cup {e}, !.chunks[k] = chunk]
           then == entity_data_map'
<1>1. /\ c \in old
      /\ \/ /\ new = {}
            /\ archetypes' = [archetypes EXCEPT ![old] = Left(e, TRUE)]
            /\ then = [entity_data_map EXCEPT ![e].archetype = {}]
         \/ /\ new # {} /\ k <= MaxChunks /\ ~IsFull(new, chunk)
            /\ archetypes' = [archetypes EXCEPT ![old] = Left(e, TRUE), ![new] = b]
            /\ then = [entity_data_map EXCEPT ![e] = d]
      /\ UNCHANGED <<entities, next>>
  BY DEF RemoveComponent, Has, NoRefill
<1>2. e \in Entities /\ old \in SUBSET Classes /\ old \in Ids /\ new # old
  BY <1>1, Facts
<1>dom. DOMAIN archetypes = Ids
  BY DEF WorldIInv
<1>3. CASE new = {}
  <2> DEFINE d0 == [entity_data_map[e] EXCEPT !.archetype = {}]
  <2> HIDE DEF dst, k, i, row, chunk, d, b
  <2>1. /\ archetypes' = [archetypes EXCEPT ![old] = Left(e, TRUE)]
        /\ then = [entity_data_map EXCEPT ![e] = d0]
    BY <1>1, <1>3
  <2>2. entity_data_map[e] \in [archetype : SUBSET Classes, chunk : 0 .. MaxChunks,
                                index : 0 .. ChunkSize - 1]
    BY <1>2 DEF WorldIInv, IndexOK
  <2>3. /\ d0 \in [archetype : SUBSET Classes, chunk : 0 .. MaxChunks, index : 0 .. ChunkSize - 1]
        /\ d0.archetype = {}
    BY <2>2
  <2> HIDE DEF d0
  <2>4. /\ IndexOK' /\ then[e] = d0 /\ Same(Entities \ {e}, entity_data_map, then)
    BY <1>1, <2>1, <2>3, IndexKept
  <2>5. then[e].archetype = {}
    BY <2>3, <2>4
  <2> HIDE DEF then
  <2>6. ASSUME NEW id \in Ids
        PROVE  /\ ArchetypeOK(id, archetypes'[id], then)
               /\ \/ archetypes'[id] = archetypes[id]
                  \/ RowsHeld(id, archetypes[id], archetypes'[id], archetypes[id].entities \ {e},
                              entity_data_map, then)
    <3>1. CASE id = old
      <4>1. archetypes'[id] = Left(e, TRUE)
        BY <1>dom, <2>1, <3>1
      <4>2. then[e].archetype # id
        BY <2>5 DEF Ids
      <4>3. /\ ArchetypeOK(id, Left(e, TRUE), then)
            /\ RowsHeld(id, archetypes[id], Left(e, TRUE), archetypes[id].entities \ {e},
                        entity_data_map, then)
        BY <1>1, <1>2, <2>4, <3>1, <4>2, Leaves
      <4>4. QED
        BY <4>1, <4>3
    <3>2. CASE id # old
      <4>1. archetypes'[id] = archetypes[id]
        BY <1>dom, <2>1, <3>2
      <4>2. entity_data_map[e].archetype # id /\ then[e].archetype # id
        BY <2>5, <3>2 DEF Has, Ids
      <4>3. ArchetypeOK(id, archetypes[id], then)
        BY <2>4, <4>2, Facts, ArchetypeKept
      <4>4. QED
        BY <4>1, <4>3
    <3>3. QED
      BY <3>1, <3>2
  <2>7. DOMAIN archetypes' = Ids
    BY <1>dom, <2>1
  <2>8. WorldIInv'
    BY <2>4, <2>6, <2>7 DEF WorldIInv, then
  <2>9. OthersKept(e)
    BY <1>2, <2>4, <2>6, OthersStay DEF then
  <2>10. QED
    BY <1>1, <1>3, <2>5, <2>8, <2>9 DEF then
<1>4. CASE new # {}
  <2>1. /\ k <= MaxChunks /\ ~IsFull(new, chunk)
        /\ archetypes' = [archetypes EXCEPT ![old] = Left(e, TRUE), ![new] = b]
        /\ then = [entity_data_map EXCEPT ![e] = d]
    BY <1>1, <1>4
  <2>2. new \in Ids /\ AnyColumn(new) \in new
    BY <1>2, <1>4 DEF Ids, AnyColumn
  <2>3. RowOf(new, row)
    <3>1. \A t \in old : Row(e)[t] \in Values
      BY <1>2, RowValued
    <3>2. QED
      BY <3>1 DEF RowOf
  <2>4. ArchetypeOK(new, dst, entity_data_map) /\ k # 0
    BY <2>2, Facts, FreeChunk
  <2>5. b = WithMember(dst, e, k, chunk, k)
    <3>1. dst = [entities |-> dst.entities, chunks |-> dst.chunks, free_chunk |-> dst.free_chunk]
      BY <2>4, ChunksTyped
    <3>2. b = [dst EXCEPT !.entities = @ \cup {e}, !.chunks[k] = chunk] /\ k = dst.free_chunk
      OBVIOUS
    <3> HIDE DEF dst, k, chunk, b
    <3>3. QED
      BY <3>1, <3>2 DEF WithMember
  <2>6. k \in 0 .. MaxChunks /\ i \in 0 .. ChunkSize - 1
    <3>1. k \in Nat
      BY <2>4 DEF ArchetypeOK
    <3>2. i \in 0 .. ChunkSize - 1
      BY <2>2, <2>4, FreeIndex
    <3>3. QED
      BY <2>1, <3>1, <3>2, ComponentsAssumption
  <2>7. d \in [archetype : SUBSET Classes, chunk : 0 .. MaxChunks, index : 0 .. ChunkSize - 1]
    BY <2>2, <2>6 DEF Ids
  <2>8. /\ IndexOK' /\ then[e] = d /\ Same(Entities \ {e}, entity_data_map, then)
    BY <1>1, <2>1, <2>7, IndexKept
  <2>9. then[e].archetype = new /\ then[e].chunk = k /\ then[e].index = i
    BY <2>8
  <2>10. MayJoin(new, e, b, then, row, AnyColumn(new), k)
    BY <1>2, <2>1, <2>2, <2>3, <2>5, <2>8, <2>9 DEF MayJoin
  <2> HIDE DEF b, then, row, d, i, k, chunk, dst
  <2>11. HasJoined(new, archetypes[new], b, entity_data_map, then, e, row)
    BY <1>2, <2>2, <2>10, Joins
  <2>12. /\ archetypes'[new] = b /\ archetypes'[old] = Left(e, TRUE) /\ DOMAIN archetypes' = Ids
         /\ \A id \in Ids : id # new /\ id # old => archetypes'[id] = archetypes[id]
    BY <1>dom, <1>2, <2>1, <2>2
  <2>13. ASSUME NEW id \in Ids
         PROVE  /\ ArchetypeOK(id, archetypes'[id], then)
                /\ \/ archetypes'[id] = archetypes[id]
                   \/ RowsHeld(id, archetypes[id], archetypes'[id], archetypes[id].entities \ {e},
                               entity_data_map, then)
    <3>1. CASE id = new
      BY <2>11, <2>12, <3>1 DEF HasJoined, RowsHeld
    <3>2. CASE id = old
      <4>1. then[e].archetype # id /\ archetypes'[id] = Left(e, TRUE)
        BY <1>2, <2>9, <2>12, <3>2
      <4>2. /\ ArchetypeOK(id, Left(e, TRUE), then)
            /\ RowsHeld(id, archetypes[id], Left(e, TRUE), archetypes[id].entities \ {e},
                        entity_data_map, then)
        BY <1>1, <1>2, <2>8, <3>2, <4>1, Leaves
      <4>3. QED
        BY <4>1, <4>2
    <3>3. CASE id # new /\ id # old
      <4>1. archetypes'[id] = archetypes[id]
        BY <2>12, <3>3
      <4>2. entity_data_map[e].archetype # id /\ then[e].archetype # id
        BY <2>9, <3>3 DEF Has
      <4>3. ArchetypeOK(id, archetypes[id], then)
        BY <2>8, <4>2, Facts, ArchetypeKept
      <4>4. QED
        BY <4>1, <4>3
    <3>4. QED
      BY <3>1, <3>2, <3>3
  <2>14. WorldIInv'
    BY <2>8, <2>12, <2>13 DEF WorldIInv, then
  <2>15. OthersKept(e)
    BY <1>2, <2>8, <2>13, OthersStay DEF then
  <2>16. \A t \in new : At(archetypes'[new], then[e], t) = Row(e)[t]
    <3>1. \A t \in new : row[t] = Row(e)[t]
      BY DEF row
    <3>2. QED
      BY <2>11, <2>12, <3>1 DEF HasJoined
  <2>17. QED
    BY <1>1, <2>9, <2>14, <2>15, <2>16 DEF then
<1>5. QED
  BY <1>3, <1>4

LEMMA VisitedHere ==
    ASSUME WorldIInv, NEW id \in Ids, Motion \in id, NEW k
    PROVE  {e \in Visited : entity_data_map[e].archetype = id /\ entity_data_map[e].chunk = k}
               = Here(entity_data_map, id, k)
<1>1. \A a \in Ids : archetypes[a].entities = {e \in Entities : entity_data_map[e].archetype = a}
  BY Facts DEF ArchetypeOK
<1>2. Visited \subseteq Entities
  BY <1>1 DEF Visited
<1>3. \A e \in Entities : entity_data_map[e].archetype = id => e \in Visited
  BY <1>1 DEF Visited, Required
<1>4. QED
  BY <1>2, <1>3 DEF Here

(* A system writes the positions of the rows of a chunk, and nothing else. *)
LEMMA ChunkMoved ==
    ASSUME WorldIInv, NEW id \in Ids, Motion \in id, NEW k \in DOMAIN archetypes[id].chunks
    PROVE  /\ ChunkOK(id, Moved(id, k), Here(entity_data_map, id, k), entity_data_map)
           /\ Moved(id, k).size = archetypes[id].chunks[k].size
           /\ \A e \in Here(entity_data_map, id, k) : \A c \in id :
                 Moved(id, k).slot[c][entity_data_map[e].index] =
                     IF c = ColumnOf(id, Position)
                     THEN PositionOf[archetypes[id].chunks[k].slot[Motion][entity_data_map[e].index]]
                     ELSE archetypes[id].chunks[k].slot[c][entity_data_map[e].index]
<1> DEFINE chunk == archetypes[id].chunks[k]
           S == Here(entity_data_map, id, k)
           rows == {entity_data_map[e].index : e \in S}
           p == ColumnOf(id, Position)
           new == Moved(id, k)
           column == [i \in DOMAIN chunk.slot[p] |->
               IF i \in rows THEN PositionOf[chunk.slot[Motion][i]] ELSE chunk.slot[p][i]]
<1>1. ChunkOK(id, chunk, S, entity_data_map)
  BY Facts DEF ArchetypeOK
<1>2. p \in id
  BY DEF ColumnOf, AnyColumn, Ids
<1>3. /\ chunk = [size |-> chunk.size, slot |-> chunk.slot]
      /\ chunk.slot \in [id -> Column] /\ chunk.size \in [id -> 0 .. ChunkSize]
      /\ \A c \in id : chunk.slot[c] \in [Slots(c) -> Values \cup {None}]
      /\ \A e \in S : \A c \in id : chunk.slot[c][entity_data_map[e].index] \in Values
  BY <1>1 DEF ChunkOK, Chunk
<1>4. new = [chunk EXCEPT !.slot[p] = column]
  BY VisitedHere DEF Moved
<1>5. /\ new.size = chunk.size /\ new.slot = [chunk.slot EXCEPT ![p] = column]
      /\ new = [size |-> new.size, slot |-> new.slot]
  <2> HIDE DEF new, chunk, column, p
  <2>1. QED
    BY <1>3, <1>4
<1>6. column \in [Slots(p) -> Values \cup {None}]
  <2>1. DOMAIN chunk.slot[p] = Slots(p)
    BY <1>2, <1>3
  <2>2. \A i \in rows : PositionOf[chunk.slot[Motion][i]] \in Values
    BY <1>3, ComponentsAssumption
  <2>3. \A i \in Slots(p) : chunk.slot[p][i] \in Values \cup {None}
    BY <1>2, <1>3
  <2> HIDE DEF rows, p, chunk
  <2>4. QED
    BY <2>1, <2>2, <2>3
<1> HIDE DEF new
<1>7. new.slot[p] = column /\ \A c \in id : c # p => new.slot[c] = chunk.slot[c]
  BY <1>2, <1>3, <1>5
<1>8. \A c \in id : new.slot[c] \in [Slots(c) -> Values \cup {None}]
  BY <1>3, <1>6, <1>7
<1>9. new \in Chunk(id)
  <2>1. DOMAIN new.slot = id /\ new.slot = [c \in id |-> new.slot[c]]
    BY <1>3, <1>5
  <2>2. [size |-> new.size, slot |-> new.slot] \in Chunk(id)
    <3>1. new.size \in [id -> 0 .. ChunkSize]
      BY <1>3, <1>5
    <3>2. QED
      BY <1>8, <2>1, <3>1, ChunkType
  <2>3. QED
    BY <1>5, <2>2
<1>10. ASSUME NEW e \in S, NEW c \in id
       PROVE  /\ new.slot[c][entity_data_map[e].index] =
                     IF c = p THEN PositionOf[chunk.slot[Motion][entity_data_map[e].index]]
                     ELSE chunk.slot[c][entity_data_map[e].index]
              /\ new.slot[c][entity_data_map[e].index] \in Values
  <2> DEFINE i == entity_data_map[e].index
  <2>1. chunk.slot[Motion][i] \in Values /\ chunk.slot[c][i] \in Values
    BY <1>3
  <2>2. PositionOf[chunk.slot[Motion][i]] \in Values
    BY <2>1, ComponentsAssumption
  <2>3. CASE c = p
    <3>1. i \in DOMAIN chunk.slot[p]
      <4>1. DOMAIN chunk.slot[p] = Slots(p)
        BY <1>2, <1>3
      <4>2. i \in 0 .. Cardinality(S) - 1
        BY <1>1 DEF ChunkOK
      <4>3. S \in SUBSET Entities
        BY DEF Here
      <4>4. Cardinality(S) \in Nat
        BY <4>3, EntitiesFinite
      <4>5. Cardinality(S) - 1 \in Nat /\ i <= Cardinality(S) - 1 /\ i \in Nat
        BY <4>2, <4>4
      <4>6. (Cardinality(S) - 1 + 1) * RowSize(id) <= ChunkSize
        <5>1. Cardinality(S) * RowSize(id) <= ChunkSize
          BY <1>1 DEF ChunkOK
        <5>2. Cardinality(S) - 1 + 1 = Cardinality(S)
          BY <4>4
        <5>3. QED
          BY <5>1, <5>2
      <4>7. Cardinality(S) - 1 \in Slots(p)
        BY <1>2, <4>5, <4>6, RowHasSlots
      <4>8. 0 .. Cardinality(S) - 1 \subseteq Slots(p)
        BY <1>2, <4>7, SlotsUpTo DEF Ids
      <4>9. QED
        BY <4>1, <4>2, <4>8
    <3>2. i \in rows
      OBVIOUS
    <3>3. column[i] = PositionOf[chunk.slot[Motion][i]]
      BY <3>1, <3>2
    <3>4. QED
      BY <1>7, <2>2, <2>3, <3>3
  <2>4. CASE c # p
    BY <1>7, <2>1, <2>4
  <2>5. QED
    BY <2>3, <2>4
<1>11. ChunkOK(id, new, S, entity_data_map)
  BY <1>1, <1>5, <1>8, <1>9, <1>10 DEF ChunkOK
<1>12. QED
  BY <1>5, <1>10, <1>11 DEF new

LEMMA ForEachKeeps ==
    ASSUME WorldIInv, ForEach
    PROVE  /\ WorldIInv'
           /\ \A e \in Entities : \A c \in Has(e) :
                 At(archetypes'[Has(e)], entity_data_map[e], c) =
                     IF Motion \in Has(e) /\ c = ColumnOf(Has(e), Position)
                     THEN PositionOf[At(archetypes[Has(e)], entity_data_map[e], Motion)]
                     ELSE At(archetypes[Has(e)], entity_data_map[e], c)
<1>1. /\ archetypes' = [id \in Ids |->
             IF Motion \in id
             THEN [archetypes[id] EXCEPT !.chunks = [k \in DOMAIN archetypes[id].chunks |-> Moved(id, k)]]
             ELSE archetypes[id]]
      /\ UNCHANGED <<entities, next, entity_data_map>>
  BY DEF ForEach, Required
<1>2. ASSUME NEW id \in Ids, Motion \in id
      PROVE  /\ ArchetypeOK(id, archetypes'[id], entity_data_map)
             /\ archetypes'[id].chunks = [k \in DOMAIN archetypes[id].chunks |-> Moved(id, k)]
  <2> DEFINE a == archetypes[id]
             chunks == [k \in DOMAIN a.chunks |-> Moved(id, k)]
             b == archetypes'[id]
  <2>1. /\ a = [entities |-> a.entities, chunks |-> a.chunks, free_chunk |-> a.free_chunk]
        /\ DOMAIN a.chunks = 1 .. Len(a.chunks)
        /\ Len(a.chunks) \in Nat /\ a.free_chunk \in 0 .. Len(a.chunks)
    BY Facts, ChunksTyped
  <2>2. b = [a EXCEPT !.chunks = chunks]
    BY <1>1, <1>2
  <2>3. /\ a.entities \in SUBSET Entities
        /\ a.entities = {e \in Entities : entity_data_map[e].archetype = id}
        /\ \A e \in a.entities : entity_data_map[e].chunk \in DOMAIN a.chunks
        /\ (a.free_chunk # 0 => Room(id, a.chunks[a.free_chunk]))
    BY Facts DEF ArchetypeOK, Archetype
  <2>4. \A k \in DOMAIN a.chunks :
           /\ chunks[k] = Moved(id, k) /\ chunks[k].size = a.chunks[k].size
           /\ ChunkOK(id, chunks[k], Here(entity_data_map, id, k), entity_data_map)
    BY <1>2, ChunkMoved
  <2>5. chunks \in Seq(Chunk(id)) /\ Len(chunks) = Len(a.chunks) /\ DOMAIN chunks = DOMAIN a.chunks
    <3>1. \A k \in 1 .. Len(a.chunks) : chunks[k] \in Chunk(id)
      BY <2>1, <2>4 DEF ChunkOK
    <3> DEFINE n == Len(a.chunks)
    <3>2. chunks = [k \in 1 .. n |-> chunks[k]] /\ n \in Nat
      BY <2>1
    <3> HIDE DEF chunks, n
    <3>3. [k \in 1 .. n |-> chunks[k]] \in Seq(Chunk(id))
      BY <3>1, <3>2 DEF n
    <3>4. Len([k \in 1 .. n |-> chunks[k]]) = n /\ DOMAIN chunks = 1 .. n
      BY <3>2
    <3>5. QED
      BY <2>1, <3>2, <3>3, <3>4 DEF n
  <2> HIDE DEF a, b, chunks
  <2>6. /\ b.entities = a.entities /\ b.chunks = chunks /\ b.free_chunk = a.free_chunk
        /\ b = [entities |-> a.entities, chunks |-> chunks, free_chunk |-> a.free_chunk]
    BY <2>1, <2>2
  <2>7. b \in Archetype(id)
    <3>1. a.free_chunk \in Nat
      BY <2>1
    <3>2. QED
      BY <2>3, <2>5, <2>6, <3>1 DEF Archetype
  <2>8. ASSUME b.free_chunk # 0 PROVE Room(id, b.chunks[b.free_chunk])
    <3>1. a.free_chunk \in DOMAIN a.chunks /\ a.free_chunk # 0
      BY <2>1, <2>6, <2>8
    <3>2. chunks[a.free_chunk].size = a.chunks[a.free_chunk].size
      BY <2>4, <3>1
    <3>3. Room(id, a.chunks[a.free_chunk])
      BY <2>3, <3>1
    <3>4. Room(id, chunks[a.free_chunk])
      BY <3>2, <3>3 DEF Room
    <3>5. QED
      BY <2>6, <3>4
  <2>9. ArchetypeOK(id, b, entity_data_map)
    BY <2>1, <2>3, <2>4, <2>5, <2>6, <2>7, <2>8 DEF ArchetypeOK
  <2>10. QED
    BY <2>6, <2>9 DEF b, a, chunks
<1>3. ASSUME NEW id \in Ids, Motion \notin id PROVE archetypes'[id] = archetypes[id]
  BY <1>1, <1>3
<1>4. WorldIInv'
  <2>1. \A id \in Ids : ArchetypeOK(id, archetypes'[id], entity_data_map')
    BY <1>1, <1>2, <1>3, Facts
  <2>2. IndexOK'
    BY <1>1 DEF IndexOK, WorldIInv
  <2>3. DOMAIN archetypes' = Ids
    BY <1>1
  <2>4. QED
    BY <2>1, <2>2, <2>3 DEF WorldIInv
<1>5. ASSUME NEW e \in Entities, NEW c \in Has(e)
      PROVE  At(archetypes'[Has(e)], entity_data_map[e], c) =
                 IF Motion \in Has(e) /\ c = ColumnOf(Has(e), Position)
                 THEN PositionOf[At(archetypes[Has(e)], entity_data_map[e], Motion)]
                 ELSE At(archetypes[Has(e)], entity_data_map[e], c)
  <2> DEFINE id == Has(e)
             k == entity_data_map[e].chunk
  <2>1. id \in Ids /\ ArchetypeOK(id, archetypes[id], entity_data_map)
    BY Facts
  <2>2. e \in Here(entity_data_map, id, k) /\ k \in DOMAIN archetypes[id].chunks
    BY <2>1 DEF Here, Has, ArchetypeOK
  <2>3. CASE Motion \in id
    <3>1. archetypes'[id].chunks[k] = Moved(id, k)
      BY <1>2, <2>1, <2>2, <2>3
    <3>2. Moved(id, k).slot[c][entity_data_map[e].index] =
              IF c = ColumnOf(id, Position)
              THEN PositionOf[archetypes[id].chunks[k].slot[Motion][entity_data_map[e].index]]
              ELSE archetypes[id].chunks[k].slot[c][entity_data_map[e].index]
      BY <2>1, <2>2, <2>3, ChunkMoved
    <3>3. At(archetypes'[id], entity_data_map[e], c) = Moved(id, k).slot[c][entity_data_map[e].index]
      BY <3>1 DEF At
    <3>4. QED
      BY <2>3, <3>2, <3>3 DEF At
  <2>4. CASE Motion \notin id
    BY <1>3, <2>1, <2>4
  <2>5. QED
    BY <2>3, <2>4
<1>6. QED
  BY <1>4, <1>5

-----------------------------------------------------------------------------
(* The theorems.                                                           *)

(* What a step of the loop is to the world.                                *)
LEMMA LoopSteps ==
    ASSUME scope \in Scopes, [LoopNext]_loopVars
    PROVE  scope' \in Scopes /\ [WorldNext]_worldVars
<1>1. scope.values \subseteq Values
  BY WorldAssumption
<1>2. CASE ChangeWorld
  <2>1. WorldNext
    BY <1>1, <1>2 DEF ChangeWorld, WorldNext
  <2>2. QED
    BY <1>2, <2>1 DEF ChangeWorld
<1>3. CASE ChangeTickables
  BY <1>3 DEF ChangeTickables
<1>4. CASE Loop
  BY <1>4 DEF Loop, WorldNext
<1>5. CASE UNCHANGED loopVars
  BY <1>5 DEF loopVars
<1>6. QED
  BY <1>2, <1>3, <1>4, <1>5 DEF LoopNext

LEMMA WorldStarts ==
    ASSUME WorldInit
    PROVE  WorldIInv
<1>1. ClassSize[Position] \in 1 .. ChunkSize
  BY ComponentsAssumption
<1>2. MaxEntities \in Nat /\ MaxChunks \in Nat /\ ChunkSize \in Nat \ {0}
  BY <1>1, ComponentsAssumption
<1>3. Nowhere \in [archetype : SUBSET Classes, chunk : 0 .. MaxChunks, index : 0 .. ChunkSize - 1]
      /\ Nowhere.archetype = {}
  BY <1>2 DEF Nowhere
<1>4. /\ entity_data_map \in [Entities -> [archetype : SUBSET Classes, chunk : 0 .. MaxChunks,
                                          index : 0 .. ChunkSize - 1]]
      /\ \A e \in Entities : entity_data_map[e].archetype = {}
  BY <1>3 DEF WorldInit
<1>5. IndexOK
  BY <1>2, <1>4 DEF IndexOK, WorldInit
<1>6. ASSUME NEW id \in Ids PROVE ArchetypeOK(id, archetypes[id], entity_data_map)
  <2>1. archetypes[id] = [entities |-> {}, chunks |-> <<>>, free_chunk |-> 0]
    BY DEF WorldInit, NoArchetype
  <2>2. {e \in Entities : entity_data_map[e].archetype = id} = {}
    BY <1>4 DEF Ids
  <2>3. <<>> \in Seq(Chunk(id)) /\ Len(<<>>) = 0 /\ DOMAIN <<>> = {}
    OBVIOUS
  <2>4. archetypes[id] \in Archetype(id)
    BY <2>1, <2>3 DEF Archetype
  <2>5. QED
    BY <2>1, <2>2, <2>3, <2>4 DEF ArchetypeOK
<1>7. QED
  BY <1>5, <1>6 DEF WorldIInv, WorldInit

LEMMA WorldStep ==
    ASSUME NoHoles, RowsFit, WorldIInv, [WorldNext]_worldVars
    PROVE  WorldIInv'
<1>1. CASE SpawnEntity
  BY <1>1, SpawnKeeps
<1>2. ASSUME NEW e \in entities, DestroyEntity(e) PROVE WorldIInv'
  BY <1>2, DestroyKeeps
<1>3. ASSUME NEW e \in entities, NEW c \in Classes, RemoveComponent(e, c) PROVE WorldIInv'
  BY <1>3, RemoveKeeps DEF NoHoles, RemoveComponent, MayLeave
<1>4. ASSUME NEW e \in entities, NEW c \in Classes, NEW v \in Values, AddComponent(e, c, v)
      PROVE  WorldIInv'
  BY <1>4, AddKeeps DEF NoHoles, AddComponent, MayLeave
<1>5. CASE ForEach
  BY <1>5, ForEachKeeps
<1>6. CASE UNCHANGED worldVars
  BY <1>6 DEF worldVars, WorldIInv, IndexOK
<1>7. QED
  BY <1>1, <1>2, <1>3, <1>4, <1>5, <1>6 DEF WorldNext

(* The index of the entities and the chunks of the archetypes agree in     *)
(* every state, if no entity leaves a hole behind it (World, "fill hole")  *)
(* and a row of every archetype fits in a chunk (chunk_data_size).         *)
THEOREM WorldInvariance ==
    ASSUME NoHoles, RowsFit
    PROVE  LoopSpec => [](WorldIInv /\ scope \in Scopes)
<1>1. LoopInit => WorldIInv /\ scope \in Scopes
  BY WorldStarts DEF LoopInit
<1>2. WorldIInv /\ scope \in Scopes /\ [LoopNext]_loopVars => (WorldIInv /\ scope \in Scopes)'
  BY LoopSteps, WorldStep
<1>3. QED
  BY <1>1, <1>2, PTL DEF LoopSpec

(* Whatever the game does to its world, its variables have their types:    *)
(* no entity is in a chunk or at a row that does not exist, and no column  *)
(* is written beyond its last slot.                                        *)
THEOREM WorldTypeCorrect ==
    ASSUME NoHoles, RowsFit
    PROVE  LoopSpec => []WorldTypeOK
<1>1. ASSUME WorldIInv PROVE WorldTypeOK
  <2>1. ASSUME NEW id \in Ids, NEW k \in DOMAIN archetypes[id].chunks
        PROVE  /\ archetypes[id].chunks[k].size \in [id -> 0 .. ChunkSize]
               /\ \A c \in id : archetypes[id].chunks[k].slot[c] \in
                      [0 .. ChunkSize \div ClassSize[c] - 1 -> Values \cup {None}]
    <3>1. ArchetypeOK(id, archetypes[id], entity_data_map)
      BY <1>1, Facts
    <3>2. ChunkOK(id, archetypes[id].chunks[k], Here(entity_data_map, id, k), entity_data_map)
      BY <3>1 DEF ArchetypeOK
    <3>3. QED
      BY <3>2 DEF ChunkOK, Chunk, Slots
  <2>2. ASSUME NEW id \in Ids
        PROVE  /\ archetypes[id].entities \subseteq Entities
               /\ archetypes[id].free_chunk \in 0 .. Len(archetypes[id].chunks)
    BY <1>1, Facts DEF ArchetypeOK
  <2>3. IndexOK
    BY <1>1 DEF WorldIInv
  <2>4. QED
    BY <2>1, <2>2, <2>3 DEF WorldTypeOK, IndexOK
<1>2. LoopSpec => [](WorldIInv /\ scope \in Scopes)
  BY WorldInvariance
<1>3. QED
  BY <1>1, <1>2, PTL

(* The rows of a chunk are exactly those of its entities: none is a hole,  *)
(* and no entity is beyond the size (get_end).                             *)
RowsMatchEntities ==
    \A id \in Ids : \A k \in DOMAIN archetypes[id].chunks :
        LET here == Here(entity_data_map, id, k) IN
        \A c \in id :
            /\ archetypes[id].chunks[k].size[c] = Cardinality(here)
            /\ {entity_data_map[e].index : e \in here} = 0 .. Cardinality(here) - 1

LEMMA RowsMatch ==
    ASSUME WorldIInv
    PROVE  RowsMatchEntities
<1> SUFFICES ASSUME NEW id \in Ids, NEW k \in DOMAIN archetypes[id].chunks, NEW c \in id
             PROVE  LET here == Here(entity_data_map, id, k) IN
                    /\ archetypes[id].chunks[k].size[c] = Cardinality(here)
                    /\ {entity_data_map[e].index : e \in here} = 0 .. Cardinality(here) - 1
  BY DEF RowsMatchEntities
<1>1. ChunkOK(id, archetypes[id].chunks[k], Here(entity_data_map, id, k), entity_data_map)
  BY Facts DEF ArchetypeOK
<1>2. QED
  BY <1>1 DEF ChunkOK

(* Who leaves a chunk and is not its last entity leaves the last one       *)
(* beyond the size.                                                        *)
LEMMA HoleLosesLast ==
    ASSUME WorldIInv, NEW e \in Entities, NEW id \in Ids, Has(e) = id, ~LastOfChunk(e),
           entity_data_map'[e].archetype # id,
           \A f \in Entities \ {e} : entity_data_map'[f] = entity_data_map[f],
           DOMAIN archetypes'[id].chunks = DOMAIN archetypes[id].chunks
    PROVE  ~RowsMatchEntities'
<1> DEFINE k == entity_data_map[e].chunk
           here == Here(entity_data_map, id, k)
           n == Cardinality(here)
<1>1. /\ k \in DOMAIN archetypes[id].chunks
      /\ ChunkOK(id, archetypes[id].chunks[k], here, entity_data_map)
  BY Facts DEF ArchetypeOK, Has
<1>2. e \in here /\ here \in SUBSET Entities
  BY DEF Here, Has
<1>3. IsFiniteSet(here) /\ n \in Nat
  BY <1>2, EntitiesFinite
<1>4. {entity_data_map[f].index : f \in here} = 0 .. n - 1
      /\ \A c \in id : archetypes[id].chunks[k].size[c] = n
  BY <1>1 DEF ChunkOK
<1>5. entity_data_map[e].index \in 0 .. n - 1 /\ entity_data_map[e].index # n - 1
  <2>1. entity_data_map[e].index # n - 1
    BY <1>4 DEF LastOfChunk, Has
  <2> HIDE DEF here, n, k
  <2>2. QED
    BY <1>2, <1>4, <2>1
<1>6. Here(entity_data_map', id, k) = here \ {e}
  BY DEF Here
<1> HIDE DEF here, n, k
<1>7. Cardinality(here \ {e}) = n - 1
  BY <1>2, <1>3, FS_RemoveElement DEF n
<1>8. PICK f \in here : entity_data_map[f].index = n - 1
  <2>1. n - 1 \in 0 .. n - 1
    BY <1>3, <1>5
  <2>2. n - 1 \in {entity_data_map[f].index : f \in here}
    BY <1>4, <2>1
  <2>3. QED
    BY <2>2
<1>9. f \in here \ {e} /\ entity_data_map'[f].index = n - 1
  BY <1>2, <1>5, <1>8
<1>10. SUFFICES ASSUME RowsMatchEntities' PROVE FALSE
  OBVIOUS
<1>11. PICK c : c \in id
  BY DEF Ids
<1>12. {entity_data_map'[g].index : g \in here \ {e}} = 0 .. (n - 1) - 1
  <2>1. k \in DOMAIN archetypes'[id].chunks
    BY <1>1
  <2>2. {entity_data_map'[g].index : g \in Here(entity_data_map', id, k)}
            = 0 .. Cardinality(Here(entity_data_map', id, k)) - 1
    BY <1>10, <1>11, <2>1 DEF RowsMatchEntities
  <2>3. QED
    BY <1>6, <1>7, <2>2
<1>13. QED
  BY <1>3, <1>9, <1>12

(* add_component and remove_component keep the rows and the index in       *)
(* agreement exactly when the entity is the last of its chunk: the hole    *)
(* that any other leaves is never filled, whatever the archetypes and the  *)
(* chunks ("If a hole was created, fill hole", ComponentManager.cpp:67).   *)
THEOREM HolesAreNotFilled ==
    ASSUME RowsFit, NoRefill, WorldIInv, NEW e \in entities, NEW c \in Classes, NEW v \in Values,
           AddComponent(e, c, v) \/ RemoveComponent(e, c)
    PROVE  RowsMatchEntities' <=> LastOfChunk(e)
<1>1. ASSUME LastOfChunk(e) PROVE RowsMatchEntities'
  <2>1. WorldIInv'
    BY <1>1, AddKeeps, RemoveKeeps
  <2>2. WorldIInv' => RowsMatchEntities'
    BY RowsMatch, PTL
  <2>3. QED
    BY <2>1, <2>2
<1>2. ASSUME ~LastOfChunk(e) PROVE ~RowsMatchEntities'
  <2> DEFINE old == Has(e)
  <2>1. e \in Entities /\ old \in Ids /\ DOMAIN archetypes = Ids
    <3>1. old # {}
      BY <1>2 DEF LastOfChunk, Has
    <3>2. QED
      BY <3>1, Facts DEF WorldIInv
  <2>2. \A free \in BOOLEAN : DOMAIN Left(e, free).chunks = DOMAIN archetypes[old].chunks
    <3>1. archetypes[old] \in Archetype(old)
      BY <2>1, Facts DEF ArchetypeOK
    <3>2. QED
      BY <3>1 DEF Left, Has, Archetype
  <2>3. /\ entity_data_map'[e].archetype # old
        /\ \A f \in Entities \ {e} : entity_data_map'[f] = entity_data_map[f]
        /\ DOMAIN archetypes'[old].chunks = DOMAIN archetypes[old].chunks
    <3> DEFINE Leaving(free) ==
                 /\ archetypes'[old] = Left(e, free) /\ free \in BOOLEAN
                 /\ entity_data_map'[e].archetype # old
                 /\ \A f \in Entities \ {e} : entity_data_map'[f] = entity_data_map[f]
    <3>1. ASSUME AddComponent(e, c, v) PROVE Leaving(FALSE)
      <4>1. c \notin old /\ old # old \cup {c}
        BY <3>1 DEF AddComponent, Has
      <4>2. archetypes'[old] = Left(e, FALSE)
        BY <2>1, <3>1, <4>1 DEF AddComponent, Has
      <4>3. \E k, i : entity_data_map' = [entity_data_map EXCEPT
                        ![e] = [archetype |-> old \cup {c}, chunk |-> k, index |-> i]]
        BY <3>1, Zenon DEF AddComponent, Has
      <4>4. QED
        BY <2>1, <4>1, <4>2, <4>3 DEF WorldIInv, IndexOK
    <3>2. ASSUME RemoveComponent(e, c) PROVE Leaving(TRUE)
      <4>1. c \in old /\ old # old \ {c}
        BY <3>2 DEF RemoveComponent, Has
      <4>2. archetypes'[old] = Left(e, TRUE)
        BY <2>1, <3>2, <4>1 DEF RemoveComponent, Has
      <4>3. \/ entity_data_map' = [entity_data_map EXCEPT ![e].archetype = {}] /\ old \ {c} = {}
            \/ \E k, i : entity_data_map' = [entity_data_map EXCEPT
                        ![e] = [archetype |-> old \ {c}, chunk |-> k, index |-> i]]
        BY <3>2, Zenon DEF RemoveComponent, Has
      <4>4. QED
        BY <2>1, <4>1, <4>2, <4>3 DEF WorldIInv, IndexOK
    <3>3. QED
      BY <2>2, <3>1, <3>2
  <2>4. QED
    BY <1>2, <2>1, <2>3, HoleLosesLast
<1>3. QED
  BY <1>1, <1>2

(* The chunk that gets the next row has room for it in each column         *)
(* (is_full, free_chunk, get_free_chunk).                                  *)
THEOREM FreeChunkSound ==
    ASSUME NoHoles, RowsFit
    PROVE  LoopSpec => []FreeChunkHasRoom
<1>1. ASSUME WorldIInv PROVE FreeChunkHasRoom
  BY <1>1, Facts DEF FreeChunkHasRoom, ArchetypeOK, Room
<1>2. LoopSpec => [](WorldIInv /\ scope \in Scopes)
  BY WorldInvariance
<1>3. QED
  BY <1>1, <1>2, PTL

-----------------------------------------------------------------------------
(* The world implements ComponentStore.                                    *)

Held == [e \in Entities |-> [c \in Classes |-> IF c \in Has(e) THEN Row(e)[c] ELSE None]]

LEMMA HeldIs ==
    ASSUME WorldIInv
    PROVE  \A e \in Entities : \A c \in Classes :
              Held[e][c] = IF c \in Has(e)
                           THEN At(archetypes[Has(e)], entity_data_map[e], c) ELSE None
BY RowValued DEF Held

LEMMA HeldWillBe ==
    \A e \in Entities : \A c \in Classes :
        Held'[e][c] = IF c \in entity_data_map'[e].archetype
                      THEN At(archetypes'[entity_data_map'[e].archetype], entity_data_map'[e], c)
                      ELSE None
BY DEF Held, Has, Row, At

LEMMA OthersHold ==
    ASSUME WorldIInv, NEW e \in Entities, OthersKept(e)
    PROVE  \A f \in Entities : f # e => Held'[f] = Held[f]
<1> SUFFICES ASSUME NEW f \in Entities, f # e PROVE Held'[f] = Held[f]
  OBVIOUS
<1>1. \A c \in Classes : Held'[f][c] = Held[f][c]
  BY HeldIs, HeldWillBe DEF OthersKept, Has
<1>2. /\ Held'[f] = [c \in Classes |-> Held'[f][c]]
      /\ Held[f] = [c \in Classes |-> Held[f][c]]
  BY DEF Held
<1>3. QED
  BY <1>1, <1>2

LEMMA HeldTyped ==
    /\ \A f \in Entities : Held[f] = [c \in Classes |-> Held[f][c]] /\ DOMAIN Held[f] = Classes
    /\ \A f \in Entities : Held'[f] = [c \in Classes |-> Held'[f][c]] /\ DOMAIN Held'[f] = Classes
    /\ Held = [f \in Entities |-> Held[f]] /\ Held' = [f \in Entities |-> Held'[f]]
BY DEF Held

Spent == 1 .. next \ entities
RefInv == WorldIInv /\ AliveHave /\ scope \in Scopes

LEMMA AliveHaveKept ==
    ASSUME Undisturbed, RowsFit, RefInv, [WorldNext]_worldVars
    PROVE  AliveHave'
<1>0. NoHoles /\ WorldIInv /\ AliveHave
  BY DEF Undisturbed, NoHoles, NoRefill, RefInv
<1>1. CASE SpawnEntity
  <2>1. /\ next + 1 \notin 1 .. next /\ Has(next + 1) = {}
        /\ entity_data_map'[next + 1].archetype = {}
        /\ \A f \in Entities : f # next + 1 => entity_data_map'[f] = entity_data_map[f]
    BY <1>0, <1>1, SpawnKeeps
  <2>2. entities \subseteq entities'
    BY <1>1 DEF SpawnEntity
  <2> DEFINE e == next + 1
  <2>3. \A f \in Entities : f # e => Has(f)' = Has(f)
    BY <2>1 DEF Has
  <2>4. ASSUME NEW f \in Entities
        PROVE  /\ entity_data_map'[f].archetype # {} => f \in entities'
               /\ Motion \in entity_data_map'[f].archetype
                      => Position \in entity_data_map'[f].archetype
    <3>1. CASE f = e
      BY <2>1, <3>1
    <3>2. CASE f # e
      BY <1>0, <2>1, <2>2, <3>2 DEF AliveHave, Has
    <3>3. QED
      BY <3>1, <3>2
  <2>5. QED
    BY <2>4 DEF AliveHave, Has
<1>2. ASSUME NEW e \in entities, DestroyEntity(e) PROVE AliveHave'
  <2>1. entity_data_map[e].archetype = {}
    BY <1>2 DEF DestroyEntity, Undisturbed
  <2>2. entities' = entities \ {e} /\ entity_data_map' = entity_data_map
    BY <1>2 DEF DestroyEntity
  <2>3. QED
    BY <1>0, <2>1, <2>2 DEF AliveHave, Has
<1>3. ASSUME NEW e \in entities, OthersKept(e), entities' = entities,
             MayHave(entity_data_map'[e].archetype)
      PROVE  AliveHave'
  <2>1. ASSUME NEW f \in Entities
        PROVE  /\ entity_data_map'[f].archetype # {} => f \in entities'
               /\ Motion \in entity_data_map'[f].archetype
                      => Position \in entity_data_map'[f].archetype
    <3>1. CASE f = e
      BY <1>3, <3>1 DEF MayHave, Undisturbed
    <3>2. CASE f # e
      BY <1>0, <1>3, <3>2 DEF AliveHave, Has, OthersKept
    <3>3. QED
      BY <3>1, <3>2
  <2>2. QED
    BY <2>1 DEF AliveHave, Has
<1>4. ASSUME NEW e \in entities, NEW c \in Classes, RemoveComponent(e, c) PROVE AliveHave'
  <2>1. entities' = entities /\ MayHave(Has(e) \ {c})
    BY <1>4 DEF RemoveComponent, Has
  <2>2. OthersKept(e) /\ entity_data_map'[e].archetype = Has(e) \ {c}
    BY <1>0, <1>4, RemoveKeeps DEF NoHoles, RemoveComponent, MayLeave
  <2>3. QED
    BY <1>3, <2>1, <2>2
<1>5. ASSUME NEW e \in entities, NEW c \in Classes, NEW v \in Values, AddComponent(e, c, v)
      PROVE  AliveHave'
  <2>1. entities' = entities /\ MayHave(Has(e) \cup {c})
    BY <1>5 DEF AddComponent, Has
  <2>2. OthersKept(e) /\ entity_data_map'[e].archetype = Has(e) \cup {c}
    BY <1>0, <1>5, AddKeeps DEF NoHoles, AddComponent, MayLeave
  <2>3. QED
    BY <1>3, <2>1, <2>2
<1>6. CASE ForEach \/ UNCHANGED worldVars
  BY <1>0, <1>6 DEF ForEach, worldVars, AliveHave, Has
<1>7. QED
  BY <1>1, <1>2, <1>4, <1>5, <1>6 DEF WorldNext

(* One step of the store for each of the world.                            *)
LEMMA SpawnRefines ==
    ASSUME Undisturbed, RefInv, SpawnEntity
    PROVE  Kept!SpawnOne(next + 1) /\ next + 1 \in Entities
<1> DEFINE e == next + 1
<1>0. WorldIInv
  BY DEF RefInv
<1>1. /\ e \in Entities /\ e \notin 1 .. next /\ Has(e) = {}
      /\ entity_data_map'[e].archetype = {}
      /\ \A f \in Entities : f # e => entity_data_map'[f] = entity_data_map[f]
  BY <1>0, SpawnKeeps
<1>2. archetypes' = archetypes /\ entities' = entities \cup {e} /\ next' = next + 1
  BY DEF SpawnEntity
<1>3. entities \subseteq 1 .. next /\ next \in Nat
  BY <1>0, ComponentsAssumption DEF WorldIInv, IndexOK
<1>4. Spent' = Spent /\ e \notin entities \cup Spent
  BY <1>1, <1>2, <1>3 DEF Spent
<1> HIDE DEF e
<1>5. \A f \in Entities : \A c \in Classes : Held'[f][c] = Held[f][c]
  <2> SUFFICES ASSUME NEW f \in Entities, NEW c \in Classes PROVE Held'[f][c] = Held[f][c]
    OBVIOUS
  <2>1. CASE f = e
    BY <1>0, <1>1, <2>1, HeldIs, HeldWillBe
  <2>2. CASE f # e
    BY <1>0, <1>1, <1>2, <2>2, HeldIs, HeldWillBe DEF Has
  <2>3. QED
    BY <2>1, <2>2
<1>6. Held' = Held
  <2>1. \A f \in Entities : Held'[f] = Held[f]
    BY <1>5, HeldTyped
  <2>2. QED
    BY <2>1, HeldTyped
<1>7. QED
  BY <1>1, <1>2, <1>4, <1>6 DEF Kept!SpawnOne, Held, Spent, e

LEMMA DestroyRefines ==
    ASSUME Undisturbed, RefInv, NEW e \in entities, DestroyEntity(e)
    PROVE  Kept!DestroyOne(e) /\ e \in Entities
<1>0. WorldIInv
  BY DEF RefInv
<1>1. e \in Entities /\ Has(e) = {}
  BY <1>0, Facts DEF DestroyEntity, Undisturbed, Has
<1>2. entities' = entities \ {e} /\ UNCHANGED <<next, entity_data_map, archetypes>>
  BY DEF DestroyEntity
<1>3. Spent' = Spent \cup {e}
  BY <1>0, <1>2 DEF Spent, WorldIInv, IndexOK
<1>4. Held' = Held
  BY <1>2 DEF Held, Has, Row
<1>5. Held[e] = [c \in Classes |-> None]
  BY <1>1 DEF Held
<1>6. Held' = [Held EXCEPT ![e] = [c \in Classes |-> None]]
  BY <1>1, <1>4, <1>5, HeldTyped
<1>7. QED
  BY <1>1, <1>2, <1>3, <1>6 DEF Kept!DestroyOne, Kept!Bare, Held, Spent

(* The entity that changes, and nobody else.                               *)
LEMMA OneHolds ==
    ASSUME WorldIInv, NEW e \in Entities, OthersKept(e), NEW row,
           Held'[e] = row
    PROVE  Held' = [Held EXCEPT ![e] = row]
<1>1. \A f \in Entities : f # e => Held'[f] = Held[f]
  BY OthersHold
<1>2. QED
  BY <1>1, HeldTyped

LEMMA AddRefines ==
    ASSUME Undisturbed, RowsFit, RefInv, NEW e \in entities, NEW c \in Classes, NEW v \in Values,
           AddComponent(e, c, v)
    PROVE  Kept!Attach(e, c, v) /\ e \in Entities
<1>0. WorldIInv /\ NoHoles /\ e \in Entities
  BY Facts DEF RefInv, Undisturbed, NoHoles, NoRefill
<1>1. /\ OthersKept(e) /\ c \notin Has(e) /\ entity_data_map'[e].archetype = Has(e) \cup {c}
      /\ Gained(e, c, v)
  BY <1>0, AddKeeps DEF NoHoles, AddComponent, MayLeave
<1>2. UNCHANGED <<entities, next>>
  BY DEF AddComponent
<1>3. Held[e][c] = None
  BY <1>0, <1>1 DEF Held
<1>4. \A t \in Classes : Held'[e][t] = IF t = c THEN v ELSE Held[e][t]
  <2> SUFFICES ASSUME NEW t \in Classes PROVE Held'[e][t] = IF t = c THEN v ELSE Held[e][t]
    OBVIOUS
  <2>1. Held'[e][t] = IF t \in Has(e) \cup {c} THEN IF t = c THEN v ELSE Row(e)[t] ELSE None
    BY <1>0, <1>1, HeldWillBe DEF Gained
  <2>2. Held[e][t] = IF t \in Has(e) THEN Row(e)[t] ELSE None
    BY <1>0 DEF Held
  <2>3. QED
    BY <2>1, <2>2
<1>5. Held'[e] = [Held[e] EXCEPT ![c] = v]
  BY <1>0, <1>4, HeldTyped
<1>6. Held' = [Held EXCEPT ![e] = [Held[e] EXCEPT ![c] = v]]
  BY <1>0, <1>1, <1>5, OneHolds
<1>7. Held' = [Held EXCEPT ![e][c] = v]
  BY <1>6
<1>8. Spent' = Spent
  BY <1>2 DEF Spent
<1>9. QED
  BY <1>0, <1>2, <1>3, <1>7, <1>8 DEF Kept!Attach, Held, Spent

LEMMA RemoveRefines ==
    ASSUME Undisturbed, RowsFit, RefInv, NEW e \in entities, NEW c \in Classes,
           RemoveComponent(e, c)
    PROVE  Kept!Detach(e, c) /\ e \in Entities
<1>0. WorldIInv /\ NoHoles /\ e \in Entities
  BY Facts DEF RefInv, Undisturbed, NoHoles, NoRefill
<1>1. /\ OthersKept(e) /\ c \in Has(e) /\ entity_data_map'[e].archetype = Has(e) \ {c}
      /\ \A t \in Has(e) \ {c} :
            At(archetypes'[Has(e) \ {c}], entity_data_map'[e], t) = Row(e)[t]
  BY <1>0, RemoveKeeps DEF NoHoles, RemoveComponent, MayLeave
<1>2. UNCHANGED <<entities, next>>
  BY DEF RemoveComponent
<1>3. Held[e][c] # None
  <2>1. Held[e][c] = Row(e)[c]
    BY <1>0, <1>1 DEF Held
  <2>2. Row(e)[c] \in Values
    BY <1>0, <1>1, RowValued
  <2>3. QED
    BY <2>1, <2>2, ComponentsAssumption
<1>4. \A t \in Classes : Held'[e][t] = IF t = c THEN None ELSE Held[e][t]
  <2> SUFFICES ASSUME NEW t \in Classes PROVE Held'[e][t] = IF t = c THEN None ELSE Held[e][t]
    OBVIOUS
  <2>1. Held'[e][t] = IF t \in Has(e) \ {c} THEN Row(e)[t] ELSE None
    BY <1>0, <1>1, HeldWillBe
  <2>2. Held[e][t] = IF t \in Has(e) THEN Row(e)[t] ELSE None
    BY <1>0 DEF Held
  <2>3. QED
    BY <2>1, <2>2
<1>5. Held'[e] = [Held[e] EXCEPT ![c] = None]
  BY <1>0, <1>4, HeldTyped
<1>6. Held' = [Held EXCEPT ![e] = [Held[e] EXCEPT ![c] = None]]
  BY <1>0, <1>1, <1>5, OneHolds
<1>7. Held' = [Held EXCEPT ![e][c] = None]
  BY <1>6
<1>8. Spent' = Spent
  BY <1>2 DEF Spent
<1>9. QED
  BY <1>0, <1>2, <1>3, <1>7, <1>8 DEF Kept!Detach, Held, Spent

LEMMA ForEachRefines ==
    ASSUME Undisturbed, RefInv, ForEach
    PROVE  Kept!Move
<1>0. WorldIInv /\ AliveHave
  BY DEF RefInv
<1>1. UNCHANGED <<entities, next, entity_data_map>>
  BY DEF ForEach
<1>2. Position \in Classes /\ Motion \in Classes /\ Position # Motion /\ None \notin Values
  BY ComponentsAssumption
<1>3. ASSUME NEW f \in Entities
      PROVE  Held'[f] = IF Held[f][Position] # None /\ Held[f][Motion] # None
                        THEN [Held[f] EXCEPT ![Position] = PositionOf[Held[f][Motion]]]
                        ELSE Held[f]
  <2>1. \A c \in Classes : (Held[f][c] # None) <=> (c \in Has(f))
    <3>1. \A c \in Has(f) : Row(f)[c] \in Values
      BY <1>0, RowValued
    <3>2. \A c \in Classes : Held[f][c] = IF c \in Has(f) THEN Row(f)[c] ELSE None
      BY DEF Held
    <3>3. QED
      BY <1>2, <3>1, <3>2
  <2>2. \A c \in Classes : Held[f][c] = IF c \in Has(f)
                               THEN At(archetypes[Has(f)], entity_data_map[f], c) ELSE None
    BY <1>0, HeldIs
  <2>3. \A c \in Classes : Held'[f][c] = IF c \in Has(f)
                               THEN At(archetypes'[Has(f)], entity_data_map[f], c) ELSE None
    BY <1>1, HeldWillBe DEF Has
  <2>4. \A c \in Has(f) :
            At(archetypes'[Has(f)], entity_data_map[f], c) =
                IF Motion \in Has(f) /\ c = ColumnOf(Has(f), Position)
                THEN PositionOf[At(archetypes[Has(f)], entity_data_map[f], Motion)]
                ELSE At(archetypes[Has(f)], entity_data_map[f], c)
    BY <1>0, ForEachKeeps
  <2>5. Motion \in Has(f) => Position \in Has(f) /\ ColumnOf(Has(f), Position) = Position
    BY <1>0 DEF AliveHave, ColumnOf
  <2>6. CASE Motion \in Has(f)
    <3>1. \A c \in Classes : Held'[f][c] = IF c = Position THEN PositionOf[Held[f][Motion]]
                                           ELSE Held[f][c]
      BY <1>2, <2>2, <2>3, <2>4, <2>5, <2>6
    <3>2. Held'[f] = [Held[f] EXCEPT ![Position] = PositionOf[Held[f][Motion]]]
      BY <3>1, HeldTyped
    <3>3. QED
      BY <1>2, <2>1, <2>5, <2>6, <3>2
  <2>7. CASE Motion \notin Has(f)
    <3>1. \A c \in Classes : Held'[f][c] = Held[f][c]
      BY <2>2, <2>3, <2>4, <2>7
    <3>2. Held'[f] = Held[f]
      BY <3>1, HeldTyped
    <3>3. QED
      BY <1>2, <2>1, <2>7, <3>2
  <2>8. QED
    BY <2>6, <2>7
<1>4. Held' = [f \in Entities |->
          IF Held[f][Position] # None /\ Held[f][Motion] # None
          THEN [Held[f] EXCEPT ![Position] = PositionOf[Held[f][Motion]]] ELSE Held[f]]
  BY <1>3, HeldTyped
<1>5. Spent' = Spent
  BY <1>1 DEF Spent
<1>6. QED
  BY <1>1, <1>4, <1>5 DEF Kept!Move, Held, Spent

LEMMA StoreStep ==
    ASSUME Undisturbed, RowsFit, RefInv, [WorldNext]_worldVars
    PROVE  [Kept!StoreNext]_(Kept!store)
<1>1. CASE SpawnEntity
  BY <1>1, SpawnRefines DEF Kept!StoreNext
<1>2. ASSUME NEW e \in entities, DestroyEntity(e) PROVE Kept!StoreNext
  BY <1>2, DestroyRefines DEF Kept!StoreNext
<1>3. ASSUME NEW e \in entities, NEW c \in Classes, RemoveComponent(e, c) PROVE Kept!StoreNext
  BY <1>3, RemoveRefines DEF Kept!StoreNext
<1>4. ASSUME NEW e \in entities, NEW c \in Classes, NEW v \in Values, AddComponent(e, c, v)
      PROVE  Kept!StoreNext
  BY <1>4, AddRefines DEF Kept!StoreNext
<1>5. CASE ForEach
  BY <1>5, ForEachRefines DEF Kept!StoreNext
<1>6. CASE UNCHANGED worldVars
  <2>1. Held' = Held /\ Spent' = Spent /\ entities' = entities
    BY <1>6 DEF worldVars, Held, Has, Row, Spent
  <2>2. QED
    BY <2>1 DEF Kept!store, Held, Spent
<1>7. QED
  BY <1>1, <1>2, <1>3, <1>4, <1>5, <1>6 DEF WorldNext

(* What an entity has is what it was given and did not lose since, through *)
(* every move from chunk to chunk, and a system visits the live entities   *)
(* that have its components and no other (World, ComponentManager): if no  *)
(* use disturbs it, the world implements the store.                        *)
THEOREM ImplementsStore ==
    ASSUME Undisturbed, RowsFit
    PROVE  LoopSpec => KeepsComponents
<1>1. LoopInit => RefInv
  BY WorldStarts DEF LoopInit, RefInv, WorldInit, AliveHave, Has, Nowhere
<1>2. NoHoles
  BY DEF Undisturbed, NoHoles, NoRefill
<1>3. RefInv /\ [LoopNext]_loopVars => RefInv'
  <2> SUFFICES ASSUME RefInv, [LoopNext]_loopVars PROVE RefInv'
    OBVIOUS
  <2>1. scope' \in Scopes /\ [WorldNext]_worldVars
    BY LoopSteps DEF RefInv
  <2>2. WorldIInv' /\ AliveHave'
    BY <1>2, <2>1, WorldStep, AliveHaveKept DEF RefInv
  <2>3. QED
    BY <2>1, <2>2 DEF RefInv
<1>4. LoopInit => Kept!StoreInit
  <2> SUFFICES ASSUME LoopInit PROVE Kept!StoreInit
    OBVIOUS
  <2>1. entities = {} /\ next = 0 /\ \A e \in Entities : Has(e) = {}
    BY DEF LoopInit, WorldInit, Has, Nowhere
  <2>2. Held = [e \in Entities |-> [c \in Classes |-> None]]
    BY <2>1 DEF Held
  <2>3. Spent = {}
    BY <2>1 DEF Spent
  <2>4. QED
    BY <2>1, <2>2, <2>3 DEF Kept!StoreInit, Kept!Bare, Held, Spent
<1>5. RefInv /\ [LoopNext]_loopVars => [Kept!StoreNext]_(Kept!store)
  BY LoopSteps, StoreStep DEF RefInv
<1>6. QED
  BY <1>1, <1>3, <1>4, <1>5, PTL DEF LoopSpec, KeepsComponents, Kept!StoreSpec

=============================================================================
