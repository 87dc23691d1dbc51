---------------------------- MODULE VtlMapProofs ----------------------------
(***************************************************************************)
(* What holds of maps, their views, entries and iterators, proved for any  *)
(* maps, keys, values and element types, and any maps of the host.         *)
(*                                                                         *)
(* There are more Go maps than there are references to them, so that a new *)
(* one is never in use already (FreeIdIsFree): a *Map shares its Go map    *)
(* with another one only where the host made it.  Without the host's maps  *)
(* a change of a Go map is then a change of the one *Map that refers to    *)
(* it, or of none.                                                         *)
(***************************************************************************)
EXTENDS VtlMap, TLAPS, FiniteSetTheorems, WellFoundedInduction, FunctionTheorems

Walk == [w : Map, view : View, m : Id, keys : Seq(Key), i : Nat, last : Nat]

Shape ==
  /\ mem \in [Id -> GoMap]
  /\ \A i \in Id : Typed(mem[i])
  /\ map \in [Map -> Id \cup {None}]
  /\ it # None => it \in Walk /\ it.i <= Len(it.keys) /\ it.last \in {0, it.i}
  /\ entry \in [k : Key, v : Stored, w : Map] \cup {None}
  /\ panicked \in BOOLEAN /\ walks \in 0 .. MaxWalks

(* An iterator and an entry are of a *Map that has been made.              *)
Placed ==
  /\ it # None => map[it.w] # None
  /\ entry # None => map[entry.w] # None

MapInv == Shape /\ Placed /\ SharedOnlyByHosts
-----------------------------------------------------------------------------
(* The numbers of the references, and one more than all of them.           *)
LEMMA FreeIdIsFree ==
  ASSUME Shape
  PROVE  FreeId \in Id /\ ~Used(map, FreeId)
<1> DEFINE refs == {i \in Id : Used(map, i)}
           held == {map[w] : w \in Map}
           own  == IF it = None THEN {} ELSE {it.m}
           n    == Len(Hosts0)
           c    == Cardinality(Map)
<1>1. n \in Nat /\ c \in Nat /\ Host = 1 .. n
  BY MapAssumption, FS_CardinalityType
<1>2. IsFiniteSet(Host) /\ Cardinality(Host) = n
  <2> HIDE DEF n
  <2>1. 1 \in Int /\ n \in Int
    BY <1>1
  <2>2. /\ IsFiniteSet(1 .. n)
        /\ Cardinality(1 .. n) = IF 1 > n THEN 0 ELSE n - 1 + 1
    BY <2>1, FS_Interval
  <2> QED BY <1>1, <2>2
<1>3. IsFiniteSet(held) /\ Cardinality(held) <= c
  <2> DEFINE f == [w \in Map |-> map[w]]
  <2>1. f \in Surjection(Map, held)
    BY DEF Surjection
  <2>2. IsFiniteSet(Map)
    BY MapAssumption
  <2> HIDE DEF held, f
  <2> QED BY <2>1, <2>2, FS_Surjection
<1>4. IsFiniteSet(own) /\ Cardinality(own) <= 1
  <2>1. CASE it = None
    BY <2>1, FS_EmptySet
  <2>2. CASE it # None
    <3>1. IsFiniteSet({it.m}) /\ Cardinality({it.m}) = 1
      BY FS_Singleton
    <3>2. own = {it.m}
      BY <2>2
    <3> HIDE DEF own
    <3> QED BY <3>1, <3>2
  <2> QED BY <2>1, <2>2
<1>5. refs \subseteq (Host \cup held) \cup own
  BY DEF Used
<1> HIDE DEF refs, held, own, n, c
<1>6. /\ IsFiniteSet(Host \cup held)
      /\ Cardinality(Host \cup held) <= n + c
  <2>1. /\ IsFiniteSet(Host \cup held)
        /\ Cardinality(Host \cup held)
             = Cardinality(Host) + Cardinality(held) - Cardinality(Host \cap held)
    BY <1>2, <1>3, FS_Union
  <2>2. Cardinality(Host \cap held) \in Nat /\ Cardinality(held) \in Nat
    <3>1. IsFiniteSet(Host \cap held)
      BY <1>2, FS_Subset
    <3> QED BY <3>1, <1>3, FS_CardinalityType
  <2> QED BY <1>1, <1>2, <1>3, <2>1, <2>2
<1>7. /\ IsFiniteSet((Host \cup held) \cup own)
      /\ Cardinality((Host \cup held) \cup own) <= n + c + 1
  <2> DEFINE both == Host \cup held
  <2>0. IsFiniteSet(both) /\ Cardinality(both) <= n + c
    BY <1>6
  <2> HIDE DEF both
  <2>1. /\ IsFiniteSet(both \cup own)
        /\ Cardinality(both \cup own)
             = Cardinality(both) + Cardinality(own) - Cardinality(both \cap own)
    BY <2>0, <1>4, FS_Union
  <2>2. /\ Cardinality(both \cap own) \in Nat /\ Cardinality(own) \in Nat
        /\ Cardinality(both) \in Nat
    <3>1. IsFiniteSet(both \cap own)
      BY <2>0, FS_Subset
    <3> QED BY <3>1, <1>4, <2>0, FS_CardinalityType
  <2>3. Cardinality(both \cup own) <= n + c + 1
    BY <1>1, <1>4, <2>0, <2>1, <2>2
  <2> QED BY <2>1, <2>3 DEF both
<1>8. Id = 1 .. (n + c + 2)
  BY DEF Id, n, c
<1>9. IsFiniteSet(Id) /\ Cardinality(Id) = n + c + 2
  BY <1>1, <1>8, FS_Interval
<1>10. refs # Id
  <2>1. SUFFICES ASSUME refs = Id PROVE FALSE
    OBVIOUS
  <2>2. Id \in SUBSET ((Host \cup held) \cup own)
    BY <1>5, <2>1
  <2>3. Cardinality(Id) <= Cardinality((Host \cup held) \cup own)
    BY <1>7, <2>2, FS_Subset
  <2>4. Cardinality((Host \cup held) \cup own) \in Nat
    BY <1>7, FS_CardinalityType
  <2> QED BY <1>1, <1>7, <1>9, <2>3, <2>4
<1>11. \E i \in Id : ~Used(map, i)
  BY <1>10 DEF refs
<1> QED BY <1>11 DEF FreeId

(* A finite set of numbers can be put in order, smallest first.            *)
LEMMA LeastExists ==
  ASSUME NEW S \in SUBSET Nat, S # {}
  PROVE  \E x \in S : \A y \in S : x <= y
<1>1. \E x \in S : \A y \in S : ~(<<y, x>> \in OpToRel(<, Nat))
  BY WFMin, NatLessThanWellFounded
<1>2. PICK x \in S : \A y \in S : ~(<<y, x>> \in OpToRel(<, Nat))
  BY <1>1
<1>3. ASSUME NEW y \in S PROVE x <= y
  <2>1. ~(y < x)
    BY <1>2, <1>3 DEF OpToRel
  <2> QED BY <2>1
<1> QED BY <1>3

Orders(s, S) == /\ s \in [1 .. Cardinality(S) -> S]
                /\ \A i, j \in 1 .. Cardinality(S) : i < j => s[i] < s[j]

LEMMA OrderExists ==
  ASSUME NEW S \in SUBSET Nat, IsFiniteSet(S)
  PROVE  \E s : Orders(s, S)
<1> DEFINE Sized(n) == {T \in SUBSET S : Cardinality(T) = n /\ ~ \E s : Orders(s, T)}
           bad == {n \in Nat : Sized(n) # {}}
<1>1. SUFFICES ASSUME bad # {} PROVE FALSE
  <2>1. Cardinality(S) \in Nat
    BY FS_CardinalityType
  <2>2. S \in Sized(Cardinality(S)) => bad # {}
    BY <2>1
  <2> QED BY <2>2
<1>2. PICK n \in bad : \A k \in bad : n <= k
  <2> HIDE DEF bad
  <2>1. bad \in SUBSET Nat
    BY DEF bad
  <2> QED BY <1>1, <2>1, LeastExists
<1>3. PICK T \in SUBSET S : Cardinality(T) = n /\ ~ \E s : Orders(s, T)
  BY <1>2
<1>4. n \in Nat /\ IsFiniteSet(T) /\ T \in SUBSET Nat
  BY <1>2, FS_Subset
<1>5. T # {}
  <2>1. SUFFICES ASSUME T = {} PROVE FALSE
    OBVIOUS
  <2>2. Cardinality(T) = 0
    BY <2>1, FS_EmptySet
  <2>3. Orders([i \in 1 .. 0 |-> 0], T)
    BY <2>2 DEF Orders
  <2> QED BY <1>3, <2>3
<1>6. PICK x \in T : \A y \in T : x <= y
  BY <1>4, <1>5, LeastExists
<1> DEFINE U == T \ {x}
<1>7. IsFiniteSet(U) /\ Cardinality(U) = n - 1 /\ n > 0
  <2>1. IsFiniteSet(U) /\ Cardinality(U) = n - 1
    BY <1>3, <1>4, <1>6, FS_RemoveElement
  <2>2. Cardinality(U) \in Nat
    BY <2>1, FS_CardinalityType
  <2> QED BY <1>4, <2>1, <2>2
<1>8. \E s : Orders(s, U)
  <2>1. SUFFICES ASSUME ~ \E s : Orders(s, U) PROVE FALSE
    OBVIOUS
  <2>2. U \in Sized(n - 1)
    BY <1>7, <2>1
  <2>3. n - 1 \in bad
    <3> HIDE DEF Sized, U
    <3>1. n - 1 \in Nat
      BY <1>4, <1>7
    <3>2. Sized(n - 1) # {}
      BY <2>2
    <3> QED BY <3>1, <3>2
  <2> QED BY <1>2, <1>4, <2>3
<1>9. PICK s : Orders(s, U)
  BY <1>8
<1> DEFINE t == [i \in 1 .. n |-> IF i = 1 THEN x ELSE s[i - 1]]
<1> HIDE DEF bad, U
<1>10. \A i \in 1 .. n : i # 1 => i - 1 \in 1 .. Cardinality(U)
  BY <1>4, <1>7
<1>11. \A u \in U : u \in T /\ x < u
  BY <1>4, <1>6 DEF U
<1>12. ASSUME NEW i \in 1 .. n PROVE t[i] \in T
  BY <1>6, <1>9, <1>10, <1>11 DEF Orders
<1>13. ASSUME NEW i \in 1 .. n, NEW j \in 1 .. n, i < j PROVE t[i] < t[j]
  <2>1. j # 1 /\ j - 1 \in 1 .. Cardinality(U) /\ t[j] = s[j - 1]
    BY <1>4, <1>10, <1>13
  <2>2. CASE i = 1
    BY <1>9, <1>11, <2>1, <2>2 DEF Orders
  <2>3. CASE i # 1
    <3>1. i - 1 \in 1 .. Cardinality(U) /\ t[i] = s[i - 1] /\ i - 1 < j - 1
      BY <1>4, <1>10, <1>13, <2>3
    <3> QED BY <1>9, <2>1, <3>1 DEF Orders
  <2> QED BY <2>2, <2>3
<1>14. Orders(t, T)
  BY <1>3, <1>12, <1>13 DEF Orders
<1> QED BY <1>3, <1>14

LEMMA SortedKeysType ==
  ASSUME NEW val
  PROVE  SortedKeys(val) \in Seq(Key)
<1>1. Keys(val) \in SUBSET Nat /\ IsFiniteSet(Keys(val)) /\ Keys(val) \subseteq Key
  <2>1. Keys(val) \in SUBSET Key
    BY DEF Keys
  <2> QED BY <2>1, MapAssumption, FS_Subset
<1> DEFINE K == Keys(val)
<1> HIDE DEF K
<1>2. K \in SUBSET Nat /\ IsFiniteSet(K) /\ K \subseteq Key
  BY <1>1 DEF K
<1>3. PICK s : Orders(s, K)
  BY <1>2, OrderExists
<1>4. s \in [1 .. Cardinality(K) -> K] /\ \A i, j \in DOMAIN s : i < j => s[i] < s[j]
  BY <1>3 DEF Orders
<1>5. SortedKeys(val) \in [1 .. Cardinality(K) -> K]
  BY <1>4 DEF SortedKeys, K
<1>6. Cardinality(K) \in Nat
  BY <1>2, FS_CardinalityType
<1>7. SortedKeys(val) \in [1 .. Cardinality(K) -> Key]
  BY <1>2, <1>5
<1> QED BY <1>6, <1>7
-----------------------------------------------------------------------------
(* What the actions do to the Go maps, and to who refers to them.          *)
Stays == UNCHANGED <<mem, map>>

Puts(w, k, e) ==
  /\ map[w] # None /\ k \in Key /\ e \in Stored /\ Conv[TypeOf(w)][e] = e
  /\ mem' = [mem EXCEPT ![map[w]].val[k] = e] /\ UNCHANGED map

Drops(i, keys) == Drop(i, keys) /\ UNCHANGED map

Merges(w, x) ==
  /\ map[w] # None /\ map[x] # None /\ TypeOf(x) \in Fits[TypeOf(w)]
  /\ mem' = [mem EXCEPT ![map[w]].val =
               [k \in Key |-> IF Val(x)[k] # Absent
                              THEN Conv[TypeOf(w)][Val(x)[k]] ELSE @[k]]]
  /\ UNCHANGED map

Makes(w, i, m) ==
  /\ map[w] = None /\ ~Used(map, i)
  /\ mem' = [mem EXCEPT ![i] = m] /\ map' = [map EXCEPT ![w] = i]

Wraps(w, h) == map[w] = None /\ map' = [map EXCEPT ![w] = h] /\ UNCHANGED mem

Renews(w, i) ==
  /\ map[w] # None /\ ~Used(map, i)
  /\ map' = [map EXCEPT ![w] = i]
  /\ mem' = Collect([mem EXCEPT ![i] = Empty(TypeOf(w))], map')

Moves ==
  \/ Stays
  \/ \E w \in Map, k \in Key, e \in Stored : Puts(w, k, e)
  \/ \E i \in Id, keys \in SUBSET Key : Drops(i, keys)
  \/ \E w, x \in Map : Merges(w, x)
  \/ \E w \in Map, i \in Id, m \in Made : Makes(w, i, m)
  \/ \E w \in Map, h \in Host : Wraps(w, h)
  \/ \E w \in Map, i \in Id : Renews(w, i)

LEMMA IsTyped ==
  ASSUME Shape, NEW w \in Map, map[w] # None
  PROVE  /\ map[w] \in Id /\ mem[map[w]] \in GoMap
         /\ Val(w) \in [Key -> Stored \cup {Absent}] /\ TypeOf(w) \in Type
         /\ Typed(mem[map[w]])
<1>1. map[w] \in Id
  BY DEF Shape
<1>2. mem[map[w]] \in GoMap /\ Typed(mem[map[w]])
  BY <1>1 DEF Shape
<1> QED BY <1>1, <1>2 DEF GoMap, Val, TypeOf

LEMMA KeysTyped ==
  ASSUME NEW k \in Key \cup Number
  PROVE  PutKey(k) \in Key /\ GetKey(k) \in Key
BY MapAssumption DEF PutKey, GetKey

LEMMA ConversionSettles ==
  ASSUME NEW t \in Type, NEW v \in Stored, Conv[t][v] # Fail
  PROVE  Conv[t][v] \in Stored /\ Conv[t][Conv[t][v]] = Conv[t][v]
BY MapAssumption

(* Every call that puts stores a value of the map's element type.          *)
LEMMA StoreMoves ==
  ASSUME Shape, NEW w \in Map, map[w] # None, NEW k \in Key \cup Number, NEW v \in Stored,
         Conv[TypeOf(w)][v] # Fail, Store(w, PutKey(k), Conv[TypeOf(w)][v])
  PROVE  Moves
<1> DEFINE e == Conv[TypeOf(w)][v]
           kk == PutKey(k)
<1>1. e \in Stored /\ Conv[TypeOf(w)][e] = e
  BY IsTyped, ConversionSettles
<1>2. kk \in Key
  BY KeysTyped
<1>3. Store(w, kk, e)
  OBVIOUS
<1> HIDE DEF e, kk
<1>4. Puts(w, kk, e)
  BY <1>1, <1>2, <1>3 DEF Puts, Store
<1> QED BY <1>1, <1>2, <1>4 DEF Moves

LEMMA DropMoves ==
  ASSUME NEW i \in Id, NEW keys \in SUBSET Key, Drop(i, keys), UNCHANGED map
  PROVE  Moves
BY DEF Moves, Drops

LEMMA UnchangedMoves ==
  ASSUME Unchanged
  PROVE  Moves
BY DEF Unchanged, Moves, Stays

LEMMA PutUncheckedMoves ==
  ASSUME Shape, NEW w \in Map, map[w] # None, NEW k \in Key \cup Number, NEW v \in Value,
         PutUnchecked(w, k, v)
  PROVE  Moves
<1>1. v \in Stored
  BY DEF Stored
<1>2. CASE Conv[TypeOf(w)][v] = Fail
  BY <1>2, UnchangedMoves DEF PutUnchecked
<1>3. CASE Conv[TypeOf(w)][v] # Fail
  <2>1. Store(w, PutKey(k), Conv[TypeOf(w)][v])
    BY <1>3 DEF PutUnchecked
  <2> QED BY <1>1, <1>3, <2>1, StoreMoves
<1> QED BY <1>2, <1>3

LEMMA PutAllMoves ==
  ASSUME Shape, NEW w \in Map, NEW x \in Map, PutAll(w, x)
  PROVE  Moves
<1>1. map[w] # None /\ map[x] # None
  BY DEF PutAll, Is
<1>2. CASE Keys(Val(x)) # {} /\ TypeOf(x) \notin Fits[TypeOf(w)]
  BY <1>2, UnchangedMoves DEF PutAll
<1>3. CASE TypeOf(x) \in Fits[TypeOf(w)]
  <2>1. Merges(w, x)
    BY <1>1, <1>3 DEF PutAll, Merges
  <2> QED BY <2>1 DEF Moves
<1>4. CASE Keys(Val(x)) = {}
  <2>1. \A k \in Key : Val(x)[k] = Absent
    BY <1>4 DEF Keys
  <2>2. mem' = [mem EXCEPT ![map[w]].val = [k \in Key |-> @[k]]] /\ UNCHANGED map
    BY <1>4, <2>1 DEF PutAll
  <2>3. Drop(map[w], {})
    BY <2>2 DEF Drop
  <2> QED BY <1>1, <2>2, <2>3, IsTyped, DropMoves
<1> QED BY <1>2, <1>3, <1>4

LEMMA NewMoves ==
  ASSUME Shape, NEW w \in Map, New(w)
  PROVE  Moves
<1> DEFINE i == FreeId
<1>1. i \in Id /\ ~Used(map, i)
  BY FreeIdIsFree
<1>2. PICK m \in Made : mem' = [mem EXCEPT ![i] = m]
  BY DEF New
<1>3. map' = [map EXCEPT ![w] = i] /\ map[w] = None
  BY DEF New
<1> HIDE DEF i
<1>4. Makes(w, i, m)
  BY <1>1, <1>2, <1>3 DEF Makes
<1> QED BY <1>1, <1>4 DEF Moves

LEMMA ClearMoves ==
  ASSUME Shape, NEW w \in Map, Clear(w)
  PROVE  Moves
<1> DEFINE i == FreeId
<1>1. i \in Id /\ ~Used(map, i)
  BY FreeIdIsFree
<1>2. /\ map[w] # None /\ map' = [map EXCEPT ![w] = i]
      /\ mem' = Collect([mem EXCEPT ![i] = Empty(TypeOf(w))], map')
  BY DEF Clear, Is
<1> HIDE DEF i
<1>3. Renews(w, i)
  BY <1>1, <1>2 DEF Renews
<1> QED BY <1>1, <1>3 DEF Moves

LEMMA FilterMoves ==
  ASSUME Shape, NEW w \in Map, NEW view \in View, FilterView(w, view)
  PROVE  Moves
<1>1. map[w] \in Id
  BY IsTyped DEF FilterView, Is
<1>2. UNCHANGED map
  BY DEF FilterView
<1>3. PICK some : Drop(map[w], {k \in Keys(Val(w)) : Item(view, k, Val(w)[k]) \in some})
  BY DEF FilterView
<1> DEFINE keys == {k \in Keys(Val(w)) : Item(view, k, Val(w)[k]) \in some}
<1>4. keys \in SUBSET Key
  BY DEF Keys
<1>5. Drop(map[w], keys)
  BY <1>3
<1> HIDE DEF keys
<1> QED BY <1>1, <1>2, <1>4, <1>5, DropMoves

LEMMA RemoveMoves ==
  ASSUME Shape, NEW w \in Map, NEW k \in Key \cup Number, Remove(w, k)
  PROVE  Moves
<1>1. map[w] \in Id /\ UNCHANGED map /\ Drop(map[w], {PutKey(k)})
  BY IsTyped DEF Remove, Is
<1>2. {PutKey(k)} \in SUBSET Key
  BY KeysTyped
<1> QED BY <1>1, <1>2, DropMoves

LEMMA ValViewRemoveMoves ==
  ASSUME Shape, NEW w \in Map, NEW v \in Value, ValViewRemove(w, v)
  PROVE  Moves
<1>1. map[w] \in Id
  BY IsTyped DEF ValViewRemove, Is
<1>2. CASE Unchanged
  BY <1>2, UnchangedMoves
<1>3. CASE \E k \in Keys(Val(w)) : Drop(map[w], {k}) /\ UNCHANGED map
  <2>1. PICK k \in Keys(Val(w)) : Drop(map[w], {k}) /\ UNCHANGED map
    BY <1>3
  <2>2. {k} \in SUBSET Key
    BY DEF Keys
  <2> QED BY <1>1, <2>1, <2>2, DropMoves
<1> QED BY <1>2, <1>3 DEF ValViewRemove

LEMMA EntryTyped ==
  ASSUME Shape, Placed, entry # None
  PROVE  entry.k \in Key /\ entry.v \in Stored /\ entry.w \in Map /\ map[entry.w] # None
         /\ entry \in [k : Key, v : Stored, w : Map]
BY DEF Shape, Placed

LEMMA EntryViewRemoveMoves ==
  ASSUME Shape, Placed, NEW w \in Map, EntryViewRemove(w)
  PROVE  Moves
<1>1. map[w] \in Id /\ entry # None
  BY IsTyped DEF EntryViewRemove, Is
<1>2. {entry.k} \in SUBSET Key
  BY <1>1, EntryTyped
<1>3. CASE Unchanged
  BY <1>3, UnchangedMoves
<1>4. CASE Drop(map[w], {entry.k}) /\ UNCHANGED map
  BY <1>1, <1>2, <1>4, DropMoves
<1> QED BY <1>3, <1>4 DEF EntryViewRemove

LEMMA IterTyped ==
  ASSUME Shape, it # None, it.last # 0
  PROVE  it.m \in Id /\ it.keys[it.i] \in Key
<1>1. it \in Walk /\ it.i <= Len(it.keys) /\ it.last = it.i
  BY DEF Shape
<1>2. it.m \in Id /\ it.keys \in Seq(Key) /\ it.i \in Nat /\ it.i # 0
  BY <1>1 DEF Walk
<1>3. it.i \in 1 .. Len(it.keys)
  BY <1>1, <1>2
<1> QED BY <1>2, <1>3

LEMMA IterRemoveMoves ==
  ASSUME Shape, IterRemove
  PROVE  Moves
<1>1. CASE it.last = 0
  BY <1>1, UnchangedMoves DEF IterRemove
<1>2. CASE it.last # 0
  <2>1. it.m \in Id /\ {it.keys[it.i]} \in SUBSET Key
    BY <1>2, IterTyped DEF IterRemove
  <2>2. Drop(it.m, {it.keys[it.i]}) /\ UNCHANGED map
    BY <1>2 DEF IterRemove
  <2> QED BY <2>1, <2>2, DropMoves
<1> QED BY <1>1, <1>2

LEMMA SetValueMoves ==
  ASSUME Shape, Placed, NEW v \in Value, SetValue(v)
  PROVE  Moves
<1>1. v \in Stored /\ entry # None
  BY DEF Stored, SetValue
<1>2. entry.k \in Key /\ entry.w \in Map /\ map[entry.w] # None
  BY <1>1, EntryTyped
<1> DEFINE e == Conv[TypeOf(entry.w)][v]
<1>3. CASE e = Fail
  BY <1>3, UnchangedMoves DEF SetValue
<1>4. CASE e # Fail
  <2>1. e \in Stored /\ Conv[TypeOf(entry.w)][e] = e
    BY <1>1, <1>2, <1>4, IsTyped, ConversionSettles
  <2>2. mem' = [mem EXCEPT ![map[entry.w]].val[entry.k] = e] /\ UNCHANGED map
    BY <1>4 DEF SetValue
  <2> HIDE DEF e
  <2>3. Puts(entry.w, entry.k, e)
    BY <1>2, <2>1, <2>2 DEF Puts
  <2> QED BY <1>2, <2>1, <2>3 DEF Moves
<1> QED BY <1>3, <1>4

LEMMA NextMoves ==
  ASSUME Shape, Placed, [Next]_vars
  PROVE  Moves
<1>1. ASSUME NEW w \in Map, New(w) \/ Clear(w) \/ EntryViewRemove(w) PROVE Moves
  BY <1>1, NewMoves, ClearMoves, EntryViewRemoveMoves
<1>2. ASSUME NEW w \in Map, NEW h \in Host, Wrap(w, h) PROVE Moves
  BY <1>2 DEF Wrap, Wraps, Moves
<1>3. ASSUME NEW w \in Map, NEW x \in Map, PutAll(w, x) PROVE Moves
  BY <1>3, PutAllMoves
<1>4. ASSUME NEW w \in Map, NEW view \in View, FilterView(w, view) PROVE Moves
  BY <1>4, FilterMoves
<1>5. ASSUME NEW w \in Map, NEW view \in Walked, Iterator(w, view) PROVE Moves
  BY <1>5 DEF Iterator, Moves, Stays
<1>6. ASSUME NEW w \in Map, NEW k \in Key \cup Number, Remove(w, k) \/ KeyViewRemove(w, k)
      PROVE  Moves
  <2>1. CASE Remove(w, k)
    BY <2>1, RemoveMoves
  <2>2. CASE KeyViewRemove(w, k)
    BY <2>2, RemoveMoves, UnchangedMoves DEF KeyViewRemove
  <2> QED BY <1>6, <2>1, <2>2
<1>7. ASSUME NEW w \in Map, NEW v \in Value, ValViewRemove(w, v) PROVE Moves
  BY <1>7, ValViewRemoveMoves
<1>8. ASSUME NEW w \in Map, NEW k \in Key \cup Number, NEW v \in Value,
             Put(w, k, v) \/ PutIfAbsent(w, k, v) \/ Replace(w, k, v)
      PROVE  Moves
  <2>1. map[w] # None
    BY <1>8 DEF Put, PutIfAbsent, Replace, Is
  <2>2. Unchanged \/ PutUnchecked(w, k, v)
    BY <1>8 DEF Put, PutIfAbsent, Replace, PutUnchecked
  <2> QED BY <2>1, <2>2, UnchangedMoves, PutUncheckedMoves
<1>9. ASSUME NEW v \in Value, SetValue(v) PROVE Moves
  BY <1>9, SetValueMoves
<1>10. CASE NextElement
  BY <1>10 DEF NextElement, Moves, Stays
<1>11. CASE IterRemove
  BY <1>11, IterRemoveMoves
<1>12. CASE UNCHANGED vars
  BY <1>12 DEF vars, Moves, Stays
<1> QED BY <1>1, <1>2, <1>3, <1>4, <1>5, <1>6, <1>7, <1>8, <1>9, <1>10, <1>11, <1>12 DEF Next
-----------------------------------------------------------------------------
(* Whatever is done to the Go maps, they keep to their types, and only the *)
(* host's are shared.                                                      *)
GoMapsTyped == mem \in [Id -> GoMap] /\ (\A i \in Id : Typed(mem[i]))
MapsTyped   == map \in [Map -> Id \cup {None}]
Kept        == \A w \in Map : map[w] # None => map'[w] # None

LEMMA WriteIsTyped ==
  ASSUME GoMapsTyped, NEW i \in Id, NEW f \in [Key -> Stored \cup {Absent}],
         \A k \in Key : f[k] # Absent => Conv[mem[i].type][f[k]] = f[k],
         mem' = [mem EXCEPT ![i].val = f]
  PROVE  GoMapsTyped'
<1>1. mem[i] \in GoMap
  BY DEF GoMapsTyped
<1> DEFINE m == [type |-> mem[i].type, val |-> f]
<1>2. m \in GoMap /\ Typed(m)
  BY <1>1 DEF GoMap, Typed
<1>3. [mem[i] EXCEPT !.val = f] = m
  BY <1>1 DEF GoMap
<1>4. mem' = [mem EXCEPT ![i] = m]
  BY <1>3
<1> HIDE DEF m
<1> QED BY <1>2, <1>4 DEF GoMapsTyped

LEMMA PutsTyped ==
  ASSUME GoMapsTyped, MapsTyped, NEW w \in Map, NEW k \in Key, NEW e \in Stored, Puts(w, k, e)
  PROVE  GoMapsTyped'
<1> DEFINE i == map[w]
           f == [mem[i].val EXCEPT ![k] = e]
<1>1. i \in Id
  BY DEF Puts, MapsTyped
<1>2. mem[i] \in GoMap /\ Typed(mem[i])
  BY <1>1 DEF GoMapsTyped
<1>3. f \in [Key -> Stored \cup {Absent}]
  BY <1>2 DEF GoMap
<1>4. ASSUME NEW j \in Key, f[j] # Absent PROVE Conv[mem[i].type][f[j]] = f[j]
  BY <1>2, <1>4 DEF GoMap, Typed, Puts, TypeOf
<1>5. mem' = [mem EXCEPT ![i].val = f]
  BY DEF Puts
<1> HIDE DEF i, f
<1> QED BY <1>1, <1>3, <1>4, <1>5, WriteIsTyped

LEMMA DropsTyped ==
  ASSUME GoMapsTyped, NEW i \in Id, NEW keys \in SUBSET Key, Drops(i, keys)
  PROVE  GoMapsTyped'
<1> DEFINE f == [k \in Key |-> IF k \in keys THEN Absent ELSE mem[i].val[k]]
<1>1. mem[i] \in GoMap /\ Typed(mem[i])
  BY DEF GoMapsTyped
<1>2. f \in [Key -> Stored \cup {Absent}]
  BY <1>1 DEF GoMap
<1>3. ASSUME NEW j \in Key, f[j] # Absent PROVE Conv[mem[i].type][f[j]] = f[j]
  BY <1>1, <1>3 DEF Typed
<1>4. mem' = [mem EXCEPT ![i].val = f]
  BY DEF Drops, Drop
<1> HIDE DEF f
<1> QED BY <1>2, <1>3, <1>4, WriteIsTyped

LEMMA MergesTyped ==
  ASSUME GoMapsTyped, MapsTyped, NEW w \in Map, NEW x \in Map, Merges(w, x)
  PROVE  GoMapsTyped'
<1> DEFINE i == map[w]
           t == mem[i].type
           u == mem[map[x]].type
           g == mem[map[x]].val
           f == [k \in Key |-> IF g[k] # Absent THEN Conv[t][g[k]] ELSE mem[i].val[k]]
<1>1. i \in Id /\ map[x] \in Id
  BY DEF Merges, MapsTyped
<1>2. /\ mem[i] \in GoMap /\ Typed(mem[i])
      /\ mem[map[x]] \in GoMap /\ Typed(mem[map[x]])
  BY <1>1 DEF GoMapsTyped
<1>3. /\ t \in Type /\ u \in Fits[t] /\ g \in [Key -> Stored \cup {Absent}]
      /\ mem[i].val \in [Key -> Stored \cup {Absent}]
  BY <1>2 DEF GoMap, Merges, TypeOf
<1>4. ASSUME NEW k \in Key, g[k] # Absent
      PROVE  Conv[t][g[k]] \in Stored /\ Conv[t][Conv[t][g[k]]] = Conv[t][g[k]]
  <2>1. g[k] \in Stored /\ Conv[u][g[k]] = g[k]
    BY <1>2, <1>3, <1>4 DEF Typed
  <2> HIDE DEF t, u, g
  <2>2. Conv[t][g[k]] # Fail
    BY <1>3, <2>1, MapAssumption
  <2> QED BY <1>3, <2>1, <2>2, ConversionSettles
<1>5. mem' = [mem EXCEPT ![i].val = f]
  BY DEF Merges, Val, TypeOf
<1>6. ASSUME NEW k \in Key PROVE f[k] \in Stored \cup {Absent}
  BY <1>3, <1>4
<1>7. ASSUME NEW k \in Key, f[k] # Absent PROVE Conv[mem[i].type][f[k]] = f[k]
  BY <1>2, <1>4, <1>7 DEF Typed
<1>8. f \in [Key -> Stored \cup {Absent}]
  BY <1>6
<1> HIDE DEF i, f
<1> QED BY <1>1, <1>5, <1>7, <1>8, WriteIsTyped

LEMMA EmptyIsTyped ==
  ASSUME NEW t \in Type
  PROVE  Empty(t) \in GoMap /\ Typed(Empty(t))
BY DEF Empty, GoMap, Typed

LEMMA HostIds == Host \subseteq Id
<1>1. Cardinality(Map) \in Nat /\ Len(Hosts0) \in Nat /\ Host = 1 .. Len(Hosts0)
  BY MapAssumption, FS_CardinalityType
<1> QED BY <1>1 DEF Id

LEMMA SomeTypeIsType == SomeType \in Type
BY MapAssumption DEF SomeType

LEMMA CollectIsTyped ==
  ASSUME NEW ms \in [Id -> GoMap], \A i \in Id : Typed(ms[i]), NEW maps,
         mem' = Collect(ms, maps)
  PROVE  GoMapsTyped'
<1>1. Empty(SomeType) \in GoMap /\ Typed(Empty(SomeType))
  BY EmptyIsTyped, SomeTypeIsType
<1> QED BY <1>1 DEF Collect, GoMapsTyped

LEMMA RenewsTyped ==
  ASSUME GoMapsTyped, MapsTyped, NEW w \in Map, NEW i \in Id, Renews(w, i)
  PROVE  GoMapsTyped'
<1> DEFINE e  == Empty(TypeOf(w))
           ms == [mem EXCEPT ![i] = e]
<1>1. mem[map[w]] \in GoMap
  BY DEF Renews, MapsTyped, GoMapsTyped
<1>2. e \in GoMap /\ Typed(e)
  BY <1>1, EmptyIsTyped DEF GoMap, TypeOf
<1>3. mem' = Collect(ms, map')
  BY DEF Renews
<1> HIDE DEF e
<1>4. ms \in [Id -> GoMap] /\ \A j \in Id : Typed(ms[j])
  BY <1>2 DEF GoMapsTyped
<1> HIDE DEF ms
<1> QED BY <1>3, <1>4, CollectIsTyped

LEMMA MovesTyped ==
  ASSUME GoMapsTyped, MapsTyped, Moves
  PROVE  GoMapsTyped' /\ MapsTyped' /\ Kept
<1>1. CASE Stays
  BY <1>1 DEF Stays, GoMapsTyped, MapsTyped, Kept, Typed
<1>2. ASSUME NEW w \in Map, NEW k \in Key, NEW e \in Stored, Puts(w, k, e)
      PROVE  GoMapsTyped' /\ MapsTyped' /\ Kept
  BY <1>2, PutsTyped DEF Puts, MapsTyped, Kept
<1>3. ASSUME NEW i \in Id, NEW keys \in SUBSET Key, Drops(i, keys)
      PROVE  GoMapsTyped' /\ MapsTyped' /\ Kept
  BY <1>3, DropsTyped DEF Drops, MapsTyped, Kept
<1>4. ASSUME NEW w \in Map, NEW x \in Map, Merges(w, x)
      PROVE  GoMapsTyped' /\ MapsTyped' /\ Kept
  BY <1>4, MergesTyped DEF Merges, MapsTyped, Kept
<1>5. ASSUME NEW w \in Map, NEW i \in Id, NEW m \in Made, Makes(w, i, m)
      PROVE  GoMapsTyped' /\ MapsTyped' /\ Kept
  <2>1. m \in GoMap /\ Typed(m) /\ None \notin Id
    BY MapAssumption
  <2> QED BY <1>5, <2>1 DEF Makes, GoMapsTyped, MapsTyped, Kept
<1>6. ASSUME NEW w \in Map, NEW h \in Host, Wraps(w, h)
      PROVE  GoMapsTyped' /\ MapsTyped' /\ Kept
  <2>1. h \in Id /\ None \notin Id
    <3>1. Host \subseteq Id
      BY HostIds
    <3> QED BY <3>1, MapAssumption
  <2> QED BY <1>6, <2>1 DEF Wraps, GoMapsTyped, MapsTyped, Kept, Typed
<1>7. ASSUME NEW w \in Map, NEW i \in Id, Renews(w, i)
      PROVE  GoMapsTyped' /\ MapsTyped' /\ Kept
  <2>1. None \notin Id
    BY MapAssumption
  <2>2. MapsTyped' /\ Kept
    BY <1>7, <2>1 DEF Renews, MapsTyped, Kept
  <2> QED BY <1>7, <2>2, RenewsTyped
<1> QED BY <1>1, <1>2, <1>3, <1>4, <1>5, <1>6, <1>7 DEF Moves

LEMMA MovesShareNothing ==
  ASSUME MapsTyped, SharedOnlyByHosts, Moves
  PROVE  SharedOnlyByHosts'
<1>1. CASE UNCHANGED map
  BY <1>1 DEF SharedOnlyByHosts
<1>2. ASSUME NEW w \in Map, NEW i \in Id, ~Used(map, i), map' = [map EXCEPT ![w] = i]
      PROVE  SharedOnlyByHosts'
  BY <1>2 DEF SharedOnlyByHosts, MapsTyped, Used
<1>3. ASSUME NEW w \in Map, NEW h \in Host, Wraps(w, h)
      PROVE  SharedOnlyByHosts'
  BY <1>3 DEF SharedOnlyByHosts, MapsTyped, Wraps
<1> QED BY <1>1, <1>2, <1>3 DEF Moves, Stays, Puts, Drops, Merges, Makes, Renews

(* The iterator, the entry and the rest.                                   *)
RestTyped ==
  /\ it # None => it \in Walk /\ it.i <= Len(it.keys) /\ it.last \in {0, it.i}
  /\ entry \in [k : Key, v : Stored, w : Map] \cup {None}
  /\ panicked \in BOOLEAN /\ walks \in 0 .. MaxWalks

LEMMA ShapeParts == Shape <=> GoMapsTyped /\ MapsTyped /\ RestTyped
BY DEF Shape, GoMapsTyped, MapsTyped, RestTyped

LEMMA OthersRest ==
  ASSUME RestTyped, Placed, Kept, Others, UNCHANGED entry
  PROVE  RestTyped' /\ Placed'
<1>1. RestTyped'
  BY DEF RestTyped, Others
<1>2. Placed'
  <2>1. it # None => it.w \in Map
    BY DEF RestTyped, Walk
  <2>2. entry # None => entry.w \in Map
    BY DEF RestTyped
  <2> QED BY <2>1, <2>2 DEF Placed, Kept, Others
<1> QED BY <1>1, <1>2

LEMMA IteratorRest ==
  ASSUME MapsTyped, RestTyped, Placed, Kept, NEW w \in Map, NEW view \in Walked, Iterator(w, view)
  PROVE  RestTyped' /\ Placed'
<1> DEFINE keys == SortedKeys(Val(w))
<1>1. keys \in Seq(Key)
  BY SortedKeysType
<1>2. it' = [w |-> w, view |-> view, m |-> map[w], keys |-> keys, i |-> 0, last |-> 0]
  BY DEF Iterator
<1>3. view \in View /\ map[w] \in Id /\ map[w] # None
  BY MapAssumption DEF Iterator, Is, MapsTyped
<1>4. walks' \in 0 .. MaxWalks
  BY MapAssumption DEF Iterator, RestTyped
<1> HIDE DEF keys
<1>5. it' \in Walk /\ it'.i <= Len(it'.keys) /\ it'.last \in {0, it'.i} /\ it'.w = w
  <2>1. Len(keys) \in Nat
    BY <1>1
  <2> QED BY <1>1, <1>2, <1>3, <2>1 DEF Walk
<1>6. UNCHANGED <<map, entry, panicked>>
  BY DEF Iterator
<1> QED BY <1>3, <1>4, <1>5, <1>6 DEF RestTyped, Placed

LEMMA NextElementRest ==
  ASSUME GoMapsTyped, RestTyped, Placed, NextElement
  PROVE  RestTyped' /\ Placed'
<1>1. it \in Walk /\ it # None /\ it.i < Len(it.keys)
  BY DEF NextElement, RestTyped, HasNext
<1>2. it.keys \in Seq(Key) /\ it.i \in Nat /\ it.m \in Id /\ it.w \in Map
  BY <1>1 DEF Walk
<1>3. it' = [it EXCEPT !.i = it.i + 1, !.last = it.i + 1]
  BY DEF NextElement
<1>4. it' \in Walk /\ it'.i <= Len(it'.keys) /\ it'.last \in {0, it'.i} /\ it'.w = it.w
  <2>1. it.i + 1 <= Len(it.keys) /\ it.i + 1 \in Nat
    BY <1>1, <1>2
  <2>2. it \in Walk /\ it.i + 1 \in Nat
    BY <1>1, <2>1
  <2>3. /\ it' \in Walk /\ it'.i = it.i + 1 /\ it'.last = it.i + 1
        /\ it'.keys = it.keys /\ it'.w = it.w
    BY <1>3, <2>2 DEF Walk
  <2> QED BY <2>1, <2>3
<1> DEFINE k == it.keys[it.i + 1]
           v == mem[it.m].val[k]
<1>5. k \in Key
  <2>1. it.i + 1 \in 1 .. Len(it.keys)
    BY <1>1, <1>2
  <2> QED BY <1>2, <2>1
<1>6. v \in Stored \cup {Absent}
  <2>1. mem[it.m].val \in [Key -> Stored \cup {Absent}]
    BY <1>2 DEF GoMapsTyped, GoMap
  <2> QED BY <1>5, <2>1
<1>7. UNCHANGED <<map, walks>>
  BY DEF NextElement
<1>8. \/ UNCHANGED <<entry, panicked>>
      \/ panicked' = TRUE /\ UNCHANGED entry
      \/ v # Absent /\ entry' = [k |-> k, v |-> v, w |-> it.w] /\ UNCHANGED panicked
  BY DEF NextElement
<1> HIDE DEF k, v
<1>9. panicked' \in BOOLEAN /\ walks' \in 0 .. MaxWalks
  BY <1>7, <1>8 DEF RestTyped
<1>10. entry' \in [k : Key, v : Stored, w : Map] \cup {None}
       /\ (entry' = entry \/ entry'.w = it.w)
  BY <1>2, <1>5, <1>6, <1>8 DEF RestTyped
<1>11. Placed'
  BY <1>1, <1>4, <1>7, <1>10 DEF Placed
<1> QED BY <1>4, <1>9, <1>10, <1>11 DEF RestTyped

LEMMA IterRemoveRest ==
  ASSUME RestTyped, Placed, IterRemove
  PROVE  RestTyped' /\ Placed'
<1>1. it \in Walk /\ it # None /\ it.i <= Len(it.keys) /\ it.last \in {0, it.i}
  BY DEF IterRemove, RestTyped
<1>2. UNCHANGED <<map, walks, entry, panicked>>
  BY DEF IterRemove, Unchanged, Others
<1>3. it' = it \/ it' = [it EXCEPT !.last = 0]
  BY DEF IterRemove, Unchanged, Others
<1>4. it' \in Walk /\ it'.i = it.i /\ it'.keys = it.keys /\ it'.last \in {0, it.i} /\ it'.w = it.w
  BY <1>1, <1>3 DEF Walk
<1>5. RestTyped'
  BY <1>1, <1>2, <1>4 DEF RestTyped
<1> QED BY <1>1, <1>2, <1>4, <1>5 DEF Placed

LEMMA SetValueRest ==
  ASSUME Shape, Placed, NEW v \in Value, SetValue(v)
  PROVE  RestTyped' /\ Placed'
<1>1. CASE Unchanged
  <2>1. Kept /\ Others /\ UNCHANGED entry
    BY <1>1 DEF Unchanged, Kept
  <2> QED BY <2>1, ShapeParts, OthersRest
<1>2. CASE ~Unchanged
  <2> DEFINE was == Val(entry.w)[entry.k]
  <2>1. entry # None
    BY DEF SetValue
  <2>2. was \in Stored \cup {Absent}
    <3>1. Val(entry.w) \in [Key -> Stored \cup {Absent}]
      BY <2>1, EntryTyped, IsTyped
    <3>2. entry.k \in Key
      BY <2>1, EntryTyped
    <3> QED BY <3>1, <3>2
  <2>3. /\ entry' = [entry EXCEPT !.v = IF was = Absent THEN Nil ELSE was]
        /\ Others /\ UNCHANGED map
    BY <1>2 DEF SetValue
  <2> HIDE DEF was
  <2>4. entry' \in [k : Key, v : Stored, w : Map] /\ entry'.w = entry.w
    BY <2>1, <2>2, <2>3, EntryTyped DEF Stored
  <2>5. RestTyped'
    BY <2>3, <2>4, ShapeParts DEF RestTyped, Others
  <2>6. Placed'
    BY <2>1, <2>3, <2>4 DEF Placed, Others
  <2> QED BY <2>5, <2>6
<1> QED BY <1>1, <1>2

LEMMA NextRest ==
  ASSUME Shape, Placed, Kept, [Next]_vars
  PROVE  RestTyped' /\ Placed'
<1>0. GoMapsTyped /\ MapsTyped /\ RestTyped
  BY ShapeParts
<1>1. ASSUME NEW w \in Map, NEW view \in Walked, Iterator(w, view)
      PROVE  RestTyped' /\ Placed'
  BY <1>0, <1>1, IteratorRest
<1>2. CASE NextElement
  BY <1>0, <1>2, NextElementRest
<1>3. CASE IterRemove
  BY <1>0, <1>3, IterRemoveRest
<1>4. ASSUME NEW v \in Value, SetValue(v) PROVE RestTyped' /\ Placed'
  BY <1>4, SetValueRest
<1>5. CASE Others /\ UNCHANGED entry
  BY <1>0, <1>5, OthersRest
<1>6. CASE UNCHANGED vars
  BY <1>5, <1>6 DEF vars, Others
<1>7. ASSUME NEW w \in Map, New(w) \/ Clear(w) \/ EntryViewRemove(w)
      PROVE  Others /\ UNCHANGED entry
  BY <1>7 DEF New, Clear, EntryViewRemove, Unchanged
<1>8. ASSUME NEW w \in Map, NEW h \in Host, Wrap(w, h) PROVE Others /\ UNCHANGED entry
  BY <1>8 DEF Wrap
<1>9. ASSUME NEW w \in Map, NEW x \in Map, PutAll(w, x) PROVE Others /\ UNCHANGED entry
  BY <1>9 DEF PutAll, Unchanged
<1>10. ASSUME NEW w \in Map, NEW view \in View, FilterView(w, view)
       PROVE  Others /\ UNCHANGED entry
  BY <1>10 DEF FilterView
<1>11. ASSUME NEW w \in Map, NEW k \in Key \cup Number, Remove(w, k) \/ KeyViewRemove(w, k)
       PROVE  Others /\ UNCHANGED entry
  BY <1>11 DEF Remove, KeyViewRemove, Unchanged
<1>12. ASSUME NEW w \in Map, NEW v \in Value, ValViewRemove(w, v)
       PROVE  Others /\ UNCHANGED entry
  BY <1>12 DEF ValViewRemove, Unchanged
<1>13. ASSUME NEW w \in Map, NEW k \in Key \cup Number, NEW v \in Value,
              Put(w, k, v) \/ PutIfAbsent(w, k, v) \/ Replace(w, k, v)
       PROVE  Others /\ UNCHANGED entry
  BY <1>13 DEF Put, PutIfAbsent, Replace, PutUnchecked, Store, Unchanged
<1> QED BY <1>1, <1>2, <1>3, <1>4, <1>5, <1>6, <1>7, <1>8, <1>9, <1>10, <1>11, <1>12, <1>13
        DEF Next

LEMMA InitMapInv == Init => MapInv
<1> SUFFICES ASSUME Init PROVE MapInv
  OBVIOUS
<1>1. GoMapsTyped
  <2>1. \A h \in Host : Hosts0[h] \in GoMap /\ Typed(Hosts0[h])
    BY MapAssumption
  <2>2. Empty(SomeType) \in GoMap /\ Typed(Empty(SomeType))
    BY EmptyIsTyped, SomeTypeIsType
  <2> QED BY <2>1, <2>2 DEF Init, GoMapsTyped
<1>2. MapsTyped /\ RestTyped
  <2>1. MaxWalks \in Nat
    BY MapAssumption
  <2>2. MapsTyped
    BY DEF Init, MapsTyped
  <2>3. it = None /\ entry = None /\ panicked = FALSE /\ walks = 0
    BY DEF Init
  <2>4. walks \in 0 .. MaxWalks
    BY <2>1, <2>3
  <2> QED BY <2>2, <2>3, <2>4, Zenon DEF RestTyped
<1>3. Placed /\ SharedOnlyByHosts
  BY DEF Init, Placed, SharedOnlyByHosts
<1> QED BY <1>1, <1>2, <1>3, ShapeParts DEF MapInv

LEMMA NextMapInv == MapInv /\ [Next]_vars => MapInv'
<1> SUFFICES ASSUME MapInv, [Next]_vars PROVE MapInv'
  OBVIOUS
<1>1. Shape /\ Placed /\ SharedOnlyByHosts /\ GoMapsTyped /\ MapsTyped
  BY ShapeParts DEF MapInv
<1>2. Moves
  BY <1>1, NextMoves
<1>3. GoMapsTyped' /\ MapsTyped' /\ Kept
  BY <1>1, <1>2, MovesTyped
<1>4. SharedOnlyByHosts'
  BY <1>1, <1>2, MovesShareNothing
<1>5. RestTyped' /\ Placed'
  BY <1>1, <1>3, NextRest
<1>6. Shape'
  BY <1>3, <1>5 DEF Shape, GoMapsTyped, MapsTyped, RestTyped
<1> QED BY <1>4, <1>5, <1>6 DEF MapInv

(* Types, and no value where its element type does not belong: a put       *)
(* (types.go:111-136), a PutAll of another map of whatever type            *)
(* (types.go:138-161), a value set through an entry, and everything the    *)
(* host or a literal brings, leaves every Go map with values of its own    *)
(* element type only; and an iterator stays within the keys it noted.      *)
THEOREM MapTypes == Spec => []TypeOK
<1>1. MapInv => TypeOK
  BY DEF MapInv, Shape, TypeOK, Walk
<1>2. Init => MapInv
  BY InitMapInv
<1>3. MapInv /\ [Next]_vars => MapInv'
  BY NextMapInv
<1> QED BY <1>1, <1>2, <1>3, PTL DEF Spec

(* Two *Map share a Go map only where the host made it (types.go:28-30):   *)
(* what Clear gives a *Map is a Go map nothing else refers to, not even an *)
(* iterator that still walks what was cleared.                             *)
THEOREM MapsShareOnlyHosts == Spec => []SharedOnlyByHosts
<1>1. MapInv => SharedOnlyByHosts
  BY DEF MapInv
<1>2. Init => MapInv
  BY InitMapInv
<1>3. MapInv /\ [Next]_vars => MapInv'
  BY NextMapInv
<1> QED BY <1>1, <1>2, <1>3, PTL DEF Spec

(* The Remove of an iterator (types.go:684-691) takes the key from the Go  *)
(* map it was made for, and from no other.                                 *)
THEOREM IteratorRemovesFromItsMap == Spec => RemovesOnlyWalked
<1>1. ASSUME MapInv, IterRemove, NEW w \in Map, map[w] # None, map[w] # it.m
      PROVE  Val(w)' = Val(w)
  <2>1. map[w] \in Id /\ mem \in [Id -> GoMap]
    BY <1>1 DEF MapInv, Shape
  <2>2. map' = map
    BY <1>1 DEF IterRemove, Unchanged
  <2>3. mem'[map[w]] = mem[map[w]]
    BY <1>1, <2>1 DEF IterRemove, Unchanged, Drop
  <2> QED BY <2>2, <2>3 DEF Val
<1>2. MapInv =>
        [IterRemove => \A w \in Map : map[w] # None /\ map[w] # it.m => Val(w)' = Val(w)]_vars
  BY <1>1
<1>3. Init => MapInv
  BY InitMapInv
<1>4. MapInv /\ [Next]_vars => MapInv'
  BY NextMapInv
<1> QED BY <1>2, <1>3, <1>4, PTL DEF Spec, RemovesOnlyWalked
-----------------------------------------------------------------------------
(* Without the host's maps, what is done to the Go maps is what a template *)
(* may think is done to one of its maps.                                   *)
stored == [w \in Map |-> IF map[w] = None THEN None ELSE mem[map[w]]]

LEMMA StoredIs ==
  ASSUME GoMapsTyped, MapsTyped, NEW w \in Map
  PROVE  /\ map[w] = None => stored[w] = None
         /\ map[w] # None => /\ stored[w] = mem[map[w]] /\ stored[w] # None
                            /\ stored[w] \in GoMap
BY MapAssumption DEF stored, GoMapsTyped, MapsTyped

(* A Go map that one *Map refers to is written to.                         *)
LEMMA WriteChanges ==
  ASSUME GoMapsTyped, MapsTyped, SharedOnlyByHosts, Host = {},
         NEW w \in Map, map[w] # None, NEW f, UNCHANGED map,
         mem' = [mem EXCEPT ![map[w]].val = f]
  PROVE  stored' = [stored EXCEPT ![w].val = f]
<1> DEFINE m == [mem[map[w]] EXCEPT !.val = f]
<1>1. stored[w] = mem[map[w]] /\ map[w] \in Id
  BY StoredIs DEF MapsTyped
<1>2. mem' = [mem EXCEPT ![map[w]] = m]
  OBVIOUS
<1>3. [stored EXCEPT ![w].val = f] = [stored EXCEPT ![w] = m]
  BY <1>1 DEF stored
<1> HIDE DEF m
<1>4. ASSUME NEW x \in Map PROVE stored'[x] = [stored EXCEPT ![w] = m][x]
  <2>1. CASE x = w
    BY <1>1, <1>2, <2>1 DEF stored, GoMapsTyped
  <2>2. CASE x # w
    <3>1. map[x] # map[w]
      BY <2>2 DEF SharedOnlyByHosts
    <3>2. map[x] # None => mem'[map[x]] = mem[map[x]]
      BY <1>2, <3>1 DEF MapsTyped, GoMapsTyped
    <3> QED BY <2>2, <3>2 DEF stored
  <2> QED BY <2>1, <2>2
<1>5. stored' = [stored EXCEPT ![w] = m]
  BY <1>4 DEF stored
<1> QED BY <1>3, <1>5

LEMMA UpdateRefines ==
  ASSUME GoMapsTyped, MapsTyped, NEW w \in Map, map[w] # None, Abstract!Update(w)
  PROVE  Abstract!Next
<1>1. Abstract!Is(w)
  BY StoredIs DEF Abstract!Is, stored
<1> QED BY <1>1 DEF Abstract!Next

LEMMA PutsRefine ==
  ASSUME GoMapsTyped, MapsTyped, SharedOnlyByHosts, Host = {},
         NEW w \in Map, NEW k \in Key, NEW e \in Stored, Puts(w, k, e)
  PROVE  Abstract!Next
<1> DEFINE f == [mem[map[w]].val EXCEPT ![k] = e]
<1>1. map[w] # None /\ UNCHANGED map /\ mem' = [mem EXCEPT ![map[w]].val = f]
  BY DEF Puts
<1>2. stored[w].val = mem[map[w]].val
  BY <1>1, StoredIs
<1>3. f = [stored[w].val EXCEPT ![k] = e]
  BY <1>2
<1> HIDE DEF f
<1>4. stored' = [stored EXCEPT ![w].val = f]
  BY <1>1, WriteChanges
<1>5. Abstract!Update(w)
  BY <1>3, <1>4 DEF Abstract!Update, Abstract!Change, stored
<1> QED BY <1>1, <1>5, UpdateRefines

LEMMA DropsRefine ==
  ASSUME GoMapsTyped, MapsTyped, SharedOnlyByHosts, Host = {},
         NEW i \in Id, NEW keys \in SUBSET Key, Drops(i, keys)
  PROVE  Abstract!Next \/ stored' = stored
<1>1. CASE \E w \in Map : map[w] = i
  <2>1. PICK w \in Map : map[w] = i
    BY <1>1
  <2> DEFINE f == [k \in Key |-> IF k \in keys THEN Absent ELSE mem[map[w]].val[k]]
  <2>2. map[w] # None /\ UNCHANGED map /\ mem' = [mem EXCEPT ![map[w]].val = f]
    BY <2>1, MapAssumption DEF Drops, Drop
  <2>3. stored[w].val = mem[map[w]].val
    BY <2>2, StoredIs
  <2>4. f = [k \in Key |-> IF k \in keys THEN Absent ELSE stored[w].val[k]]
    BY <2>3
  <2> HIDE DEF f
  <2>5. stored' = [stored EXCEPT ![w].val = f]
    BY <2>2, WriteChanges
  <2>6. Abstract!Update(w)
    BY <2>4, <2>5 DEF Abstract!Update, Abstract!Drop, Abstract!Change, stored
  <2> QED BY <2>2, <2>6, UpdateRefines
<1>2. CASE \A w \in Map : map[w] # i
  <2>1. ASSUME NEW w \in Map, map[w] # None PROVE mem'[map[w]] = mem[map[w]]
    BY <1>2, <2>1 DEF Drops, Drop, GoMapsTyped, MapsTyped
  <2> QED BY <2>1 DEF Drops, stored
<1> QED BY <1>1, <1>2

LEMMA MergesRefine ==
  ASSUME GoMapsTyped, MapsTyped, SharedOnlyByHosts, Host = {},
         NEW w \in Map, NEW x \in Map, Merges(w, x)
  PROVE  Abstract!Next
<1> DEFINE f == [k \in Key |-> IF mem[map[x]].val[k] # Absent
                               THEN Conv[mem[map[w]].type][mem[map[x]].val[k]]
                               ELSE mem[map[w]].val[k]]
<1>1. /\ map[w] # None /\ map[x] # None /\ UNCHANGED map
      /\ mem' = [mem EXCEPT ![map[w]].val = f]
      /\ mem[map[x]].type \in Fits[mem[map[w]].type]
  BY DEF Merges, Val, TypeOf
<1>2. stored[w] = mem[map[w]] /\ stored[x] = mem[map[x]] /\ stored[x] # None
  BY <1>1, StoredIs
<1>3. f = [k \in Key |-> IF stored[x].val[k] # Absent
                         THEN Conv[stored[w].type][stored[x].val[k]] ELSE stored[w].val[k]]
  BY <1>2
<1> HIDE DEF f
<1>4. stored' = [stored EXCEPT ![w].val = f]
  BY <1>1, WriteChanges
<1>5. Abstract!Is(x) /\ stored[x].type \in Fits[stored[w].type]
  BY <1>1, <1>2 DEF Abstract!Is, stored
<1>6. stored' = [stored EXCEPT ![w].val = [k \in Key |->
                                              IF stored[x].val[k] # Absent
                                              THEN Conv[stored[w].type][stored[x].val[k]]
                                              ELSE stored[w].val[k]]]
  BY <1>3, <1>4
<1>7. Abstract!Update(w)
  <2> DEFINE merged(n) == [k \in Key |-> IF stored[n].val[k] # Absent
                                        THEN Conv[stored[w].type][stored[n].val[k]]
                                        ELSE stored[w].val[k]]
             may(n) == Abstract!Is(n) /\ stored[n].type \in Fits[stored[w].type]
  <2>1. (\E n \in Map : may(n) /\ stored' = [stored EXCEPT ![w].val = merged(n)])
        => Abstract!Update(w)
    BY Zenon DEF Abstract!Update, Abstract!Change, stored
  <2>2. may(x) /\ stored' = [stored EXCEPT ![w].val = merged(x)]
    BY <1>5, <1>6
  <2> HIDE DEF merged, may
  <2> QED BY <2>1, <2>2
<1> QED BY <1>1, <1>7, UpdateRefines

(* A Go map nothing refers to becomes the one of w.                        *)
LEMMA FreshChanges ==
  ASSUME MapsTyped, NEW w \in Map, NEW i \in Id, ~Used(map, i), None \notin Id,
         map' = [map EXCEPT ![w] = i], NEW m, mem'[i] = m,
         \A x \in Map : x # w /\ map[x] # None => mem'[map[x]] = mem[map[x]]
  PROVE  stored' = [stored EXCEPT ![w] = m]
<1>1. ASSUME NEW x \in Map PROVE stored'[x] = [stored EXCEPT ![w] = m][x]
  BY DEF stored, MapsTyped
<1> QED BY <1>1 DEF stored

LEMMA MakesRefine ==
  ASSUME GoMapsTyped, MapsTyped, NEW w \in Map, NEW i \in Id, NEW m \in Made, Makes(w, i, m)
  PROVE  Abstract!Next
<1>1. mem'[i] = m /\ None \notin Id
  BY MapAssumption DEF Makes, GoMapsTyped
<1>2. \A x \in Map : x # w /\ map[x] # None => mem'[map[x]] = mem[map[x]]
  BY DEF Makes, GoMapsTyped, MapsTyped, Used
<1>3. ~Used(map, i) /\ map' = [map EXCEPT ![w] = i]
  BY DEF Makes
<1>4. stored' = [stored EXCEPT ![w] = m]
  BY <1>1, <1>2, <1>3, FreshChanges
<1>5. ~Abstract!Is(w) /\ Abstract!New(w)
  BY <1>4 DEF Makes, Abstract!Is, Abstract!New, stored
<1> QED BY <1>5 DEF Abstract!Next

LEMMA RenewsRefine ==
  ASSUME GoMapsTyped, MapsTyped, NEW w \in Map, NEW i \in Id, Renews(w, i)
  PROVE  Abstract!Next
<1> DEFINE e == Empty(TypeOf(w))
<1>1. /\ None \notin Id /\ ~Used(map, i) /\ map' = [map EXCEPT ![w] = i] /\ map[w] # None
      /\ mem' = Collect([mem EXCEPT ![i] = e], map')
  BY MapAssumption DEF Renews
<1>2. stored[w] = mem[map[w]] /\ stored[w] # None /\ stored[w] \in GoMap
  BY <1>1, StoredIs
<1>3. e = [stored[w] EXCEPT !.val = [k \in Key |-> Absent]]
  BY <1>2 DEF Empty, TypeOf, GoMap
<1> HIDE DEF e
<1>4. mem'[i] = e
  <2>1. Used(map', i)
    BY <1>1 DEF Used, MapsTyped
  <2> QED BY <1>1, <2>1 DEF Collect, GoMapsTyped
<1>5. ASSUME NEW x \in Map, x # w, map[x] # None PROVE mem'[map[x]] = mem[map[x]]
  <2>1. Used(map', map[x]) /\ map[x] \in Id /\ map[x] # i
    BY <1>1, <1>5 DEF Used, MapsTyped
  <2> QED BY <1>1, <2>1 DEF Collect, GoMapsTyped
<1>6. stored' = [stored EXCEPT ![w] = e]
  <2>1. \A x \in Map : x # w /\ map[x] # None => mem'[map[x]] = mem[map[x]]
    BY <1>5
  <2>2. ~Used(map, i) /\ map' = [map EXCEPT ![w] = i] /\ None \notin Id
    BY <1>1
  <2> QED BY <1>4, <2>1, <2>2, FreshChanges
<1>7. stored' = [stored EXCEPT ![w].val =
                   [k \in Key |-> IF k \in Key THEN Absent ELSE stored[w].val[k]]]
  BY <1>3, <1>6
<1>8. Abstract!Drop(w, Key)
  BY <1>7 DEF Abstract!Drop, Abstract!Change, stored
<1>9. Abstract!Update(w)
  BY <1>8 DEF Abstract!Update
<1> QED BY <1>1, <1>9, UpdateRefines

LEMMA StepRefines ==
  ASSUME MapInv, Host = {}, [Next]_vars
  PROVE  Abstract!Next \/ stored' = stored
<1>1. Shape /\ Placed /\ SharedOnlyByHosts /\ GoMapsTyped /\ MapsTyped
  BY ShapeParts DEF MapInv
<1>2. Moves
  BY <1>1, NextMoves
<1>3. CASE Stays
  BY <1>3 DEF Stays, stored
<1>4. ASSUME NEW w \in Map, NEW k \in Key, NEW e \in Stored, Puts(w, k, e) PROVE Abstract!Next
  BY <1>1, <1>4, PutsRefine
<1>5. ASSUME NEW i \in Id, NEW keys \in SUBSET Key, Drops(i, keys)
      PROVE  Abstract!Next \/ stored' = stored
  BY <1>1, <1>5, DropsRefine
<1>6. ASSUME NEW w \in Map, NEW x \in Map, Merges(w, x) PROVE Abstract!Next
  BY <1>1, <1>6, MergesRefine
<1>7. ASSUME NEW w \in Map, NEW i \in Id, NEW m \in Made, Makes(w, i, m) PROVE Abstract!Next
  BY <1>1, <1>7, MakesRefine
<1>8. ASSUME NEW w \in Map, NEW i \in Id, Renews(w, i) PROVE Abstract!Next
  BY <1>1, <1>8, RenewsRefine
<1> QED BY <1>2, <1>3, <1>4, <1>5, <1>6, <1>7, <1>8 DEF Moves

(* Without maps of the host (types.go has no other way to share one), the  *)
(* maps of a template are maps of its own: a call, through whatever view,  *)
(* iterator or entry it is made, changes the one map it is about, at most, *)
(* and changes it as Maps says.                                            *)
THEOREM MapsAreMaps ==
  ASSUME Host = {}
  PROVE  Spec => Implements
<1>1. Init => MapInv
  BY InitMapInv
<1>2. MapInv /\ [Next]_vars => MapInv'
  BY NextMapInv
<1>3. Init => Abstract!Init
  BY DEF Init, Abstract!Init
<1>4. MapInv /\ [Next]_vars => [Abstract!Next]_stored
  BY StepRefines
<1> QED BY <1>1, <1>2, <1>3, <1>4, PTL DEF Spec, Implements, Abstract!Spec, stored
=============================================================================
