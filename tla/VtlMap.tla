------------------------------- MODULE VtlMap -------------------------------
(***************************************************************************)
(* Map of types.go with its views, entries and the MapIterator.            *)
(*                                                                         *)
(* A *Map refers to a Go map.  Views, entries and other *Map made for the  *)
(* same map of the host refer to it too, and Clear makes its *Map alone    *)
(* refer to a new one.  An iterator keeps the Go map it was made for and   *)
(* the keys it had then.                                                   *)
(*                                                                         *)
(* Keys are strings, known by their place in the sorted order.  A number   *)
(* given for a key becomes a string in one of two ways: Put, ContainsKey   *)
(* and Remove convert it, which yields the character of that code, and Get *)
(* prints it.                                                              *)
(***************************************************************************)
EXTENDS Integers, FiniteSets, Sequences

CONSTANTS
  Map,       \* the *Map a template can name
  Host,      \* the maps in the host's data, Go maps 1, 2, ...
  Key,       \* the strings, as numbers
  Number,    \* the numbers given for keys
  Rune,      \* Rune[n]: the string that converting n gives
  Printed,   \* Printed[n]: the string that printing n gives
  Value, Nil,
  Type,      \* element types
  Fail, Conv,\* convertType: Conv[t][v] is v as a t, or Fail
  Fits,      \* Fits[t]: the element types whose values are converted to t
  Made,      \* what map literals give: type and values by key
  None,      \* not made yet
  Absent,    \* no entry
  Hosts0,    \* the host's maps
  Walked,    \* the views iterators are made for
  MaxWalks   \* bound: iterators made one after another

Id     == 1 .. Len(Hosts0) + Cardinality(Map) + 2
Stored == Value \cup {Nil}
View   == {"keys", "values", "entries"}
GoMap  == [type : Type, val : [Key -> Stored \cup {Absent}]]

Typed(m) == \A k \in Key : m.val[k] # Absent => Conv[m.type][m.val[k]] = m.val[k]

(* A value that has been converted is not converted any further, and of    *)
(* two types either every value is converted or none.                      *)
ASSUME MapAssumption ==
  /\ Key \subseteq Nat /\ IsFiniteSet(Key) /\ Number \cap Key = {}
  /\ Rune \in [Number -> Key] /\ Printed \in [Number -> Key]
  /\ Fail \notin Stored /\ Absent \notin Stored /\ Nil \notin Value
  /\ Type # {} /\ Conv \in [Type -> [Stored -> Stored \cup {Fail}]]
  /\ \A t \in Type, v \in Stored : Conv[t][v] # Fail => Conv[t][Conv[t][v]] = Conv[t][v]
  /\ Fits \in [Type -> SUBSET Type]
  /\ \A t \in Type, v \in Stored : \A u \in Fits[t] : Conv[u][v] = v => Conv[t][v] # Fail
  /\ Walked \subseteq View /\ MaxWalks \in Nat
  /\ Made \subseteq GoMap /\ Hosts0 \in Seq(GoMap) /\ Host = DOMAIN Hosts0
  /\ \A m \in Made : Typed(m)
  /\ \A h \in Host : Typed(Hosts0[h])
  /\ IsFiniteSet(Map) /\ None \notin Id /\ None \notin GoMap

VARIABLES
  mem,      \* the Go maps
  map,      \* the Go map every *Map refers to
  it,       \* a MapIterator: *Map and view it was made for, Go map, keys, i, last
  walks,    \* how many there have been
  entry,    \* the *MapEntry returned last
  panicked  \* a call has panicked, and the program with it

vars == <<mem, map, it, walks, entry, panicked>>
-----------------------------------------------------------------------------
(* The two ways of turning a key into a string.                            *)
PutKey(k) == IF k \in Key THEN k ELSE Rune[k]
GetKey(k) == IF k \in Key THEN k ELSE Printed[k]

Is(w)     == ~panicked /\ map[w] # None
Val(w)    == mem[map[w]].val
TypeOf(w) == mem[map[w]].type
Keys(val) == {k \in Key : val[k] # Absent}

Get(w, k)         == Val(w)[GetKey(k)]
ContainsKey(w, k) == Val(w)[PutKey(k)] # Absent
IsNil(v)          == v \in {Nil, Absent}

Empty(t)  == [type |-> t, val |-> [k \in Key |-> Absent]]
SomeType  == CHOOSE t \in Type : TRUE
Used(maps, i) == \/ i \in Host \/ (\E w \in Map : maps[w] = i)
                 \/ it # None /\ it.m = i
FreeId    == CHOOSE i \in Id : ~Used(map, i)

(* Go maps nothing refers to any more are as good as empty.                *)
Collect(ms, maps) == [i \in Id |-> IF Used(maps, i) THEN ms[i] ELSE Empty(SomeType)]

Others    == UNCHANGED <<it, walks, panicked>>
Unchanged == UNCHANGED <<mem, map, entry>> /\ Others
Store(w, k, v) == mem' = [mem EXCEPT ![map[w]].val[k] = v] /\ UNCHANGED <<map, entry>>
Drop(i, keys)  ==
  mem' = [mem EXCEPT ![i].val = [k \in Key |-> IF k \in keys THEN Absent ELSE @[k]]]
-----------------------------------------------------------------------------
New(w) ==
  /\ map[w] = None /\ ~panicked
  /\ \E m \in Made : mem' = [mem EXCEPT ![FreeId] = m]
  /\ map' = [map EXCEPT ![w] = FreeId]
  /\ Others /\ UNCHANGED entry

Wrap(w, h) ==
  /\ map[w] = None /\ ~panicked
  /\ map' = [map EXCEPT ![w] = h]
  /\ Others /\ UNCHANGED <<mem, entry>>

\* Mutant: the value is stored as it came.
PutUnconverted(w, k, v) ==
  Is(w) /\ Store(w, PutKey(k), v) /\ Others

Put(w, k, v) ==
  LET e == Conv[TypeOf(w)][v]
  IN Is(w) /\ IF e = Fail THEN Unchanged ELSE Store(w, PutKey(k), e) /\ Others

(* Both drop the error of the Put they make.                               *)
PutUnchecked(w, k, v) ==
  LET e == Conv[TypeOf(w)][v]
  IN IF e = Fail THEN Unchanged ELSE Store(w, PutKey(k), e) /\ Others

PutIfAbsent(w, k, v) ==
  Is(w) /\ IF IsNil(Get(w, k)) THEN PutUnchecked(w, k, v) ELSE Unchanged

Replace(w, k, v) ==
  Is(w) /\ IF IsNil(Get(w, k)) THEN Unchanged ELSE PutUnchecked(w, k, v)

(* Mutant: an empty map takes over the other one. *)
PutAllShared(w, x) ==
  /\ Is(w) /\ Is(x)
  /\ IF Keys(Val(w)) = {} /\ TypeOf(w) = TypeOf(x)
     THEN /\ map' = [map EXCEPT ![w] = map[x]] /\ mem' = Collect(mem, map')
          /\ Others /\ UNCHANGED entry
     ELSE Unchanged

(* What decides whether a value is converted is the element type of the    *)
(* other map and not the value, so that the first entry fails or none.     *)
PutAll(w, x) ==
  /\ Is(w) /\ Is(x)
  /\ IF Keys(Val(x)) # {} /\ TypeOf(x) \notin Fits[TypeOf(w)]
     THEN Unchanged
     ELSE /\ mem' = [mem EXCEPT ![map[w]].val =
                       [k \in Key |-> IF Val(x)[k] # Absent
                                      THEN Conv[TypeOf(w)][Val(x)[k]] ELSE @[k]]]
          /\ Others /\ UNCHANGED <<map, entry>>

Remove(w, k) ==
  Is(w) /\ Drop(map[w], {PutKey(k)}) /\ Others /\ UNCHANGED <<map, entry>>

Clear(w) ==
  /\ Is(w)
  /\ map' = [map EXCEPT ![w] = FreeId]
  /\ mem' = Collect([mem EXCEPT ![FreeId] = Empty(TypeOf(w))], map')
  /\ Others /\ UNCHANGED entry
-----------------------------------------------------------------------------
(* Views.  Remove of a value takes one entry that has it, Remove of an     *)
(* entry the one that still is as the entry says.                          *)
KeyViewRemove(w, k) ==
  Is(w) /\ IF ContainsKey(w, k) THEN Remove(w, k) ELSE Unchanged

ValViewRemove(w, v) ==
  /\ Is(w)
  /\ \/ \E k \in Keys(Val(w)) :
          Val(w)[k] = v /\ Drop(map[w], {k}) /\ Others /\ UNCHANGED <<map, entry>>
     \/ (\A k \in Key : Val(w)[k] # v) /\ Unchanged

EntryViewRemove(w) ==
  /\ Is(w) /\ entry # None
  /\ IF Val(w)[entry.k] # Absent /\ Val(w)[entry.k] = entry.v
     THEN Drop(map[w], {entry.k}) /\ Others /\ UNCHANGED <<map, entry>>
     ELSE Unchanged

(* RemoveAll and RetainAll of a view: those of its items that are, or are  *)
(* not, among the elements of a slice.                                     *)
Item(view, k, v) == CASE view = "keys" -> k [] view = "values" -> v
                      [] view = "entries" -> <<k, v>>

FilterView(w, view) ==
  /\ Is(w)
  /\ LET item(k) == Item(view, k, Val(w)[k])
     IN \E some \in SUBSET {item(k) : k \in Keys(Val(w))} :
          Drop(map[w], {k \in Keys(Val(w)) : item(k) \in some})
  /\ Others /\ UNCHANGED <<map, entry>>
-----------------------------------------------------------------------------
(* The keys are taken once, in sorted order.                               *)
SortedKeys(val) ==
  CHOOSE s \in [1 .. Cardinality(Keys(val)) -> Keys(val)] :
    \A i, j \in DOMAIN s : i < j => s[i] < s[j]

HasNext == it.i < Len(it.keys)

Iterator(w, view) ==
  /\ Is(w) /\ walks < MaxWalks
  /\ it' = [w |-> w, view |-> view, m |-> map[w], keys |-> SortedKeys(Val(w)),
            i |-> 0, last |-> 0]
  /\ walks' = walks + 1
  /\ UNCHANGED <<mem, map, entry, panicked>>

(* An entry is made with the value of a key that may be gone.              *)
NextElement ==
  /\ it # None /\ ~panicked /\ HasNext
  /\ it' = [it EXCEPT !.i = @ + 1, !.last = it.i + 1]
  /\ LET k == it.keys[it.i + 1]
         v == mem[it.m].val[k]
     IN IF it.view # "entries" THEN UNCHANGED <<entry, panicked>>
        ELSE IF v = Absent THEN panicked' = TRUE /\ UNCHANGED entry
        ELSE entry' = [k |-> k, v |-> v, w |-> it.w] /\ UNCHANGED panicked
  /\ UNCHANGED <<mem, map, walks>>

(* Mutant: the iterator follows its *Map. *)
IterRemoveLive ==
  /\ it # None /\ ~panicked
  /\ IF it.last = 0 THEN Unchanged
     ELSE /\ Drop(map[it.w], {it.keys[it.i]})
          /\ it' = [it EXCEPT !.last = 0]
          /\ UNCHANGED <<map, walks, entry, panicked>>

IterRemove ==
  /\ it # None /\ ~panicked
  /\ IF it.last = 0 THEN Unchanged
     ELSE /\ Drop(it.m, {it.keys[it.i]})
          /\ it' = [it EXCEPT !.last = 0]
          /\ UNCHANGED <<map, walks, entry, panicked>>

(* SetValue puts the value into the map its *Map then refers to, and keeps *)
(* the one that was there.                                                 *)
SetValue(v) ==
  /\ entry # None /\ ~panicked
  /\ LET e == Conv[TypeOf(entry.w)][v]
         was == Val(entry.w)[entry.k]
     IN IF e = Fail THEN Unchanged
        ELSE /\ mem' = [mem EXCEPT ![map[entry.w]].val[entry.k] = e]
             /\ entry' = [entry EXCEPT !.v = IF was = Absent THEN Nil ELSE was]
             /\ Others /\ UNCHANGED map
-----------------------------------------------------------------------------
Init ==
  /\ mem = [i \in Id |-> IF i \in Host THEN Hosts0[i] ELSE Empty(SomeType)]
  /\ map = [w \in Map |-> None]
  /\ it = None /\ walks = 0 /\ entry = None /\ panicked = FALSE

Next ==
  \/ \E w \in Map : New(w) \/ Clear(w) \/ EntryViewRemove(w)
  \/ \E w \in Map, h \in Host : Wrap(w, h)
  \/ \E w, x \in Map : PutAll(w, x)
  \/ \E w \in Map, view \in View : FilterView(w, view)
  \/ \E w \in Map, view \in Walked : Iterator(w, view)
  \/ \E w \in Map, k \in Key \cup Number : Remove(w, k) \/ KeyViewRemove(w, k)
  \/ \E w \in Map, v \in Value : ValViewRemove(w, v)
  \/ \E w \in Map, k \in Key \cup Number, v \in Value :
       Put(w, k, v) \/ PutIfAbsent(w, k, v) \/ Replace(w, k, v)
  \/ \E v \in Value : SetValue(v)
  \/ NextElement \/ IterRemove

Spec == Init /\ [][Next]_vars
-----------------------------------------------------------------------------
(* Types: no Go map holds a value that is not of its element type.         *)
TypeOK ==
  /\ mem \in [Id -> GoMap]
  /\ \A i \in Id : Typed(mem[i])
  /\ map \in [Map -> Id \cup {None}]
  /\ it = None \/ (it.m \in Id /\ it.last \in {0, it.i} /\ it.i \in 0 .. Len(it.keys))
  /\ entry \in [k : Key, v : Stored, w : Map] \cup {None}
  /\ panicked \in BOOLEAN /\ walks \in 0 .. MaxWalks

(* Two *Map refer to one Go map only where it is the host's: what a        *)
(* template makes is its own, whatever is cleared or put into it.          *)
SharedOnlyByHosts ==
  \A w, x \in Map : w # x /\ map[w] # None /\ map[w] = map[x] => map[w] \in Host

(* Removing through an iterator takes nothing from a map that was cleared  *)
(* after the iterator was made: what was put there later stays.            *)
RemovesOnlyWalked ==
  [][IterRemove => \A w \in Map : map[w] # None /\ map[w] # it.m => Val(w)' = Val(w)]_vars

(* Without the host's maps a *Map is a map of its own, through its views,  *)
(* iterators and entries too.                                              *)
Abstract ==
  INSTANCE Maps WITH
    Value <- Stored,
    store <- [w \in Map |-> IF map[w] = None THEN None ELSE mem[map[w]]]
Implements == Abstract!Spec
=============================================================================
