------------------------------ MODULE VtlSlice ------------------------------
(***************************************************************************)
(* Slice of types.go and the CollectionIterator over it.                   *)
(*                                                                         *)
(* A *Slice holds a Go slice: a window of len elements on a backing array  *)
(* whose length is its capacity.  Removing moves elements within the       *)
(* array, adding writes behind the window or moves to a new array when     *)
(* there is no room.  A slice in the host's data is a window of its own,   *)
(* which every access wraps in a new *Slice: wrapper and host then share   *)
(* the array but not the window.                                           *)
(***************************************************************************)
EXTENDS Integers, FiniteSets, Sequences

CONSTANTS
  Obj,       \* the *Slice a template can name
  None,      \* not made yet
  Host,      \* the slices in the host's data
  Value,     \* elements
  Type,      \* element types
  Fail,      \* no value
  Conv,      \* convertType: Conv[t][v] is v as a t, or Fail
  Made,      \* what literals and the ToArray of maps and ranges give
  Arrays0,   \* the host's arrays and
  Windows0,  \* the windows on them
  Walked,    \* the *Slice iterators are made for
  Spare,     \* how much more room than needed a new array may have
  MaxLen,    \* bound: longest window
  MaxArray   \* DefaultMaxArrayRenderSize

Arr == 0 .. Cardinality(Obj) + Len(Arrays0) + 1   \* 0: the array of a nil slice
Window == [arr : Arr, len : 0 .. MaxLen, type : Type]

Elems(hp, w) == SubSeq(hp[w.arr], 1, w.len)
Cap(hp, w)   == Len(hp[w.arr])

(* A window never reaches behind its array, and shows no value that is not *)
(* of its element type; the elements of one array all have one type.       *)
Shows(hp, w) ==
  w.len <= Cap(hp, w) /\ \A k \in 1 .. w.len : Conv[w.type][hp[w.arr][k]] = hp[w.arr][k]
Alike(w, v) == w.arr = v.arr /\ w.arr # 0 => w.type = v.type

ASSUME SliceAssumption ==
  /\ IsFiniteSet(Obj) /\ Walked \subseteq Obj
  /\ {Spare, MaxLen, MaxArray} \subseteq Nat
  /\ Fail \notin Value
  /\ None \notin Window /\ None \notin [s : Obj, i : 0 .. MaxLen, last : 0 .. MaxLen]
  /\ None \notin [type : Type, elems : Seq(Value)]
  /\ Conv \in [Type -> [Value -> Value \cup {Fail}]]
  /\ \A t \in Type, v \in Value : LET w == Conv[t][v] IN w # Fail => Conv[t][w] = w
  /\ \A m \in Made : /\ m \in [type : Type, elems : Seq(Value)] /\ Len(m.elems) <= MaxLen
                     /\ \A k \in DOMAIN m.elems : Conv[m.type][m.elems[k]] = m.elems[k]
  /\ Arrays0 \in Seq(Seq(Value))
  /\ \A h \in Host : /\ Windows0[h] \in Window /\ Windows0[h].arr \in DOMAIN Arrays0
                     /\ Shows(Arrays0, Windows0[h])
                     /\ \A g \in Host : Alike(Windows0[h], Windows0[g])

VARIABLES
  heap,   \* the elements of every backing array
  obj,    \* the window of every *Slice
  it,     \* a CollectionIterator: its slice, i and last
  walk,   \* what it has gone through: the elements when it was made, those
          \* returned, those kept, and whether only it has changed the slice
  ret     \* the result of the last call

vars == <<heap, obj, it, walk, ret>>
-----------------------------------------------------------------------------
List(o) == Elems(heap, obj[o])

(* Contains looks for an element that is deeply equal: no number is        *)
(* converted, so an int64 of a template never equals an int of the host.   *)
Contains(hp, w, v) == \E k \in 1 .. w.len : hp[w.arr][k] = v

(* Arrays nothing refers to any more are as good as empty.                 *)
Refers(objs, a) == \/ \E o \in Obj : objs[o] # None /\ objs[o].arr = a
                   \/ \E h \in Host : Windows0[h].arr = a
Collect(hp, objs) == [a \in Arr |-> IF Refers(objs, a) THEN hp[a] ELSE <<>>]
FreeArr == CHOOSE a \in Arr \ {0} : ~Refers(obj, a)

Changed(hp, objs) ==
  /\ heap' = Collect(hp, objs)
  /\ obj' = objs

(* What a call means for the iterator when it is not the iterator's own.   *)
NoWalk == [of |-> <<>>, got |-> <<>>, kept |-> <<>>, clean |-> FALSE]

Overtaken ==
  /\ UNCHANGED it
  /\ walk' = IF it # None /\ Elems(heap', obj'[it.s]) # List(it.s)
             THEN NoWalk ELSE walk

Becomes(o, hp, w, r) == Changed(hp, [obj EXCEPT ![o] = w]) /\ Overtaken /\ ret' = r
Refuse == UNCHANGED <<heap, obj, it, walk>> /\ ret' = "error"
-----------------------------------------------------------------------------
(* A new *Slice: on an array of its own, for a literal, the array of a     *)
(* range or a view, and ToArray of a slice; or on the host's array.        *)
Fill(n) == [k \in 1 .. n |-> CHOOSE v \in Value : TRUE]

NewOn(o, type, elems) ==
  Becomes(o, [heap EXCEPT ![FreeArr] = elems],
          [arr |-> FreeArr, len |-> Len(elems), type |-> type], "changed")

New(o) == obj[o] = None /\ \E m \in Made : NewOn(o, m.type, m.elems)

\* Mutant: the new slice is a second window on the array.
ToArrayShared(o, n) == obj[o] # None /\ obj[n] = None /\ Becomes(n, heap, obj[o], "changed")

ToArray(o, n) == obj[o] # None /\ obj[n] = None /\ NewOn(n, obj[o].type, List(o))

Wrap(o, h) == obj[o] = None /\ Becomes(o, heap, Windows0[h], "changed")

(***************************************************************************)
(* Add and AddAll.  The window is extended in a copy s that becomes the    *)
(* slice's at the end: in place while there is room, in memory of its own  *)
(* afterwards.  AddAll reads its operand element by element meanwhile, and *)
(* stops at an element that does not convert.                              *)
(***************************************************************************)
Extend(s, w, v) ==
  LET n == Len(s.elems)
      e == Conv[w.type][v]
  IN IF s.failed \/ e = Fail THEN [s EXCEPT !.failed = TRUE]
     ELSE [s EXCEPT !.elems = Append(@, e),
                    !.heap  = IF n < Cap(@, w) THEN [@ EXCEPT ![w.arr][n + 1] = e] ELSE @]

Extended(o, s) ==
  LET n == Len(s.elems)
  IN IF s.failed
     THEN heap' = Collect(s.heap, obj) /\ UNCHANGED obj /\ Overtaken /\ ret' = "error"
     ELSE IF n <= Cap(heap, obj[o])
     THEN Becomes(o, s.heap, [obj[o] EXCEPT !.len = n], "changed")
     ELSE \E room \in 0 .. Spare :
            Becomes(o, [s.heap EXCEPT ![FreeArr] = s.elems \o Fill(room)],
                    [obj[o] EXCEPT !.arr = FreeArr, !.len = n], "changed")

Copied(o) == [heap |-> heap, elems |-> List(o), failed |-> FALSE]

Add(o, v) ==
  /\ obj[o] # None /\ obj[o].len < MaxLen
  /\ Extended(o, Extend(Copied(o), obj[o], v))

\* The first n elements of an array, each as it is when it is its turn.
ReadTo(n, s, w, arr) ==
  LET Read(t, k) == Extend(t, w, t.heap[arr][k])
      after[k \in 0 .. n] == IF k = 0 THEN s ELSE Read(after[k - 1], k)
  IN after[n]

(* Mutant: the operand's elements are appended as they are. *)
AddAllUnconverted(o, c) ==
  /\ obj[o] # None /\ obj[c] # None /\ obj[o].len + obj[c].len <= MaxLen
  /\ Extended(o, [Copied(o) EXCEPT !.elems = @ \o List(c)])

AddAll(o, c) ==
  /\ obj[o] # None /\ obj[c] # None /\ obj[o].len + obj[c].len <= MaxLen
  /\ IF obj[c].len > MaxArray THEN Refuse
     ELSE Extended(o, ReadTo(obj[c].len, Copied(o), obj[o], obj[c].arr))

(* Clear drops the array. *)
Clear(o) == obj[o] # None /\ Becomes(o, heap, [obj[o] EXCEPT !.arr = 0, !.len = 0], "changed")

Set(o, i, v) ==
  /\ obj[o] # None
  /\ IF i \in 0 .. obj[o].len - 1 /\ Conv[obj[o].type][v] # Fail
     THEN Becomes(o, [heap EXCEPT ![obj[o].arr][i + 1] = Conv[obj[o].type][v]], obj[o], "changed")
     ELSE Refuse
-----------------------------------------------------------------------------
\* Mutant: the last element is not moved.
DeleteShort(hp, a, n, k) ==
  [hp EXCEPT ![a] = [j \in DOMAIN @ |-> IF k <= j /\ j + 1 < n THEN @[j + 1] ELSE @[j]]]

(* Delete moves the elements after the k-th of a window of n down by one.  *)
Delete(hp, a, n, k) ==
  [hp EXCEPT ![a] = [j \in DOMAIN @ |-> IF k <= j /\ j < n THEN @[j + 1] ELSE @[j]]]

CutAt(o, k, r) ==
  Changed(Delete(heap, obj[o].arr, obj[o].len, k), [obj EXCEPT ![o].len = @ - 1]) /\ ret' = r

FirstAt(hp, w, v) ==
  CHOOSE k \in 1 .. w.len : hp[w.arr][k] = v /\ \A j \in 1 .. k - 1 : hp[w.arr][j] # v

Remove(o, v) ==
  /\ obj[o] # None
  /\ IF Contains(heap, obj[o], v)
     THEN CutAt(o, FirstAt(heap, obj[o], v), "changed") /\ Overtaken
     ELSE UNCHANGED <<heap, obj, it, walk>> /\ ret' = "same"

(***************************************************************************)
(* removeAll and retainAll: an iterator goes over the slice and removes    *)
(* through it, asking an operand that may be the slice itself, or share    *)
(* its array, for each element as it then is.                              *)
(***************************************************************************)
Strained(s, o, c, drop) ==
  LET arr == obj[o].arr
      w   == IF c = o THEN [obj[o] EXCEPT !.len = s.len] ELSE obj[c]
  IN IF s.i >= s.len THEN s
     ELSE IF Contains(s.heap, w, s.heap[arr][s.i + 1]) = drop
     THEN [s EXCEPT !.heap = Delete(@, arr, s.len, s.i + 1), !.len = @ - 1]
     ELSE [s EXCEPT !.i = @ + 1]

StrainedTo(n, s, o, c, drop) ==
  LET after[k \in 0 .. n] == IF k = 0 THEN s ELSE Strained(after[k - 1], o, c, drop)
  IN after[n]

Filter(o, c, drop) ==
  LET all == [heap |-> heap, len |-> obj[o].len, i |-> 0]
      end == StrainedTo(obj[o].len, all, o, c, drop)
  IN Becomes(o, end.heap, [obj[o] EXCEPT !.len = end.len],
             IF end.len = obj[o].len THEN "same" ELSE "changed")

RemoveAll(o, c) == obj[o] # None /\ obj[c] # None /\ Filter(o, c, TRUE)
RetainAll(o, c) == obj[o] # None /\ obj[c] # None /\ Filter(o, c, FALSE)
-----------------------------------------------------------------------------
(* The iterator.                                                           *)
HasNext == it.i < obj[it.s].len

Iterator(o) ==
  /\ obj[o] # None /\ (it # None => ~HasNext)
  /\ it' = [s |-> o, i |-> 0, last |-> 0]
  /\ walk' = [of |-> List(o), got |-> <<>>, kept |-> <<>>, clean |-> TRUE]
  /\ ret' = "same" /\ UNCHANGED <<heap, obj>>

NextElement ==
  /\ it # None /\ HasNext
  /\ it' = [it EXCEPT !.i = @ + 1, !.last = it.i + 1]
  /\ LET e == List(it.s)[it.i + 1]
     IN walk' = IF walk.clean
                THEN [walk EXCEPT !.got = Append(@, e), !.kept = Append(@, e)] ELSE walk
  /\ ret' = "same" /\ UNCHANGED <<heap, obj>>

\* Mutant: the index stays where it was.
IterRemoveAhead ==
  /\ it # None
  /\ IF it.last = 0 \/ it.i - 1 >= obj[it.s].len THEN Refuse
     ELSE /\ CutAt(it.s, it.i, "changed")
          /\ it' = [it EXCEPT !.last = 0]
          /\ walk' = IF walk.clean THEN [walk EXCEPT !.kept = SubSeq(@, 1, Len(@) - 1)] ELSE walk

IterRemove ==
  /\ it # None
  /\ IF it.last = 0 \/ it.i - 1 >= obj[it.s].len THEN Refuse
     ELSE /\ CutAt(it.s, it.i, "changed")
          /\ it' = [it EXCEPT !.i = @ - 1, !.last = 0]
          /\ walk' = IF walk.clean THEN [walk EXCEPT !.kept = SubSeq(@, 1, Len(@) - 1)] ELSE walk
-----------------------------------------------------------------------------
Init ==
  /\ heap = [a \in Arr |-> IF a \in DOMAIN Arrays0 THEN Arrays0[a] ELSE <<>>]
  /\ obj = [o \in Obj |-> None]
  /\ it = None /\ walk = NoWalk
  /\ ret = "same"

Next ==
  \/ \E o \in Obj : New(o) \/ Clear(o)
  \/ \E o \in Walked : Iterator(o)
  \/ \E o \in Obj, h \in Host : Wrap(o, h)
  \/ \E o, c \in Obj : ToArray(o, c) \/ AddAll(o, c) \/ RemoveAll(o, c) \/ RetainAll(o, c)
  \/ \E o \in Obj, v \in Value : Add(o, v) \/ Remove(o, v)
  \/ \E o \in Obj, i \in 0 .. MaxLen, v \in Value : Set(o, i, v)
  \/ NextElement \/ IterRemove

Spec == Init /\ [][Next]_vars
-----------------------------------------------------------------------------
(* Types: a window never reaches behind its array, and shows no value that *)
(* is not of its element type.                                             *)
TypeOK ==
  /\ heap \in [Arr -> Seq(Value)]
  /\ obj \in [Obj -> Window \cup {None}]
  /\ \A o \in Obj : obj[o] # None => Shows(heap, obj[o])
  /\ it \in [s : Obj, i : 0 .. MaxLen, last : 0 .. MaxLen] \cup {None}
  /\ ret \in {"changed", "same", "error"}

(* Two *Slice share an array only where both wrap the host's: whatever a   *)
(* template makes itself, or copies with ToArray, is its own.              *)
SharedOnlyByHosts ==
  \A o, p \in Obj :
    o # p /\ obj[o] # None /\ obj[p] # None /\ obj[o].arr = obj[p].arr =>
      obj[o].arr = 0 \/ \E h \in Host : Windows0[h].arr = obj[o].arr

(* An iterator that alone changes its slice returns every element the      *)
(* slice had when it was made once, in order, and the slice ends up with   *)
(* just those that were not removed.                                       *)
WalkExact ==
  it # None /\ walk.clean =>
    LET rest == SubSeq(List(it.s), it.i + 1, obj[it.s].len)
    IN walk.got \o rest = walk.of /\ List(it.s) = walk.kept \o rest

(* Without the host's arrays a *Slice is a list of its own: in place,      *)
(* moved, extended with itself or filtered by itself.                      *)
Abstract ==
  INSTANCE Lists WITH
    list <- [o \in Obj |-> IF obj[o] = None THEN None
                           ELSE [type |-> obj[o].type, elems |-> List(o)]]
Implements == Abstract!Spec
=============================================================================
