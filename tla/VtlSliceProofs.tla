--------------------------- MODULE VtlSliceProofs ---------------------------
(***************************************************************************)
(* What holds of slices and of the iterator over one, proved for any       *)
(* slices, values and element types, and any arrays of the host.           *)
(*                                                                         *)
(* Every operation either rewrites the elements of its slice's array with  *)
(* elements of its type (Rewrites), whoever else looks at them, or takes   *)
(* an array nobody refers to, of which there is one more than there are    *)
(* slices (FreeArrIsFree).                                                 *)
(***************************************************************************)
EXTENDS VtlSlice, TLAPS, FiniteSetTheorems, WellFoundedInduction, FunctionTheorems, SequenceTheorems

Heap == [Arr -> Seq(Value)]

HostArray(a) == \E h \in Host : Windows0[h].arr = a

(* The memory is in order: every window shows elements of its type, all    *)
(* windows on an array have one type, and slices share arrays only where   *)
(* these are the host's.                                                   *)
InOrder(hp, objs) ==
  /\ hp \in Heap /\ hp[0] = <<>>
  /\ objs \in [Obj -> Window \cup {None}]
  /\ \A o \in Obj : objs[o] # None =>
       Shows(hp, objs[o]) /\ \A h \in Host : Alike(objs[o], Windows0[h])
  /\ \A o, p \in Obj : objs[o] # None /\ objs[p] # None =>
       /\ Alike(objs[o], objs[p])
       /\ o # p /\ objs[o].arr = objs[p].arr => objs[o].arr = 0 \/ HostArray(objs[o].arr)
  /\ \A h \in Host : Shows(hp, Windows0[h])

Iterators == [s : Obj, i : 0 .. MaxLen, last : 0 .. MaxLen]
Walks == [of : Seq(Value), got : Seq(Value), kept : Seq(Value), clean : BOOLEAN]

(* Where an iterator is, and what it has gone through, if it was alone.    *)
Walking ==
  /\ it \in Iterators \cup {None} /\ walk \in Walks
  /\ it # None => obj[it.s] # None /\ it.last \in {0, it.i}
  /\ it # None /\ walk.clean => Len(walk.kept) = it.i /\ it.i <= obj[it.s].len

SliceInv == InOrder(heap, obj) /\ Walking /\ WalkExact /\ ret \in {"changed", "same", "error"}
-----------------------------------------------------------------------------
LEMMA ArrIs ==
  /\ Cardinality(Obj) \in Nat /\ Len(Arrays0) \in Nat /\ DOMAIN Arrays0 = 1 .. Len(Arrays0)
  /\ Arr \subseteq Nat /\ 0 \in Arr /\ DOMAIN Arrays0 \subseteq Arr
<1>1. Cardinality(Obj) \in Nat /\ Len(Arrays0) \in Nat /\ DOMAIN Arrays0 = 1 .. Len(Arrays0)
  BY SliceAssumption, FS_CardinalityType
<1> QED BY <1>1 DEF Arr

LEMMA HostsAre ==
  ASSUME NEW h \in Host
  PROVE  /\ Windows0[h] \in Window /\ Windows0[h].arr \in DOMAIN Arrays0
         /\ Windows0[h].arr # 0 /\ Windows0[h].arr \in Arr
         /\ Shows(Arrays0, Windows0[h])
         /\ \A g \in Host : Alike(Windows0[h], Windows0[g])
<1>1. /\ Windows0[h] \in Window /\ Windows0[h].arr \in DOMAIN Arrays0
      /\ Shows(Arrays0, Windows0[h])
      /\ \A g \in Host : Alike(Windows0[h], Windows0[g])
  BY SliceAssumption
<1> QED BY <1>1, ArrIs

(* There is an array for every slice and one more.                         *)
LEMMA FreeArrIsFree ==
  FreeArr \in Arr \ {0} /\ ~Refers(obj, FreeArr)
<1> DEFINE n    == Len(Arrays0)
           c    == Cardinality(Obj)
           held == {obj[o].arr : o \in Obj}
           new  == (n + 1) .. (n + c + 1)
<1>1. n \in Nat /\ c \in Nat /\ \A h \in Host : Windows0[h].arr \in 1 .. n
  BY ArrIs, HostsAre
<1>2. IsFiniteSet(held) /\ Cardinality(held) <= c
  <2> DEFINE f == [o \in Obj |-> obj[o].arr]
  <2>1. f \in Surjection(Obj, held)
    BY DEF Surjection
  <2>2. IsFiniteSet(Obj)
    BY SliceAssumption
  <2> HIDE DEF held, f
  <2> QED BY <2>1, <2>2, FS_Surjection
<1>3. \A a : Refers(obj, a) => a \in held \/ a \in 1 .. n
  BY <1>1 DEF Refers
<1>4. new \subseteq Arr \ {0} /\ \A a \in new : a \notin 1 .. n
  BY <1>1 DEF Arr
<1> HIDE DEF held, n, c
<1>5. IsFiniteSet(new) /\ Cardinality(new) = c + 1
  <2>1. n + 1 \in Int /\ n + c + 1 \in Int
    BY <1>1
  <2>2. /\ IsFiniteSet(new)
        /\ Cardinality(new) = IF n + 1 > n + c + 1 THEN 0 ELSE (n + c + 1) - (n + 1) + 1
    BY <2>1, FS_Interval
  <2> QED BY <1>1, <2>2
<1> HIDE DEF new
<1>6. PICK a \in new : a \notin held
  <2>1. SUFFICES ASSUME new \subseteq held PROVE FALSE
    OBVIOUS
  <2>2. Cardinality(new) <= Cardinality(held)
    BY <1>2, <2>1, FS_Subset
  <2>3. Cardinality(held) \in Nat
    BY <1>2, FS_CardinalityType
  <2> QED BY <1>1, <1>2, <1>5, <2>2, <2>3
<1>7. a \in Arr \ {0} /\ ~Refers(obj, a)
  BY <1>3, <1>4, <1>6
<1> QED BY <1>7 DEF FreeArr
-----------------------------------------------------------------------------
(* The elements a window reaches may have become others of its type.       *)
Rewrites(hp2, hp, w) ==
  /\ hp2 \in Heap
  /\ \A a \in Arr : Len(hp2[a]) = Len(hp[a])
  /\ \A a \in Arr : a # w.arr => hp2[a] = hp[a]
  /\ \A k \in 1 .. Len(hp[w.arr]) :
       hp2[w.arr][k] = hp[w.arr][k] \/ Conv[w.type][hp2[w.arr][k]] = hp2[w.arr][k]

LEMMA RewritesShows ==
  ASSUME NEW hp, NEW hp2, NEW w \in Window, NEW v \in Window,
         hp \in Heap, hp[0] = <<>>, Rewrites(hp2, hp, w), Shows(hp, v), Alike(w, v)
  PROVE  Shows(hp2, v)
<1>1. v.arr \in Arr /\ w.arr \in Arr /\ v.len \in Nat /\ hp2[v.arr] \in Seq(Value)
      /\ Len(hp2[v.arr]) = Len(hp[v.arr])
  BY DEF Window, Rewrites, Heap
<1>2. v.len <= Len(hp[v.arr]) /\ Len(hp[v.arr]) \in Nat
  BY <1>1 DEF Shows, Cap, Heap
<1>3. ASSUME NEW k \in 1 .. v.len PROVE Conv[v.type][hp2[v.arr][k]] = hp2[v.arr][k]
  <2>1. Conv[v.type][hp[v.arr][k]] = hp[v.arr][k] /\ k \in 1 .. Len(hp[v.arr])
    BY <1>1, <1>2, <1>3 DEF Shows
  <2>2. CASE v.arr # w.arr
    BY <1>1, <2>1, <2>2 DEF Rewrites
  <2>3. CASE v.arr = w.arr
    <3>1. v.arr # 0
      BY <2>1
    <3>2. v.type = w.type
      BY <2>3, <3>1 DEF Alike
    <3> QED BY <2>1, <2>3, <3>2 DEF Rewrites
  <2> QED BY <2>2, <2>3
<1> QED BY <1>1, <1>2, <1>3 DEF Shows, Cap

LEMMA ElemsAre ==
  ASSUME NEW hp \in Heap, NEW w \in Window, Shows(hp, w)
  PROVE  /\ w.arr \in Arr /\ w.len \in 0 .. MaxLen /\ w.len \in Nat /\ w.type \in Type
         /\ hp[w.arr] \in Seq(Value) /\ Len(hp[w.arr]) \in Nat /\ w.len <= Len(hp[w.arr])
         /\ Elems(hp, w) \in Seq(Value) /\ Len(Elems(hp, w)) = w.len
         /\ \A k \in 1 .. w.len : Elems(hp, w)[k] = hp[w.arr][k] /\ hp[w.arr][k] \in Value
<1>1. w.arr \in Arr /\ w.len \in 0 .. MaxLen /\ w.type \in Type /\ MaxLen \in Nat
  BY SliceAssumption DEF Window
<1>2. hp[w.arr] \in Seq(Value) /\ w.len <= Len(hp[w.arr])
  BY <1>1 DEF Heap, Shows, Cap
<1> QED BY <1>1, <1>2 DEF Elems

(* A slice's elements are rewritten, and its window may change its length. *)
LEMMA RewritesKeep ==
  ASSUME NEW hp, NEW objs, InOrder(hp, objs), NEW o \in Obj, objs[o] # None,
         NEW hp2, Rewrites(hp2, hp, objs[o]),
         NEW w \in Window, w.arr = objs[o].arr, w.type = objs[o].type, Shows(hp2, w)
  PROVE  InOrder(hp2, [objs EXCEPT ![o] = w])
<1> DEFINE v    == objs[o]
           new  == [objs EXCEPT ![o] = w]
<1>1. v \in Window /\ hp \in Heap /\ hp[0] = <<>>
  BY DEF InOrder
<1>2. new \in [Obj -> Window \cup {None}] /\ new[o] = w /\ w # None
  BY SliceAssumption DEF InOrder
<1>3. ASSUME NEW p \in Obj, p # o PROVE new[p] = objs[p]
  BY <1>3 DEF InOrder
<1>4. hp2 \in Heap /\ hp2[0] = <<>>
  <2>1. 0 \in Arr /\ hp2 \in Heap /\ Len(hp2[0]) = Len(hp[0])
    BY ArrIs DEF Rewrites
  <2>2. Len(hp2[0]) = 0 /\ hp2[0] \in Seq(Value)
    BY <1>1, <2>1 DEF Heap
  <2> QED BY <2>1, <2>2
<1>5. ASSUME NEW p \in Obj, new[p] # None
      PROVE  objs[p] # None /\ new[p].arr = objs[p].arr /\ new[p].type = objs[p].type
             /\ new[p] \in Window /\ objs[p] \in Window /\ Shows(hp2, new[p])
  <2>1. CASE p = o
    BY <1>1, <1>2, <2>1
  <2>2. CASE p # o
    <3>1. new[p] = objs[p] /\ objs[p] \in Window /\ Shows(hp, objs[p]) /\ Alike(v, objs[p])
      BY <1>3, <1>5, <2>2 DEF InOrder
    <3>2. Shows(hp2, objs[p])
      BY <1>1, <3>1, RewritesShows
    <3> QED BY <1>5, <3>1, <3>2
  <2> QED BY <2>1, <2>2
<1>6. ASSUME NEW h \in Host PROVE Shows(hp2, Windows0[h])
  <2>1. Shows(hp, Windows0[h]) /\ Windows0[h] \in Window /\ Alike(v, Windows0[h])
    BY HostsAre DEF InOrder
  <2> QED BY <1>1, <2>1, RewritesShows
<1>7. ASSUME NEW p \in Obj, new[p] # None, NEW h \in Host PROVE Alike(new[p], Windows0[h])
  <2>1. Alike(objs[p], Windows0[h])
    BY <1>5, <1>7 DEF InOrder
  <2> QED BY <1>5, <1>7, <2>1 DEF Alike
<1>8. ASSUME NEW p \in Obj, new[p] # None, NEW q \in Obj, new[q] # None
      PROVE  /\ Alike(new[p], new[q])
             /\ p # q /\ new[p].arr = new[q].arr => new[p].arr = 0 \/ HostArray(new[p].arr)
  <2> HIDE DEF new
  <2>1. /\ Alike(objs[p], objs[q])
        /\ p # q /\ objs[p].arr = objs[q].arr => objs[p].arr = 0 \/ HostArray(objs[p].arr)
    BY <1>5, <1>8 DEF InOrder
  <2> QED BY <1>5, <1>8, <2>1 DEF Alike
<1> HIDE DEF new
<1> QED BY <1>2, <1>4, <1>5, <1>6, <1>7, <1>8 DEF InOrder, new

(* A slice gets an array that nobody refers to.                            *)
LEMMA FreshKeeps ==
  ASSUME NEW hp, NEW objs, InOrder(hp, objs), NEW o \in Obj,
         NEW a \in Arr \ {0}, ~Refers(objs, a), NEW elems \in Seq(Value),
         NEW w \in Window, w.arr = a, Shows([hp EXCEPT ![a] = elems], w)
  PROVE  InOrder([hp EXCEPT ![a] = elems], [objs EXCEPT ![o] = w])
<1> DEFINE hp2 == [hp EXCEPT ![a] = elems]
           new == [objs EXCEPT ![o] = w]
<1>1. hp2 \in Heap /\ hp2[0] = <<>> /\ (\A b \in Arr : b # a => hp2[b] = hp[b])
  BY ArrIs DEF InOrder, Heap
<1>2. new \in [Obj -> Window \cup {None}] /\ new[o] = w /\ w # None
  BY SliceAssumption DEF InOrder
<1>3. ASSUME NEW p \in Obj, p # o, new[p] # None
      PROVE  new[p] = objs[p] /\ objs[p] \in Window /\ objs[p].arr # a
  BY <1>3 DEF InOrder, Refers
<1>4. \A h \in Host : Windows0[h] \in Window /\ Windows0[h].arr # a
  BY HostsAre DEF Refers
<1>5. ASSUME NEW v \in Window, v.arr # a, Shows(hp, v) PROVE Shows(hp2, v)
  <2>1. hp2[v.arr] = hp[v.arr]
    BY <1>1, <1>5 DEF Window
  <2> HIDE DEF hp2
  <2> QED BY <1>5, <2>1 DEF Shows, Cap
<1>6. ASSUME NEW p \in Obj, new[p] # None
      PROVE  Shows(hp2, new[p]) /\ \A h \in Host : Alike(new[p], Windows0[h])
  <2>1. CASE p = o
    BY <1>2, <1>4, <2>1 DEF Alike
  <2>2. CASE p # o
    <3>1. new[p] = objs[p] /\ objs[p] \in Window /\ objs[p].arr # a
      BY <1>3, <1>6, <2>2
    <3>2. Shows(hp, objs[p]) /\ \A h \in Host : Alike(objs[p], Windows0[h])
      BY <1>6, <3>1 DEF InOrder
    <3> HIDE DEF new, hp2
    <3> QED BY <1>5, <3>1, <3>2
  <2> QED BY <2>1, <2>2
<1>7. ASSUME NEW p \in Obj, new[p] # None, NEW q \in Obj, new[q] # None
      PROVE  /\ Alike(new[p], new[q])
             /\ p # q /\ new[p].arr = new[q].arr => new[p].arr = 0 \/ HostArray(new[p].arr)
  <2>1. CASE p = o /\ q = o
    BY <2>1 DEF Alike
  <2>2. CASE (p = o /\ q # o) \/ (p # o /\ q = o)
    <3>1. new[p].arr # new[q].arr
      BY <1>2, <1>3, <1>7, <2>2
    <3> HIDE DEF new
    <3> QED BY <3>1 DEF Alike
  <2>3. CASE p # o /\ q # o
    <3>1. new[p] = objs[p] /\ new[q] = objs[q]
      BY <1>3, <1>7, <2>3
    <3> HIDE DEF new
    <3> QED BY <1>7, <3>1 DEF InOrder
  <2> QED BY <2>1, <2>2, <2>3
<1>8. ASSUME NEW h \in Host PROVE Shows(hp2, Windows0[h])
  <2>1. Shows(hp, Windows0[h])
    BY DEF InOrder
  <2> HIDE DEF hp2
  <2> QED BY <1>4, <1>5, <2>1
<1> HIDE DEF new, hp2
<1> QED BY <1>1, <1>2, <1>6, <1>7, <1>8 DEF InOrder, new, hp2

(* A slice becomes a window of the host's, or no window at all.            *)
LEMMA HostsKeep ==
  ASSUME NEW hp, NEW objs, InOrder(hp, objs), NEW o \in Obj, NEW w \in Window,
         Shows(hp, w),
         \/ \E h \in Host : w = Windows0[h]
         \/ w.arr = 0
  PROVE  InOrder(hp, [objs EXCEPT ![o] = w])
<1> DEFINE new == [objs EXCEPT ![o] = w]
<1>1. new \in [Obj -> Window \cup {None}] /\ new[o] = w /\ w # None
  BY SliceAssumption DEF InOrder
<1>2. ASSUME NEW p \in Obj, p # o PROVE new[p] = objs[p]
  BY <1>2 DEF InOrder
<1>3. \A h \in Host : Alike(w, Windows0[h])
  BY HostsAre DEF Alike
<1>4. w.arr = 0 \/ HostArray(w.arr)
  BY DEF HostArray
<1>5. ASSUME NEW p \in Obj, objs[p] # None PROVE Alike(w, objs[p]) /\ Alike(objs[p], w)
  <2>1. \A h \in Host : Alike(objs[p], Windows0[h])
    BY <1>5 DEF InOrder
  <2> QED BY <2>1 DEF Alike
<1>6. Alike(w, w)
  BY DEF Alike
<1> HIDE DEF new
<1>7. \A p \in Obj : new[p] # None =>
        Shows(hp, new[p]) /\ \A h \in Host : Alike(new[p], Windows0[h])
  BY <1>1, <1>2, <1>3 DEF InOrder
<1>8. ASSUME NEW p \in Obj, new[p] # None, NEW q \in Obj, new[q] # None
      PROVE  /\ Alike(new[p], new[q])
             /\ p # q /\ new[p].arr = new[q].arr => new[p].arr = 0 \/ HostArray(new[p].arr)
  <2>1. CASE p = o
    BY <1>1, <1>2, <1>4, <1>5, <1>6, <1>8, <2>1
  <2>2. CASE q = o
    BY <1>1, <1>2, <1>4, <1>5, <1>6, <1>8, <2>2
  <2>3. CASE p # o /\ q # o
    BY <1>2, <1>8, <2>3 DEF InOrder
  <2> QED BY <2>1, <2>2, <2>3
<1>9. hp \in Heap /\ hp[0] = <<>> /\ \A h \in Host : Shows(hp, Windows0[h])
  BY DEF InOrder
<1> QED BY <1>1, <1>7, <1>8, <1>9 DEF InOrder, new

LEMMA CollectKeeps ==
  ASSUME NEW hp, NEW objs, InOrder(hp, objs)
  PROVE  /\ InOrder(Collect(hp, objs), objs)
         /\ \A o \in Obj : objs[o] # None => Elems(Collect(hp, objs), objs[o]) = Elems(hp, objs[o])
<1> DEFINE hp2 == Collect(hp, objs)
<1>1. hp2 \in Heap /\ hp2[0] = <<>>
  BY ArrIs DEF InOrder, Heap, Collect
<1>2. ASSUME NEW v \in Window, Refers(objs, v.arr)
      PROVE  hp2[v.arr] = hp[v.arr] /\ (Shows(hp, v) => Shows(hp2, v))
  <2>1. hp2[v.arr] = hp[v.arr]
    BY <1>2 DEF Collect, Window
  <2> HIDE DEF hp2
  <2> QED BY <2>1 DEF Shows, Cap
<1>3. ASSUME NEW o \in Obj, objs[o] # None
      PROVE  objs[o] \in Window /\ Refers(objs, objs[o].arr)
  BY <1>3 DEF InOrder, Refers
<1>4. \A h \in Host : Windows0[h] \in Window /\ Refers(objs, Windows0[h].arr)
  BY HostsAre DEF Refers
<1> HIDE DEF hp2
<1>5. InOrder(hp2, objs)
  BY <1>1, <1>2, <1>3, <1>4 DEF InOrder
<1>6. \A o \in Obj : objs[o] # None => Elems(hp2, objs[o]) = Elems(hp, objs[o])
  BY <1>2, <1>3 DEF Elems
<1> QED BY <1>5, <1>6 DEF hp2
-----------------------------------------------------------------------------
LEMMA LeastExists ==
  ASSUME NEW S \in SUBSET Nat, S # {}
  PROVE  \E x \in S : \A y \in S : x <= y
<1>1. \E x \in S : \A y \in S : ~(<<y, x>> \in OpToRel(<, Nat))
  BY WFMin, NatLessThanWellFounded
<1>2. PICK x \in S : \A y \in S : ~(<<y, x>> \in OpToRel(<, Nat))
  BY <1>1
<1>3. ASSUME NEW y \in S PROVE x <= y
  <2>1. ~(y < x)
    BY <1>2, <1>3 DEF OpToRel
  <2> QED BY <2>1
<1> QED BY <1>3

(* What a loop holds on to from one turn to the next it holds at its end:  *)
(* S[k] is where it may be after k turns.                                  *)
LEMMA TurnsStay ==
  ASSUME NEW n \in Nat, NEW S, NEW f, f[0] \in S[0],
         \A k \in 1 .. n : f[k - 1] \in S[k - 1] => f[k] \in S[k]
  PROVE  \A k \in 0 .. n : f[k] \in S[k]
<1> DEFINE bad == {k \in 0 .. n : f[k] \notin S[k]}
<1>1. SUFFICES ASSUME bad # {} PROVE FALSE
  OBVIOUS
<1>2. PICK k \in bad : \A j \in bad : k <= j
  <2>1. bad \in SUBSET Nat
    OBVIOUS
  <2> HIDE DEF bad
  <2> QED BY <1>1, <2>1, LeastExists
<1>3. k \in 0 .. n /\ f[k] \notin S[k]
  BY <1>2
<1>4. k # 0
  BY <1>3
<1>5. k \in 1 .. n /\ k - 1 \in 0 .. n /\ k - 1 \notin bad
  BY <1>2, <1>3, <1>4
<1>6. f[k - 1] \in S[k - 1]
  BY <1>5
<1> QED BY <1>3, <1>5, <1>6

(* And a loop that goes on from everywhere it may be has its turns.        *)
Turns(f, m, b, g) == f = [k \in 0 .. m |-> IF k = 0 THEN b ELSE g[k][f[k - 1]]]

GoesOn(n, S, b, g) == b \in S[0] /\ \A k \in 1 .. n : \A x \in S[k - 1] : g[k][x] \in S[k]

LEMMA TurnsExist ==
  ASSUME NEW n \in Nat, NEW S, NEW g, NEW b, GoesOn(n, S, b, g)
  PROVE  \E f : Turns(f, n, b, g) /\ \A k \in 0 .. n : f[k] \in S[k]
<1> DEFINE bad == {m \in 0 .. n : ~ \E f : Turns(f, m, b, g)}
<1>1. bad = {}
  <2>1. SUFFICES ASSUME bad # {} PROVE FALSE
    OBVIOUS
  <2>2. PICK m \in bad : \A j \in bad : m <= j
    <3>1. bad \in SUBSET Nat
      OBVIOUS
    <3> HIDE DEF bad
    <3> QED BY <2>1, <3>1, LeastExists
  <2>3. m \in 0 .. n /\ ~ \E f : Turns(f, m, b, g)
    BY <2>2
  <2>4. m # 0
    <3>1. Turns([k \in 0 .. 0 |-> b], 0, b, g)
      BY DEF Turns
    <3> QED BY <2>3, <3>1
  <2>5. m \in 1 .. n /\ m - 1 \in 0 .. n /\ m - 1 \notin bad
    BY <2>2, <2>3, <2>4
  <2>6. PICK f : Turns(f, m - 1, b, g)
    BY <2>5
  <2> DEFINE h == [k \in 0 .. m |-> IF k = m THEN g[m][f[m - 1]] ELSE f[k]]
  <2>7. ASSUME NEW k \in 0 .. m PROVE h[k] = IF k = 0 THEN b ELSE g[k][h[k - 1]]
    <3>1. CASE k = m
      <4>1. m - 1 \in 0 .. m /\ m - 1 # m
        BY <2>5
      <4> QED BY <2>4, <3>1, <4>1
    <3>2. CASE k # m /\ k # 0
      <4>1. k \in 0 .. m - 1 /\ k - 1 \in 0 .. m /\ k - 1 # m
        BY <2>5, <3>2
      <4>2. f[k] = g[k][f[k - 1]]
        BY <2>6, <3>2, <4>1 DEF Turns
      <4> QED BY <3>2, <4>1, <4>2
    <3>3. CASE k # m /\ k = 0
      <4>1. 0 \in 0 .. m - 1
        BY <2>5
      <4>2. f[0] = b
        BY <2>6, <4>1 DEF Turns
      <4> QED BY <3>3, <4>2
    <3> QED BY <3>1, <3>2, <3>3
  <2>8. h = [k \in 0 .. m |-> h[k]]
    OBVIOUS
  <2> HIDE DEF h
  <2>9. Turns(h, m, b, g)
    BY <2>7, <2>8 DEF Turns
  <2> QED BY <2>3, <2>9
<1>2. PICK f : Turns(f, n, b, g)
  BY <1>1
<1>3. f[0] \in S[0]
  BY <1>2 DEF Turns, GoesOn
<1>4. \A k \in 1 .. n : f[k - 1] \in S[k - 1] => f[k] \in S[k]
  <2> SUFFICES ASSUME NEW k \in 1 .. n, f[k - 1] \in S[k - 1]
               PROVE  f[k] \in S[k]
    OBVIOUS
  <2>1. f[k] = g[k][f[k - 1]]
    BY <1>2 DEF Turns
  <2> QED BY <2>1 DEF GoesOn
<1>5. \A k \in 0 .. n : f[k] \in S[k]
  <2> QED BY <1>3, <1>4, TurnsStay
<1> QED BY <1>2, <1>5
-----------------------------------------------------------------------------
(* Deleting moves elements of the window within the window.                *)
LEMMA DeleteIs ==
  ASSUME NEW hp \in Heap, NEW w \in Window, Shows(hp, w),
         NEW n \in 0 .. w.len, NEW k \in Nat \ {0}
  PROVE  LET hp2 == Delete(hp, w.arr, n, k)
         IN /\ Rewrites(hp2, hp, w) /\ hp2 \in Heap
            /\ Len(hp2[w.arr]) = Len(hp[w.arr])
            /\ \A j \in 1 .. Len(hp[w.arr]) :
                 hp2[w.arr][j] = IF k <= j /\ j < n THEN hp[w.arr][j + 1] ELSE hp[w.arr][j]
            /\ \A j \in 1 .. w.len : Conv[w.type][hp2[w.arr][j]] = hp2[w.arr][j]
<1> DEFINE a    == w.arr
           s    == hp[a]
           t    == [j \in 1 .. Len(s) |-> IF k <= j /\ j < n THEN s[j + 1] ELSE s[j]]
           hp2  == Delete(hp, a, n, k)
<1>1. a \in Arr /\ s \in Seq(Value) /\ Len(s) \in Nat /\ w.len \in Nat /\ w.len <= Len(s)
  BY ElemsAre
<1>2. \A j \in 1 .. w.len : Conv[w.type][s[j]] = s[j]
  BY DEF Shows
<1>3. DOMAIN s = 1 .. Len(s)
  BY <1>1
<1>4. hp2 = [hp EXCEPT ![a] = t]
  BY <1>3 DEF Delete
<1> HIDE DEF hp2
<1>5. hp2[a] = t /\ (\A b \in Arr : b # a => hp2[b] = hp[b]) /\ DOMAIN hp2 = Arr
  BY <1>1, <1>4 DEF Heap
<1> HIDE DEF a, s
<1>6. ASSUME NEW j \in 1 .. Len(s), k <= j, j < n
      PROVE  j + 1 \in 1 .. Len(s) /\ j \in 1 .. w.len /\ j + 1 \in 1 .. w.len
  BY <1>1, <1>6
<1>7. t \in Seq(Value) /\ Len(t) = Len(s)
      /\ \A j \in 1 .. Len(s) : t[j] = IF k <= j /\ j < n THEN s[j + 1] ELSE s[j]
  <2>1. \A j \in 1 .. Len(s) : t[j] \in Value
    BY <1>1, <1>6
  <2>2. t \in [1 .. Len(s) -> Value]
    BY <2>1
  <2> QED BY <1>1, <2>2
<1> HIDE DEF t
<1>8. \A j \in 1 .. w.len : Conv[w.type][t[j]] = t[j]
  <2> SUFFICES ASSUME NEW j \in 1 .. w.len PROVE Conv[w.type][t[j]] = t[j]
    OBVIOUS
  <2>1. j \in 1 .. Len(s)
    BY <1>1
  <2> QED BY <1>2, <1>6, <1>7, <2>1
<1>9. \A j \in 1 .. Len(s) : t[j] = s[j] \/ Conv[w.type][t[j]] = t[j]
  BY <1>2, <1>6, <1>7
<1>10. hp2 \in Heap
  <2>1. \A b \in Arr : hp2[b] \in Seq(Value)
    BY <1>5, <1>7 DEF Heap
  <2>2. hp2 = [b \in Arr |-> hp2[b]]
    BY <1>4 DEF Heap
  <2> QED BY <2>1, <2>2 DEF Heap
<1>11. Rewrites(hp2, hp, w)
  BY <1>5, <1>7, <1>9, <1>10 DEF Rewrites, a, s
<1> QED BY <1>5, <1>7, <1>8, <1>10, <1>11 DEF hp2, a, s

LEMMA RewritesMore ==
  ASSUME NEW hp, NEW hp2, NEW hp3, NEW w \in Window,
         hp \in Heap, Rewrites(hp2, hp, w), Rewrites(hp3, hp2, w)
  PROVE  Rewrites(hp3, hp, w)
<1>1. w.arr \in Arr
  BY DEF Window
<1>2. \A k \in 1 .. Len(hp[w.arr]) : k \in 1 .. Len(hp2[w.arr])
  BY <1>1 DEF Rewrites
<1> QED BY <1>1, <1>2 DEF Rewrites

LEMMA RewritesNothing ==
  ASSUME NEW hp \in Heap, NEW w
  PROVE  Rewrites(hp, hp, w)
BY DEF Rewrites

(* Where removeAll and retainAll may be: what is left of the window is     *)
(* never longer than it was, and everything in it is of its type.          *)
Straining(hp, w) ==
  {s \in [heap : Heap, len : 0 .. w.len, i : 0 .. w.len] :
     /\ s.i <= s.len /\ Rewrites(s.heap, hp, w)
     /\ \A j \in 1 .. w.len : Conv[w.type][s.heap[w.arr][j]] = s.heap[w.arr][j]}

LEMMA StrainingOn ==
  ASSUME NEW hp, NEW w \in Window, NEW s \in Straining(hp, w), NEW new \in Heap,
         s.i < s.len, Rewrites(new, hp, w),
         \A j \in 1 .. w.len : Conv[w.type][new[w.arr][j]] = new[w.arr][j]
  PROVE  [s EXCEPT !.heap = new, !.len = s.len - 1] \in Straining(hp, w)
<1> DEFINE t == [s EXCEPT !.heap = new, !.len = s.len - 1]
<1>1. w.len \in Nat
  BY SliceAssumption DEF Window
<1>2. s \in [heap : Heap, len : 0 .. w.len, i : 0 .. w.len] /\ s.i <= s.len
  BY DEF Straining
<1>3. s.len \in Nat /\ s.i \in Nat /\ s.len - 1 \in 0 .. w.len /\ s.i <= s.len - 1
  BY <1>1, <1>2
<1>4. t \in [heap : Heap, len : 0 .. w.len, i : 0 .. w.len]
  BY <1>2, <1>3
<1>5. t.heap = new /\ t.len = s.len - 1 /\ t.i = s.i
  BY <1>2
<1> HIDE DEF t
<1>6. t \in Straining(hp, w)
  BY <1>3, <1>4, <1>5 DEF Straining
<1> QED BY <1>6 DEF t

LEMMA StrainedIs ==
  ASSUME InOrder(heap, obj), NEW o \in Obj, obj[o] # None, NEW c, NEW drop,
         NEW s \in Straining(heap, obj[o])
  PROVE  Strained(s, o, c, drop) \in Straining(heap, obj[o])
<1> DEFINE w == obj[o]
           hp2 == Delete(s.heap, w.arr, s.len, s.i + 1)
<1>1. w \in Window /\ heap \in Heap /\ w.len \in Nat /\ Shows(heap, w)
  BY ElemsAre DEF InOrder
<1>2. /\ s \in [heap : Heap, len : 0 .. w.len, i : 0 .. w.len]
      /\ s.i <= s.len /\ Rewrites(s.heap, heap, w)
      /\ \A j \in 1 .. w.len : Conv[w.type][s.heap[w.arr][j]] = s.heap[w.arr][j]
  BY DEF Straining
<1>3. \/ Strained(s, o, c, drop) = s
      \/ s.i < s.len /\ Strained(s, o, c, drop) = [s EXCEPT !.heap = hp2, !.len = s.len - 1]
      \/ s.i < s.len /\ Strained(s, o, c, drop) = [s EXCEPT !.i = s.i + 1]
  BY <1>1, <1>2 DEF Strained
<1>4. s.heap \in Heap /\ s.len \in 0 .. w.len /\ s.i \in 0 .. w.len /\ s.i \in Nat /\ s.len \in Nat
  BY <1>1, <1>2
<1>5. CASE s.i < s.len /\ Strained(s, o, c, drop) = [s EXCEPT !.heap = hp2, !.len = s.len - 1]
  <2>1. Shows(s.heap, w)
    <3>1. w.arr \in Arr /\ Len(s.heap[w.arr]) = Len(heap[w.arr]) /\ w.len <= Len(heap[w.arr])
      BY <1>1, <1>2, ElemsAre DEF Rewrites
    <3> QED BY <1>2, <3>1 DEF Shows, Cap
  <2>2. s.i + 1 \in Nat \ {0}
    BY <1>4
  <2> HIDE DEF w
  <2>3. /\ Rewrites(hp2, s.heap, w) /\ hp2 \in Heap
        /\ \A j \in 1 .. w.len : Conv[w.type][hp2[w.arr][j]] = hp2[w.arr][j]
    BY <1>1, <1>4, <2>1, <2>2, DeleteIs
  <2> HIDE DEF hp2
  <2>4. Rewrites(hp2, heap, w)
    BY <1>1, <1>2, <1>4, <2>3, RewritesMore
  <2>5. s \in Straining(heap, w) /\ s.i < s.len
    BY <1>5 DEF w
  <2>6. [s EXCEPT !.heap = hp2, !.len = s.len - 1] \in Straining(heap, w)
    BY <1>1, <2>3, <2>4, <2>5, StrainingOn
  <2> QED BY <1>5, <2>6 DEF w
<1>6. CASE s.i < s.len /\ Strained(s, o, c, drop) = [s EXCEPT !.i = s.i + 1]
  <2> DEFINE t == [s EXCEPT !.i = s.i + 1]
  <2>1. t \in [heap : Heap, len : 0 .. w.len, i : 0 .. w.len]
        /\ t.heap = s.heap /\ t.len = s.len /\ t.i = s.i + 1
    BY <1>1, <1>2, <1>4, <1>6
  <2>2. t.i <= t.len
    BY <1>4, <1>6, <2>1
  <2> HIDE DEF t
  <2>3. t \in Straining(heap, w)
    BY <1>2, <2>1, <2>2 DEF Straining
  <2> QED BY <1>6, <2>3 DEF t
<1> QED BY <1>3, <1>5, <1>6

(* S[k] is where a filter may be after k turns.                            *)
StrainsOn(n, S, s, o, c, drop) ==
  s \in S[0] /\ \A k \in 1 .. n : \A x \in S[k - 1] : Strained(x, o, c, drop) \in S[k]

LEMMA StrainedToStays ==
  ASSUME NEW n \in Nat, NEW S, NEW s, NEW o, NEW c, NEW drop, StrainsOn(n, S, s, o, c, drop)
  PROVE  StrainedTo(n, s, o, c, drop) \in S[n]
<1> DEFINE g == [k \in 1 .. n |-> [x \in S[k - 1] |-> Strained(x, o, c, drop)]]
           turns(f) == f = [k \in 0 .. n |-> IF k = 0 THEN s ELSE Strained(f[k - 1], o, c, drop)]
           after == CHOOSE f : turns(f)
<1>1. /\ \A k \in 1 .. n : k - 1 \in 0 .. n /\ k \in 0 .. n
      /\ \A k \in 1 .. n : \A x \in S[k - 1] : g[k][x] = Strained(x, o, c, drop)
      /\ 0 \in 0 .. n /\ n \in 0 .. n
  OBVIOUS
<1> HIDE DEF g
<1>2. GoesOn(n, S, s, g)
  BY <1>1 DEF GoesOn, StrainsOn
<1>3. PICK f : Turns(f, n, s, g) /\ \A k \in 0 .. n : f[k] \in S[k]
  BY <1>2, TurnsExist
<1>4. turns(f)
  <2>1. \A k \in 1 .. n : g[k][f[k - 1]] = Strained(f[k - 1], o, c, drop)
    BY <1>1, <1>3
  <2> QED BY <1>3, <2>1 DEF Turns
<1>5. turns(after)
  BY <1>4
<1>6. StrainedTo(n, s, o, c, drop) = after[n]
  BY DEF StrainedTo
<1> HIDE DEF after
<1>7. after[0] \in S[0]
  BY <1>1, <1>5 DEF StrainsOn
<1>8. \A k \in 1 .. n : after[k - 1] \in S[k - 1] => after[k] \in S[k]
  <2>1. \A k \in 1 .. n : after[k] = Strained(after[k - 1], o, c, drop)
    BY <1>1, <1>5
  <2> QED BY <2>1 DEF StrainsOn
<1>9. \A k \in 0 .. n : after[k] \in S[k]
  BY <1>7, <1>8, TurnsStay
<1> QED BY <1>1, <1>6, <1>9

LEMMA StrainedToIs ==
  ASSUME InOrder(heap, obj), NEW o \in Obj, obj[o] # None, NEW c, NEW drop,
         NEW n \in Nat, NEW s \in Straining(heap, obj[o])
  PROVE  StrainedTo(n, s, o, c, drop) \in Straining(heap, obj[o])
<1> DEFINE S == [k \in 0 .. n |-> Straining(heap, obj[o])]
<1>1. /\ \A k \in 0 .. n : S[k] = Straining(heap, obj[o])
      /\ \A k \in 1 .. n : k - 1 \in 0 .. n /\ k \in 0 .. n
      /\ 0 \in 0 .. n /\ n \in 0 .. n
  OBVIOUS
<1> HIDE DEF S
<1>2. StrainsOn(n, S, s, o, c, drop)
  BY <1>1, StrainedIs DEF StrainsOn
<1>3. StrainedTo(n, s, o, c, drop) \in S[n]
  BY <1>2, StrainedToStays
<1> QED BY <1>1, <1>3

(* Where Add and AddAll may be after k elements: what has been appended is *)
(* of the slice's type, and is in the array as far as there is room.       *)
Extending(hp, w, k) ==
  {s \in [heap : Heap, elems : Seq(Value), failed : BOOLEAN] :
     /\ Rewrites(s.heap, hp, w)
     /\ w.len <= Len(s.elems) /\ Len(s.elems) <= w.len + k
     /\ \A j \in 1 .. Len(s.elems) :
          /\ Conv[w.type][s.elems[j]] = s.elems[j]
          /\ j <= Len(hp[w.arr]) => s.heap[w.arr][j] = s.elems[j]}

LEMMA CopiedIs ==
  ASSUME InOrder(heap, obj), NEW o \in Obj, obj[o] # None
  PROVE  Copied(o) \in Extending(heap, obj[o], 0)
<1> DEFINE w == obj[o]
           s == Copied(o)
<1>1. w \in Window /\ heap \in Heap /\ Shows(heap, w)
  BY DEF InOrder
<1>2. s = [heap |-> heap, elems |-> Elems(heap, w), failed |-> FALSE]
  BY DEF Copied, List
<1> HIDE DEF w, s
<1>3. /\ w.len \in Nat /\ Elems(heap, w) \in Seq(Value) /\ Len(Elems(heap, w)) = w.len
      /\ \A k \in 1 .. w.len : Elems(heap, w)[k] = heap[w.arr][k]
  BY <1>1, ElemsAre
<1>4. \A k \in 1 .. w.len : Conv[w.type][heap[w.arr][k]] = heap[w.arr][k]
  BY <1>1 DEF Shows
<1>5. s \in [heap : Heap, elems : Seq(Value), failed : BOOLEAN]
      /\ s.heap = heap /\ s.elems = Elems(heap, w)
  BY <1>1, <1>2, <1>3
<1>6. s \in Extending(heap, w, 0)
  BY <1>1, <1>3, <1>4, <1>5, RewritesNothing DEF Extending
<1> QED BY <1>6 DEF w, s

LEMMA ConvertedIs ==
  ASSUME NEW t \in Type, NEW v \in Value, Conv[t][v] # Fail
  PROVE  Conv[t][v] \in Value /\ Conv[t][Conv[t][v]] = Conv[t][v]
BY SliceAssumption

LEMMA ExtendIs ==
  ASSUME NEW hp \in Heap, NEW w \in Window, Shows(hp, w), NEW k \in Nat,
         NEW s \in Extending(hp, w, k), NEW v \in Value
  PROVE  Extend(s, w, v) \in Extending(hp, w, k + 1)
<1> DEFINE n == Len(s.elems)
           e == Conv[w.type][v]
           a == w.arr
<1>1. /\ a \in Arr /\ w.type \in Type /\ w.len \in Nat
      /\ hp[a] \in Seq(Value) /\ Len(hp[a]) \in Nat
  BY ElemsAre
<1>2. /\ s \in [heap : Heap, elems : Seq(Value), failed : BOOLEAN]
      /\ Rewrites(s.heap, hp, w)
      /\ w.len <= n /\ n <= w.len + k
      /\ \A j \in 1 .. n : /\ Conv[w.type][s.elems[j]] = s.elems[j]
                           /\ j <= Len(hp[a]) => s.heap[a][j] = s.elems[j]
  BY DEF Extending
<1>3. s.heap \in Heap /\ s.elems \in Seq(Value) /\ n \in Nat /\ s.heap[a] \in Seq(Value)
      /\ Len(s.heap[a]) = Len(hp[a])
  BY <1>1, <1>2 DEF Heap, Rewrites
<1>4. CASE s.failed \/ e = Fail
  <2> DEFINE t == [s EXCEPT !.failed = TRUE]
  <2>1. Extend(s, w, v) = t
    BY <1>4 DEF Extend
  <2>2. t \in [heap : Heap, elems : Seq(Value), failed : BOOLEAN]
        /\ t.heap = s.heap /\ t.elems = s.elems
    BY <1>2
  <2>3. w.len <= n /\ n <= w.len + (k + 1)
    BY <1>1, <1>2, <1>3
  <2> HIDE DEF t
  <2>4. t \in Extending(hp, w, k + 1)
    BY <1>2, <2>2, <2>3 DEF Extending
  <2> QED BY <2>1, <2>4
<1>5. CASE ~(s.failed \/ e = Fail)
  <2> DEFINE elems == Append(s.elems, e)
             new   == IF n < Len(hp[a]) THEN [s.heap EXCEPT ![a] = [@ EXCEPT ![n + 1] = e]]
                                        ELSE s.heap
             t     == [s EXCEPT !.elems = elems, !.heap = new]
  <2>0. e \in Value /\ Conv[w.type][e] = e
    BY <1>1, <1>5, ConvertedIs
  <2>1. Extend(s, w, v) = t
    BY <1>3, <1>5 DEF Extend, Cap
  <2> HIDE DEF e
  <2>2. /\ elems \in Seq(Value) /\ Len(elems) = n + 1 /\ elems[n + 1] = e
        /\ \A j \in 1 .. n : elems[j] = s.elems[j]
    BY <1>3, <2>0
  <2>3. /\ new \in Heap /\ Len(new[a]) = Len(hp[a])
        /\ \A b \in Arr : b # a => new[b] = s.heap[b]
        /\ n < Len(hp[a]) => new[a][n + 1] = e
        /\ \A j \in 1 .. Len(hp[a]) : j # n + 1 => new[a][j] = s.heap[a][j]
    <3>1. CASE ~(n < Len(hp[a]))
      BY <1>1, <1>3, <3>1
    <3>2. CASE n < Len(hp[a])
      <4> DEFINE q == [s.heap[a] EXCEPT ![n + 1] = e]
      <4>1. n + 1 \in 1 .. Len(hp[a])
        BY <1>1, <1>3, <3>2
      <4>2. q \in Seq(Value) /\ Len(q) = Len(hp[a]) /\ q[n + 1] = e
            /\ \A j \in 1 .. Len(hp[a]) : j # n + 1 => q[j] = s.heap[a][j]
        BY <1>3, <2>0, <4>1
      <4>3. new = [s.heap EXCEPT ![a] = q]
        BY <3>2
      <4> HIDE DEF q, new
      <4>4. new \in Heap /\ new[a] = q /\ \A b \in Arr : b # a => new[b] = s.heap[b]
        BY <1>1, <1>3, <4>2, <4>3 DEF Heap
      <4> QED BY <4>2, <4>4
    <3> QED BY <3>1, <3>2
  <2> HIDE DEF elems, new
  <2>4. t \in [heap : Heap, elems : Seq(Value), failed : BOOLEAN]
        /\ t.heap = new /\ t.elems = elems
    BY <1>2, <2>2, <2>3
  <2> HIDE DEF t
  <2>5. Rewrites(new, hp, w)
    <3>1. Rewrites(new, s.heap, w)
      <4>1. \A b \in Arr : Len(new[b]) = Len(s.heap[b])
        BY <1>3, <2>3
      <4>2. \A j \in 1 .. Len(s.heap[w.arr]) :
              new[w.arr][j] = s.heap[w.arr][j] \/ Conv[w.type][new[w.arr][j]] = new[w.arr][j]
        <5> SUFFICES ASSUME NEW j \in 1 .. Len(hp[a])
                     PROVE  new[a][j] = s.heap[a][j] \/ Conv[w.type][new[a][j]] = new[a][j]
          BY <1>3
        <5>1. CASE j = n + 1
          <6>1. n < Len(hp[a])
            BY <1>1, <1>3, <5>1
          <6> QED BY <2>0, <2>3, <5>1, <6>1
        <5> QED BY <2>3, <5>1
      <4> QED BY <2>3, <4>1, <4>2 DEF Rewrites
    <3> QED BY <1>2, <3>1, RewritesMore
  <2>6. w.len <= n + 1 /\ n + 1 <= w.len + (k + 1)
    BY <1>1, <1>2, <1>3
  <2>7. ASSUME NEW j \in 1 .. n + 1
        PROVE  /\ Conv[w.type][elems[j]] = elems[j]
               /\ j <= Len(hp[a]) => new[a][j] = elems[j]
    <3>1. CASE j = n + 1
      <4>1. j <= Len(hp[a]) => n < Len(hp[a])
        BY <1>1, <1>3, <3>1
      <4> QED BY <2>0, <2>2, <2>3, <3>1, <4>1
    <3>2. CASE j # n + 1
      <4>1. j \in 1 .. n /\ (j <= Len(hp[a]) => j \in 1 .. Len(hp[a]))
        BY <1>1, <1>3, <3>2
      <4> QED BY <1>2, <2>2, <2>3, <3>2, <4>1
    <3> QED BY <3>1, <3>2
  <2>8. t \in Extending(hp, w, k + 1)
    BY <2>2, <2>4, <2>5, <2>6, <2>7 DEF Extending
  <2> QED BY <2>1, <2>8
<1> QED BY <1>4, <1>5

(* S[k] is where AddAll may be after k elements of an array.               *)
ReadsOn(n, S, s, w, a) ==
  s \in S[0] /\ \A k \in 1 .. n : \A x \in S[k - 1] : Extend(x, w, x.heap[a][k]) \in S[k]

LEMMA ReadToStays ==
  ASSUME NEW n \in Nat, NEW S, NEW s, NEW w, NEW a, ReadsOn(n, S, s, w, a)
  PROVE  ReadTo(n, s, w, a) \in S[n]
<1> DEFINE Read(x, k) == Extend(x, w, x.heap[a][k])
           g == [k \in 1 .. n |-> [x \in S[k - 1] |-> Read(x, k)]]
           turns(f) == f = [k \in 0 .. n |-> IF k = 0 THEN s ELSE Read(f[k - 1], k)]
           after == CHOOSE f : turns(f)
<1>0. s \in S[0] /\ \A k \in 1 .. n : \A x \in S[k - 1] : Read(x, k) \in S[k]
  BY DEF ReadsOn
<1> HIDE DEF Read
<1>1. /\ \A k \in 1 .. n : k - 1 \in 0 .. n /\ k \in 0 .. n
      /\ \A k \in 1 .. n : \A x \in S[k - 1] : g[k][x] = Read(x, k)
      /\ 0 \in 0 .. n /\ n \in 0 .. n
  OBVIOUS
<1> HIDE DEF g
<1>2. GoesOn(n, S, s, g)
  BY <1>0, <1>1 DEF GoesOn
<1>3. PICK f : Turns(f, n, s, g) /\ \A k \in 0 .. n : f[k] \in S[k]
  BY <1>2, TurnsExist
<1>4. turns(f)
  <2>1. \A k \in 1 .. n : g[k][f[k - 1]] = Read(f[k - 1], k)
    BY <1>1, <1>3
  <2> QED BY <1>3, <2>1 DEF Turns
<1>5. turns(after)
  BY <1>4
<1>6. ReadTo(n, s, w, a) = after[n]
  BY DEF ReadTo, Read
<1> HIDE DEF after
<1>7. after[0] \in S[0]
  BY <1>0, <1>1, <1>5
<1>8. \A k \in 1 .. n : after[k - 1] \in S[k - 1] => after[k] \in S[k]
  <2>1. \A k \in 1 .. n : after[k] = Read(after[k - 1], k)
    BY <1>1, <1>5
  <2> QED BY <1>0, <2>1
<1>9. \A k \in 0 .. n : after[k] \in S[k]
  BY <1>7, <1>8, TurnsStay
<1> QED BY <1>1, <1>6, <1>9

(* The array may be the slice's own.                                       *)
LEMMA ReadToIs ==
  ASSUME NEW hp \in Heap, NEW w \in Window, Shows(hp, w), NEW a \in Arr,
         NEW n \in Nat, n <= Len(hp[a]), NEW s \in Extending(hp, w, 0)
  PROVE  ReadTo(n, s, w, a) \in Extending(hp, w, n)
<1> DEFINE S == [k \in 0 .. n |-> Extending(hp, w, k)]
<1>1. ASSUME NEW k \in 1 .. n, NEW x \in Extending(hp, w, k - 1)
      PROVE  Extend(x, w, x.heap[a][k]) \in Extending(hp, w, k)
  <2>1. x.heap \in Heap /\ Len(x.heap[a]) = Len(hp[a])
    BY <1>1 DEF Extending, Rewrites
  <2>2. x.heap[a][k] \in Value
    <3>1. x.heap[a] \in Seq(Value) /\ k \in 1 .. Len(x.heap[a])
      BY <2>1 DEF Heap
    <3> QED BY <3>1
  <2>3. k - 1 \in Nat /\ (k - 1) + 1 = k
    OBVIOUS
  <2>4. Extend(x, w, x.heap[a][k]) \in Extending(hp, w, (k - 1) + 1)
    BY <1>1, <2>2, <2>3, ExtendIs
  <2> QED BY <2>3, <2>4
<1>2. /\ \A k \in 0 .. n : S[k] = Extending(hp, w, k)
      /\ \A k \in 1 .. n : k - 1 \in 0 .. n /\ k \in 0 .. n
      /\ 0 \in 0 .. n /\ n \in 0 .. n
  OBVIOUS
<1> HIDE DEF S
<1>3. ReadsOn(n, S, s, w, a)
  BY <1>1, <1>2 DEF ReadsOn
<1>4. ReadTo(n, s, w, a) \in S[n]
  BY <1>3, ReadToStays
<1> QED BY <1>2, <1>4
-----------------------------------------------------------------------------
(* The operations keep the memory in order.                                *)
Lasts == InOrder(heap, obj)' /\ \A o \in Obj : obj[o] # None => obj'[o] # None

StillThere(objs) == \A o \in Obj : obj[o] # None => objs[o] # None

LEMMA WindowStays ==
  ASSUME InOrder(heap, obj), NEW o \in Obj, NEW w \in Window
  PROVE  StillThere([obj EXCEPT ![o] = w])
BY SliceAssumption DEF StillThere, InOrder

LEMMA ChangedKeeps ==
  ASSUME NEW hp, NEW objs, InOrder(hp, objs), StillThere(objs)
  PROVE  Changed(hp, objs) => Lasts
<1>1. Changed(hp, objs) => heap' = Collect(hp, objs) /\ obj' = objs
  BY DEF Changed
<1>2. InOrder(Collect(hp, objs), objs)
  BY CollectKeeps
<1> QED BY <1>1, <1>2 DEF InOrder, StillThere, Lasts

LEMMA NothingKeeps ==
  InOrder(heap, obj) /\ UNCHANGED <<heap, obj>> => Lasts
BY DEF InOrder, Lasts

Cut(v, n)      == [v EXCEPT !.len = n]
Moved(v, a, n) == [v EXCEPT !.arr = a, !.len = n]

LEMMA WindowWith ==
  ASSUME NEW v \in Window, NEW a \in Arr, NEW n \in 0 .. MaxLen
  PROVE  /\ Cut(v, n) \in Window /\ Cut(v, n).arr = v.arr
         /\ Cut(v, n).len = n /\ Cut(v, n).type = v.type
         /\ Moved(v, a, n) \in Window /\ Moved(v, a, n).arr = a
         /\ Moved(v, a, n).len = n /\ Moved(v, a, n).type = v.type
BY DEF Window, Cut, Moved

LEMMA NewOnKeeps ==
  ASSUME InOrder(heap, obj), NEW o \in Obj, NEW type \in Type, NEW elems \in Seq(Value),
         Len(elems) <= MaxLen, \A k \in DOMAIN elems : Conv[type][elems[k]] = elems[k]
  PROVE  NewOn(o, type, elems) => Lasts
<1> DEFINE a   == FreeArr
           w   == [arr |-> a, len |-> Len(elems), type |-> type]
           hp2 == [heap EXCEPT ![a] = elems]
           new == [obj EXCEPT ![o] = w]
<1>1. a \in Arr \ {0} /\ ~Refers(obj, a)
  BY FreeArrIsFree
<1> HIDE DEF a
<1>2. w \in Window /\ w.arr = a /\ w.len = Len(elems) /\ w.type = type
  BY <1>1, SliceAssumption DEF Window
<1>3. hp2[a] = elems
  BY <1>1 DEF InOrder, Heap
<1>4. NewOn(o, type, elems) => Changed(hp2, new)
  BY DEF NewOn, Becomes, a
<1> HIDE DEF w
<1>5. Shows(hp2, w)
  BY <1>2, <1>3 DEF Shows, Cap
<1>6. InOrder(hp2, new) /\ StillThere(new)
  BY <1>1, <1>2, <1>5, FreshKeeps, WindowStays
<1> HIDE DEF hp2, new
<1> QED BY <1>4, <1>6, ChangedKeeps

LEMMA NewKeeps ==
  ASSUME InOrder(heap, obj), NEW o \in Obj, New(o)
  PROVE  Lasts
<1>1. PICK m \in Made : NewOn(o, m.type, m.elems)
  BY DEF New
<1>2. /\ m.type \in Type /\ m.elems \in Seq(Value) /\ Len(m.elems) <= MaxLen
      /\ \A k \in DOMAIN m.elems : Conv[m.type][m.elems[k]] = m.elems[k]
  BY SliceAssumption
<1> QED BY <1>1, <1>2, NewOnKeeps

LEMMA ToArrayKeeps ==
  ASSUME InOrder(heap, obj), NEW o \in Obj, NEW n \in Obj, ToArray(o, n)
  PROVE  Lasts
<1> DEFINE w == obj[o]
           s == List(o)
<1>1. obj[o] # None /\ NewOn(n, w.type, s)
  BY DEF ToArray
<1>2. heap \in Heap /\ w \in Window /\ Shows(heap, w)
  BY <1>1 DEF InOrder
<1>3. s = Elems(heap, w)
  BY DEF List
<1> HIDE DEF w, s
<1>4. /\ w.type \in Type /\ s \in Seq(Value) /\ Len(s) = w.len /\ w.len \in 0 .. MaxLen
      /\ \A k \in 1 .. w.len : s[k] = heap[w.arr][k]
  BY <1>2, <1>3, ElemsAre
<1>5. Len(s) <= MaxLen
  BY <1>4, SliceAssumption
<1>6. \A k \in DOMAIN s : Conv[w.type][s[k]] = s[k]
  BY <1>2, <1>4 DEF Shows
<1> QED BY <1>1, <1>4, <1>5, <1>6, NewOnKeeps

LEMMA WrapKeeps ==
  ASSUME InOrder(heap, obj), NEW o \in Obj, NEW h \in Host, Wrap(o, h)
  PROVE  Lasts
<1>1. Windows0[h] \in Window /\ Shows(heap, Windows0[h])
  BY HostsAre DEF InOrder
<1>2. InOrder(heap, [obj EXCEPT ![o] = Windows0[h]]) /\ StillThere([obj EXCEPT ![o] = Windows0[h]])
  BY <1>1, HostsKeep, WindowStays
<1>3. Changed(heap, [obj EXCEPT ![o] = Windows0[h]])
  BY DEF Wrap, Becomes
<1> QED BY <1>2, <1>3, ChangedKeeps

LEMMA ClearKeeps ==
  ASSUME InOrder(heap, obj), NEW o \in Obj, Clear(o)
  PROVE  Lasts
<1> DEFINE w == Moved(obj[o], 0, 0)
<1>1. obj[o] # None /\ Changed(heap, [obj EXCEPT ![o] = w])
  BY DEF Clear, Becomes, Moved
<1>2. obj[o] \in Window
  BY <1>1 DEF InOrder
<1>3. w \in Window /\ w.arr = 0 /\ w.len = 0
  <2>1. 0 \in Arr /\ 0 \in 0 .. MaxLen
    BY ArrIs, SliceAssumption
  <2> QED BY <1>2, <2>1, WindowWith
<1> HIDE DEF w
<1>4. Shows(heap, w)
  <2>1. heap[0] = <<>>
    BY DEF InOrder
  <2> QED BY <1>3, <2>1 DEF Shows, Cap
<1>5. InOrder(heap, [obj EXCEPT ![o] = w]) /\ StillThere([obj EXCEPT ![o] = w])
  BY <1>3, <1>4, HostsKeep, WindowStays
<1> QED BY <1>1, <1>5, ChangedKeeps

(* Add and AddAll: whatever has been appended, the window is extended in   *)
(* the array while that has room, and is moved with it afterwards.         *)
LEMMA ExtendedKeeps ==
  ASSUME InOrder(heap, obj), NEW o \in Obj, obj[o] # None, NEW k \in Nat,
         obj[o].len + k <= MaxLen, NEW s \in Extending(heap, obj[o], k)
  PROVE  Extended(o, s) => Lasts
<1> DEFINE w == obj[o]
           n == Len(s.elems)
<1>1. w \in Window /\ heap \in Heap /\ Shows(heap, w)
  BY DEF InOrder
<1>2. /\ w.arr \in Arr /\ w.len \in 0 .. MaxLen /\ w.len \in Nat /\ MaxLen \in Nat
      /\ Len(heap[w.arr]) \in Nat /\ w.type \in Type
  BY <1>1, ElemsAre, SliceAssumption
<1>3. /\ s.heap \in Heap /\ s.elems \in Seq(Value) /\ Rewrites(s.heap, heap, w)
      /\ w.len <= n /\ n <= w.len + k
      /\ \A j \in 1 .. n : /\ Conv[w.type][s.elems[j]] = s.elems[j]
                           /\ j <= Len(heap[w.arr]) => s.heap[w.arr][j] = s.elems[j]
  BY DEF Extending
<1>4. n \in 0 .. MaxLen /\ n \in Nat
  BY <1>2, <1>3
<1>5. Shows(s.heap, w)
  BY <1>1, RewritesShows, <1>3 DEF InOrder, Alike
<1>6. InOrder(s.heap, obj) /\ StillThere(obj)
  <2>1. InOrder(s.heap, [obj EXCEPT ![o] = w])
    BY <1>1, <1>3, <1>5, RewritesKeep
  <2>2. [obj EXCEPT ![o] = w] = obj
    BY DEF InOrder
  <2> QED BY <2>1, <2>2 DEF StillThere
<1>7. CASE s.failed
  <2>1. Extended(o, s) => Changed(s.heap, obj)
    BY <1>7 DEF Extended, Changed
  <2> QED BY <1>6, <2>1, ChangedKeeps
<1>8. CASE ~s.failed /\ n <= Cap(heap, w)
  <2> DEFINE v   == Cut(w, n)
             new == [obj EXCEPT ![o] = v]
  <2>1. Extended(o, s) => Changed(s.heap, new)
    BY <1>8 DEF Extended, Becomes, Cut
  <2> HIDE DEF w
  <2>2. v \in Window /\ v.arr = w.arr /\ v.type = w.type /\ v.len = n
    BY <1>1, <1>2, <1>4, WindowWith
  <2> HIDE DEF v
  <2>3. Shows(s.heap, v)
    <3>1. Len(s.heap[w.arr]) = Len(heap[w.arr])
      BY <1>2, <1>3 DEF Rewrites
    <3>2. n <= Len(heap[w.arr])
      BY <1>8 DEF Cap
    <3>3. \A j \in 1 .. n : Conv[w.type][s.heap[w.arr][j]] = s.heap[w.arr][j]
      BY <1>2, <1>3, <1>4, <3>2
    <3> QED BY <2>2, <3>1, <3>2, <3>3 DEF Shows, Cap
  <2>4. InOrder(s.heap, new) /\ StillThere(new)
    BY <1>3, <2>2, <2>3, RewritesKeep, WindowStays DEF w
  <2> HIDE DEF new
  <2> QED BY <2>1, <2>4, ChangedKeeps
<1>9. CASE ~s.failed /\ ~(n <= Cap(heap, w))
  <2> DEFINE a       == FreeArr
             v       == Moved(w, a, n)
             new     == [obj EXCEPT ![o] = v]
             mem(room) == [s.heap EXCEPT ![a] = s.elems \o Fill(room)]
  <2>1. Extended(o, s) => \E room \in 0 .. Spare : Changed(mem(room), new)
    BY <1>9 DEF Extended, Becomes, Moved
  <2>2. a \in Arr \ {0} /\ ~Refers(obj, a)
    BY FreeArrIsFree
  <2> HIDE DEF a
  <2>3. v \in Window /\ v.arr = a /\ v.type = w.type /\ v.len = n
    <3> HIDE DEF w
    <3> QED BY <1>1, <1>4, <2>2, WindowWith
  <2> HIDE DEF v
  <2>4. ASSUME NEW room \in 0 .. Spare PROVE InOrder(mem(room), new) /\ StillThere(new)
    <3> DEFINE e == s.elems \o Fill(room)
    <3>1. Fill(room) \in Seq(Value)
      <4>1. s.elems[1] \in Value
        BY <1>2, <1>3, <1>4, <1>9 DEF Cap
      <4>2. (CHOOSE v1 \in Value : TRUE) \in Value
        BY <4>1
      <4>3. room \in Nat
        BY SliceAssumption
      <4> QED BY <4>2, <4>3 DEF Fill
    <3>2. e \in Seq(Value) /\ Len(e) >= n /\ \A j \in 1 .. n : e[j] = s.elems[j]
      <4> HIDE DEF n
      <4>1. Len(Fill(room)) \in Nat /\ n = Len(s.elems)
        BY <3>1 DEF n
      <4>2. /\ e \in Seq(Value) /\ Len(e) = n + Len(Fill(room))
            /\ \A i \in 1 .. n + Len(Fill(room)) :
                 e[i] = IF i <= n THEN s.elems[i] ELSE Fill(room)[i - n]
        BY <1>3, <3>1, <4>1, ConcatProperties
      <4> QED BY <1>4, <4>1, <4>2
    <3> HIDE DEF e
    <3>3. mem(room) = [s.heap EXCEPT ![a] = e]
      BY DEF e
    <3>4. [s.heap EXCEPT ![a] = e][a] = e
      BY <1>3, <2>2 DEF Heap
    <3>5. Shows([s.heap EXCEPT ![a] = e], v)
      <4> DEFINE m == [s.heap EXCEPT ![a] = e]
      <4>1. m[a] = e
        BY <3>4
      <4> HIDE DEF m, w, n
      <4>2. \A j \in 1 .. n : Conv[w.type][e[j]] = e[j]
        BY <1>3, <3>2
      <4>3. n <= Len(e)
        BY <1>4, <3>2
      <4>4. Shows(m, v)
        BY <2>3, <4>1, <4>2, <4>3 DEF Shows, Cap
      <4> QED BY <4>4 DEF m
    <3> QED BY <1>6, <2>2, <2>3, <3>2, <3>3, <3>5, FreshKeeps, WindowStays
  <2> HIDE DEF mem, new
  <2> QED BY <2>1, <2>4, ChangedKeeps
<1> QED BY <1>7, <1>8, <1>9

LEMMA AddKeeps ==
  ASSUME InOrder(heap, obj), NEW o \in Obj, NEW v \in Value, Add(o, v)
  PROVE  Lasts
<1> DEFINE w == obj[o]
           s == Extend(Copied(o), w, v)
<1>1. w # None /\ w.len < MaxLen /\ Extended(o, s)
  BY DEF Add
<1>2. w \in Window /\ heap \in Heap /\ Shows(heap, w) /\ w.len \in Nat /\ MaxLen \in Nat
  BY <1>1, ElemsAre, SliceAssumption DEF InOrder
<1>3. Copied(o) \in Extending(heap, w, 0)
  BY <1>1, CopiedIs
<1>4. s \in Extending(heap, w, 0 + 1)
  <2> HIDE DEF w
  <2> QED BY <1>2, <1>3, ExtendIs
<1> HIDE DEF s
<1>5. s \in Extending(heap, w, 1) /\ w.len + 1 <= MaxLen
  BY <1>1, <1>2, <1>4
<1> QED BY <1>1, <1>5, ExtendedKeeps

LEMMA AddAllKeeps ==
  ASSUME InOrder(heap, obj), NEW o \in Obj, NEW c \in Obj, AddAll(o, c)
  PROVE  Lasts
<1> DEFINE w == obj[o]
           v == obj[c]
           s == ReadTo(v.len, Copied(o), w, v.arr)
<1>1. /\ w # None /\ v # None /\ w.len + v.len <= MaxLen
      /\ Refuse \/ Extended(o, s)
  BY DEF AddAll
<1>2. CASE Refuse
  BY <1>2, NothingKeeps DEF Refuse
<1>3. CASE Extended(o, s)
  <2>1. /\ w \in Window /\ heap \in Heap /\ Shows(heap, w)
        /\ v \in Window /\ Shows(heap, v)
    BY <1>1 DEF InOrder
  <2>2. v.arr \in Arr /\ v.len \in Nat /\ v.len <= Len(heap[v.arr])
    <3> HIDE DEF v
    <3> QED BY <2>1, ElemsAre
  <2>3. Copied(o) \in Extending(heap, w, 0)
    BY <1>1, CopiedIs
  <2>4. s \in Extending(heap, w, v.len)
    <3> HIDE DEF w, v
    <3> QED BY <2>1, <2>2, <2>3, ReadToIs
  <2> HIDE DEF s
  <2> QED BY <1>1, <1>3, <2>2, <2>4, ExtendedKeeps
<1> QED BY <1>1, <1>2, <1>3

LEMMA SetKeeps ==
  ASSUME InOrder(heap, obj), NEW o \in Obj, NEW i \in 0 .. MaxLen, NEW v \in Value, Set(o, i, v)
  PROVE  Lasts
<1> DEFINE w == obj[o]
           e == Conv[w.type][v]
           a == w.arr
<1>1. w # None
  BY DEF Set
<1>2. w \in Window /\ heap \in Heap /\ Shows(heap, w)
  BY <1>1 DEF InOrder
<1>3. CASE ~(i \in 0 .. w.len - 1 /\ e # Fail)
  BY <1>3, NothingKeeps DEF Set, Refuse
<1>4. CASE i \in 0 .. w.len - 1 /\ e # Fail
  <2> DEFINE q   == [heap[a] EXCEPT ![i + 1] = e]
             hp2 == [heap EXCEPT ![a] = q]
             new == [obj EXCEPT ![o] = w]
  <2>1. Changed(hp2, new)
    BY <1>4 DEF Set, Becomes
  <2>2. /\ a \in Arr /\ heap[a] \in Seq(Value) /\ Len(heap[a]) \in Nat /\ w.type \in Type
        /\ w.len \in Nat /\ w.len <= Len(heap[a])
    <3> HIDE DEF w
    <3> QED BY <1>2, ElemsAre
  <2>3. e \in Value /\ Conv[w.type][e] = e
    BY <1>4, <2>2, ConvertedIs
  <2>4. i + 1 \in 1 .. Len(heap[a])
    BY <1>4, <2>2
  <2> HIDE DEF e
  <2>5. q \in Seq(Value) /\ Len(q) = Len(heap[a]) /\ q[i + 1] = e
        /\ \A j \in 1 .. Len(heap[a]) : j # i + 1 => q[j] = heap[a][j]
    BY <2>2, <2>3, <2>4
  <2> HIDE DEF q
  <2>6. hp2 \in Heap /\ hp2[a] = q /\ \A b \in Arr : b # a => hp2[b] = heap[b]
    BY <1>2, <2>2, <2>5 DEF Heap
  <2> HIDE DEF hp2
  <2>7. Rewrites(hp2, heap, w)
    BY <2>2, <2>3, <2>5, <2>6 DEF Rewrites
  <2>8. Shows(hp2, w)
    <3>1. \A j \in 1 .. w.len : Conv[w.type][q[j]] = q[j]
      <4>1. \A j \in 1 .. w.len : Conv[w.type][heap[a][j]] = heap[a][j] /\ j \in 1 .. Len(heap[a])
        BY <1>2, <2>2 DEF Shows
      <4> QED BY <2>3, <2>5, <4>1
    <3> QED BY <2>2, <2>5, <2>6, <3>1 DEF Shows, Cap
  <2>9. InOrder(hp2, new) /\ StillThere(new)
    BY <1>1, <1>2, <2>7, <2>8, RewritesKeep, WindowStays
  <2> HIDE DEF new
  <2> QED BY <2>1, <2>9, ChangedKeeps
<1> QED BY <1>3, <1>4

(* Every removal, a template's, a filter's or the iterator's, is a cut.    *)
LEMMA CutAtKeeps ==
  ASSUME InOrder(heap, obj), NEW o \in Obj, obj[o] # None,
         NEW k \in 1 .. obj[o].len, NEW r
  PROVE  CutAt(o, k, r) => Lasts
<1> DEFINE w   == obj[o]
           v   == Cut(w, w.len - 1)
           hp2 == Delete(heap, w.arr, w.len, k)
           new == [obj EXCEPT ![o] = v]
<1>1. CutAt(o, k, r) => Changed(hp2, new)
  BY DEF CutAt, Cut
<1>2. w \in Window /\ heap \in Heap /\ Shows(heap, w)
  BY DEF InOrder
<1>3. /\ w.arr \in Arr /\ w.len \in Nat /\ w.len \in 0 .. MaxLen
      /\ Len(heap[w.arr]) \in Nat /\ w.len <= Len(heap[w.arr])
  <2> HIDE DEF w
  <2> QED BY <1>2, ElemsAre
<1>4. w.len \in 0 .. w.len /\ k \in Nat \ {0} /\ w.len - 1 \in 0 .. MaxLen /\ w.len - 1 <= w.len
  BY <1>3, SliceAssumption
<1> HIDE DEF w
<1>5. /\ Rewrites(hp2, heap, w) /\ Len(hp2[w.arr]) = Len(heap[w.arr])
      /\ \A j \in 1 .. w.len : Conv[w.type][hp2[w.arr][j]] = hp2[w.arr][j]
  BY <1>2, <1>4, DeleteIs
<1>6. v \in Window /\ v.arr = w.arr /\ v.len = w.len - 1 /\ v.type = w.type
  BY <1>2, <1>3, <1>4, WindowWith
<1> HIDE DEF hp2, v
<1>7. Shows(hp2, v)
  BY <1>3, <1>5, <1>6 DEF Shows, Cap
<1>8. InOrder(hp2, new) /\ StillThere(new)
  BY <1>5, <1>6, <1>7, RewritesKeep, WindowStays DEF w
<1> HIDE DEF new
<1> QED BY <1>1, <1>8, ChangedKeeps

LEMMA FirstIs ==
  ASSUME NEW hp, NEW w \in Window, NEW v, Contains(hp, w, v)
  PROVE  FirstAt(hp, w, v) \in 1 .. w.len
<1> DEFINE S == {k \in 1 .. w.len : hp[w.arr][k] = v}
<1>1. w.len \in Nat
  BY SliceAssumption DEF Window
<1>2. S # {} /\ S \in SUBSET Nat
  BY <1>1 DEF Contains
<1>3. PICK k \in S : \A j \in S : k <= j
  <2> HIDE DEF S
  <2> QED BY <1>2, LeastExists
<1>4. k \in 1 .. w.len /\ hp[w.arr][k] = v
  BY <1>3
<1>5. \A j \in 1 .. k - 1 : hp[w.arr][j] # v
  <2> SUFFICES ASSUME NEW j \in 1 .. k - 1, hp[w.arr][j] = v PROVE FALSE
    OBVIOUS
  <2>1. j \in S /\ ~(k <= j)
    BY <1>1, <1>4
  <2> QED BY <1>3, <2>1
<1> QED BY <1>4, <1>5 DEF FirstAt

LEMMA RemoveKeeps ==
  ASSUME InOrder(heap, obj), NEW o \in Obj, NEW v \in Value, Remove(o, v)
  PROVE  Lasts
<1>1. obj[o] # None
  BY DEF Remove
<1>2. CASE ~Contains(heap, obj[o], v)
  BY <1>2, NothingKeeps DEF Remove
<1>3. CASE Contains(heap, obj[o], v)
  <2>1. CutAt(o, FirstAt(heap, obj[o], v), "changed")
    BY <1>3 DEF Remove
  <2>2. FirstAt(heap, obj[o], v) \in 1 .. obj[o].len
    BY <1>1, <1>3, FirstIs DEF InOrder
  <2> QED BY <1>1, <2>1, <2>2, CutAtKeeps
<1> QED BY <1>2, <1>3

LEMMA FilterKeeps ==
  ASSUME InOrder(heap, obj), NEW o \in Obj, obj[o] # None, NEW c, NEW drop
  PROVE  Filter(o, c, drop) => Lasts
<1> DEFINE w   == obj[o]
           all == [heap |-> heap, len |-> w.len, i |-> 0]
           end == StrainedTo(w.len, all, o, c, drop)
           v   == Cut(w, end.len)
           new == [obj EXCEPT ![o] = v]
<1>1. Filter(o, c, drop) => Changed(end.heap, new)
  BY DEF Filter, Becomes, Cut
<1>2. w \in Window /\ heap \in Heap /\ Shows(heap, w)
  BY DEF InOrder
<1>3. /\ w.arr \in Arr /\ w.len \in Nat /\ w.len \in 0 .. MaxLen
      /\ Len(heap[w.arr]) \in Nat /\ w.len <= Len(heap[w.arr])
  <2> HIDE DEF w
  <2> QED BY <1>2, ElemsAre
<1>4. all \in Straining(heap, w)
  <2> HIDE DEF w
  <2>1. all \in [heap : Heap, len : 0 .. w.len, i : 0 .. w.len]
        /\ all.heap = heap /\ all.len = w.len /\ all.i = 0
    BY <1>2, <1>3
  <2> HIDE DEF all
  <2> QED BY <1>2, <1>3, <2>1, RewritesNothing DEF Straining, Shows
<1> HIDE DEF all
<1>5. end \in Straining(heap, w)
  BY <1>3, <1>4, StrainedToIs
<1> HIDE DEF end, w
<1>6. /\ end.heap \in Heap /\ end.len \in 0 .. w.len /\ Rewrites(end.heap, heap, w)
      /\ \A j \in 1 .. w.len : Conv[w.type][end.heap[w.arr][j]] = end.heap[w.arr][j]
  BY <1>5 DEF Straining
<1>7. v \in Window /\ v.arr = w.arr /\ v.len = end.len /\ v.type = w.type
  <2>1. end.len \in 0 .. MaxLen
    BY <1>3, <1>6, SliceAssumption
  <2> QED BY <1>2, <1>3, <2>1, WindowWith
<1> HIDE DEF v
<1>8. Shows(end.heap, v)
  <2>1. Len(end.heap[w.arr]) = Len(heap[w.arr])
    BY <1>3, <1>6 DEF Rewrites
  <2> QED BY <1>3, <1>6, <1>7, <2>1 DEF Shows, Cap
<1>9. InOrder(end.heap, new) /\ StillThere(new)
  BY <1>6, <1>7, <1>8, RewritesKeep, WindowStays DEF w
<1> HIDE DEF new
<1> QED BY <1>1, <1>9, ChangedKeeps
-----------------------------------------------------------------------------
(* The iterator.                                                           *)
LEMMA OvertakenKeeps ==
  ASSUME InOrder(heap, obj), Lasts, Walking, WalkExact, Overtaken
  PROVE  Walking' /\ WalkExact'
<1>0. walk' \in Walks /\ walk' \in {walk, NoWalk} /\ ~NoWalk.clean
  <2>1. NoWalk \in Walks /\ ~NoWalk.clean
    BY DEF NoWalk, Walks
  <2> QED BY <2>1 DEF Overtaken, Walking
<1>1. CASE it = None
  BY <1>0, <1>1 DEF Overtaken, Walking, WalkExact
<1>2. CASE it # None
  <2> DEFINE s == it.s
  <2>1. it' = it /\ it \in Iterators /\ s \in Obj /\ obj[s] # None /\ obj'[s] # None
        /\ it.last \in {0, it.i}
    BY <1>2 DEF Overtaken, Walking, Iterators, Lasts
  <2>2. /\ heap \in Heap /\ obj[s] \in Window /\ Shows(heap, obj[s])
        /\ heap' \in Heap /\ obj'[s] \in Window /\ Shows(heap', obj'[s])
    BY <2>1 DEF InOrder, Lasts
  <2>3. Len(List(s)) = obj[s].len /\ Len(List(s)') = obj'[s].len
    <3>1. Len(Elems(heap, obj[s])) = obj[s].len
      BY <2>2, ElemsAre
    <3>2. Len(Elems(heap', obj'[s])) = obj'[s].len
      BY <2>2, ElemsAre
    <3> QED BY <2>1, <3>1, <3>2 DEF List
  <2>4. walk' = IF List(s)' # List(s) THEN NoWalk ELSE walk
    BY <1>2, <2>1 DEF Overtaken, List
  <2>5. CASE List(s)' # List(s)
    BY <1>0, <2>1, <2>4, <2>5 DEF Walking, WalkExact
  <2>6. CASE List(s)' = List(s)
    <3>1. walk' = walk /\ obj'[s].len = obj[s].len /\ it' = it /\ List(it.s)' = List(it.s)
      BY <2>1, <2>3, <2>4, <2>6
    <3>2. Walking'
      BY <1>0, <1>2, <2>1, <3>1 DEF Walking
    <3>3. WalkExact'
      BY <1>2, <2>1, <3>1 DEF WalkExact
    <3> QED BY <3>2, <3>3
  <2> QED BY <2>5, <2>6
<1> QED BY <1>1, <1>2

LEMMA IteratorKeeps ==
  ASSUME InOrder(heap, obj), Walking, NEW o \in Obj, Iterator(o)
  PROVE  Walking' /\ WalkExact'
<1> DEFINE w == obj[o]
           new == [s |-> o, i |-> 0, last |-> 0]
<1>1. /\ w # None /\ heap' = heap /\ obj' = obj /\ it' = new
      /\ walk' = [of |-> List(o), got |-> <<>>, kept |-> <<>>, clean |-> TRUE]
  BY DEF Iterator
<1>2. heap \in Heap /\ w \in Window /\ Shows(heap, w)
  BY <1>1 DEF InOrder
<1>3. w.len \in Nat /\ List(o) \in Seq(Value) /\ Len(List(o)) = w.len
  <2>1. List(o) = Elems(heap, w)
    BY DEF List
  <2> HIDE DEF w
  <2> QED BY <1>2, <2>1, ElemsAre
<1>4. List(o)' = List(o)
  BY <1>1 DEF List
<1>5. new \in Iterators /\ new.s = o /\ new.i = 0 /\ new.last = 0
  BY SliceAssumption DEF Iterators
<1> HIDE DEF new
<1>6. /\ it' \in Iterators /\ it'.s = o /\ it'.i = 0 /\ it'.last = 0 /\ obj'[o] = w
      /\ walk'.of = List(o) /\ walk'.got = <<>> /\ walk'.kept = <<>>
  BY <1>1, <1>5
<1>7. Walking'
  <2>1. walk' \in Walks /\ Len(<<>>) = 0
    BY <1>1, <1>3 DEF Walks
  <2> QED BY <1>1, <1>3, <1>6, <2>1 DEF Walking
<1>8. SubSeq(List(o), 0 + 1, w.len) = List(o)
  BY <1>3, SubSeqFull
<1>9. <<>> \o List(o) = List(o)
  BY <1>3, ConcatEmptySeq
<1>10. WalkExact'
  <2> SUFFICES <<>> \o SubSeq(List(o), 0 + 1, w.len) = List(o)
               /\ List(o) = <<>> \o SubSeq(List(o), 0 + 1, w.len)
    BY <1>4, <1>6 DEF WalkExact
  <2> QED BY <1>8, <1>9
<1> QED BY <1>7, <1>10

(* What is left of a sequence begins with its next element.                *)
LEMMA RestIs ==
  ASSUME NEW s \in Seq(Value), NEW i \in 0 .. Len(s) - 1, NEW g \in Seq(Value)
  PROVE  /\ Append(g, s[i + 1]) \in Seq(Value)
         /\ Append(g, s[i + 1]) \o SubSeq(s, i + 2, Len(s)) = g \o SubSeq(s, i + 1, Len(s))
<1> DEFINE n == Len(s)
           e == s[i + 1]
           r == SubSeq(s, i + 2, n)
           t == SubSeq(s, i + 1, n)
<1>1. n \in Nat /\ i \in Nat /\ i + 1 \in 1 .. n /\ n \in i + 1 .. n
  OBVIOUS
<1>2. e \in Value /\ <<e>> \in Seq(Value) /\ r \in Seq(Value)
  BY <1>1
<1>3. t = <<e>> \o r
  <2>1. SubSeq(s, i + 1, n) = <<s[i + 1]>> \o SubSeq(s, (i + 1) + 1, n)
    <3> HIDE DEF n
    <3>1. n \in i + 1 .. Len(s)
      BY <1>1 DEF n
    <3> QED BY <1>1, <3>1, SubSeqRecursiveFirst DEF n
  <2>2. (i + 1) + 1 = i + 2
    BY <1>1
  <2> QED BY <2>1, <2>2
<1> HIDE DEF e, r, t, n
<1>4. Append(g, e) = g \o <<e>> /\ Append(g, e) \in Seq(Value)
  BY <1>2, AppendIsConcat
<1>5. (g \o <<e>>) \o r = g \o (<<e>> \o r)
  BY <1>2, ConcatAssociative
<1> QED BY <1>3, <1>4, <1>5 DEF e, r, t, n

LEMMA NextElementKeeps ==
  ASSUME InOrder(heap, obj), Walking, WalkExact, NextElement
  PROVE  Walking' /\ WalkExact'
<1> DEFINE s   == it.s
           w   == obj[s]
           l   == List(s)
           new == [it EXCEPT !.i = @ + 1, !.last = it.i + 1]
<1>1. /\ it # None /\ it.i < w.len /\ it' = new /\ heap' = heap /\ obj' = obj
      /\ walk' = IF walk.clean
                 THEN [walk EXCEPT !.got = Append(@, l[it.i + 1]), !.kept = Append(@, l[it.i + 1])]
                 ELSE walk
  BY DEF NextElement, HasNext
<1>2. it \in Iterators /\ s \in Obj /\ w # None /\ it.last \in {0, it.i} /\ it.i \in Nat
  BY <1>1, SliceAssumption DEF Walking, Iterators
<1>3. heap \in Heap /\ w \in Window /\ Shows(heap, w)
  BY <1>2 DEF InOrder
<1>4. w.len \in 0 .. MaxLen /\ w.len \in Nat /\ l \in Seq(Value) /\ Len(l) = w.len
  <2>1. l = Elems(heap, w)
    BY DEF List
  <2> HIDE DEF w, l
  <2> QED BY <1>3, <2>1, ElemsAre
<1>5. it.i + 1 \in 0 .. MaxLen /\ it.i + 1 <= w.len
  BY <1>1, <1>2, <1>4, SliceAssumption
<1>6. new \in Iterators /\ new.s = s /\ new.i = it.i + 1 /\ new.last = it.i + 1
  BY <1>2, <1>5 DEF Iterators
<1> HIDE DEF new
<1>7. it' \in Iterators /\ it'.s = s /\ it'.i = it.i + 1 /\ it'.last = it.i + 1
      /\ obj'[s] = w /\ obj'[it'.s] = w /\ List(it.s)' = l
  BY <1>1, <1>6 DEF List
<1>8. CASE ~walk.clean
  <2>1. walk' = walk /\ ~walk'.clean /\ walk' \in Walks
    BY <1>1, <1>8 DEF Walking
  <2> QED BY <1>2, <1>7, <2>1 DEF Walking, WalkExact
<1>9. CASE walk.clean
  <2> DEFINE e    == l[it.i + 1]
             more == [walk EXCEPT !.got = Append(@, e), !.kept = Append(@, e)]
             rest == SubSeq(l, it.i + 1, w.len)
             end  == SubSeq(l, it.i + 2, w.len)
  <2>1. /\ walk' = more /\ walk \in Walks
        /\ walk.got \in Seq(Value) /\ walk.kept \in Seq(Value) /\ Len(walk.kept) = it.i
        /\ walk.got \o rest = walk.of /\ l = walk.kept \o rest
    BY <1>1, <1>9 DEF Walking, Walks, WalkExact
  <2> HIDE DEF s, w, l
  <2>2. it.i \in 0 .. Len(l) - 1 /\ e \in Value
    BY <1>1, <1>2, <1>4
  <2>3. /\ Append(walk.got, e) \in Seq(Value) /\ Append(walk.got, e) \o end = walk.got \o rest
        /\ Append(walk.kept, e) \in Seq(Value) /\ Append(walk.kept, e) \o end = walk.kept \o rest
    <3>1. walk.got \in Seq(Value) /\ walk.kept \in Seq(Value) /\ l \in Seq(Value)
      BY <1>4, <2>1
    <3>2. /\ e = l[it.i + 1] /\ rest = SubSeq(l, it.i + 1, Len(l))
          /\ end = SubSeq(l, it.i + 2, Len(l))
      BY <1>4
    <3> HIDE DEF e, rest, end
    <3>3. ASSUME NEW g \in Seq(Value)
          PROVE  Append(g, e) \in Seq(Value) /\ Append(g, e) \o end = g \o rest
      BY <2>2, <3>1, <3>2, RestIs
    <3> QED BY <3>1, <3>3
  <2> HIDE DEF e, rest, end
  <2>4. /\ more \in Walks /\ more.of = walk.of
        /\ more.got = Append(walk.got, e) /\ more.kept = Append(walk.kept, e)
    BY <2>1, <2>3 DEF Walks
  <2>5. Len(more.kept) = it.i + 1
    BY <2>1, <2>2, <2>4
  <2> HIDE DEF more
  <2>6. Walking'
    BY <1>2, <1>5, <1>7, <2>1, <2>4, <2>5 DEF Walking
  <2>7. WalkExact'
    <3>1. (it.i + 1) + 1 = it.i + 2
      BY <1>2
    <3>2. walk'.got \o end = walk'.of /\ l = walk'.kept \o end
      BY <2>1, <2>3, <2>4
    <3>3. SubSeq(l, it'.i + 1, w.len) = end
      BY <1>7, <3>1 DEF end
    <3> QED BY <1>7, <3>2, <3>3 DEF WalkExact
  <2> QED BY <2>6, <2>7
<1> QED BY <1>8, <1>9

(* A removal takes the last element returned, and nothing else.            *)
From(s, i)   == SubSeq(s, i, Len(s))
ButLast(s)   == SubSeq(s, 1, Len(s) - 1)
Kept(s, k, i) == Len(k) = i /\ s = k \o From(s, i + 1)
Lacks(t, s, i) ==
  Len(t) = Len(s) - 1 /\ \A j \in 1 .. Len(t) : t[j] = IF i <= j THEN s[j + 1] ELSE s[j]

LEMMA CutIs ==
  ASSUME NEW s \in Seq(Value), NEW t \in Seq(Value), NEW i \in 1 .. Len(s), Lacks(t, s, i),
         NEW kept \in Seq(Value), Kept(s, kept, i)
  PROVE  /\ From(t, i) = From(s, i + 1)
         /\ ButLast(kept) \in Seq(Value) /\ Kept(t, ButLast(kept), i - 1)
<1> DEFINE n     == Len(s)
           rest  == SubSeq(s, i + 1, n)
           end   == SubSeq(t, i, n - 1)
           kept2 == SubSeq(kept, 1, i - 1)
<1>1. n \in Nat /\ i \in Nat /\ i >= 1 /\ i <= n /\ Len(t) = n - 1
  BY DEF Lacks
<1>2. s = kept \o rest /\ Len(kept) = i
  BY DEF From, Kept
<1>3. rest \in Seq(Value) /\ Len(rest) = n - i /\ \A j \in 1 .. n - i : rest[j] = s[i + j]
  <2>1. \A j \in i + 1 .. n : s[j] \in Value
    BY <1>1
  <2>2. /\ rest \in Seq(Value) /\ Len(rest) = IF i + 1 <= n THEN n - (i + 1) + 1 ELSE 0
        /\ \A j \in 1 .. n - (i + 1) + 1 : rest[j] = s[(i + 1) + j - 1]
    <3> HIDE DEF n
    <3> QED BY <1>1, <2>1, SubSeqProperties
  <2> HIDE DEF rest, n
  <2> QED BY <1>1, <2>2
<1>4. end \in Seq(Value) /\ Len(end) = n - i /\ \A j \in 1 .. n - i : end[j] = t[i + j - 1]
  <2>1. \A j \in i .. n - 1 : t[j] \in Value
    BY <1>1
  <2>2. /\ end \in Seq(Value) /\ Len(end) = IF i <= n - 1 THEN (n - 1) - i + 1 ELSE 0
        /\ \A j \in 1 .. (n - 1) - i + 1 : end[j] = t[i + j - 1]
    <3> HIDE DEF n
    <3> QED BY <1>1, <2>1, SubSeqProperties
  <2> HIDE DEF end, n
  <2> QED BY <1>1, <2>2
<1>5. kept2 \in Seq(Value) /\ Len(kept2) = i - 1 /\ \A j \in 1 .. i - 1 : kept2[j] = kept[j]
  <2>1. \A j \in 1 .. i - 1 : kept[j] \in Value
    BY <1>1, <1>2
  <2>2. /\ kept2 \in Seq(Value) /\ Len(kept2) = IF 1 <= i - 1 THEN (i - 1) - 1 + 1 ELSE 0
        /\ \A j \in 1 .. (i - 1) - 1 + 1 : kept2[j] = kept[1 + j - 1]
    BY <1>1, <2>1, SubSeqProperties
  <2> HIDE DEF kept2
  <2> QED BY <1>1, <2>2
<1> HIDE DEF rest, end, kept2
<1>6. \A j \in 1 .. i : s[j] = kept[j]
  <2>1. \A j \in 1 .. Len(kept) + Len(rest) :
          (kept \o rest)[j] = IF j <= Len(kept) THEN kept[j] ELSE rest[j - Len(kept)]
    BY <1>3, ConcatProperties
  <2> QED BY <1>1, <1>2, <1>3, <2>1
<1> HIDE DEF n
<1>7. \A j \in 1 .. n - 1 : t[j] = IF i <= j THEN s[j + 1] ELSE s[j]
  BY <1>1 DEF Lacks, n
<1>8. end = rest
  <2>1. ASSUME NEW j \in 1 .. n - i PROVE end[j] = rest[j]
    <3>1. i + j - 1 \in 1 .. n - 1 /\ i <= i + j - 1 /\ (i + j - 1) + 1 = i + j
      BY <1>1
    <3>2. t[i + j - 1] = s[i + j]
      BY <1>7, <3>1
    <3> QED BY <1>3, <1>4, <3>2
  <2> QED BY <1>3, <1>4, <2>1, SeqEqual
<1>9. t = kept2 \o rest
  <2>1. /\ kept2 \o rest \in Seq(Value) /\ Len(kept2 \o rest) = Len(kept2) + Len(rest)
        /\ \A j \in 1 .. Len(kept2) + Len(rest) :
             (kept2 \o rest)[j] = IF j <= Len(kept2) THEN kept2[j] ELSE rest[j - Len(kept2)]
    BY <1>3, <1>5, ConcatProperties
  <2>2. Len(kept2) + Len(rest) = n - 1
    BY <1>1, <1>3, <1>5
  <2>3. ASSUME NEW j \in 1 .. n - 1 PROVE t[j] = (kept2 \o rest)[j]
    <3>1. CASE j <= i - 1
      <4>1. j \in 1 .. i - 1 /\ j \in 1 .. i /\ ~(i <= j)
        BY <1>1, <3>1
      <4> QED BY <1>5, <1>6, <1>7, <2>1, <2>2, <3>1, <4>1
    <3>2. CASE ~(j <= i - 1)
      <4>1. i <= j /\ j - (i - 1) \in 1 .. n - i /\ i + (j - (i - 1)) = j + 1
        BY <1>1, <3>2
      <4>2. rest[j - (i - 1)] = s[j + 1]
        BY <1>3, <4>1
      <4> QED BY <1>5, <1>7, <2>1, <2>2, <3>2, <4>1, <4>2
    <3> QED BY <3>1, <3>2
  <2> QED BY <1>1, <2>1, <2>2, <2>3, SeqEqual
<1>10. From(t, i) = end /\ From(s, i + 1) = rest /\ ButLast(kept) = kept2
  BY <1>1, <1>2 DEF From, ButLast, rest, end, kept2, n
<1>11. Kept(t, kept2, i - 1)
  <2>1. (i - 1) + 1 = i
    BY <1>1
  <2> QED BY <1>5, <1>8, <1>9, <1>10, <2>1 DEF Kept
<1> QED BY <1>5, <1>8, <1>10, <1>11

LEMMA IterRemoveKeeps ==
  ASSUME InOrder(heap, obj), Walking, WalkExact, IterRemove
  PROVE  InOrder(heap, obj)' /\ Walking' /\ WalkExact'
<1> DEFINE s   == it.s
           i   == it.i
           w   == obj[s]
           l   == List(s)
           new == [it EXCEPT !.i = @ - 1, !.last = 0]
           hp2 == Delete(heap, w.arr, w.len, i)
           v   == Cut(w, w.len - 1)
           cut == [obj EXCEPT ![s] = v]
<1>0. CASE it.last = 0 \/ i - 1 >= w.len
  BY <1>0 DEF IterRemove, Refuse, InOrder, Walking, WalkExact, List
<1>1. CASE ~(it.last = 0 \/ i - 1 >= w.len)
  <2>1. /\ it # None /\ CutAt(s, i, "changed") /\ it' = new
        /\ walk' = IF walk.clean THEN [walk EXCEPT !.kept = SubSeq(@, 1, Len(@) - 1)] ELSE walk
    BY <1>1 DEF IterRemove
  <2>2. it \in Iterators /\ s \in Obj /\ w # None /\ i \in 0 .. MaxLen /\ i = it.last
    BY <1>1, <2>1 DEF Walking, Iterators
  <2>3. heap \in Heap /\ w \in Window /\ Shows(heap, w)
    BY <2>2 DEF InOrder
  <2>4. /\ w.arr \in Arr /\ w.len \in 0 .. MaxLen /\ w.len \in Nat /\ w.type \in Type
        /\ heap[w.arr] \in Seq(Value) /\ Len(heap[w.arr]) \in Nat /\ w.len <= Len(heap[w.arr])
        /\ l \in Seq(Value) /\ Len(l) = w.len
        /\ \A j \in 1 .. w.len : l[j] = heap[w.arr][j]
    <3>1. l = Elems(heap, w)
      BY DEF List
    <3> HIDE DEF w, l
    <3> QED BY <2>3, <3>1, ElemsAre
  <2>5. i \in 1 .. w.len /\ i \in Nat /\ MaxLen \in Nat
    BY <1>1, <2>2, <2>4, SliceAssumption
  <2>6. InOrder(heap, obj)'
    BY <2>1, <2>2, <2>5, CutAtKeeps DEF Lasts
  <2>7. heap' = Collect(hp2, cut) /\ obj' = cut
    BY <2>1 DEF CutAt, Changed, Cut
  <2>8. new \in Iterators /\ new.s = s /\ new.i = i - 1 /\ new.last = 0
    <3>1. i - 1 \in 0 .. MaxLen /\ 0 \in 0 .. MaxLen
      BY <2>2, <2>5
    <3> QED BY <2>2, <3>1 DEF Iterators
  <2> HIDE DEF new
  <2>9. it' \in Iterators /\ it'.s = s /\ it'.i = i - 1 /\ it'.last = 0
    BY <2>1, <2>8
  <2>10. obj'[s] = v /\ obj'[it'.s] = v /\ v \in Window /\ v.arr = w.arr /\ v.len = w.len - 1
    <3>1. w.len - 1 \in 0 .. MaxLen
      BY <2>4, <2>5
    <3> HIDE DEF w, s
    <3>2. v \in Window /\ v.arr = w.arr /\ v.len = w.len - 1
      BY <2>3, <2>4, <3>1, WindowWith
    <3> HIDE DEF v
    <3>3. cut[s] = v
      BY <2>2 DEF InOrder
    <3> QED BY <2>7, <2>9, <3>2, <3>3
  <2>11. CASE ~walk.clean
    <3>1. walk' = walk /\ ~walk'.clean /\ walk' \in Walks
      BY <2>1, <2>11 DEF Walking
    <3>2. obj'[it'.s] # None
      BY <2>10, SliceAssumption
    <3> QED BY <2>6, <2>9, <3>1, <3>2 DEF Walking, WalkExact
  <2>12. CASE walk.clean
    <3> DEFINE l2    == Elems(heap', obj'[s])
               rest  == SubSeq(l, i + 1, w.len)
               kept2 == SubSeq(walk.kept, 1, Len(walk.kept) - 1)
               less  == [walk EXCEPT !.kept = kept2]
    <3>1. /\ walk' = less /\ walk \in Walks
          /\ walk.got \in Seq(Value) /\ walk.kept \in Seq(Value) /\ Len(walk.kept) = i
          /\ walk.got \o rest = walk.of /\ l = walk.kept \o rest
      BY <2>1, <2>12 DEF Walking, Walks, WalkExact
    <3>2. List(it.s)' = l2 /\ l2 = Elems(heap', v)
      <4>1. List(it.s)' = Elems(heap', obj'[it'.s])
        BY DEF List
      <4> QED BY <2>9, <2>10, <4>1
    <3>3. /\ l2 \in Seq(Value) /\ Len(l2) = w.len - 1
          /\ \A j \in 1 .. w.len - 1 : l2[j] = heap'[w.arr][j]
      <4> HIDE DEF w, s, l2
      <4>1. obj'[s] \in Window /\ obj'[s] # None /\ heap' \in Heap
        BY <2>6, <2>10, SliceAssumption DEF InOrder
      <4>2. Shows(heap', v)
        BY <2>2, <2>6, <2>10, <4>1 DEF InOrder
      <4> HIDE DEF v
      <4> QED BY <2>10, <3>2, <4>1, <4>2, ElemsAre
    <3>4. heap'[w.arr] = hp2[w.arr]
      <4>1. Refers(cut, w.arr)
        <5>1. cut[s] # None /\ cut[s].arr = w.arr
          BY <2>7, <2>10, SliceAssumption
        <5> QED BY <2>2, <5>1 DEF Refers
      <4> HIDE DEF cut, hp2, w
      <4> QED BY <2>4, <2>7, <4>1 DEF Collect
    <3>5. \A j \in 1 .. Len(heap[w.arr]) :
            hp2[w.arr][j] = IF i <= j /\ j < w.len THEN heap[w.arr][j + 1] ELSE heap[w.arr][j]
      <4> HIDE DEF w, i
      <4>1. w.len \in 0 .. w.len /\ i \in Nat \ {0}
        BY <2>4, <2>5
      <4> QED BY <2>3, <4>1, DeleteIs
    <3> HIDE DEF w, v, s, i, l, l2, hp2, cut
    <3>6. Lacks(l2, l, i)
      <4> SUFFICES ASSUME NEW j \in 1 .. w.len - 1
                   PROVE  l2[j] = IF i <= j THEN l[j + 1] ELSE l[j]
        BY <2>4, <3>3 DEF Lacks
      <4>1. /\ j \in 1 .. Len(heap[w.arr]) /\ j < w.len
            /\ j \in 1 .. w.len /\ j + 1 \in 1 .. w.len
        BY <2>4
      <4>2. l2[j] = IF i <= j THEN heap[w.arr][j + 1] ELSE heap[w.arr][j]
        BY <3>3, <3>4, <3>5, <4>1
      <4> QED BY <2>4, <4>1, <4>2
    <3>7. /\ SubSeq(l2, i, w.len - 1) = rest
          /\ kept2 \in Seq(Value) /\ Len(kept2) = i - 1
          /\ l2 = kept2 \o rest
      <4> DEFINE kept == walk.kept
      <4>1. i \in 1 .. Len(l) /\ Kept(l, kept, i)
        BY <2>4, <2>5, <3>1 DEF From, Kept, rest
      <4>2. l \in Seq(Value) /\ l2 \in Seq(Value) /\ kept \in Seq(Value)
        BY <2>4, <3>1, <3>3
      <4>3. kept2 = ButLast(kept) /\ rest = From(l, i + 1) /\ SubSeq(l2, i, w.len - 1) = From(l2, i)
        BY <2>4, <3>3 DEF ButLast, From
      <4>4. (i - 1) + 1 = i
        BY <2>5
      <4> HIDE DEF kept, kept2, rest
      <4>5. /\ From(l2, i) = From(l, i + 1)
            /\ ButLast(kept) \in Seq(Value) /\ Kept(l2, ButLast(kept), i - 1)
        BY <3>6, <4>1, <4>2, CutIs
      <4> QED BY <4>3, <4>4, <4>5 DEF Kept
    <3> HIDE DEF kept2
    <3>8. less \in Walks /\ less.of = walk.of /\ less.got = walk.got /\ less.kept = kept2
      BY <3>1, <3>7 DEF Walks
    <3> HIDE DEF less
    <3>9. obj'[it'.s] # None /\ obj'[it'.s].len = w.len - 1 /\ i - 1 <= w.len - 1
      BY <2>4, <2>5, <2>10, SliceAssumption
    <3>10. Walking'
      BY <2>9, <3>1, <3>7, <3>8, <3>9 DEF Walking
    <3>11. WalkExact'
      <4>1. (i - 1) + 1 = i
        BY <2>5
      <4>2. walk'.got \o rest = walk'.of /\ l2 = walk'.kept \o rest
        BY <3>1, <3>7, <3>8
      <4>3. SubSeq(l2, it'.i + 1, obj'[it'.s].len) = rest
        BY <2>9, <3>7, <3>9, <4>1
      <4> HIDE DEF rest
      <4> QED BY <3>2, <4>2, <4>3 DEF WalkExact
    <3> QED BY <2>6, <3>10, <3>11
  <2> QED BY <2>11, <2>12
<1> QED BY <1>0, <1>1
-----------------------------------------------------------------------------
Returns == {"changed", "same", "error"}

LEMMA InitKeeps == Init => SliceInv
<1> SUFFICES ASSUME Init PROVE SliceInv
  OBVIOUS
<1>1. heap \in Heap /\ heap[0] = <<>>
  <2>1. \A a \in DOMAIN Arrays0 : Arrays0[a] \in Seq(Value)
    BY SliceAssumption
  <2> QED BY <2>1, ArrIs DEF Init, Heap
<1>2. ASSUME NEW h \in Host PROVE Shows(heap, Windows0[h])
  <2>1. heap[Windows0[h].arr] = Arrays0[Windows0[h].arr]
    BY HostsAre DEF Init
  <2> QED BY <2>1, HostsAre DEF Shows, Cap
<1>3. InOrder(heap, obj)
  BY <1>1, <1>2 DEF Init, InOrder
<1>4. NoWalk \in Walks /\ ~NoWalk.clean
  BY DEF NoWalk, Walks
<1>5. Walking /\ WalkExact
  BY <1>4 DEF Init, Walking, WalkExact
<1> QED BY <1>3, <1>5 DEF Init, SliceInv

LEMMA StepKeeps == SliceInv /\ [Next]_vars => SliceInv'
<1> SUFFICES ASSUME SliceInv, [Next]_vars PROVE SliceInv'
  OBVIOUS
<1>0. InOrder(heap, obj) /\ Walking /\ WalkExact /\ ret \in Returns
  BY DEF SliceInv, Returns
<1>1. ASSUME Lasts, Overtaken, ret' \in Returns PROVE SliceInv'
  <2>1. InOrder(heap, obj)'
    BY <1>1 DEF Lasts
  <2> QED BY <1>0, <1>1, <2>1, OvertakenKeeps DEF SliceInv, Returns
<1>2. ASSUME UNCHANGED <<heap, obj, it, walk>>, ret' \in Returns PROVE SliceInv'
  BY <1>0, <1>2 DEF SliceInv, Returns, InOrder, Walking, WalkExact, List
<1>3. Refuse => UNCHANGED <<heap, obj, it, walk>> /\ ret' \in Returns
  BY DEF Refuse, Returns
<1>4. ASSUME NEW o \in Obj, New(o) PROVE SliceInv'
  <2>1. Overtaken /\ ret' \in Returns
    BY <1>4 DEF New, NewOn, Becomes, Returns
  <2> QED BY <1>0, <1>1, <1>4, <2>1, NewKeeps
<1>5. ASSUME NEW o \in Obj, Clear(o) PROVE SliceInv'
  <2>1. Overtaken /\ ret' \in Returns
    BY <1>5 DEF Clear, Becomes, Returns
  <2> QED BY <1>0, <1>1, <1>5, <2>1, ClearKeeps
<1>6. ASSUME NEW o \in Walked, Iterator(o) PROVE SliceInv'
  <2>1. o \in Obj /\ Walking' /\ WalkExact'
    BY <1>0, <1>6, SliceAssumption, IteratorKeeps
  <2>2. InOrder(heap, obj)' /\ ret' \in Returns
    BY <1>0, <1>6 DEF Iterator, InOrder, Returns
  <2> QED BY <2>1, <2>2 DEF SliceInv, Returns
<1>7. ASSUME NEW o \in Obj, NEW h \in Host, Wrap(o, h) PROVE SliceInv'
  <2>1. Overtaken /\ ret' \in Returns
    BY <1>7 DEF Wrap, Becomes, Returns
  <2> QED BY <1>0, <1>1, <1>7, <2>1, WrapKeeps
<1>8. ASSUME NEW o \in Obj, NEW c \in Obj, ToArray(o, c) PROVE SliceInv'
  <2>1. Overtaken /\ ret' \in Returns
    BY <1>8 DEF ToArray, NewOn, Becomes, Returns
  <2> QED BY <1>0, <1>1, <1>8, <2>1, ToArrayKeeps
<1>9. ASSUME NEW o, NEW s, Extended(o, s) PROVE Overtaken /\ ret' \in Returns
  BY <1>9 DEF Extended, Becomes, Returns
<1>10. ASSUME NEW o \in Obj, NEW c \in Obj, AddAll(o, c) PROVE SliceInv'
  <2>1. Refuse \/ (Overtaken /\ ret' \in Returns)
    BY <1>9, <1>10 DEF AddAll
  <2> QED BY <1>0, <1>1, <1>2, <1>3, <1>10, <2>1, AddAllKeeps
<1>11. ASSUME NEW o \in Obj, NEW v \in Value, Add(o, v) PROVE SliceInv'
  <2>1. Overtaken /\ ret' \in Returns
    BY <1>9, <1>11 DEF Add
  <2> QED BY <1>0, <1>1, <1>11, <2>1, AddKeeps
<1>12. ASSUME NEW o, NEW c, NEW drop, Filter(o, c, drop) PROVE Overtaken /\ ret' \in Returns
  BY <1>12 DEF Filter, Becomes, Returns
<1>13. ASSUME NEW o \in Obj, NEW c \in Obj, RemoveAll(o, c) PROVE SliceInv'
  <2>1. obj[o] # None /\ Filter(o, c, TRUE)
    BY <1>13 DEF RemoveAll
  <2> QED BY <1>0, <1>1, <1>12, <2>1, FilterKeeps
<1>14. ASSUME NEW o \in Obj, NEW c \in Obj, RetainAll(o, c) PROVE SliceInv'
  <2>1. obj[o] # None /\ Filter(o, c, FALSE)
    BY <1>14 DEF RetainAll
  <2> QED BY <1>0, <1>1, <1>12, <2>1, FilterKeeps
<1>15. ASSUME NEW o \in Obj, NEW v \in Value, Remove(o, v) PROVE SliceInv'
  <2>1. CASE Contains(heap, obj[o], v)
    <3>1. Overtaken /\ ret' \in Returns
      BY <1>15, <2>1 DEF Remove, CutAt, Returns
    <3> QED BY <1>0, <1>1, <1>15, <3>1, RemoveKeeps
  <2>2. CASE ~Contains(heap, obj[o], v)
    BY <1>2, <1>15, <2>2 DEF Remove, Returns
  <2> QED BY <2>1, <2>2
<1>16. ASSUME NEW o \in Obj, NEW i \in 0 .. MaxLen, NEW v \in Value, Set(o, i, v)
       PROVE  SliceInv'
  <2>1. Refuse \/ (Overtaken /\ ret' \in Returns)
    BY <1>16 DEF Set, Becomes, Returns
  <2> QED BY <1>0, <1>1, <1>2, <1>3, <1>16, <2>1, SetKeeps
<1>17. ASSUME NextElement PROVE SliceInv'
  <2>1. InOrder(heap, obj)' /\ ret' \in Returns
    BY <1>0, <1>17 DEF NextElement, InOrder, Returns
  <2> QED BY <1>0, <1>17, <2>1, NextElementKeeps DEF SliceInv, Returns
<1>18. ASSUME IterRemove PROVE SliceInv'
  <2>1. ret' \in Returns
    BY <1>18 DEF IterRemove, Refuse, CutAt, Returns
  <2> QED BY <1>0, <1>18, <2>1, IterRemoveKeeps DEF SliceInv, Returns
<1>19. CASE UNCHANGED vars
  BY <1>0, <1>2, <1>19 DEF vars
<1> QED BY <1>4, <1>5, <1>6, <1>7, <1>8, <1>10, <1>11, <1>13, <1>14, <1>15, <1>16, <1>17,
           <1>18, <1>19 DEF Next

(* What is in memory stays in order, and an iterator where it should be,   *)
(* through every operation of types.go on slices, refused or not.          *)
THEOREM SliceInvariant == Spec => []SliceInv
<1> QED BY InitKeeps, StepKeeps, PTL DEF Spec

(* No window of a *Slice ever reaches behind its array, and every element  *)
(* it shows is of its type, also where the host or another wrapper writes. *)
THEOREM SliceTypes == Spec => []TypeOK
<1>1. SliceInv => TypeOK
  BY DEF SliceInv, InOrder, Heap, Walking, Iterators, TypeOK
<1> QED BY <1>1, SliceInvariant, PTL

(* Two *Slice are windows on one array only if the array is the host's:    *)
(* ToArray, Add and AddAll give what they make memory of its own.          *)
THEOREM SlicesShareOnlyHosts == Spec => []SharedOnlyByHosts
<1>1. SliceInv => SharedOnlyByHosts
  BY DEF SliceInv, InOrder, HostArray, SharedOnlyByHosts
<1> QED BY <1>1, SliceInvariant, PTL

(* An iterator that alone changes its slice returns every element once and *)
(* in order, and leaves just those it was not told to remove.              *)
THEOREM WalksAreExact == Spec => []WalkExact
<1>1. SliceInv => WalkExact
  BY DEF SliceInv
<1> QED BY <1>1, SliceInvariant, PTL
-----------------------------------------------------------------------------
(* Without the host a *Slice is a list: the lists that Lists is told of.   *)
listed == [o \in Obj |-> IF obj[o] = None THEN None
                         ELSE [type |-> obj[o].type, elems |-> List(o)]]

Listed(w, s) == [type |-> w.type, elems |-> s]

LEMMA ListedIs ==
  ASSUME InOrder(heap, obj), NEW o \in Obj
  PROVE  /\ Abstract!Is(o) <=> obj[o] # None
         /\ obj[o] # None => /\ listed[o] = Listed(obj[o], List(o)) /\ listed[o] # None
                             /\ Abstract!Elems(o) = List(o)
                             /\ obj[o] \in Window /\ Shows(heap, obj[o])
                             /\ List(o) \in Seq(Value) /\ Len(List(o)) = obj[o].len
                             /\ obj[o].len \in Nat /\ obj[o].type \in Type
                             /\ \A k \in 1 .. obj[o].len :
                                  List(o)[k] = heap[obj[o].arr][k] /\ List(o)[k] \in Value
<1>1. ASSUME obj[o] # None
      PROVE  /\ obj[o] \in Window /\ Shows(heap, obj[o])
             /\ List(o) \in Seq(Value) /\ Len(List(o)) = obj[o].len
             /\ obj[o].len \in Nat /\ obj[o].type \in Type
             /\ \A k \in 1 .. obj[o].len :
                  List(o)[k] = heap[obj[o].arr][k] /\ List(o)[k] \in Value
  <2>1. obj[o] \in Window /\ heap \in Heap /\ Shows(heap, obj[o])
    BY <1>1 DEF InOrder
  <2> QED BY <2>1, ElemsAre DEF List
<1>2. obj[o] # None => Listed(obj[o], List(o)) \in [type : Type, elems : Seq(Value)]
  BY <1>1 DEF Listed
<1>3. obj[o] # None => listed[o] = Listed(obj[o], List(o)) /\ listed[o] # None
  BY <1>2, SliceAssumption DEF listed, Listed
<1>4. Abstract!Is(o) <=> obj[o] # None
  BY <1>3 DEF Abstract!Is, listed
<1>5. obj[o] # None => Abstract!Elems(o) = List(o)
  BY <1>3 DEF Abstract!Elems, listed, Listed
<1> QED BY <1>1, <1>3, <1>4, <1>5

(* What a call on o leaves in memory shows the other slices as before.     *)
Others(hp, o) == \A p \in Obj : p # o /\ obj[p] # None => Elems(hp, obj[p]) = List(p)

LEMMA OthersSee ==
  ASSUME InOrder(heap, obj), Host = {}, NEW o \in Obj, obj[o] # None,
         NEW hp, Rewrites(hp, heap, obj[o])
  PROVE  Others(hp, o)
<1> SUFFICES ASSUME NEW p \in Obj, p # o, obj[p] # None PROVE Elems(hp, obj[p]) = List(p)
  BY DEF Others
<1>1. obj[p] \in Window /\ obj[p].arr \in Arr
  BY DEF InOrder, Window
<1>2. CASE obj[p].arr # obj[o].arr
  BY <1>1, <1>2 DEF Rewrites, Elems, List
<1>3. CASE obj[p].arr = obj[o].arr
  <2>1. obj[p].arr = 0
    BY <1>3 DEF InOrder, HostArray
  <2>2. heap[0] = <<>> /\ hp[0] \in Seq(Value) /\ Len(hp[0]) = Len(heap[0])
    BY <1>1, <2>1 DEF InOrder, Rewrites, Heap
  <2>3. hp[0] = heap[0]
    BY <2>2
  <2> QED BY <2>1, <2>3 DEF Elems, List
<1> QED BY <1>2, <1>3

LEMMA OthersFresh ==
  ASSUME InOrder(heap, obj), NEW o \in Obj, NEW hp \in Heap, Others(hp, o), NEW a \in Arr,
         ~Refers(obj, a), NEW s
  PROVE  Others([hp EXCEPT ![a] = s], o)
<1> SUFFICES ASSUME NEW p \in Obj, p # o, obj[p] # None
             PROVE  Elems([hp EXCEPT ![a] = s], obj[p]) = List(p)
  BY DEF Others
<1>1. obj[p].arr # a /\ obj[p].arr \in Arr
  BY DEF Refers, InOrder, Window
<1>2. [hp EXCEPT ![a] = s][obj[p].arr] = hp[obj[p].arr]
  BY <1>1 DEF Heap
<1>3. Elems([hp EXCEPT ![a] = s], obj[p]) = Elems(hp, obj[p])
  BY <1>2 DEF Elems
<1> QED BY <1>3 DEF Others

LEMMA OthersSame ==
  ASSUME NEW o
  PROVE  Others(heap, o)
BY DEF Others, List

LEMMA ListedAfter ==
  ASSUME InOrder(heap, obj), NEW o \in Obj, NEW w \in Window, NEW hp,
         InOrder(hp, [obj EXCEPT ![o] = w]), Others(hp, o), Changed(hp, [obj EXCEPT ![o] = w])
  PROVE  listed' = [listed EXCEPT ![o] = Listed(w, Elems(hp, w))]
<1> DEFINE new == [obj EXCEPT ![o] = w]
<1>1. heap' = Collect(hp, new) /\ obj' = new
  BY DEF Changed
<1>2. DOMAIN obj = Obj /\ None \notin Window
  BY SliceAssumption DEF InOrder
<1>3. new[o] = w /\ w # None /\ \A p \in Obj : p # o => new[p] = obj[p]
  BY <1>2
<1>4. \A p \in Obj : new[p] # None => Elems(Collect(hp, new), new[p]) = Elems(hp, new[p])
  BY CollectKeeps
<1> HIDE DEF new
<1>5. ASSUME NEW p \in Obj PROVE listed'[p] = [listed EXCEPT ![o] = Listed(w, Elems(hp, w))][p]
  <2>1. CASE p = o
    BY <1>1, <1>3, <1>4, <2>1 DEF listed, Listed, List
  <2>2. CASE p # o /\ obj[p] = None
    BY <1>1, <1>3, <2>2 DEF listed
  <2>3. CASE p # o /\ obj[p] # None
    <3>1. Elems(heap', obj'[p]) = List(p) /\ obj'[p] = obj[p]
      BY <1>1, <1>3, <1>4, <2>3 DEF Others
    <3> QED BY <2>3, <3>1 DEF listed, List
  <2> QED BY <2>1, <2>2, <2>3
<1> QED BY <1>5 DEF listed

(* A call on o that leaves its type as it is becomes a call on the list.   *)
LEMMA Becoming ==
  ASSUME InOrder(heap, obj), NEW o \in Obj, obj[o] # None, NEW w \in Window, NEW s, NEW r,
         w.type = obj[o].type, listed' = [listed EXCEPT ![o] = Listed(w, s)], ret' = r
  PROVE  Abstract!Become(o, s, r)
<1>1. listed[o] = [type |-> obj[o].type, elems |-> List(o)]
  BY ListedIs DEF Listed
<1>2. [listed[o] EXCEPT !.elems = s] = Listed(w, s)
  BY <1>1 DEF Listed
<1>3. [listed EXCEPT ![o].elems = s] = [listed EXCEPT ![o] = [listed[o] EXCEPT !.elems = s]]
  BY DEF listed
<1>4. listed' = [listed EXCEPT ![o].elems = s]
  BY <1>2, <1>3
<1> QED BY <1>4 DEF Abstract!Become, listed

LEMMA ChangesList ==
  ASSUME InOrder(heap, obj), NEW o \in Obj, obj[o] # None, Abstract!Change(o)
  PROVE  Abstract!Next
<1>1. Abstract!Is(o)
  BY ListedIs
<1> QED BY <1>1 DEF Abstract!Next

LEMMA RefusesList ==
  ASSUME InOrder(heap, obj), NEW o \in Obj, obj[o] # None, Refuse
  PROVE  Abstract!Next
<1>1. Abstract!Refuse
  BY DEF Refuse, Abstract!Refuse, List
<1>2. Abstract!Change(o)
  BY <1>1 DEF Abstract!Change
<1> QED BY <1>2, ChangesList

LEMMA NothingChanges ==
  ASSUME InOrder(heap, obj), NEW o \in Obj, obj[o] # None,
         UNCHANGED <<heap, obj>>, ret' = "same"
  PROVE  Abstract!Next
<1>1. listed' = listed
  BY DEF listed, List
<1>2. listed = [listed EXCEPT ![o] = Listed(obj[o], List(o))]
  <2>1. listed[o] = Listed(obj[o], List(o))
    BY ListedIs
  <2> QED BY <2>1 DEF listed
<1>3. Abstract!Become(o, List(o), "same")
  BY <1>1, <1>2, ListedIs, Becoming
<1>4. Abstract!Become(o, Abstract!Elems(o), "same")
  BY <1>3, ListedIs
<1>5. Abstract!Change(o)
  BY <1>4 DEF Abstract!Change
<1> QED BY <1>5, ChangesList

LEMMA NewOnLists ==
  ASSUME InOrder(heap, obj), NEW o \in Obj, obj[o] = None, NEW type \in Type,
         NEW elems \in Seq(Value), Len(elems) <= MaxLen,
         \A k \in DOMAIN elems : Conv[type][elems[k]] = elems[k],
         NewOn(o, type, elems)
  PROVE  listed' = [listed EXCEPT ![o] = [type |-> type, elems |-> elems]] /\ ret' = "changed"
<1> DEFINE a   == FreeArr
           w   == [arr |-> a, len |-> Len(elems), type |-> type]
           hp2 == [heap EXCEPT ![a] = elems]
           new == [obj EXCEPT ![o] = w]
<1>1. a \in Arr \ {0} /\ ~Refers(obj, a)
  BY FreeArrIsFree
<1> HIDE DEF a
<1>2. w \in Window /\ w.arr = a /\ w.len = Len(elems) /\ w.type = type
  BY <1>1, SliceAssumption DEF Window
<1>3. hp2[a] = elems /\ heap \in Heap
  BY <1>1 DEF InOrder, Heap
<1>4. Changed(hp2, new) /\ ret' = "changed"
  BY DEF NewOn, Becomes, a
<1> HIDE DEF w
<1>5. Shows(hp2, w)
  BY <1>2, <1>3 DEF Shows, Cap
<1>6. InOrder(hp2, new)
  BY <1>1, <1>2, <1>5, FreshKeeps
<1>7. Others(hp2, o)
  BY <1>1, <1>3, OthersSame, OthersFresh
<1>8. Elems(hp2, w) = elems
  BY <1>2, <1>3 DEF Elems
<1> HIDE DEF hp2
<1>9. listed' = [listed EXCEPT ![o] = Listed(w, Elems(hp2, w))]
  BY <1>2, <1>4, <1>6, <1>7, ListedAfter
<1> QED BY <1>2, <1>4, <1>8, <1>9 DEF Listed

LEMMA NewLists ==
  ASSUME InOrder(heap, obj), NEW o \in Obj, New(o)
  PROVE  Abstract!Next
<1>1. obj[o] = None
  BY DEF New
<1>2. PICK m \in Made : NewOn(o, m.type, m.elems)
  BY DEF New
<1>3. /\ m \in [type : Type, elems : Seq(Value)] /\ m.type \in Type
      /\ m.elems \in Seq(Value) /\ Len(m.elems) <= MaxLen
      /\ \A k \in DOMAIN m.elems : Conv[m.type][m.elems[k]] = m.elems[k]
  BY SliceAssumption
<1>4. listed' = [listed EXCEPT ![o] = [type |-> m.type, elems |-> m.elems]] /\ ret' = "changed"
  BY <1>1, <1>2, <1>3, NewOnLists
<1>5. [type |-> m.type, elems |-> m.elems] = m
  BY <1>3
<1>6. listed' = [listed EXCEPT ![o] = m] /\ ~Abstract!Is(o)
  BY <1>1, <1>4, <1>5, ListedIs
<1>7. Abstract!New(o)
  BY <1>4, <1>6 DEF Abstract!New, listed
<1> QED BY <1>7 DEF Abstract!Next

LEMMA ToArrayLists ==
  ASSUME InOrder(heap, obj), NEW o \in Obj, NEW n \in Obj, ToArray(o, n)
  PROVE  Abstract!Next
<1>1. obj[o] # None /\ obj[n] = None /\ NewOn(n, obj[o].type, List(o))
  BY DEF ToArray
<1>2. /\ Shows(heap, obj[o]) /\ obj[o].type \in Type /\ List(o) \in Seq(Value)
      /\ Len(List(o)) = obj[o].len /\ obj[o].len \in Nat /\ obj[o] \in Window
      /\ \A k \in 1 .. obj[o].len : List(o)[k] = heap[obj[o].arr][k]
  BY <1>1, ListedIs
<1>3. Len(List(o)) <= MaxLen
  BY <1>2, SliceAssumption DEF Window
<1>4. \A k \in DOMAIN List(o) : Conv[obj[o].type][List(o)[k]] = List(o)[k]
  <2>1. DOMAIN List(o) = 1 .. obj[o].len
    BY <1>2
  <2> QED BY <1>2, <2>1 DEF Shows
<1>5. /\ listed' = [listed EXCEPT ![n] = [type |-> obj[o].type, elems |-> List(o)]]
      /\ ret' = "changed"
  BY <1>1, <1>2, <1>3, <1>4, NewOnLists
<1>6. listed' = [listed EXCEPT ![n] = listed[o]] /\ Abstract!Is(o) /\ ~Abstract!Is(n)
  BY <1>1, <1>5, ListedIs DEF Listed
<1>7. Abstract!Copy(o, n)
  BY <1>5, <1>6 DEF Abstract!Copy, listed
<1> QED BY <1>7 DEF Abstract!Next

LEMMA ClearLists ==
  ASSUME InOrder(heap, obj), NEW o \in Obj, Clear(o)
  PROVE  Abstract!Next
<1> DEFINE w == Moved(obj[o], 0, 0)
<1>1. obj[o] # None /\ Changed(heap, [obj EXCEPT ![o] = w]) /\ ret' = "changed"
  BY DEF Clear, Becomes, Moved
<1>2. obj[o] \in Window
  BY <1>1 DEF InOrder
<1>3. w \in Window /\ w.arr = 0 /\ w.len = 0 /\ w.type = obj[o].type
  <2>1. 0 \in Arr /\ 0 \in 0 .. MaxLen
    BY ArrIs, SliceAssumption
  <2> QED BY <1>2, <2>1, WindowWith
<1> HIDE DEF w
<1>4. Shows(heap, w) /\ Elems(heap, w) = <<>>
  <2>1. heap[0] = <<>>
    BY DEF InOrder
  <2> QED BY <1>3, <2>1 DEF Shows, Cap, Elems
<1>5. InOrder(heap, [obj EXCEPT ![o] = w])
  BY <1>3, <1>4, HostsKeep
<1>6. listed' = [listed EXCEPT ![o] = Listed(w, <<>>)]
  BY <1>1, <1>3, <1>4, <1>5, OthersSame, ListedAfter
<1>7. Abstract!Become(o, <<>>, "changed")
  BY <1>1, <1>3, <1>6, Becoming
<1>8. Abstract!Change(o)
  BY <1>7 DEF Abstract!Change
<1> QED BY <1>1, <1>8, ChangesList

LEMMA SetLists ==
  ASSUME InOrder(heap, obj), Host = {}, NEW o \in Obj, NEW i \in 0 .. MaxLen, NEW v \in Value,
         Set(o, i, v)
  PROVE  Abstract!Next
<1> DEFINE w == obj[o]
           e == Conv[w.type][v]
           a == w.arr
<1>1. w # None
  BY DEF Set
<1>2. w \in Window /\ heap \in Heap /\ Shows(heap, w)
  BY <1>1 DEF InOrder
<1>3. CASE ~(i \in 0 .. w.len - 1 /\ e # Fail)
  BY <1>1, <1>3, RefusesList DEF Set
<1>4. CASE i \in 0 .. w.len - 1 /\ e # Fail
  <2> DEFINE q   == [heap[a] EXCEPT ![i + 1] = e]
             hp2 == [heap EXCEPT ![a] = q]
             new == [obj EXCEPT ![o] = w]
             t   == [List(o) EXCEPT ![i + 1] = e]
  <2>1. Changed(hp2, new) /\ ret' = "changed"
    BY <1>4 DEF Set, Becomes
  <2>2. /\ a \in Arr /\ heap[a] \in Seq(Value) /\ Len(heap[a]) \in Nat /\ w.type \in Type
        /\ w.len \in Nat /\ w.len <= Len(heap[a])
    <3> HIDE DEF w
    <3> QED BY <1>2, ElemsAre
  <2>3. e \in Value /\ Conv[w.type][e] = e
    BY <1>4, <2>2, ConvertedIs
  <2>4. i + 1 \in 1 .. Len(heap[a]) /\ i + 1 \in 1 .. w.len
    BY <1>4, <2>2
  <2>5. q \in Seq(Value) /\ Len(q) = Len(heap[a]) /\ q[i + 1] = e
        /\ \A j \in 1 .. Len(heap[a]) : j # i + 1 => q[j] = heap[a][j]
    <3> HIDE DEF e, w
    <3> QED BY <2>2, <2>3, <2>4
  <2>6. t \in Seq(Value) /\ Len(t) = w.len /\ t[i + 1] = e
        /\ \A j \in 1 .. w.len : j # i + 1 => t[j] = heap[a][j]
    <3>1. /\ List(o) \in Seq(Value) /\ Len(List(o)) = w.len
          /\ \A k \in 1 .. w.len : List(o)[k] = heap[a][k]
      BY <1>1, ListedIs
    <3> HIDE DEF e, w
    <3> QED BY <2>2, <2>3, <2>4, <3>1
  <2> HIDE DEF q, t
  <2>7. hp2 \in Heap /\ hp2[a] = q /\ \A b \in Arr : b # a => hp2[b] = heap[b]
    BY <1>2, <2>2, <2>5 DEF Heap
  <2> HIDE DEF hp2
  <2>8. Rewrites(hp2, heap, w)
    <3> HIDE DEF e
    <3> QED BY <2>2, <2>3, <2>5, <2>7 DEF Rewrites
  <2>9. Shows(hp2, w)
    <3>1. \A j \in 1 .. w.len : Conv[w.type][q[j]] = q[j]
      <4>1. \A j \in 1 .. w.len : Conv[w.type][heap[a][j]] = heap[a][j] /\ j \in 1 .. Len(heap[a])
        BY <1>2, <2>2 DEF Shows
      <4> HIDE DEF e
      <4> QED BY <2>3, <2>5, <4>1
    <3> QED BY <2>2, <2>5, <2>7, <3>1 DEF Shows, Cap
  <2>10. InOrder(hp2, new)
    BY <1>1, <1>2, <2>8, <2>9, RewritesKeep
  <2>11. Others(hp2, o)
    BY <1>1, <2>8, OthersSee
  <2>12. Elems(hp2, w) = t
    <3>1. /\ Elems(hp2, w) \in Seq(Value) /\ Len(Elems(hp2, w)) = w.len
          /\ \A k \in 1 .. w.len : Elems(hp2, w)[k] = hp2[a][k]
      <4> HIDE DEF w
      <4> QED BY <1>2, <2>7, <2>9, ElemsAre DEF w
    <3>2. \A k \in 1 .. w.len : Elems(hp2, w)[k] = t[k]
      <4>1. \A k \in 1 .. w.len : k \in 1 .. Len(heap[a])
        BY <2>2
      <4> HIDE DEF e
      <4> QED BY <2>5, <2>6, <2>7, <3>1, <4>1
    <3> HIDE DEF w
    <3> QED BY <2>6, <3>1, <3>2, SeqEqual
  <2>13. listed' = [listed EXCEPT ![o] = Listed(w, t)]
    BY <1>2, <2>1, <2>10, <2>11, <2>12, ListedAfter
  <2>14. Abstract!Become(o, t, "changed")
    BY <1>1, <1>2, <2>1, <2>13, Becoming
  <2>15. /\ t = [Abstract!Elems(o) EXCEPT ![i + 1] = e] /\ i + 1 \in DOMAIN Abstract!Elems(o)
         /\ e = Conv[listed[o].type][v]
    <3>1. DOMAIN List(o) = 1 .. w.len /\ Abstract!Elems(o) = List(o)
          /\ listed[o] = Listed(w, List(o))
      BY <1>1, ListedIs
    <3> QED BY <2>4, <3>1 DEF t, Listed
  <2>16. Abstract!Change(o)
    <3> HIDE DEF e
    <3> QED BY <1>4, <2>14, <2>15 DEF Abstract!Change, listed, e
  <2> QED BY <1>1, <2>16, ChangesList
<1> QED BY <1>3, <1>4

LEMMA WithoutIs ==
  ASSUME NEW s \in Seq(Value), NEW k \in 1 .. Len(s)
  PROVE  Abstract!Without(s, k) \in Seq(Value) /\ Lacks(Abstract!Without(s, k), s, k)
<1> DEFINE n     == Len(s)
           first == SubSeq(s, 1, k - 1)
           rest  == SubSeq(s, k + 1, n)
           t     == first \o rest
<1>1. n \in Nat /\ k \in Nat /\ k >= 1 /\ k <= n
  OBVIOUS
<1>2. first \in Seq(Value) /\ Len(first) = k - 1 /\ \A j \in 1 .. k - 1 : first[j] = s[j]
  <2>1. \A j \in 1 .. k - 1 : s[j] \in Value
    BY <1>1
  <2>2. /\ first \in Seq(Value) /\ Len(first) = IF 1 <= k - 1 THEN (k - 1) - 1 + 1 ELSE 0
        /\ \A j \in 1 .. (k - 1) - 1 + 1 : first[j] = s[1 + j - 1]
    BY <1>1, <2>1, SubSeqProperties
  <2> HIDE DEF first
  <2> QED BY <1>1, <2>2
<1>3. rest \in Seq(Value) /\ Len(rest) = n - k /\ \A j \in 1 .. n - k : rest[j] = s[k + j]
  <2>1. \A j \in k + 1 .. n : s[j] \in Value
    BY <1>1
  <2>2. /\ rest \in Seq(Value) /\ Len(rest) = IF k + 1 <= n THEN n - (k + 1) + 1 ELSE 0
        /\ \A j \in 1 .. n - (k + 1) + 1 : rest[j] = s[(k + 1) + j - 1]
    <3> HIDE DEF n
    <3> QED BY <1>1, <2>1, SubSeqProperties
  <2> HIDE DEF rest, n
  <2> QED BY <1>1, <2>2
<1> HIDE DEF first, rest
<1>4. /\ t \in Seq(Value) /\ Len(t) = (k - 1) + (n - k)
      /\ \A j \in 1 .. (k - 1) + (n - k) : t[j] = IF j <= k - 1 THEN first[j] ELSE rest[j - (k - 1)]
  <2>1. /\ t \in Seq(Value) /\ Len(t) = Len(first) + Len(rest)
        /\ \A j \in 1 .. Len(first) + Len(rest) :
             t[j] = IF j <= Len(first) THEN first[j] ELSE rest[j - Len(first)]
    BY <1>2, <1>3, ConcatProperties
  <2> HIDE DEF t, n
  <2> QED BY <1>2, <1>3, <2>1
<1> HIDE DEF t, n
<1>5. Len(t) = n - 1
  BY <1>1, <1>4
<1>6. ASSUME NEW j \in 1 .. n - 1 PROVE t[j] = IF k <= j THEN s[j + 1] ELSE s[j]
  <2>1. t[j] = IF j <= k - 1 THEN first[j] ELSE rest[j - (k - 1)]
    BY <1>1, <1>4
  <2>2. CASE k <= j
    <3>1. ~(j <= k - 1) /\ j - (k - 1) \in 1 .. n - k /\ k + (j - (k - 1)) = j + 1
      BY <1>1, <2>2
    <3> QED BY <1>3, <2>1, <2>2, <3>1
  <2>3. CASE ~(k <= j)
    <3>1. j \in 1 .. k - 1 /\ j <= k - 1
      BY <1>1, <2>3
    <3> QED BY <1>2, <2>1, <2>3, <3>1
  <2> QED BY <2>2, <2>3
<1>7. t = Abstract!Without(s, k)
  BY DEF t, first, rest, n, Abstract!Without
<1> QED BY <1>4, <1>5, <1>6, <1>7 DEF Lacks, n

LEMMA LackIsOne ==
  ASSUME NEW s, Len(s) \in Nat, NEW k, NEW t \in Seq(Value), NEW u \in Seq(Value),
         Lacks(t, s, k), Lacks(u, s, k)
  PROVE  t = u
<1>1. Len(t) = Len(u) /\ \A j \in 1 .. Len(t) : t[j] = u[j]
  BY DEF Lacks
<1> QED BY <1>1, SeqEqual

LEMMA CutAtLists ==
  ASSUME InOrder(heap, obj), Host = {}, NEW o \in Obj, obj[o] # None,
         NEW k \in 1 .. obj[o].len, CutAt(o, k, "changed")
  PROVE  Abstract!Next
<1> DEFINE w   == obj[o]
           v   == Cut(w, w.len - 1)
           hp2 == Delete(heap, w.arr, w.len, k)
           new == [obj EXCEPT ![o] = v]
           s   == List(o)
           t   == Elems(hp2, v)
<1>1. Changed(hp2, new) /\ ret' = "changed"
  BY DEF CutAt, Cut
<1>2. w \in Window /\ heap \in Heap /\ Shows(heap, w)
  BY DEF InOrder
<1>3. /\ w.arr \in Arr /\ w.len \in Nat /\ w.len \in 0 .. MaxLen
      /\ Len(heap[w.arr]) \in Nat /\ w.len <= Len(heap[w.arr])
  <2> HIDE DEF w
  <2> QED BY <1>2, ElemsAre
<1>4. /\ s \in Seq(Value) /\ Len(s) = w.len /\ Abstract!Elems(o) = s
      /\ \A j \in 1 .. w.len : s[j] = heap[w.arr][j]
  BY ListedIs
<1>5. w.len \in 0 .. w.len /\ k \in Nat \ {0} /\ w.len - 1 \in 0 .. MaxLen /\ w.len - 1 <= w.len
  BY <1>3, SliceAssumption
<1> HIDE DEF w
<1>6. /\ Rewrites(hp2, heap, w) /\ Len(hp2[w.arr]) = Len(heap[w.arr]) /\ hp2 \in Heap
      /\ \A j \in 1 .. Len(heap[w.arr]) :
           hp2[w.arr][j] = IF k <= j /\ j < w.len THEN heap[w.arr][j + 1] ELSE heap[w.arr][j]
      /\ \A j \in 1 .. w.len : Conv[w.type][hp2[w.arr][j]] = hp2[w.arr][j]
  BY <1>2, <1>5, DeleteIs
<1>7. v \in Window /\ v.arr = w.arr /\ v.len = w.len - 1 /\ v.type = w.type
  BY <1>2, <1>3, <1>5, WindowWith
<1> HIDE DEF hp2, v, s
<1>8. Shows(hp2, v)
  BY <1>3, <1>6, <1>7 DEF Shows, Cap
<1>9. InOrder(hp2, new) /\ Others(hp2, o)
  BY <1>6, <1>7, <1>8, RewritesKeep, OthersSee DEF w
<1>10. t \in Seq(Value) /\ Len(t) = w.len - 1 /\ \A j \in 1 .. w.len - 1 : t[j] = hp2[w.arr][j]
  BY <1>6, <1>7, <1>8, ElemsAre
<1> HIDE DEF t
<1>11. Lacks(t, s, k)
  <2>1. ASSUME NEW j \in 1 .. w.len - 1 PROVE t[j] = IF k <= j THEN s[j + 1] ELSE s[j]
    <3>1. /\ j \in 1 .. w.len /\ j + 1 \in 1 .. w.len /\ j < w.len /\ j \in 1 .. Len(heap[w.arr])
      BY <1>3
    <3> QED BY <1>4, <1>6, <1>10, <3>1
  <2> QED BY <1>4, <1>10, <2>1 DEF Lacks
<1>12. k \in 1 .. Len(s) /\ Len(s) \in Nat
  BY <1>3, <1>4 DEF w
<1>13. t = Abstract!Without(s, k)
  BY <1>4, <1>10, <1>11, <1>12, WithoutIs, LackIsOne
<1> HIDE DEF new
<1>14. listed' = [listed EXCEPT ![o] = Listed(v, t)]
  <2>1. Changed(hp2, [obj EXCEPT ![o] = v]) /\ InOrder(hp2, [obj EXCEPT ![o] = v])
    BY <1>1, <1>9 DEF new
  <2>2. listed' = [listed EXCEPT ![o] = Listed(v, Elems(hp2, v))]
    BY <1>7, <1>9, <2>1, ListedAfter
  <2> QED BY <2>2 DEF t
<1>15. Abstract!Become(o, t, "changed")
  BY <1>1, <1>7, <1>14, Becoming DEF w
<1>16. k \in DOMAIN Abstract!Elems(o) /\ Abstract!Become(o, Abstract!Without(Abstract!Elems(o), k), "changed")
  BY <1>4, <1>12, <1>13, <1>15
<1>17. Abstract!Change(o)
  BY <1>16 DEF Abstract!Change
<1> QED BY <1>17, ChangesList

LEMMA RemoveLists ==
  ASSUME InOrder(heap, obj), Host = {}, NEW o \in Obj, NEW v \in Value, Remove(o, v)
  PROVE  Abstract!Next
<1>1. obj[o] # None
  BY DEF Remove
<1>2. CASE ~Contains(heap, obj[o], v)
  BY <1>1, <1>2, NothingChanges DEF Remove
<1>3. CASE Contains(heap, obj[o], v)
  <2>1. CutAt(o, FirstAt(heap, obj[o], v), "changed")
    BY <1>3 DEF Remove
  <2>2. FirstAt(heap, obj[o], v) \in 1 .. obj[o].len
    BY <1>1, <1>3, FirstIs DEF InOrder
  <2> QED BY <1>1, <2>1, <2>2, CutAtLists
<1> QED BY <1>2, <1>3

LEMMA IteratorLists ==
  ASSUME InOrder(heap, obj), Walking, Host = {},
         (\E o \in Obj : Iterator(o)) \/ NextElement \/ IterRemove
  PROVE  Abstract!Next
<1>1. ASSUME NEW o \in Obj, Iterator(o) PROVE Abstract!Next
  BY <1>1, NothingChanges DEF Iterator
<1>2. it # None => it.s \in Obj /\ obj[it.s] # None /\ it.last \in {0, it.i} /\ it.i \in Nat
  BY SliceAssumption DEF Walking, Iterators
<1>3. CASE NextElement
  BY <1>2, <1>3, NothingChanges DEF NextElement
<1>4. CASE IterRemove
  <2>1. it # None
    BY <1>4 DEF IterRemove
  <2>2. CASE it.last = 0 \/ it.i - 1 >= obj[it.s].len
    BY <1>2, <1>4, <2>1, <2>2, RefusesList DEF IterRemove
  <2>3. CASE ~(it.last = 0 \/ it.i - 1 >= obj[it.s].len)
    <3>1. CutAt(it.s, it.i, "changed")
      BY <1>4, <2>3 DEF IterRemove
    <3>2. it.i \in 1 .. obj[it.s].len
      <4>1. obj[it.s].len \in Nat
        BY <1>2, <2>1, ListedIs
      <4> QED BY <1>2, <2>1, <2>3, <4>1
    <3> QED BY <1>2, <2>1, <3>1, <3>2, CutAtLists
  <2> QED BY <2>2, <2>3
<1> QED BY <1>1, <1>3, <1>4
-----------------------------------------------------------------------------
(* Add and AddAll: where they may be after k elements of src, exactly.     *)
Appending(hp, w, src, k) ==
  {s \in Extending(hp, w, k) :
     /\ \A j \in 1 .. w.len : s.elems[j] = hp[w.arr][j]
     /\ ~s.failed =>
          /\ Len(s.elems) = w.len + k
          /\ \A j \in 1 .. k : s.elems[w.len + j] = Conv[w.type][src[j]]
                               /\ Conv[w.type][src[j]] # Fail}

LEMMA AppendsIs ==
  ASSUME NEW hp \in Heap, NEW w \in Window, Shows(hp, w), NEW src, NEW k \in Nat,
         NEW s \in Appending(hp, w, src, k), src[k + 1] \in Value
  PROVE  Extend(s, w, src[k + 1]) \in Appending(hp, w, src, k + 1)
<1> DEFINE v == src[k + 1]
           e == Conv[w.type][v]
           t == Extend(s, w, v)
           n == Len(s.elems)
<1>1. s \in Extending(hp, w, k)
  BY DEF Appending
<1>2. t \in Extending(hp, w, k + 1)
  BY <1>1, ExtendIs
<1>3. w.len \in Nat /\ n \in Nat /\ w.len <= n /\ s.elems \in Seq(Value) /\ w.type \in Type
      /\ s \in [heap : Heap, elems : Seq(Value), failed : BOOLEAN]
  BY <1>1, ElemsAre DEF Extending
<1>4. CASE s.failed \/ e = Fail
  <2>1. t = [s EXCEPT !.failed = TRUE]
    BY <1>4 DEF Extend
  <2>2. t.failed /\ t.elems = s.elems
    BY <1>3, <2>1
  <2> HIDE DEF t
  <2>3. t \in Appending(hp, w, src, k + 1)
    BY <1>2, <2>2 DEF Appending
  <2> QED BY <2>3 DEF t
<1>5. CASE ~(s.failed \/ e = Fail)
  <2>0. e \in Value /\ e # Fail
    BY <1>3, <1>5, ConvertedIs
  <2>1. t.elems = Append(s.elems, e)
    BY <1>3, <1>5 DEF Extend
  <2> HIDE DEF e, t
  <2>2. Len(t.elems) = n + 1 /\ t.elems[n + 1] = e /\ \A j \in 1 .. n : t.elems[j] = s.elems[j]
    BY <1>3, <2>0, <2>1
  <2>3. /\ n = w.len + k
        /\ \A j \in 1 .. k : s.elems[w.len + j] = Conv[w.type][src[j]]
                             /\ Conv[w.type][src[j]] # Fail
    BY <1>5 DEF Appending
  <2> HIDE DEF n
  <2>4. \A j \in 1 .. w.len : t.elems[j] = hp[w.arr][j]
    <3>1. \A j \in 1 .. w.len : s.elems[j] = hp[w.arr][j]
      BY DEF Appending
    <3> QED BY <1>3, <2>2, <3>1
  <2>5. ASSUME NEW j \in 1 .. k + 1
        PROVE  t.elems[w.len + j] = Conv[w.type][src[j]] /\ Conv[w.type][src[j]] # Fail
    <3>1. CASE j = k + 1
      <4>1. w.len + j = n + 1
        <5>1. n = w.len + k /\ w.len \in Nat
          BY <1>3, <2>3
        <5> QED BY <3>1, <5>1
      <4>2. Conv[w.type][src[j]] = e
        BY <3>1 DEF e
      <4> QED BY <2>0, <2>2, <4>1, <4>2
    <3>2. CASE j # k + 1
      <4>1. j \in 1 .. k /\ w.len + j \in 1 .. n
        BY <1>3, <2>3, <3>2
      <4> QED BY <2>2, <2>3, <4>1
    <3> QED BY <3>1, <3>2
  <2>6. Len(t.elems) = w.len + (k + 1)
    BY <1>3, <2>2, <2>3
  <2>7. t \in Appending(hp, w, src, k + 1)
    BY <1>2, <2>4, <2>5, <2>6 DEF Appending
  <2> QED BY <2>7 DEF t
<1> QED BY <1>4, <1>5

LEMMA CopiedAppends ==
  ASSUME InOrder(heap, obj), NEW o \in Obj, obj[o] # None, NEW src
  PROVE  Copied(o) \in Appending(heap, obj[o], src, 0)
<1>1. Copied(o) \in Extending(heap, obj[o], 0)
  BY CopiedIs
<1>2. Copied(o).elems = List(o)
  BY DEF Copied
<1>3. /\ Len(List(o)) = obj[o].len /\ obj[o].len \in Nat
      /\ \A j \in 1 .. obj[o].len : List(o)[j] = heap[obj[o].arr][j]
  BY ListedIs
<1> QED BY <1>1, <1>2, <1>3 DEF Appending

(* All of it converted, the list has been extended with what src gave.     *)
LEMMA AppendedIs ==
  ASSUME InOrder(heap, obj), NEW o \in Obj, obj[o] # None, NEW src \in Seq(Value),
         NEW s \in Appending(heap, obj[o], src, Len(src)), ~s.failed
  PROVE  LET t == [k \in DOMAIN src |-> Conv[obj[o].type][src[k]]]
         IN s.elems = List(o) \o t /\ \A k \in DOMAIN t : t[k] # Fail
<1> DEFINE w == obj[o]
           n == Len(src)
           t == [k \in DOMAIN src |-> Conv[w.type][src[k]]]
<1>1. /\ List(o) \in Seq(Value) /\ Len(List(o)) = w.len /\ w.len \in Nat /\ w.type \in Type
      /\ \A k \in 1 .. w.len : List(o)[k] = heap[w.arr][k]
  BY ListedIs
<1>2. n \in Nat /\ DOMAIN src = 1 .. n /\ \A k \in 1 .. n : src[k] \in Value
  OBVIOUS
<1>3. /\ s.elems \in Seq(Value) /\ Len(s.elems) = w.len + n
      /\ \A j \in 1 .. w.len : s.elems[j] = heap[w.arr][j]
      /\ \A j \in 1 .. n : s.elems[w.len + j] = Conv[w.type][src[j]]
                           /\ Conv[w.type][src[j]] # Fail
  BY DEF Appending, Extending
<1> HIDE DEF w, n
<1>4. \A j \in 1 .. n : t[j] = Conv[w.type][src[j]] /\ t[j] \in Value
  BY <1>1, <1>2, <1>3, ConvertedIs
<1>5. t \in Seq(Value) /\ Len(t) = n /\ DOMAIN t = 1 .. n
  <2>1. t \in [1 .. n -> Value]
    BY <1>2, <1>4
  <2> QED BY <1>2, <2>1
<1> HIDE DEF t
<1>6. /\ List(o) \o t \in Seq(Value) /\ Len(List(o) \o t) = Len(List(o)) + Len(t)
      /\ \A i \in 1 .. Len(List(o)) + Len(t) :
           (List(o) \o t)[i] = IF i <= Len(List(o)) THEN List(o)[i] ELSE t[i - Len(List(o))]
  BY <1>1, <1>5, ConcatProperties
<1>7. ASSUME NEW j \in 1 .. w.len + n PROVE s.elems[j] = (List(o) \o t)[j]
  <2>1. (List(o) \o t)[j] = IF j <= w.len THEN List(o)[j] ELSE t[j - w.len]
    BY <1>1, <1>5, <1>6
  <2>2. CASE j <= w.len
    BY <1>1, <1>3, <2>1, <2>2
  <2>3. CASE ~(j <= w.len)
    <3>1. PICK i \in 1 .. n : i = j - w.len
      BY <1>1, <1>2, <2>3
    <3>2. w.len + i = j
      BY <1>1, <1>2, <3>1
    <3>3. s.elems[j] = Conv[w.type][src[i]]
      BY <1>3, <3>2
    <3> QED BY <1>4, <2>1, <2>3, <3>1, <3>3
  <2> QED BY <2>2, <2>3
<1>8. s.elems = List(o) \o t
  <2> DEFINE u == List(o) \o t
             e == s.elems
  <2>1. Len(u) = w.len + n /\ u \in Seq(Value)
    BY <1>1, <1>5, <1>6
  <2>2. Len(e) = w.len + n /\ e \in Seq(Value)
    BY <1>3
  <2>3. \A j \in 1 .. w.len + n : e[j] = u[j]
    BY <1>7
  <2> HIDE DEF u, e
  <2>4. \A j \in 1 .. Len(e) : e[j] = u[j]
    BY <2>2, <2>3
  <2>5. e = u
    BY <2>1, <2>2, <2>4, SeqEqual
  <2> QED BY <2>5 DEF u, e
<1> QED BY <1>3, <1>4, <1>5, <1>8 DEF t, w

(* Extended with a window of n that shows s, wherever it is now.           *)
LEMMA Extends ==
  ASSUME InOrder(heap, obj), NEW o \in Obj, obj[o] # None, NEW v \in Window, NEW hp,
         v.type = obj[o].type, Changed(hp, [obj EXCEPT ![o] = v]),
         InOrder(hp, [obj EXCEPT ![o] = v]), Others(hp, o), ret' = "changed",
         NEW src \in Seq(Value), NEW s \in Appending(heap, obj[o], src, Len(src)), ~s.failed,
         Elems(hp, v) = s.elems
  PROVE  Abstract!AddAll(o, src)
<1> DEFINE t == [k \in DOMAIN src |-> Conv[obj[o].type][src[k]]]
<1>1. s.elems = List(o) \o t /\ \A k \in DOMAIN t : t[k] # Fail
  BY AppendedIs
<1>2. listed' = [listed EXCEPT ![o] = Listed(v, s.elems)]
  <2>1. listed' = [listed EXCEPT ![o] = Listed(v, Elems(hp, v))]
    BY ListedAfter
  <2> QED BY <2>1
<1>3. Abstract!Become(o, s.elems, "changed")
  BY <1>2, Becoming
<1>4. Abstract!Elems(o) = List(o) /\ listed[o].type = obj[o].type
  <2>1. Abstract!Elems(o) = List(o) /\ listed[o] = Listed(obj[o], List(o))
    BY ListedIs
  <2> QED BY <2>1 DEF Listed
<1>5. t = [k \in DOMAIN src |-> Conv[listed[o].type][src[k]]]
  BY <1>4
<1> HIDE DEF t
<1>6. ~Abstract!Has(t, Fail) /\ Abstract!Become(o, Abstract!Elems(o) \o t, "changed")
  BY <1>1, <1>3, <1>4 DEF Abstract!Has
<1> QED BY <1>5, <1>6 DEF Abstract!AddAll, listed

LEMMA ExtendedLists ==
  ASSUME InOrder(heap, obj), Host = {}, NEW o \in Obj, obj[o] # None, NEW src \in Seq(Value),
         obj[o].len + Len(src) <= MaxLen,
         NEW s \in Appending(heap, obj[o], src, Len(src)), Extended(o, s)
  PROVE  Abstract!Refuse \/ Abstract!AddAll(o, src)
<1> DEFINE w == obj[o]
           n == Len(s.elems)
<1>1. w \in Window /\ heap \in Heap /\ Shows(heap, w)
  BY DEF InOrder
<1>2. /\ w.arr \in Arr /\ w.len \in 0 .. MaxLen /\ w.len \in Nat /\ MaxLen \in Nat
      /\ Len(heap[w.arr]) \in Nat /\ w.type \in Type /\ w.len <= Len(heap[w.arr])
  BY <1>1, ElemsAre, SliceAssumption
<1>3. /\ s.heap \in Heap /\ s.elems \in Seq(Value) /\ Rewrites(s.heap, heap, w)
      /\ w.len <= n /\ n <= w.len + Len(src)
      /\ \A j \in 1 .. n : /\ Conv[w.type][s.elems[j]] = s.elems[j]
                           /\ j <= Len(heap[w.arr]) => s.heap[w.arr][j] = s.elems[j]
  BY DEF Appending, Extending
<1>4. n \in 0 .. MaxLen /\ n \in Nat /\ Len(src) \in Nat
  BY <1>2, <1>3
<1>5. Shows(s.heap, w) /\ Others(s.heap, o)
  BY <1>1, RewritesShows, <1>3, OthersSee DEF InOrder, Alike
<1>6. InOrder(s.heap, [obj EXCEPT ![o] = w]) /\ [obj EXCEPT ![o] = w] = obj
  <2>1. InOrder(s.heap, [obj EXCEPT ![o] = w])
    BY <1>1, <1>3, <1>5, RewritesKeep
  <2>2. [obj EXCEPT ![o] = w] = obj
    BY DEF InOrder
  <2> QED BY <2>1, <2>2
<1>7. CASE s.failed
  <2>1. Changed(s.heap, [obj EXCEPT ![o] = w]) /\ ret' = "error"
    BY <1>6, <1>7 DEF Extended, Changed
  <2>2. listed' = [listed EXCEPT ![o] = Listed(w, Elems(s.heap, w))]
    BY <1>1, <1>5, <1>6, <2>1, ListedAfter
  <2>3. Elems(s.heap, w) = List(o)
    <3> DEFINE e == Elems(s.heap, w)
               l == List(o)
    <3>1. e \in Seq(Value) /\ Len(e) = w.len /\ \A j \in 1 .. w.len : e[j] = s.heap[w.arr][j]
      <4> HIDE DEF w
      <4> QED BY <1>1, <1>3, <1>5, ElemsAre
    <3>2. l \in Seq(Value) /\ Len(l) = w.len /\ \A j \in 1 .. w.len : l[j] = heap[w.arr][j]
      BY ListedIs
    <3>3. \A j \in 1 .. w.len : s.heap[w.arr][j] = heap[w.arr][j]
      <4>1. \A j \in 1 .. w.len : s.elems[j] = heap[w.arr][j]
        BY DEF Appending
      <4>2. \A j \in 1 .. w.len : j \in 1 .. n /\ j <= Len(heap[w.arr])
        <5> HIDE DEF w, n
        <5> QED BY <1>2, <1>3, <1>4
      <4> HIDE DEF w, n
      <4> QED BY <1>3, <4>1, <4>2
    <3> HIDE DEF e, l, w
    <3>4. e = l
      BY <3>1, <3>2, <3>3, SeqEqual
    <3> QED BY <3>4 DEF e, l
  <2>4. listed' = listed
    <3>1. listed[o] = Listed(w, List(o))
      BY ListedIs
    <3> QED BY <2>2, <2>3, <3>1 DEF listed
  <2>5. Abstract!Refuse
    BY <2>1, <2>4 DEF Abstract!Refuse, listed
  <2> QED BY <2>5
<1>8. CASE ~s.failed /\ n <= Cap(heap, w)
  <2> DEFINE v   == Cut(w, n)
             new == [obj EXCEPT ![o] = v]
  <2>1. Changed(s.heap, new) /\ ret' = "changed"
    BY <1>8 DEF Extended, Becomes, Cut
  <2> HIDE DEF w
  <2>2. v \in Window /\ v.arr = w.arr /\ v.type = w.type /\ v.len = n
    BY <1>1, <1>2, <1>4, WindowWith
  <2> HIDE DEF v
  <2>3. Len(s.heap[w.arr]) = Len(heap[w.arr]) /\ n <= Len(heap[w.arr])
    BY <1>2, <1>3, <1>8 DEF Rewrites, Cap
  <2>4. Shows(s.heap, v)
    <3>1. \A j \in 1 .. n : j <= Len(heap[w.arr])
      BY <1>2, <1>4, <2>3
    <3>2. \A j \in 1 .. n : Conv[w.type][s.heap[w.arr][j]] = s.heap[w.arr][j]
      BY <1>3, <3>1
    <3> QED BY <2>2, <2>3, <3>2 DEF Shows, Cap
  <2>5. InOrder(s.heap, new)
    BY <1>3, <2>2, <2>4, RewritesKeep DEF w
  <2>6. Elems(s.heap, v) = s.elems
    <3> DEFINE e == Elems(s.heap, v)
               l == s.elems
    <3>1. e \in Seq(Value) /\ Len(e) = n /\ \A j \in 1 .. n : e[j] = s.heap[w.arr][j]
      BY <1>3, <2>2, <2>4, ElemsAre
    <3>2. \A j \in 1 .. n : s.heap[w.arr][j] = l[j]
      BY <1>2, <1>3, <1>4, <2>3
    <3>3. l \in Seq(Value) /\ Len(l) = n
      BY <1>3
    <3> HIDE DEF e, l, n
    <3>4. e = l
      BY <3>1, <3>2, <3>3, SeqEqual
    <3> QED BY <3>4 DEF e, l
  <2>7. obj[o].type = v.type /\ ~s.failed
    BY <1>8, <2>2 DEF w
  <2> QED BY <1>5, <2>1, <2>2, <2>5, <2>6, <2>7, Extends
<1>9. CASE ~s.failed /\ ~(n <= Cap(heap, w))
  <2> DEFINE a       == FreeArr
             v       == Moved(w, a, n)
             new     == [obj EXCEPT ![o] = v]
             mem(room) == [s.heap EXCEPT ![a] = s.elems \o Fill(room)]
  <2>1. ret' = "changed" /\ \E room \in 0 .. Spare : Changed(mem(room), new)
    BY <1>9 DEF Extended, Becomes, Moved
  <2>2. a \in Arr \ {0} /\ ~Refers(obj, a)
    BY FreeArrIsFree
  <2> HIDE DEF a
  <2>3. v \in Window /\ v.arr = a /\ v.type = w.type /\ v.len = n
    <3> HIDE DEF w
    <3> QED BY <1>1, <1>4, <2>2, WindowWith
  <2> HIDE DEF v
  <2>4. PICK room \in 0 .. Spare : Changed(mem(room), new)
    BY <2>1
  <2> DEFINE e   == s.elems \o Fill(room)
             hp2 == [s.heap EXCEPT ![a] = e]
  <2>5. Fill(room) \in Seq(Value)
    <3>1. s.elems[1] \in Value
      BY <1>2, <1>3, <1>4, <1>9 DEF Cap
    <3>2. (CHOOSE v1 \in Value : TRUE) \in Value
      BY <3>1
    <3>3. room \in Nat
      BY SliceAssumption
    <3> QED BY <3>2, <3>3 DEF Fill
  <2>6. e \in Seq(Value) /\ Len(e) >= n /\ \A j \in 1 .. n : e[j] = s.elems[j]
    <3> HIDE DEF n
    <3>1. Len(Fill(room)) \in Nat /\ n = Len(s.elems)
      BY <2>5 DEF n
    <3>2. /\ e \in Seq(Value) /\ Len(e) = n + Len(Fill(room))
          /\ \A i \in 1 .. n + Len(Fill(room)) :
               e[i] = IF i <= n THEN s.elems[i] ELSE Fill(room)[i - n]
      BY <1>3, <2>5, <3>1, ConcatProperties
    <3> QED BY <1>4, <3>1, <3>2
  <2>7. Changed(hp2, new)
    BY <2>4
  <2> HIDE DEF e, mem
  <2>8. hp2[a] = e /\ hp2 \in Heap
    BY <1>3, <2>2, <2>6 DEF Heap
  <2> HIDE DEF hp2
  <2>9. Shows(hp2, v)
    <3> HIDE DEF w, n
    <3>1. \A j \in 1 .. n : Conv[w.type][e[j]] = e[j]
      BY <1>3, <2>6
    <3>2. n <= Len(e)
      BY <1>4, <2>6
    <3> QED BY <2>3, <2>8, <3>1, <3>2 DEF Shows, Cap
  <2>10. InOrder(hp2, new)
    BY <1>6, <2>2, <2>3, <2>6, <2>9, FreshKeeps DEF hp2
  <2>11. Others(hp2, o)
    BY <1>3, <1>5, <2>2, OthersFresh DEF hp2
  <2>12. Elems(hp2, v) = s.elems
    <3> DEFINE m == Elems(hp2, v)
               l == s.elems
    <3>1. m \in Seq(Value) /\ Len(m) = n /\ \A j \in 1 .. n : m[j] = e[j]
      BY <2>3, <2>8, <2>9, ElemsAre
    <3>2. l \in Seq(Value) /\ Len(l) = n /\ \A j \in 1 .. n : e[j] = l[j]
      BY <1>3, <2>6
    <3> HIDE DEF m, l, n
    <3>3. m = l
      BY <3>1, <3>2, SeqEqual
    <3> QED BY <3>3 DEF m, l
  <2>13. obj[o].type = v.type /\ ~s.failed
    BY <1>9, <2>3
  <2> QED BY <2>1, <2>3, <2>7, <2>10, <2>11, <2>12, <2>13, Extends
<1> QED BY <1>7, <1>8, <1>9

LEMMA AddLists ==
  ASSUME InOrder(heap, obj), Host = {}, NEW o \in Obj, NEW v \in Value, Add(o, v)
  PROVE  Abstract!Next
<1> DEFINE w   == obj[o]
           src == <<v>>
           s   == Extend(Copied(o), w, src[0 + 1])
<1>1. w # None /\ w.len < MaxLen
  BY DEF Add
<1>2. src \in Seq(Value) /\ Len(src) = 1 /\ src[0 + 1] = v
  OBVIOUS
<1>3. Extended(o, s)
  BY <1>2 DEF Add
<1>4. w \in Window /\ heap \in Heap /\ Shows(heap, w) /\ w.len \in Nat /\ MaxLen \in Nat
  BY <1>1, ElemsAre, SliceAssumption DEF InOrder
<1> HIDE DEF src
<1>5. Copied(o) \in Appending(heap, w, src, 0)
  BY <1>1, CopiedAppends
<1>6. s \in Appending(heap, w, src, 0 + 1)
  <2> HIDE DEF w
  <2> QED BY <1>2, <1>4, <1>5, AppendsIs
<1> HIDE DEF s
<1>7. s \in Appending(heap, w, src, Len(src)) /\ w.len + Len(src) <= MaxLen
  <2>1. 0 + 1 = Len(src)
    BY <1>2
  <2> QED BY <1>1, <1>2, <1>4, <1>6, <2>1
<1>8. Abstract!Refuse \/ Abstract!AddAll(o, src)
  BY <1>1, <1>2, <1>3, <1>7, ExtendedLists
<1>9. Abstract!Change(o)
  BY <1>8 DEF Abstract!Change, src
<1> QED BY <1>1, <1>9, ChangesList

LEMMA AddAllLists ==
  ASSUME InOrder(heap, obj), Host = {}, NEW o \in Obj, NEW c \in Obj, AddAll(o, c)
  PROVE  Abstract!Next
<1> DEFINE w   == obj[o]
           v   == obj[c]
           src == List(c)
           n   == v.len
           s   == ReadTo(n, Copied(o), w, v.arr)
           S   == [k \in 0 .. n |-> Appending(heap, w, src, k)]
<1>1. /\ w # None /\ v # None /\ w.len + n <= MaxLen
      /\ Refuse \/ Extended(o, s)
  BY DEF AddAll
<1>2. CASE Refuse
  BY <1>1, <1>2, RefusesList
<1>3. CASE Extended(o, s)
  <2>1. /\ w \in Window /\ heap \in Heap /\ Shows(heap, w)
        /\ v \in Window /\ Shows(heap, v)
        /\ c # o /\ v.arr = w.arr => v.arr = 0
    BY <1>1 DEF InOrder, HostArray
  <2>2. /\ src \in Seq(Value) /\ Len(src) = n /\ n \in Nat
        /\ \A k \in 1 .. n : src[k] = heap[v.arr][k] /\ src[k] \in Value
    BY <1>1, ListedIs
  <2>3. /\ v.arr \in Arr /\ n <= Len(heap[v.arr]) /\ Len(heap[v.arr]) \in Nat
        /\ heap[0] = <<>> /\ w.len \in Nat /\ w.len <= Len(heap[w.arr])
        /\ Len(heap[w.arr]) \in Nat
    BY <2>1, ElemsAre DEF InOrder
  <2>4. v.arr = w.arr => n <= w.len
    <3>1. CASE c = o
      BY <2>3, <3>1
    <3>2. CASE c # o /\ v.arr = w.arr
      <4>1. Len(heap[v.arr]) = 0
        BY <2>1, <2>3, <3>2
      <4> HIDE DEF n
      <4> QED BY <2>2, <2>3, <4>1
    <3> QED BY <3>1, <3>2
  <2>5. /\ \A k \in 0 .. n : S[k] = Appending(heap, w, src, k)
        /\ \A k \in 1 .. n : k - 1 \in 0 .. n /\ k \in 0 .. n /\ k - 1 \in Nat /\ (k - 1) + 1 = k
        /\ 0 \in 0 .. n /\ n \in 0 .. n
    BY <2>2
  <2> HIDE DEF S, src
  <2>6. Copied(o) \in S[0]
    BY <1>1, <2>5, CopiedAppends
  <2> HIDE DEF w, v, n
  <2>7. ASSUME NEW k \in 1 .. n, NEW x \in S[k - 1]
        PROVE  Extend(x, w, x.heap[v.arr][k]) \in S[k]
    <3>1. x \in Appending(heap, w, src, k - 1)
      BY <2>5, <2>7
    <3>2. x.heap[v.arr][k] = src[k]
      <4>1. CASE v.arr # w.arr
        <5>1. x.heap[v.arr] = heap[v.arr]
          BY <2>3, <3>1, <4>1 DEF Appending, Extending, Rewrites
        <5> QED BY <2>2, <5>1
      <4>2. CASE v.arr = w.arr
        <5>1. k \in 1 .. w.len /\ k <= Len(heap[w.arr])
          BY <2>2, <2>3, <2>4, <4>2
        <5>2. /\ x.elems[k] = heap[w.arr][k] /\ w.len <= Len(x.elems)
              /\ x.elems \in Seq(Value)
              /\ \A j \in 1 .. Len(x.elems) :
                   j <= Len(heap[w.arr]) => x.heap[w.arr][j] = x.elems[j]
          BY <3>1, <5>1 DEF Appending, Extending
        <5>3. k \in 1 .. Len(x.elems)
          BY <2>3, <5>1, <5>2
        <5> QED BY <2>2, <4>2, <5>1, <5>2, <5>3
      <4> QED BY <4>1, <4>2
    <3>3. src[(k - 1) + 1] \in Value /\ k - 1 \in Nat /\ (k - 1) + 1 = k
      BY <2>2, <2>5
    <3>4. Extend(x, w, src[(k - 1) + 1]) \in Appending(heap, w, src, (k - 1) + 1)
      BY <2>1, <3>1, <3>3, AppendsIs
    <3> QED BY <2>5, <3>2, <3>3, <3>4
  <2>8. ReadsOn(n, S, Copied(o), w, v.arr)
    BY <2>6, <2>7 DEF ReadsOn
  <2>9. s \in S[n]
    BY <2>2, <2>8, ReadToStays
  <2> HIDE DEF s
  <2>10. s \in Appending(heap, w, src, Len(src)) /\ w.len + Len(src) <= MaxLen
    BY <1>1, <2>2, <2>5, <2>9
  <2>11. Abstract!Refuse \/ Abstract!AddAll(o, src)
    BY <1>1, <1>3, <2>2, <2>10, ExtendedLists DEF w
  <2>12. Abstract!Is(c) /\ src = Abstract!Elems(c)
    BY <1>1, ListedIs DEF src, v
  <2>13. Abstract!Change(o)
    BY <2>11, <2>12 DEF Abstract!Change
  <2> QED BY <1>1, <2>13, ChangesList DEF w
<1> QED BY <1>1, <1>2, <1>3
-----------------------------------------------------------------------------
(* removeAll and retainAll: f[k] is what is kept of the first k elements.  *)
Sieves(f, s, keep) ==
  f = [k \in 0 .. Len(s) |->
         IF k = 0 THEN <<>>
         ELSE IF s[k] \in keep THEN Append(f[k - 1], s[k]) ELSE f[k - 1]]

LEMMA SieveTurns ==
  ASSUME NEW s \in Seq(Value), NEW keep, NEW f, Sieves(f, s, keep)
  PROVE  /\ f[0] = <<>>
         /\ \A k \in 1 .. Len(s) :
              f[k] = IF s[k] \in keep THEN Append(f[k - 1], s[k]) ELSE f[k - 1]
         /\ \A k \in 0 .. Len(s) : f[k] \in Seq(Value) /\ Len(f[k]) <= k
         /\ Len(f[Len(s)]) = Len(s) => f[Len(s)] = s
<1> DEFINE n == Len(s)
           S == [k \in 0 .. n |-> {t \in Seq(Value) :
                  Len(t) <= k /\ (Len(t) = k => \A j \in 1 .. k : t[j] = s[j])}]
<1>1. n \in Nat /\ \A k \in 1 .. n : s[k] \in Value /\ k \in 0 .. n /\ k - 1 \in 0 .. n
  OBVIOUS
<1>2. /\ f[0] = <<>>
      /\ \A k \in 1 .. n : f[k] = IF s[k] \in keep THEN Append(f[k - 1], s[k]) ELSE f[k - 1]
  <2>1. f = [k \in 0 .. n |-> IF k = 0 THEN <<>>
                              ELSE IF s[k] \in keep THEN Append(f[k - 1], s[k]) ELSE f[k - 1]]
    BY DEF Sieves
  <2> HIDE DEF n
  <2>2. 0 \in 0 .. n /\ \A k \in 1 .. n : k \in 0 .. n /\ k # 0
    BY <1>1
  <2> QED BY <2>1, <2>2
<1>3. f[0] \in S[0]
  BY <1>1, <1>2
<1>4. ASSUME NEW k \in 1 .. n, f[k - 1] \in S[k - 1] PROVE f[k] \in S[k]
  <2> DEFINE t == f[k - 1]
             u == f[k]
  <2>1. /\ t \in Seq(Value) /\ Len(t) \in Nat /\ Len(t) <= k - 1
        /\ Len(t) = k - 1 => \A j \in 1 .. k - 1 : t[j] = s[j]
    BY <1>1, <1>4
  <2>2. u = IF s[k] \in keep THEN Append(t, s[k]) ELSE t
    BY <1>2
  <2> HIDE DEF t, u, n
  <2>3. /\ u \in Seq(Value) /\ Len(u) <= k
        /\ Len(u) = k => \A j \in 1 .. k : u[j] = s[j]
    <3>1. CASE s[k] \in keep
      <4>1. u = Append(t, s[k]) /\ s[k] \in Value
        BY <1>1, <2>2, <3>1
      <4>2. /\ u \in Seq(Value) /\ Len(u) = Len(t) + 1 /\ u[Len(t) + 1] = s[k]
            /\ \A j \in 1 .. Len(t) : u[j] = t[j]
        BY <2>1, <4>1
      <4>3. ASSUME Len(u) = k, NEW j \in 1 .. k PROVE u[j] = s[j]
        <5>1. Len(t) = k - 1 /\ k = Len(t) + 1
          BY <2>1, <4>2, <4>3
        <5>2. CASE j = k
          BY <4>2, <5>1, <5>2
        <5>3. CASE j # k
          <6>1. j \in 1 .. k - 1 /\ j \in 1 .. Len(t)
            BY <5>1, <5>3
          <6> QED BY <2>1, <4>2, <5>1, <6>1
        <5> QED BY <5>2, <5>3
      <4> QED BY <2>1, <4>2, <4>3
    <3>2. CASE s[k] \notin keep
      <4>1. Len(u) # k
        BY <2>1, <2>2, <3>2
      <4> QED BY <2>1, <2>2, <3>2, <4>1
    <3> QED BY <3>1, <3>2
  <2> QED BY <1>1, <2>3 DEF u
<1>5. \A k \in 1 .. n : f[k - 1] \in S[k - 1] => f[k] \in S[k]
  BY <1>4
<1> HIDE DEF S
<1>6. \A k \in 0 .. n : f[k] \in S[k]
  <2> HIDE DEF n
  <2> QED BY <1>1, <1>3, <1>5, TurnsStay
<1>7. ASSUME NEW k \in 0 .. n
      PROVE  /\ f[k] \in Seq(Value) /\ Len(f[k]) <= k
             /\ Len(f[k]) = k => \A j \in 1 .. k : f[k][j] = s[j]
  BY <1>6 DEF S
<1>8. Len(f[n]) = n => f[n] = s
  <2> DEFINE t == f[n]
  <2>1. n \in 0 .. n
    BY <1>1
  <2>2. t \in Seq(Value) /\ (Len(t) = n => \A j \in 1 .. n : t[j] = s[j])
    BY <1>7, <2>1
  <2> HIDE DEF t
  <2>3. Len(t) = Len(s) => t = s
    BY <2>2, SeqEqual
  <2> QED BY <2>3 DEF t
<1> QED BY <1>2, <1>7, <1>8

LEMMA OnlyIs ==
  ASSUME NEW s \in Seq(Value), NEW keep
  PROVE  \E f : Sieves(f, s, keep) /\ Abstract!Only(s, keep) = f[Len(s)]
<1> DEFINE n == Len(s)
           nil == <<>>
           Step(k, t) == IF s[k] \in keep THEN Append(t, s[k]) ELSE t
           S == [k \in 0 .. n |-> Seq(Value)]
           g == [k \in 1 .. n |-> [t \in Seq(Value) |-> Step(k, t)]]
           sieves(f) == f = [k \in 0 .. n |-> IF k = 0 THEN nil ELSE Step(k, f[k - 1])]
           some == CHOOSE f : sieves(f)
<1>1. \A k \in 1 .. n : \A t \in Seq(Value) : Step(k, t) \in Seq(Value)
  OBVIOUS
<1>2. n \in Nat /\ nil \in Seq(Value)
  OBVIOUS
<1> HIDE DEF Step, n, nil
<1>3. /\ \A k \in 0 .. n : S[k] = Seq(Value)
      /\ \A k \in 1 .. n : k - 1 \in 0 .. n /\ k \in 0 .. n
      /\ \A k \in 1 .. n : \A t \in Seq(Value) : g[k][t] = Step(k, t)
      /\ 0 \in 0 .. n
  BY <1>2
<1> HIDE DEF S, g
<1>4. GoesOn(n, S, nil, g)
  BY <1>1, <1>2, <1>3 DEF GoesOn
<1>5. PICK f : Turns(f, n, nil, g) /\ \A k \in 0 .. n : f[k] \in S[k]
  BY <1>2, <1>4, TurnsExist
<1>6. sieves(f)
  <2>1. \A k \in 1 .. n : g[k][f[k - 1]] = Step(k, f[k - 1])
    BY <1>3, <1>5
  <2>2. f = [k \in 0 .. n |-> IF k = 0 THEN nil ELSE g[k][f[k - 1]]]
    BY <1>5 DEF Turns
  <2>3. \A k \in 0 .. n : k # 0 => k \in 1 .. n
    BY <1>2
  <2> QED BY <2>1, <2>2, <2>3
<1>7. sieves(some)
  BY <1>6
<1>8. Abstract!Only(s, keep) = some[n]
  BY DEF Abstract!Only, Step, n, nil
<1> HIDE DEF some
<1>9. Sieves(some, s, keep)
  BY <1>7 DEF Sieves, Step, n, nil
<1> QED BY <1>8, <1>9 DEF n

(* What the operand, as the filter finds it, keeps: what it kept at first. *)
KeptBy(c, drop) == IF drop THEN {v \in Value : ~Abstract!Has(List(c), v)}
                           ELSE {v \in Value : Abstract!Has(List(c), v)}

AskedOf(s, o, c) == IF c = o THEN Cut(obj[o], s.len) ELSE obj[c]

LEMMA AskedIs ==
  ASSUME InOrder(heap, obj), Host = {}, NEW o \in Obj, obj[o] # None,
         NEW c \in Obj, obj[c] # None, NEW s \in Straining(heap, obj[o]), s.i < s.len,
         NEW e, e = s.heap[obj[o].arr][s.i + 1], Abstract!Has(List(o), e)
  PROVE  Contains(s.heap, AskedOf(s, o, c), e) <=> Abstract!Has(List(c), e)
<1>1. /\ obj[o] \in Window /\ obj[c] \in Window /\ heap \in Heap /\ heap[0] = <<>>
      /\ Shows(heap, obj[c]) /\ Alike(obj[o], obj[c])
  BY DEF InOrder
<1>2. /\ s \in [heap : Heap, len : 0 .. obj[o].len, i : 0 .. obj[o].len]
      /\ Rewrites(s.heap, heap, obj[o])
  BY DEF Straining
<1>3. obj[o].len \in 0 .. MaxLen /\ obj[o].len \in Nat /\ obj[o].arr \in Arr /\ MaxLen \in Nat
  BY <1>1, SliceAssumption DEF Window
<1>4. CASE c = o
  <2>1. s.len \in 0 .. MaxLen /\ s.i + 1 \in 1 .. s.len
    BY <1>2, <1>3
  <2> DEFINE v == AskedOf(s, o, c)
  <2>2. v.len = s.len /\ v.arr = obj[o].arr
    <3>1. v = Cut(obj[o], s.len)
      BY <1>4 DEF AskedOf
    <3>2. obj[o] \in Window /\ obj[o].arr \in Arr /\ s.len \in 0 .. MaxLen
      BY <1>1, <1>3, <2>1
    <3> HIDE DEF v
    <3> QED BY <3>1, <3>2, WindowWith
  <2> HIDE DEF v
  <2>3. Contains(s.heap, v, e)
    <3>1. s.i + 1 \in 1 .. v.len /\ s.heap[v.arr][s.i + 1] = e
      BY <2>1, <2>2
    <3> QED BY <3>1 DEF Contains
  <2>4. Abstract!Has(List(c), e)
    BY <1>4
  <2> QED BY <2>3, <2>4 DEF v
<1>5. CASE c # o
  <2> DEFINE v == obj[c]
             l == List(c)
  <2>1. Shows(s.heap, v) /\ s.heap \in Heap
    <3>1. s.heap \in Heap
      BY <1>2
    <3> QED BY <1>1, <1>2, <3>1, RewritesShows
  <2>2. Elems(s.heap, v) = l
    BY <1>2, <1>5, OthersSee DEF Others
  <2> HIDE DEF v, l
  <2>3. v.len \in Nat /\ l \in Seq(Value) /\ Len(l) = v.len
        /\ \A k \in 1 .. v.len : l[k] = s.heap[v.arr][k]
    BY <1>1, <2>1, <2>2, ElemsAre DEF v
  <2>4. Contains(s.heap, v, e) <=> \E k \in 1 .. v.len : l[k] = e
    BY <2>3 DEF Contains
  <2>5. Abstract!Has(l, e) <=> \E k \in 1 .. v.len : l[k] = e
    BY <2>3 DEF Abstract!Has
  <2> QED BY <1>5, <2>4, <2>5 DEF AskedOf, v, l
<1> QED BY <1>4, <1>5

(* Where a filter may be after k elements, exactly.                        *)
Sifting(o, f, k) ==
  {s \in Straining(heap, obj[o]) :
     /\ s.len - s.i = obj[o].len - k
     /\ s.i = Len(f[k])
     /\ \A j \in 1 .. s.i : s.heap[obj[o].arr][j] = f[k][j]
     /\ \A j \in 1 .. obj[o].len - k : s.heap[obj[o].arr][s.i + j] = List(o)[k + j]}

LEMMA SiftsIs ==
  ASSUME InOrder(heap, obj), Host = {}, NEW o \in Obj, obj[o] # None,
         NEW c \in Obj, obj[c] # None, NEW drop \in BOOLEAN,
         NEW f, Sieves(f, List(o), KeptBy(c, drop)),
         NEW k \in 1 .. obj[o].len, NEW s \in Sifting(o, f, k - 1)
  PROVE  Strained(s, o, c, drop) \in Sifting(o, f, k)
<1> DEFINE w    == obj[o]
           n    == w.len
           src  == List(o)
           arr  == w.arr
           e    == src[k]
           keep == KeptBy(c, drop)
           t    == f[k - 1]
           u    == f[k]
           x    == Strained(s, o, c, drop)
           hp2  == Delete(s.heap, arr, s.len, s.i + 1)
<1>1. /\ w \in Window /\ n \in Nat /\ Shows(heap, w) /\ heap \in Heap /\ arr \in Arr
      /\ n <= Len(heap[arr]) /\ Len(heap[arr]) \in Nat
  BY ElemsAre DEF InOrder
<1>2. src \in Seq(Value) /\ Len(src) = n /\ \A j \in 1 .. n : src[j] \in Value
  BY ListedIs
<1>3. /\ t \in Seq(Value) /\ u = IF e \in keep THEN Append(t, e) ELSE t
  <2>1. k \in 1 .. Len(src) /\ k - 1 \in 0 .. Len(src)
    BY <1>1, <1>2
  <2> HIDE DEF src, keep
  <2> QED BY <1>2, <2>1, SieveTurns DEF src, keep
<1>4. /\ s \in Straining(heap, w)
      /\ s.len - s.i = n - (k - 1) /\ s.i = Len(t)
      /\ \A j \in 1 .. s.i : s.heap[arr][j] = t[j]
      /\ \A j \in 1 .. n - (k - 1) : s.heap[arr][s.i + j] = src[(k - 1) + j]
  BY DEF Sifting
<1>5. /\ s \in [heap : Heap, len : 0 .. n, i : 0 .. n]
      /\ s.heap \in Heap /\ s.len \in 0 .. n /\ s.i \in 0 .. n
      /\ s.i <= s.len /\ Rewrites(s.heap, heap, w)
      /\ \A j \in 1 .. n : Conv[w.type][s.heap[arr][j]] = s.heap[arr][j]
  BY <1>4 DEF Straining
<1>6. x \in Straining(heap, w)
  BY <1>4, StrainedIs
<1>7. s.i < s.len /\ k \in Nat /\ k >= 1 /\ k <= n
  <2> HIDE DEF n
  <2>0. k \in 1 .. n
    BY DEF n
  <2> QED BY <1>1, <1>4, <1>5, <2>0
<1>8. e = s.heap[arr][s.i + 1] /\ e \in Value /\ Abstract!Has(src, e)
  <2>0. k \in 1 .. n
    BY DEF n
  <2> HIDE DEF n, src
  <2>1. 1 \in 1 .. n - (k - 1) /\ (k - 1) + 1 = k
    BY <1>1, <1>7
  <2>2. s.heap[arr][s.i + 1] = src[(k - 1) + 1]
    BY <1>4, <2>1
  <2>3. k \in DOMAIN src
    BY <1>2, <2>0
  <2> QED BY <1>2, <2>0, <2>1, <2>2, <2>3 DEF Abstract!Has
<1>9. Contains(s.heap, AskedOf(s, o, c), e) <=> Abstract!Has(List(c), e)
  BY <1>4, <1>7, <1>8, AskedIs
<1>10. (Contains(s.heap, AskedOf(s, o, c), e) = drop) <=> e \notin keep
  <2>1. CASE drop = TRUE
    BY <1>8, <1>9, <2>1, Zenon DEF KeptBy, Contains, Abstract!Has
  <2>2. CASE drop = FALSE
    BY <1>8, <1>9, <2>2, Zenon DEF KeptBy, Contains, Abstract!Has
  <2> QED BY <2>1, <2>2
<1>11. x = IF Contains(s.heap, AskedOf(s, o, c), s.heap[arr][s.i + 1]) = drop
           THEN [s EXCEPT !.heap = hp2, !.len = s.len - 1]
           ELSE [s EXCEPT !.i = s.i + 1]
  <2>1. ~(s.i >= s.len)
    BY <1>1, <1>5, <1>7
  <2> QED BY <1>5, <2>1 DEF Strained, AskedOf, Cut
<1> HIDE DEF x, e, keep, t, u, src
<1>12. CASE e \notin keep
  <2>1. x = [s EXCEPT !.heap = hp2, !.len = s.len - 1]
    BY <1>8, <1>10, <1>11, <1>12
  <2>2. x.heap = hp2 /\ x.len = s.len - 1 /\ x.i = s.i /\ u = t
    BY <1>3, <1>5, <1>12, <2>1
  <2>3. Shows(s.heap, w) /\ Len(s.heap[arr]) = Len(heap[arr])
    <3>1. Len(s.heap[arr]) = Len(heap[arr])
      BY <1>1, <1>5 DEF Rewrites
    <3> QED BY <1>1, <1>5, <3>1 DEF Shows, Cap
  <2>4. s.i + 1 \in Nat \ {0}
    BY <1>1, <1>5
  <2> HIDE DEF w
  <2>5. \A j \in 1 .. Len(s.heap[arr]) :
          hp2[arr][j] = IF s.i + 1 <= j /\ j < s.len THEN s.heap[arr][j + 1] ELSE s.heap[arr][j]
    BY <1>1, <1>5, <2>3, <2>4, DeleteIs
  <2> HIDE DEF hp2, n, arr
  <2>6. x.len - x.i = n - k
    BY <1>1, <1>4, <1>5, <1>7, <2>2
  <2>7. ASSUME NEW j \in 1 .. x.i PROVE x.heap[arr][j] = u[j]
    <3>1. j \in 1 .. Len(s.heap[arr]) /\ ~(s.i + 1 <= j) /\ j \in 1 .. s.i
      BY <1>1, <1>5, <2>2, <2>3
    <3> QED BY <1>4, <2>2, <2>5, <3>1
  <2>8. ASSUME NEW j \in 1 .. n - k PROVE x.heap[arr][x.i + j] = src[k + j]
    <3>1. /\ s.i + j \in 1 .. Len(s.heap[arr]) /\ s.i + 1 <= s.i + j /\ s.i + j < s.len
          /\ (s.i + j) + 1 = s.i + (j + 1) /\ j + 1 \in 1 .. n - (k - 1)
          /\ (k - 1) + (j + 1) = k + j
      BY <1>1, <1>4, <1>5, <1>7, <2>3
    <3>2. hp2[arr][s.i + j] = s.heap[arr][s.i + (j + 1)]
      BY <2>5, <3>1
    <3>3. s.heap[arr][s.i + (j + 1)] = src[(k - 1) + (j + 1)]
      BY <1>4, <3>1
    <3> QED BY <2>2, <3>1, <3>2, <3>3
  <2>9. x.i = Len(u)
    BY <1>4, <2>2
  <2> QED BY <1>6, <2>6, <2>7, <2>8, <2>9 DEF Sifting, x, u, src, w, n, arr
<1>13. CASE e \in keep
  <2>1. x = [s EXCEPT !.i = s.i + 1]
    BY <1>8, <1>10, <1>11, <1>13
  <2>2. x.heap = s.heap /\ x.len = s.len /\ x.i = s.i + 1 /\ u = Append(t, e)
    BY <1>3, <1>5, <1>13, <2>1
  <2>3. Len(u) = Len(t) + 1 /\ u[Len(t) + 1] = e /\ \A j \in 1 .. Len(t) : u[j] = t[j]
    BY <1>3, <1>8, <2>2
  <2> HIDE DEF w, hp2, n, arr
  <2>4. x.len - x.i = n - k /\ x.i = Len(u)
    BY <1>1, <1>4, <1>5, <1>7, <2>2, <2>3
  <2>5. ASSUME NEW j \in 1 .. x.i PROVE x.heap[arr][j] = u[j]
    <3>1. CASE j = s.i + 1
      BY <1>4, <1>8, <2>2, <2>3, <3>1
    <3>2. CASE j # s.i + 1
      <4>1. j \in 1 .. s.i
        BY <1>1, <1>5, <2>2, <3>2
      <4> QED BY <1>4, <2>2, <2>3, <4>1
    <3> QED BY <3>1, <3>2
  <2>6. ASSUME NEW j \in 1 .. n - k PROVE x.heap[arr][x.i + j] = src[k + j]
    <3>1. /\ (s.i + 1) + j = s.i + (j + 1) /\ j + 1 \in 1 .. n - (k - 1)
          /\ (k - 1) + (j + 1) = k + j
      BY <1>1, <1>4, <1>5, <1>7
    <3>2. s.heap[arr][s.i + (j + 1)] = src[(k - 1) + (j + 1)]
      BY <1>4, <3>1
    <3> QED BY <2>2, <3>1, <3>2
  <2> QED BY <1>6, <2>4, <2>5, <2>6 DEF Sifting, x, u, src, w, n, arr
<1> QED BY <1>12, <1>13

LEMMA FilterLists ==
  ASSUME InOrder(heap, obj), Host = {}, NEW o \in Obj, obj[o] # None,
         NEW c \in Obj, obj[c] # None, NEW drop \in BOOLEAN, Filter(o, c, drop)
  PROVE  Abstract!Filter(o, KeptBy(c, drop))
<1> DEFINE w    == obj[o]
           n    == w.len
           l    == List(o)
           keep == KeptBy(c, drop)
           all  == [heap |-> heap, len |-> w.len, i |-> 0]
           end  == StrainedTo(w.len, all, o, c, drop)
           v    == Cut(w, end.len)
           new  == [obj EXCEPT ![o] = v]
<1>1. /\ Changed(end.heap, new)
      /\ ret' = IF end.len = w.len THEN "same" ELSE "changed"
  BY DEF Filter, Becomes, Cut
<1>2. w \in Window /\ heap \in Heap /\ Shows(heap, w)
  BY DEF InOrder
<1>3. /\ w.arr \in Arr /\ n \in Nat /\ n \in 0 .. MaxLen
      /\ Len(heap[w.arr]) \in Nat /\ n <= Len(heap[w.arr])
  <2> HIDE DEF w
  <2> QED BY <1>2, ElemsAre
<1>4. /\ l \in Seq(Value) /\ Len(l) = n /\ \A j \in 1 .. n : l[j] = heap[w.arr][j]
      /\ Abstract!Elems(o) = l
  BY ListedIs
<1>5. PICK f : Sieves(f, l, keep) /\ Abstract!Only(l, keep) = f[n]
  <2> HIDE DEF l, keep, w
  <2> QED BY <1>4, OnlyIs
<1>6. /\ f[0] = <<>> /\ f[n] \in Seq(Value) /\ Len(f[n]) <= n
      /\ Len(f[n]) = n => f[n] = l
  <2> HIDE DEF l, keep, w
  <2>1. n \in 0 .. n
    BY <1>3
  <2> QED BY <1>4, <1>5, <2>1, SieveTurns
<1> DEFINE S == [k \in 0 .. n |-> Sifting(o, f, k)]
<1>7. /\ \A k \in 0 .. n : S[k] = Sifting(o, f, k)
      /\ \A k \in 1 .. n : k - 1 \in 0 .. n /\ k \in 0 .. n
      /\ 0 \in 0 .. n /\ n \in 0 .. n
  BY <1>3
<1>8. all \in Straining(heap, w) /\ all.heap = heap /\ all.len = n /\ all.i = 0
  <2> HIDE DEF w
  <2>1. all \in [heap : Heap, len : 0 .. w.len, i : 0 .. w.len]
        /\ all.heap = heap /\ all.len = w.len /\ all.i = 0
    BY <1>2, <1>3
  <2> HIDE DEF all
  <2>2. all \in Straining(heap, w)
    BY <1>2, <1>3, <2>1, RewritesNothing DEF Straining, Shows
  <2> QED BY <2>1, <2>2
<1> HIDE DEF all, S
<1>9. all \in S[0]
  <2>1. all \in Sifting(o, f, 0)
    BY <1>3, <1>4, <1>6, <1>8 DEF Sifting
  <2> QED BY <1>7, <2>1
<1>10. \A k \in 1 .. n : \A x \in S[k - 1] : Strained(x, o, c, drop) \in S[k]
  BY <1>5, <1>7, SiftsIs
<1>11. StrainsOn(n, S, all, o, c, drop)
  BY <1>9, <1>10 DEF StrainsOn
<1>12. end \in Sifting(o, f, n)
  <2>1. end \in S[n]
    BY <1>3, <1>11, StrainedToStays
  <2> QED BY <1>7, <2>1
<1> HIDE DEF end
<1>13. /\ end \in Straining(heap, w)
       /\ end.len - end.i = n - n /\ end.i = Len(f[n])
       /\ \A j \in 1 .. end.i : end.heap[w.arr][j] = f[n][j]
  BY <1>12 DEF Sifting
<1> HIDE DEF w, l
<1>14. /\ end.heap \in Heap /\ end.len \in 0 .. n /\ Rewrites(end.heap, heap, w)
       /\ \A j \in 1 .. n : Conv[w.type][end.heap[w.arr][j]] = end.heap[w.arr][j]
       /\ end.i \in 0 .. n
  BY <1>13 DEF Straining
<1>15. end.len = Len(f[n]) /\ end.i = end.len
  BY <1>3, <1>13, <1>14
<1>16. v \in Window /\ v.arr = w.arr /\ v.len = end.len /\ v.type = w.type
  <2>1. end.len \in 0 .. MaxLen
    BY <1>3, <1>14, SliceAssumption
  <2> QED BY <1>2, <1>3, <2>1, WindowWith
<1> HIDE DEF v
<1>17. Shows(end.heap, v)
  <2>1. Len(end.heap[w.arr]) = Len(heap[w.arr])
    BY <1>3, <1>14 DEF Rewrites
  <2> QED BY <1>3, <1>14, <1>16, <2>1 DEF Shows, Cap
<1>18. InOrder(end.heap, new) /\ Others(end.heap, o)
  BY <1>14, <1>16, <1>17, RewritesKeep, OthersSee DEF w
<1>19. Elems(end.heap, v) = f[n]
  <2> DEFINE t == f[n]
             e == Elems(end.heap, v)
  <2>1. e \in Seq(Value) /\ Len(e) = end.len
        /\ \A j \in 1 .. end.len : e[j] = end.heap[w.arr][j]
    BY <1>14, <1>16, <1>17, ElemsAre
  <2>2. t \in Seq(Value) /\ Len(t) = end.len
        /\ \A j \in 1 .. end.len : end.heap[w.arr][j] = t[j]
    BY <1>6, <1>13, <1>15
  <2> HIDE DEF t, e
  <2>3. e = t
    BY <2>1, <2>2, SeqEqual
  <2> QED BY <2>3 DEF t, e
<1>20. listed' = [listed EXCEPT ![o] = Listed(v, f[n])]
  <2>1. listed' = [listed EXCEPT ![o] = Listed(v, Elems(end.heap, v))]
    BY <1>1, <1>16, <1>18, ListedAfter
  <2> QED BY <1>19, <2>1
<1>21. ret' = IF f[n] = l THEN "same" ELSE "changed"
  <2>1. end.len = n <=> f[n] = l
    BY <1>4, <1>6, <1>15
  <2> QED BY <1>1, <2>1
<1>22. v.type = obj[o].type
  BY <1>16 DEF w
<1>23. Abstract!Elems(o) = l /\ Abstract!Only(l, keep) = f[n]
  BY <1>4, <1>5
<1> HIDE DEF keep, n
<1>24. CASE f[n] = l
  <2>1. Abstract!Become(o, f[n], "same")
    BY <1>16, <1>20, <1>21, <1>22, <1>24, Becoming
  <2> QED BY <1>23, <1>24, <2>1 DEF Abstract!Filter, Abstract!Become, keep
<1>25. CASE f[n] # l
  <2>1. Abstract!Become(o, f[n], "changed")
    BY <1>16, <1>20, <1>21, <1>22, <1>25, Becoming
  <2> QED BY <1>23, <1>25, <2>1 DEF Abstract!Filter, Abstract!Become, keep
<1> QED BY <1>24, <1>25

LEMMA FiltersList ==
  ASSUME InOrder(heap, obj), Host = {}, NEW o \in Obj, NEW c \in Obj,
         RemoveAll(o, c) \/ RetainAll(o, c)
  PROVE  Abstract!Next
<1>1. obj[o] # None /\ obj[c] # None
  BY DEF RemoveAll, RetainAll
<1>2. Abstract!Is(c) /\ Abstract!Elems(c) = List(c)
  BY <1>1, ListedIs
<1>3. CASE RemoveAll(o, c)
  <2>1. Abstract!Filter(o, KeptBy(c, TRUE))
    BY <1>1, <1>3, FilterLists DEF RemoveAll
  <2>2. KeptBy(c, TRUE) = {v \in Value : ~Abstract!Has(Abstract!Elems(c), v)}
    BY <1>2 DEF KeptBy
  <2>3. Abstract!Change(o)
    BY <1>2, <2>1, <2>2 DEF Abstract!Change
  <2> QED BY <1>1, <2>3, ChangesList
<1>4. CASE RetainAll(o, c)
  <2>1. Abstract!Filter(o, KeptBy(c, FALSE))
    BY <1>1, <1>4, FilterLists DEF RetainAll
  <2>2. KeptBy(c, FALSE) = {v \in Value : Abstract!Has(Abstract!Elems(c), v)}
    BY <1>2 DEF KeptBy
  <2>3. Abstract!Change(o)
    BY <1>2, <2>1, <2>2 DEF Abstract!Change
  <2> QED BY <1>1, <2>3, ChangesList
<1> QED BY <1>3, <1>4
-----------------------------------------------------------------------------
LEMMA StepLists ==
  ASSUME InOrder(heap, obj), Walking, Host = {}, [Next]_vars
  PROVE  Abstract!Next \/ UNCHANGED <<listed, ret>>
<1>1. ASSUME NEW o \in Obj, New(o) \/ Clear(o) PROVE Abstract!Next
  BY <1>1, NewLists, ClearLists
<1>2. ASSUME NEW o \in Walked, Iterator(o) PROVE Abstract!Next
  BY <1>2, SliceAssumption, IteratorLists
<1>3. ASSUME NEW o \in Obj, NEW h \in Host, Wrap(o, h) PROVE FALSE
  BY <1>3
<1>4. ASSUME NEW o \in Obj, NEW c \in Obj,
             ToArray(o, c) \/ AddAll(o, c) \/ RemoveAll(o, c) \/ RetainAll(o, c)
      PROVE  Abstract!Next
  BY <1>4, ToArrayLists, AddAllLists, FiltersList
<1>5. ASSUME NEW o \in Obj, NEW v \in Value, Add(o, v) \/ Remove(o, v) PROVE Abstract!Next
  BY <1>5, AddLists, RemoveLists
<1>6. ASSUME NEW o \in Obj, NEW i \in 0 .. MaxLen, NEW v \in Value, Set(o, i, v)
      PROVE  Abstract!Next
  BY <1>6, SetLists
<1>7. ASSUME NextElement \/ IterRemove PROVE Abstract!Next
  BY <1>7, IteratorLists
<1>8. CASE UNCHANGED vars
  BY <1>8 DEF vars, listed, List
<1> QED BY <1>1, <1>2, <1>3, <1>4, <1>5, <1>6, <1>7, <1>8 DEF Next

(* Without the host's arrays a *Slice is a list of its own: each call      *)
(* changes the one list it is made on, in one go, as Lists says, whether   *)
(* the elements move within an array, to a new one, or are read from the   *)
(* slice that is being changed.                                            *)
THEOREM SlicesAreLists ==
  ASSUME Host = {}
  PROVE  Spec => Implements
<1>1. Init => SliceInv
  BY InitKeeps
<1>2. SliceInv /\ [Next]_vars => SliceInv'
  BY StepKeeps
<1>3. Init => Abstract!Init
  BY DEF Init, Abstract!Init
<1>4. SliceInv /\ [Next]_vars => [Abstract!Next]_<<listed, ret>>
  BY StepLists DEF SliceInv
<1> QED BY <1>1, <1>2, <1>3, <1>4, PTL DEF Spec, Implements, Abstract!Spec, listed
=============================================================================
