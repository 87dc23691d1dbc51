-------------------------- MODULE VtlExecuteProofs --------------------------
(***************************************************************************)
(* Invariants of VtlExecute, proved for all templates, contexts and limits. *)
(*                                                                         *)
(* That a slot still exists when it is popped is not inductive.  It holds  *)
(* because slots of one name are held in the order of their numbers, so    *)
(* that the last one held is the highest (SlotsOK), and because every      *)
(* frame holds what its mark says, its loop's two slots on top (StackOK).  *)
(***************************************************************************)
EXTENDS VtlExecute, SequenceTheorems, TLAPS

(* What Push, Pop and Set do to a context, for contexts of any values.     *)

(* Deleting an element of a sequence shifts those after it down by one.    *)
LEMMA RemoveAtProperties ==
  ASSUME NEW V, NEW s \in Seq(V), NEW i \in 1..Len(s)
  PROVE  /\ RemoveAt(s, i) \in Seq(V)
         /\ Len(RemoveAt(s, i)) = Len(s) - 1
         /\ \A j \in 1..(Len(s) - 1) :
              RemoveAt(s, i)[j] = IF j < i THEN s[j] ELSE s[j + 1]
<1> DEFINE a == SubSeq(s, 1, i - 1)
           b == SubSeq(s, i + 1, Len(s))
<1>0. Len(s) \in Nat /\ i \in Nat /\ 1 <= i /\ i <= Len(s)
  OBVIOUS
<1>1. a \in Seq(V) /\ Len(a) = i - 1 /\ \A j \in 1..(i - 1) : a[j] = s[j]
  OBVIOUS
<1>2. /\ b \in Seq(V) /\ Len(b) = Len(s) - i
      /\ \A j \in 1..(Len(s) - i) : b[j] = s[i + j]
  OBVIOUS
<1> HIDE DEF a, b
<1>3. /\ a \o b \in Seq(V)
      /\ Len(a \o b) = Len(a) + Len(b)
      /\ \A j \in 1..(Len(a) + Len(b)) :
           (a \o b)[j] = IF j <= Len(a) THEN a[j] ELSE b[j - Len(a)]
  BY <1>1, <1>2, ConcatProperties
<1>4. ASSUME NEW j \in 1..(Len(s) - 1)
      PROVE  (a \o b)[j] = IF j < i THEN s[j] ELSE s[j + 1]
  <2>0. j \in Nat /\ 1 <= j /\ j <= Len(s) - 1
    BY <1>0
  <2>1. CASE j < i
    BY <1>0, <1>1, <1>2, <1>3, <2>0, <2>1
  <2>2. CASE ~(j < i)
    <3>1. (a \o b)[j] = b[j - (i - 1)] /\ j - (i - 1) \in 1..(Len(s) - i)
      BY <1>0, <1>1, <1>2, <1>3, <2>0, <2>2
    <3>2. b[j - (i - 1)] = s[i + (j - (i - 1))] /\ i + (j - (i - 1)) = j + 1
      BY <1>0, <1>2, <2>0, <3>1
    <3>3. QED
      BY <2>2, <3>1, <3>2
  <2>3. QED
    BY <2>1, <2>2
<1>5. RemoveAt(s, i) = a \o b
  BY DEF RemoveAt, a, b
<1>6. QED
  <2>1. Len(a) + Len(b) = Len(s) - 1
    BY <1>0, <1>1, <1>2
  <2>2. QED
    BY <1>3, <1>4, <1>5, <2>1

(* Push adds one value, on top of its name, and leaves the others.         *)
LEMMA PushProperties ==
  ASSUME NEW V, NEW c \in Contexts(V), NEW n \in Name, NEW v \in V
  PROVE  /\ Push(c, n, v) \in Contexts(V)
         /\ NewSlot(c, n) \in Nat \ {0}
         /\ NewSlot(c, n) = Len(c[n]) + 1
         /\ Len(Push(c, n, v)[n]) = Len(c[n]) + 1
         /\ Push(c, n, v)[n][Len(c[n]) + 1] = v
         /\ \A j \in 1..Len(c[n]) : Push(c, n, v)[n][j] = c[n][j]
         /\ \A k \in Name \ {n} : Push(c, n, v)[k] = c[k]
  BY DEF Push, NewSlot, Contexts

(* Pop of an existing slot removes just that one.                          *)
LEMMA PopProperties ==
  ASSUME NEW V, NEW c \in Contexts(V), NEW n \in Name, NEW i \in 1..Len(c[n])
  PROVE  /\ Pop(c, i, n) \in Contexts(V)
         /\ Len(Pop(c, i, n)[n]) = Len(c[n]) - 1
         /\ \A j \in 1..(Len(c[n]) - 1) :
              Pop(c, i, n)[n][j] = IF j < i THEN c[n][j] ELSE c[n][j + 1]
         /\ \A k \in Name \ {n} : Pop(c, i, n)[k] = c[k]
<1>1. c[n] \in Seq(V) /\ c[n] # <<>> /\ i >= 1
  BY DEF Contexts
<1>2. /\ RemoveAt(c[n], i) \in Seq(V)
      /\ Len(RemoveAt(c[n], i)) = Len(c[n]) - 1
      /\ \A j \in 1..(Len(c[n]) - 1) :
           RemoveAt(c[n], i)[j] = IF j < i THEN c[n][j] ELSE c[n][j + 1]
  BY <1>1, RemoveAtProperties
<1>3. Pop(c, i, n) = [c EXCEPT ![n] = RemoveAt(c[n], i)]
  BY <1>1 DEF Pop
<1>4. QED
  BY <1>2, <1>3 DEF Contexts

(* Set changes the value in one slot and no length.                        *)
LEMMA SetProperties ==
  ASSUME NEW V, NEW c \in Contexts(V), NEW n \in Name, NEW i \in Nat \ {0}, NEW v \in V
  PROVE  /\ Set(c, i, n, v) \in Contexts(V)
         /\ \A k \in Name : Len(Set(c, i, n, v)[k]) = Len(c[k])
         /\ i <= Len(c[n]) => Set(c, i, n, v)[n][i] = v
         /\ \A j \in 1..Len(c[n]) : j # i => Set(c, i, n, v)[n][j] = c[n][j]
         /\ \A k \in Name \ {n} : Set(c, i, n, v)[k] = c[k]
  BY DEF Set, Contexts

(* A defined name has a value of the context's type.                       *)
LEMMA GetProperties ==
  ASSUME NEW V, NEW c \in Contexts(V), NEW n \in Name, IsDefined(c, n)
  PROVE  Get(c, n) \in V
  BY DEF Get, Last, IsDefined, Contexts
-----------------------------------------------------------------------------

Ordered(h) ==
  \A i, j \in 1..Len(h) : i < j /\ h[i].name = h[j].name => h[i].idx < h[j].idx

InBounds(h, c) == \A j \in 1..Len(h) : h[j].idx <= Len(c[h[j].name])

SlotsOK == Ordered(held) /\ InBounds(held, ctx)

LoopSlots(f) == IF f.loop = "no" THEN 0 ELSE 2

CallsOn(f) == IF NodeAt(f).type \in {"call", "parse"} THEN 1 ELSE 0

WithinDepth(f) == ~ Exceeds(f.depth, CallLimit(f.t))

(* Frame f has called _execute for frame g. *)
Adjacent(f, g) ==
  /\ f.pc <= Len(tree[f.list])
  /\ NodeAt(f).type \in {"if", "call", "foreach", "parse"}
  /\ f.loop # "no" <=> NodeAt(f).type = "foreach"
  /\ g.t = f.t + (IF NodeAt(f).type = "parse" THEN 1 ELSE 0)
  /\ f.mark + LoopSlots(f) <= g.mark
  /\ g.depth = f.depth + CallsOn(f)
  /\ WithinDepth(f)

StackOK ==
  /\ \A k \in 1..(Len(stack) - 1) : Adjacent(stack[k], stack[k + 1])
  /\ stack # <<>> => stack[1].t = 1
  /\ phase = "done" => Len(macros) = 1
  /\ phase # "done" =>
       /\ Top.t = Len(macros)
       /\ Top.mark + LoopSlots(Top) <= Len(held)
       /\ Top.loop # "no" => AtNode("foreach")
  /\ phase = "run" => WithinDepth(Top)

Inv == TypeOK /\ StackOK /\ SlotsOK
-----------------------------------------------------------------------------
(* Sequences used as stacks *)

LEMMA LastFront ==
  ASSUME NEW V, NEW s \in Seq(V), s # <<>>
  PROVE  /\ Len(s) \in Nat \ {0}
         /\ Last(s) = s[Len(s)] /\ Last(s) \in V
         /\ Front(s) \in Seq(V) /\ Len(Front(s)) = Len(s) - 1
         /\ \A i \in 1..(Len(s) - 1) : Front(s)[i] = s[i]
  BY DEF Last, Front

LEMMA ReplaceTopProperties ==
  ASSUME NEW V, NEW s \in Seq(V), s # <<>>, NEW f \in V
  PROVE  /\ ReplaceTop(s, f) \in Seq(V) /\ ReplaceTop(s, f) # <<>>
         /\ Len(ReplaceTop(s, f)) = Len(s)
         /\ Last(ReplaceTop(s, f)) = f
         /\ \A i \in 1..(Len(s) - 1) : ReplaceTop(s, f)[i] = s[i]
  BY DEF ReplaceTop, Last

LEMMA AppendTop ==
  ASSUME NEW V, NEW s \in Seq(V), NEW f \in V
  PROVE  /\ Append(s, f) \in Seq(V) /\ Append(s, f) # <<>>
         /\ Len(Append(s, f)) = Len(s) + 1
         /\ Last(Append(s, f)) = f
         /\ \A i \in 1..Len(s) : Append(s, f)[i] = s[i]
  BY DEF Last
-----------------------------------------------------------------------------
(* Slots *)

(* A push adds the highest slot of its name.                               *)
LEMMA PushSlot ==
  ASSUME NEW h \in Seq(Slot), NEW c \in Contexts(Value), NEW n \in Name, NEW v \in Value,
         Ordered(h), InBounds(h, c)
  PROVE  LET g == Append(h, SlotOf(c, n)) IN
         /\ g \in Seq(Slot) /\ Len(g) = Len(h) + 1
         /\ Push(c, n, v) \in Contexts(Value)
         /\ Ordered(g) /\ InBounds(g, Push(c, n, v))
         /\ InBounds(h, Push(c, n, v))
<1> DEFINE s == SlotOf(c, n)
           g == Append(h, s)
           d == Push(c, n, v)
<1>1. /\ d \in Contexts(Value)
      /\ s \in Slot /\ s.name = n /\ s.idx = Len(c[n]) + 1
      /\ Len(d[n]) = Len(c[n]) + 1
      /\ \A k \in Name : Len(c[k]) <= Len(d[k])
  <2>1. /\ d \in Contexts(Value) /\ Len(d[n]) = Len(c[n]) + 1
        /\ NewSlot(c, n) \in Nat \ {0} /\ NewSlot(c, n) = Len(c[n]) + 1
        /\ \A k \in Name \ {n} : d[k] = c[k]
    BY PushProperties
  <2>2. \A k \in Name : Len(c[k]) \in Nat
    BY DEF Contexts
  <2>3. QED
    BY <2>1, <2>2 DEF SlotOf, Slot
<1>2. /\ g \in Seq(Slot) /\ Len(g) = Len(h) + 1 /\ g[Len(h) + 1] = s
      /\ \A i \in 1..Len(h) : g[i] = h[i] /\ h[i] \in Slot
  BY <1>1
<1> HIDE DEF s, g, d
<1>3. InBounds(h, d)
  <2>1. SUFFICES ASSUME NEW j \in 1..Len(h) PROVE h[j].idx <= Len(d[h[j].name])
    BY DEF InBounds
  <2>2. h[j].name \in Name /\ h[j].idx \in Nat /\ h[j].idx <= Len(c[h[j].name])
    BY <1>2 DEF Slot, InBounds
  <2>3. Len(c[h[j].name]) \in Nat /\ Len(d[h[j].name]) \in Nat
    BY <1>1, <2>2 DEF Contexts
  <2>4. QED
    BY <1>1, <2>2, <2>3
<1>4. InBounds(g, d)
  <2>1. SUFFICES ASSUME NEW j \in 1..Len(g) PROVE g[j].idx <= Len(d[g[j].name])
    BY DEF InBounds
  <2>2. CASE j \in 1..Len(h)
    BY <1>2, <1>3, <2>2 DEF InBounds
  <2>3. CASE j = Len(h) + 1
    BY <1>1, <1>2, <2>3 DEF Contexts
  <2>4. QED
    BY <1>2, <2>2, <2>3
<1>5. Ordered(g)
  <2>1. SUFFICES ASSUME NEW i \in 1..Len(g), NEW j \in 1..Len(g), i < j,
                        g[i].name = g[j].name
                 PROVE  g[i].idx < g[j].idx
    BY DEF Ordered
  <2>2. CASE j \in 1..Len(h)
    BY <1>2, <2>1, <2>2 DEF Ordered
  <2>3. CASE j = Len(h) + 1
    <3>1. i \in 1..Len(h) /\ g[i] = h[i] /\ h[i].name = n
      BY <1>1, <1>2, <2>1, <2>3
    <3>2. h[i].idx <= Len(c[n]) /\ Len(c[n]) \in Nat /\ h[i].idx \in Nat
      <4>1. h[i] \in Slot /\ h[i].idx <= Len(c[h[i].name])
        BY <1>2, <3>1 DEF InBounds
      <4>2. Len(c[n]) \in Nat
        BY DEF Contexts
      <4>3. QED
        BY <3>1, <4>1, <4>2 DEF Slot
    <3>3. QED
      BY <1>1, <1>2, <2>3, <3>1, <3>2
  <2>4. QED
    BY <1>2, <2>2, <2>3
<1>6. QED
  BY <1>1, <1>2, <1>3, <1>4, <1>5 DEF g, d, s

(* Popping the slot held last moves none of the others.                    *)
LEMMA PopSlot ==
  ASSUME NEW h \in Seq(Slot), NEW c \in Contexts(Value), h # <<>>,
         Ordered(h), InBounds(h, c)
  PROVE  LET d == Pop(c, Last(h).idx, Last(h).name) IN
         /\ Last(h) \in Slot /\ Last(h).idx \in 1..Len(c[Last(h).name])
         /\ Front(h) \in Seq(Slot) /\ Len(Front(h)) = Len(h) - 1
         /\ d \in Contexts(Value)
         /\ Ordered(Front(h)) /\ InBounds(Front(h), d)
<1> DEFINE s == Last(h)
           g == Front(h)
           d == Pop(c, s.idx, s.name)
<1>1. /\ Len(h) \in Nat \ {0} /\ s = h[Len(h)] /\ s \in Slot
      /\ g \in Seq(Slot) /\ Len(g) = Len(h) - 1
      /\ \A i \in 1..Len(g) : g[i] = h[i] /\ h[i] \in Slot
  BY LastFront
<1>2. s.name \in Name /\ s.idx \in 1..Len(c[s.name]) /\ Len(c[s.name]) \in Nat
  BY <1>1 DEF InBounds, Slot, Contexts
<1>3. /\ d \in Contexts(Value) /\ Len(d[s.name]) = Len(c[s.name]) - 1
      /\ \A k \in Name \ {s.name} : d[k] = c[k]
  BY <1>2, PopProperties
<1> HIDE DEF s, g, d
<1>4. Ordered(g)
  BY <1>1 DEF Ordered
<1>5. ASSUME NEW j \in 1..Len(g) PROVE g[j].idx <= Len(d[g[j].name])
  <2>1. /\ g[j] = h[j] /\ h[j].name \in Name /\ h[j].idx \in Nat
        /\ h[j].idx <= Len(c[h[j].name]) /\ j \in 1..Len(h) /\ j < Len(h)
    BY <1>1 DEF InBounds, Slot
  <2>2. CASE h[j].name = s.name
    <3>1. h[j].idx < s.idx /\ s.idx \in Nat
      <4>1. /\ j \in 1..Len(h) /\ Len(h) \in 1..Len(h) /\ j < Len(h)
            /\ h[j].name = h[Len(h)].name
        BY <1>1, <2>1, <2>2
      <4>2. h[j].idx < h[Len(h)].idx
        BY <4>1 DEF Ordered
      <4>3. s.idx \in Nat
        BY <1>2
      <4>4. QED
        BY <1>1, <4>2, <4>3
    <3>2. QED
      BY <1>2, <1>3, <2>1, <2>2, <3>1
  <2>3. CASE h[j].name # s.name
    BY <1>3, <2>1, <2>3
  <2>4. QED
    BY <2>2, <2>3
<1>6. QED
  BY <1>1, <1>2, <1>3, <1>4, <1>5 DEF InBounds, s, g, d

(* Setting a slot moves nothing.                                           *)
LEMMA SetSlot ==
  ASSUME NEW h \in Seq(Slot), NEW c \in Contexts(Value), NEW i \in Nat \ {0},
         NEW n \in Name, NEW v \in Value, InBounds(h, c)
  PROVE  /\ Set(c, i, n, v) \in Contexts(Value)
         /\ InBounds(h, Set(c, i, n, v))
<1>1. /\ Set(c, i, n, v) \in Contexts(Value)
      /\ \A k \in Name : Len(Set(c, i, n, v)[k]) = Len(c[k])
  BY SetProperties
<1>2. \A j \in 1..Len(h) : h[j].name \in Name
  <2>1. \A j \in 1..Len(h) : h[j] \in Slot
    OBVIOUS
  <2>2. QED
    BY <2>1 DEF Slot
<1>3. QED
  BY <1>1, <1>2 DEF InBounds

(* The slots left when the two of a loop are forgotten.                    *)
LEMMA WithoutLoopSlots ==
  ASSUME NEW h \in Seq(Slot), NEW c \in Contexts(Value), Len(h) >= 2,
         Ordered(h), InBounds(h, c)
  PROVE  /\ WithoutLoop(h) \in Seq(Slot) /\ Len(WithoutLoop(h)) = Len(h) - 2
         /\ Ordered(WithoutLoop(h)) /\ InBounds(WithoutLoop(h), c)
<1>1. /\ Front(h) \in Seq(Slot) /\ Len(Front(h)) = Len(h) - 1
      /\ \A i \in 1..(Len(h) - 1) : Front(h)[i] = h[i]
      /\ Len(h) \in Nat /\ Front(h) # <<>>
  <2>1. h # <<>> /\ Len(h) \in Nat
    OBVIOUS
  <2>2. /\ Front(h) \in Seq(Slot) /\ Len(Front(h)) = Len(h) - 1
        /\ \A i \in 1..(Len(h) - 1) : Front(h)[i] = h[i]
    BY <2>1, LastFront
  <2>3. Front(h) # <<>>
    BY <2>1, <2>2
  <2>4. QED
    BY <2>1, <2>2, <2>3
<1>2. /\ Front(Front(h)) \in Seq(Slot) /\ Len(Front(Front(h))) = Len(h) - 2
      /\ \A i \in 1..(Len(h) - 2) : Front(Front(h))[i] = Front(h)[i]
  <2> DEFINE g == Front(h)
  <2>1. g \in Seq(Slot) /\ g # <<>>
    BY <1>1
  <2>2. /\ Front(g) \in Seq(Slot) /\ Len(Front(g)) = Len(g) - 1
        /\ \A i \in 1..(Len(g) - 1) : Front(g)[i] = g[i]
    BY <2>1, LastFront
  <2>3. Len(g) - 1 = Len(h) - 2
    BY <1>1
  <2>4. QED
    BY <2>2, <2>3
<1>3. \A i \in 1..(Len(h) - 2) : Front(Front(h))[i] = h[i]
  BY <1>1, <1>2
<1> DEFINE g == Front(Front(h))
<1>4. g \in Seq(Slot) /\ Len(g) = Len(h) - 2 /\ Len(h) \in Nat
  BY <1>1, <1>2
<1>5. \A i \in 1..Len(g) : g[i] = h[i] /\ i \in 1..Len(h)
  BY <1>3, <1>4
<1> HIDE DEF g
<1>6. Ordered(g)
  BY <1>5 DEF Ordered
<1>7. InBounds(g, c)
  BY <1>5 DEF InBounds
<1>8. QED
  BY <1>4, <1>6, <1>7 DEF WithoutLoop, g
-----------------------------------------------------------------------------
(* The frame that runs and the node it is at *)

LEMMA TopType ==
  ASSUME TypeOK, stack # <<>>
  PROVE  /\ Len(stack) \in Nat \ {0} /\ Top \in Frame /\ Top = stack[Len(stack)]
         /\ Front(stack) \in Seq(Frame) /\ Len(Front(stack)) = Len(stack) - 1
         /\ \A i \in 1..(Len(stack) - 1) : Front(stack)[i] = stack[i]
<1>1. stack \in Seq(Frame)
  BY DEF TypeOK
<1>2. QED
  BY <1>1, LastFront DEF Top

LEMMA NodeFields ==
  ASSUME NEW n \in Node
  PROVE  /\ n.type = "if" => /\ n.cond \in Expr \cup {None} /\ n.items \in List
                             /\ n.else \in List \cup {None}
         /\ n.type = "set" => n.var \in Name /\ n.expr \in Expr
         /\ n.type = "setprop" => n.target \in Simple /\ n.expr \in Expr
         /\ n.type = "var" => n.expr \in Simple
         /\ n.type = "add" => n.val \in Scalar
         /\ n.type = "macro" => n.name \in MacroName /\ n.def \in Macro
         /\ n.type = "call" => n.name \in MacroName /\ n.vals \in Seq(Expr)
         /\ n.type = "foreach" => /\ n.var \in Name /\ n.iter \in Expr /\ n.items \in List
                                  /\ n.else \in List \cup {None}
         /\ n.type = "include" => n.name \in Expr
         /\ n.type = "parse" => n.name \in Expr /\ n.file \in List \cup {None}
  BY DEF Node

LEMMA AtNodeType ==
  ASSUME TypeOK, NEW type, AtNode(type)
  PROVE  /\ phase = "run" /\ stack # <<>>
         /\ Top.pc \in Nat \ {0} /\ Top.pc <= Len(tree[Top.list])
         /\ Current \in Node /\ Current.type = type
<1>1. phase = "run" /\ stack # <<>> /\ Top.pc <= Len(tree[Top.list]) /\ Current.type = type
  BY DEF AtNode, TypeOK
<1>2. Top.pc \in Nat \ {0} /\ Top.list \in List
  BY <1>1, TopType DEF Frame
<1>3. tree[Top.list] \in Seq(Node)
  BY <1>2 DEF TypeOK
<1>4. QED
  BY <1>1, <1>2, <1>3 DEF Current, NodeAt

LEMMA SimpleType ==
  ASSUME TypeOK, NEW e \in Simple
  PROVE  /\ SimpleErr(e) \in EvalErr \cup {"ok"}
         /\ SimpleVal(e) \in Value
         /\ e.op # "string"
<1>1. CASE e \in [op : {"lit"}, val : Literal]
  BY <1>1 DEF SimpleErr, SimpleVal, Value, EvalErr
<1>2. CASE e \in [op : {"ref"}, name : Name]
  <2>1. ctx \in Contexts(Value) /\ Nil \in Value /\ e.op = "ref" /\ e.name \in Name
    BY <1>2 DEF TypeOK, Value, Literal
  <2>2. IsDefined(ctx, e.name) => Get(ctx, e.name) \in Value
    BY <2>1, GetProperties
  <2>3. QED
    BY <2>1, <2>2 DEF SimpleErr, SimpleVal, EvalErr
<1>3. CASE e \in [op : {"err"}, err : {"nil", "other"}]
  BY <1>3 DEF SimpleErr, SimpleVal, EvalErr, Value, Literal
<1>4. QED
  BY <1>1, <1>2, <1>3 DEF Simple

LEMMA EvalType ==
  ASSUME TypeOK, NEW e \in Expr
  PROVE  /\ ErrOf(e) \in EvalErr \cup {"ok"}
         /\ ValOf(e) \in Value
<1>1. CASE e \in Simple
  BY <1>1, SimpleType DEF ErrOf, ValOf
<1>2. CASE e \in [op : {"string"}, parts : Seq(Reference), val : Scalar]
  BY <1>2 DEF ErrOf, ValOf, EvalErr, Value, Literal
<1>3. QED
  BY <1>1, <1>2 DEF Expr
-----------------------------------------------------------------------------
(* Inv holds initially and after the steps that have the same shape *)

LEMMA InitInv == Init => Inv
<1> SUFFICES ASSUME Init PROVE Inv
  OBVIOUS
<1>1. TypeOK
  <2>1. Library \in [MacroName -> Macro \cup {None}] /\ MaxRuns \in Nat
    BY ConstantsAssumption
  <2>2. tree \in [List -> Seq(Node)]
    BY ConstantsAssumption DEF Init
  <2>3. ctx \in Contexts(Value)
    BY DEF Init, Contexts
  <2>4. macros \in Seq([MacroName -> Macro \cup {None}]) /\ macros # <<>>
    BY <2>1 DEF Init
  <2>5. QED
    BY <2>1, <2>2, <2>3, <2>4 DEF Init, TypeOK, Err
<1>2. StackOK
  BY DEF Init, StackOK
<1>3. SlotsOK
  BY DEF Init, SlotsOK, Ordered, InBounds
<1>4. QED
  BY <1>1, <1>2, <1>3 DEF Inv

(* What the step that pushes, pops or leaves the slots alone must give.    *)
SlotsOKAfter == /\ held' \in Seq(Slot) /\ ctx' \in Contexts(Value)
                /\ Ordered(held') /\ InBounds(held', ctx')

RetType == [stop : BOOLEAN, err : Err]

OthersTyped == /\ UNCHANGED tree
               /\ coll' \in Seq(Scalar) /\ out' \in Nat
               /\ issued' \subseteq {"undefined"} /\ runs' \in 0..MaxRuns

(* The top frame starts to return.                                         *)
LEMMA FailStep ==
  ASSUME Inv, phase = "run", Top.loop = "no",
         phase' = "unwind", ret' \in RetType,
         stack' = stack, macros' = macros, Len(held') = Len(held),
         SlotsOKAfter, OthersTyped
  PROVE  Inv'
<1>1. TypeOK'
  BY DEF Inv, TypeOK, SlotsOKAfter, OthersTyped, RetType
<1>2. StackOK'
  BY DEF Inv, StackOK, OthersTyped, Adjacent, NodeAt, LoopSlots, CallsOn, WithinDepth, Top, AtNode
<1>3. SlotsOK'
  BY DEF SlotsOKAfter, SlotsOK, Ordered, InBounds
<1>4. QED
  BY <1>1, <1>2, <1>3 DEF Inv

(* The top frame goes on, at another node or in another state of its loop, *)
(* or gives its loop up and returns.                                       *)
LEMMA GoOnStep ==
  ASSUME Inv, phase = "run", phase' \in {"run", "unwind"}, ret' \in RetType,
         NEW f \in Frame, stack' = ReplaceTop(stack, f),
         f.t = Top.t, f.mark = Top.mark, f.depth = Top.depth,
         f.mark + LoopSlots(f) <= Len(held'),
         f.loop # "no" => /\ phase' = "run" /\ f.pc <= Len(tree[f.list])
                          /\ NodeAt(f).type = "foreach",
         macros' \in Seq([MacroName -> Macro \cup {None}]), Len(macros') = Len(macros),
         SlotsOKAfter, OthersTyped
  PROVE  Inv'
<1>1. /\ stack \in Seq(Frame) /\ stack # <<>> /\ Len(stack) \in Nat \ {0}
      /\ macros \in Seq([MacroName -> Macro \cup {None}]) /\ macros # <<>>
      /\ Top = stack[Len(stack)]
  BY TopType DEF Inv, TypeOK
<1>2. /\ stack' \in Seq(Frame) /\ stack' # <<>> /\ Len(stack') = Len(stack)
      /\ Top' = f /\ stack'[Len(stack)] = f
      /\ \A i \in 1..(Len(stack) - 1) : stack'[i] = stack[i]
  <2>1. /\ ReplaceTop(stack, f) \in Seq(Frame) /\ ReplaceTop(stack, f) # <<>>
        /\ Len(ReplaceTop(stack, f)) = Len(stack)
        /\ Last(ReplaceTop(stack, f)) = f
        /\ \A i \in 1..(Len(stack) - 1) : ReplaceTop(stack, f)[i] = stack[i]
    BY <1>1, ReplaceTopProperties
  <2>2. QED
    BY <2>1 DEF Top, Last
<1>3. TypeOK'
  BY <1>1, <1>2 DEF Inv, TypeOK, SlotsOKAfter, OthersTyped, RetType
<1>4. StackOK'
  <2>1. ASSUME NEW k \in 1..(Len(stack') - 1) PROVE Adjacent(stack[k], stack[k + 1])'
    <3>1. Adjacent(stack[k], stack[k + 1])
      BY <1>2 DEF Inv, StackOK
    <3>2. /\ stack'[k] = stack[k]
          /\ stack'[k + 1].t = stack[k + 1].t /\ stack'[k + 1].mark = stack[k + 1].mark
          /\ stack'[k + 1].depth = stack[k + 1].depth
      <4>1. k \in Nat /\ k <= Len(stack) - 1 /\ k >= 1
        BY <1>1, <1>2
      <4>2. CASE k + 1 <= Len(stack) - 1
        BY <1>2, <4>1, <4>2
      <4>3. CASE k + 1 = Len(stack)
        BY <1>1, <1>2, <4>1, <4>3
      <4>4. QED
        BY <1>1, <4>1, <4>2, <4>3
    <3>3. QED
      BY <3>1, <3>2 DEF Adjacent, NodeAt, LoopSlots, CallsOn, WithinDepth, OthersTyped
  <2>2. stack'[1].t = 1
    BY <1>1, <1>2 DEF Inv, StackOK
  <2>3. f.loop # "no" => AtNode("foreach")'
    BY <1>2 DEF AtNode, Current, NodeAt, OthersTyped
  <2>4. f.t = Len(macros')
    BY DEF Inv, StackOK
  <2>5. phase' = "run" => WithinDepth(f)
    BY DEF Inv, StackOK, WithinDepth
  <2>6. QED
    BY <1>2, <2>1, <2>2, <2>3, <2>4, <2>5 DEF StackOK, LoopSlots, WithinDepth
<1>5. SlotsOK'
  BY DEF SlotsOKAfter, SlotsOK, Ordered, InBounds
<1>6. QED
  BY <1>3, <1>4, <1>5 DEF Inv

(* The top frame, become g, has called _execute for a frame f.             *)
LEMMA EnterStep ==
  ASSUME Inv, phase = "run", phase' \in {"run", "unwind"}, ret' \in RetType,
         NEW below \in Seq(Frame), NEW g \in Frame, NEW f \in Frame,
         stack' = Append(below, f), phase' = "run" => WithinDepth(f),
         Len(below) = Len(stack), below[Len(stack)] = g,
         \A i \in 1..(Len(stack) - 1) : below[i] = stack[i],
         g.t = Top.t, g.mark = Top.mark, g.depth = Top.depth,
         g.pc <= Len(tree[g.list]),
         NodeAt(g).type \in {"if", "call", "foreach", "parse"},
         g.loop # "no" <=> NodeAt(g).type = "foreach",
         g.mark + LoopSlots(g) <= Len(held),
         f.t = g.t + (IF NodeAt(g).type = "parse" THEN 1 ELSE 0),
         f.mark = Len(held), f.loop = "no", f.depth = g.depth + CallsOn(g),
         macros' \in Seq([MacroName -> Macro \cup {None}]), Len(macros') = f.t,
         Len(held') = Len(held), SlotsOKAfter, OthersTyped
  PROVE  Inv'
<1>1. /\ stack \in Seq(Frame) /\ stack # <<>> /\ Len(stack) \in Nat \ {0}
      /\ Top = stack[Len(stack)]
  BY TopType DEF Inv, TypeOK
<1>2. /\ stack' \in Seq(Frame) /\ stack' # <<>> /\ Len(stack') = Len(stack) + 1
      /\ Top' = f /\ stack'[Len(stack) + 1] = f /\ stack'[Len(stack)] = g
      /\ \A i \in 1..(Len(stack) - 1) : stack'[i] = stack[i]
  BY <1>1 DEF Top, Last
<1>3. TypeOK'
  <2>1. f.t \in Nat \ {0}
    BY DEF Frame
  <2>2. macros' # <<>>
    BY <2>1
  <2>3. QED
    BY <1>1, <1>2, <2>2 DEF Inv, TypeOK, SlotsOKAfter, OthersTyped, RetType
<1>4. StackOK'
  <2>1. ASSUME NEW k \in 1..(Len(stack') - 1) PROVE Adjacent(stack[k], stack[k + 1])'
    <3>1. k \in Nat /\ k >= 1 /\ k <= Len(stack)
      BY <1>1, <1>2
    <3>2. CASE k = Len(stack)
      <4>1. stack'[k] = g /\ stack'[k + 1] = f
        BY <1>2, <3>2
      <4>2. WithinDepth(g)
        BY DEF Inv, StackOK, WithinDepth
      <4>3. QED
        BY <4>1, <4>2 DEF Adjacent, NodeAt, LoopSlots, CallsOn, WithinDepth, OthersTyped
    <3>3. CASE k < Len(stack)
      <4>1. Adjacent(stack[k], stack[k + 1])
        BY <1>1, <3>1, <3>3 DEF Inv, StackOK
      <4>2. stack'[k] = stack[k]
        BY <1>1, <1>2, <3>1, <3>3
      <4>3. /\ stack'[k + 1].t = stack[k + 1].t /\ stack'[k + 1].mark = stack[k + 1].mark
            /\ stack'[k + 1].depth = stack[k + 1].depth
        <5>1. CASE k + 1 = Len(stack)
          BY <1>1, <1>2, <5>1
        <5>2. CASE k + 1 < Len(stack)
          <6>1. k + 1 \in 1..(Len(stack) - 1)
            BY <1>1, <3>1, <5>2
          <6>2. QED
            BY <1>2, <6>1
        <5>3. QED
          BY <1>1, <3>1, <3>3, <5>1, <5>2
      <4>4. QED
        BY <4>1, <4>2, <4>3 DEF Adjacent, NodeAt, LoopSlots, CallsOn, WithinDepth, OthersTyped
    <3>4. QED
      BY <1>1, <3>1, <3>2, <3>3
  <2>2. stack'[1].t = 1
    <3>1. CASE Len(stack) = 1
      BY <1>1, <1>2, <3>1 DEF Inv, StackOK
    <3>2. CASE Len(stack) > 1
      <4>1. 1 \in 1..(Len(stack) - 1)
        BY <1>1, <3>2
      <4>2. stack'[1] = stack[1] /\ stack[1].t = 1
        BY <1>2, <4>1 DEF Inv, StackOK
      <4>3. QED
        BY <4>2
    <3>3. QED
      BY <1>1, <3>1, <3>2
  <2>3. f.mark + LoopSlots(f) <= Len(held')
    BY DEF LoopSlots, Frame
  <2>4. /\ Top'.t = Len(macros') /\ Top'.mark + LoopSlots(Top') <= Len(held')
        /\ Top'.loop = "no"
    BY <1>2, <2>3
  <2>5. phase' = "run" => WithinDepth(Top)'
    BY <1>2 DEF WithinDepth
  <2>6. phase' # "done"
    OBVIOUS
  <2>7. QED
    BY <2>1, <2>2, <2>4, <2>5, <2>6 DEF StackOK, LoopSlots
<1>5. SlotsOK'
  BY DEF SlotsOKAfter, SlotsOK, Ordered, InBounds
<1>6. QED
  BY <1>3, <1>4, <1>5 DEF Inv

(* The top frame is gone; its caller, become f, goes on or returns too.    *)
LEMMA LeaveStep ==
  ASSUME Inv, phase = "unwind", phase' \in {"run", "unwind"}, ret' \in RetType,
         Len(stack) > 1, NEW f \in Frame,
         stack' \in Seq(Frame), Len(stack') = Len(stack) - 1,
         stack'[Len(stack) - 1] = f,
         \A i \in 1..(Len(stack) - 2) : stack'[i] = stack[i],
         f.t = Caller.t, f.mark = Caller.mark, f.depth = Caller.depth,
         f.mark + LoopSlots(f) <= Len(held'),
         f.loop # "no" => /\ phase' = "run" /\ f.pc <= Len(tree[f.list])
                          /\ NodeAt(f).type = "foreach",
         macros' \in Seq([MacroName -> Macro \cup {None}]), Len(macros') = f.t,
         SlotsOKAfter, OthersTyped
  PROVE  Inv'
<1>1. stack \in Seq(Frame) /\ Len(stack) \in Nat /\ Len(stack) >= 2
  BY DEF Inv, TypeOK
<1>2. Top' = f /\ stack' # <<>> /\ Caller = stack[Len(stack) - 1]
  BY <1>1 DEF Top, Last, Caller
<1>3. TypeOK'
  <2>1. f.t \in Nat \ {0}
    BY DEF Frame
  <2>2. macros' # <<>>
    BY <2>1
  <2>3. QED
    BY <1>1, <1>2, <2>2 DEF Inv, TypeOK, SlotsOKAfter, OthersTyped, RetType
<1>4. StackOK'
  <2>1. ASSUME NEW k \in 1..(Len(stack') - 1) PROVE Adjacent(stack[k], stack[k + 1])'
    <3>1. k \in Nat /\ k >= 1 /\ k <= Len(stack) - 2
      BY <1>1
    <3>2. Adjacent(stack[k], stack[k + 1])
      <4>1. k \in 1..(Len(stack) - 1)
        BY <1>1, <3>1
      <4>2. QED
        BY <4>1 DEF Inv, StackOK
    <3>3. stack'[k] = stack[k]
      BY <1>1, <3>1
    <3>4. /\ stack'[k + 1].t = stack[k + 1].t /\ stack'[k + 1].mark = stack[k + 1].mark
          /\ stack'[k + 1].depth = stack[k + 1].depth
      <4>1. CASE k + 1 = Len(stack) - 1
        BY <1>1, <1>2, <4>1
      <4>2. CASE k + 1 < Len(stack) - 1
        <5>1. k + 1 \in 1..(Len(stack) - 2)
          BY <1>1, <3>1, <4>2
        <5>2. QED
          BY <5>1
      <4>3. QED
        BY <1>1, <3>1, <4>1, <4>2
    <3>5. QED
      BY <3>2, <3>3, <3>4 DEF Adjacent, NodeAt, LoopSlots, CallsOn, WithinDepth, OthersTyped
  <2>2. stack'[1].t = 1
    <3>1. CASE Len(stack) = 2
      BY <1>1, <1>2, <3>1 DEF Inv, StackOK
    <3>2. CASE Len(stack) > 2
      BY <1>1, <3>2 DEF Inv, StackOK
    <3>3. QED
      BY <1>1, <3>1, <3>2
  <2>3. f.loop # "no" => AtNode("foreach")'
    BY <1>2 DEF AtNode, Current, NodeAt, OthersTyped
  <2>4. phase' = "run" => WithinDepth(f)
    <3>1. /\ Len(stack) - 1 \in 1..(Len(stack) - 1)
          /\ (Len(stack) - 1) + 1 = Len(stack)
      BY <1>1
    <3>2. Adjacent(Caller, stack[Len(stack)])
      BY <1>2, <3>1 DEF Inv, StackOK
    <3>3. QED
      BY <3>2 DEF Adjacent, WithinDepth
  <2>5. QED
    BY <1>2, <2>1, <2>2, <2>3, <2>4 DEF StackOK, LoopSlots, WithinDepth
<1>5. SlotsOK'
  BY DEF SlotsOKAfter, SlotsOK, Ordered, InBounds
<1>6. QED
  BY <1>3, <1>4, <1>5 DEF Inv
-----------------------------------------------------------------------------
(* The control operators of the actions *)

LEMMA SameSlots ==
  ASSUME Inv, UNCHANGED <<held, ctx>>
  PROVE  SlotsOKAfter /\ Len(held') = Len(held)
  BY DEF Inv, TypeOK, SlotsOK, SlotsOKAfter, Ordered, InBounds

LEMMA Running ==
  ASSUME Inv, phase = "run"
  PROVE  /\ stack # <<>> /\ Len(stack) \in Nat \ {0}
         /\ Top \in Frame /\ Top = stack[Len(stack)]
         /\ Top.t = Len(macros) /\ Top.t \in Nat \ {0}
         /\ Top.mark \in Nat /\ Len(held) \in Nat
         /\ Top.mark + LoopSlots(Top) <= Len(held)
         /\ Top.mark <= Len(held)
         /\ Top.loop # "no" => AtNode("foreach")
         /\ Advanced(Top) \in Frame /\ Advanced(Top).loop = "no"
         /\ Advanced(Top).t = Top.t /\ Advanced(Top).mark = Top.mark
         /\ Advanced(Top).depth = Top.depth
<1>1. /\ stack # <<>> /\ Len(stack) \in Nat \ {0}
      /\ Top \in Frame /\ Top = stack[Len(stack)]
  BY TopType DEF Inv, TypeOK
<1>2. /\ Top.t = Len(macros) /\ Top.mark + LoopSlots(Top) <= Len(held)
      /\ Top.loop # "no" => AtNode("foreach")
  BY DEF Inv, StackOK
<1>3. Top.t \in Nat \ {0} /\ Top.mark \in Nat
  BY <1>1 DEF Frame
<1>4. Len(held) \in Nat
  BY DEF Inv, TypeOK
<1>5. Nil \in Value
  BY DEF Value, Literal
<1>6. /\ Advanced(Top) \in Frame /\ Advanced(Top).loop = "no"
      /\ Advanced(Top).t = Top.t /\ Advanced(Top).mark = Top.mark
      /\ Advanced(Top).depth = Top.depth
  <2>1. Top.pc + 1 \in Nat \ {0}
    BY <1>1 DEF Frame
  <2>2. Advanced(Top) = [t |-> Top.t, list |-> Top.list, pc |-> Top.pc + 1,
                         depth |-> Top.depth, mark |-> Top.mark, args |-> 0,
                         loop |-> "no", i |-> 0, v |-> Nil, entry |-> Top.entry]
    BY <1>1 DEF Advanced, NewFrame
  <2>3. QED
    BY <1>1, <1>5, <2>1, <2>2 DEF Frame
<1>7. QED
  BY <1>1, <1>2, <1>3, <1>4, <1>6 DEF LoopSlots

LEMMA NotLooping ==
  ASSUME Inv, NEW type, AtNode(type), type # "foreach"
  PROVE  phase = "run" /\ Top.loop = "no"
  BY Running DEF AtNode

LEMMA FailKeepsInv ==
  ASSUME Inv, phase = "run", Top.loop = "no",
         NEW stop \in BOOLEAN, NEW err \in Err, Fail(stop, err),
         UNCHANGED <<tree, macros, coll, runs>>, out' \in Nat,
         Len(held') = Len(held), SlotsOKAfter
  PROVE  Inv'
<1>1. /\ phase' = "unwind" /\ ret' \in RetType /\ stack' = stack
      /\ issued' \subseteq {"undefined"}
  BY DEF Fail, Return, RetType, Inv, TypeOK
<1>2. OthersTyped
  BY <1>1 DEF OthersTyped, Inv, TypeOK
<1>3. QED
  BY <1>1, <1>2, FailStep

LEMMA ContinueKeepsInv ==
  ASSUME Inv, phase = "run", Continue,
         UNCHANGED <<tree, runs>>, coll' \in Seq(Scalar), out' \in Nat,
         macros' \in Seq([MacroName -> Macro \cup {None}]), Len(macros') = Len(macros),
         Top.mark <= Len(held'), SlotsOKAfter
  PROVE  Inv'
<1> DEFINE f == Advanced(Top)
<1>1. /\ f \in Frame /\ f.loop = "no" /\ f.t = Top.t /\ f.mark = Top.mark
      /\ f.mark \in Nat /\ f.depth = Top.depth
  BY Running
<1>2. /\ stack' = ReplaceTop(stack, f) /\ phase' = "run" /\ ret' \in RetType
      /\ OthersTyped
  BY DEF Continue, OthersTyped, RetType, Inv, TypeOK
<1> HIDE DEF f
<1>3. f.mark + LoopSlots(f) <= Len(held')
  BY <1>1 DEF LoopSlots
<1>4. QED
  BY <1>1, <1>2, <1>3, GoOnStep

LEMMA EnterFromKeepsInv ==
  ASSUME Inv, phase = "run",
         NEW below \in Seq(Frame), NEW g \in Frame, NEW f \in Frame,
         EnterFrom(below, f),
         Len(below) = Len(stack), below[Len(stack)] = g,
         \A i \in 1..(Len(stack) - 1) : below[i] = stack[i],
         g.t = Top.t, g.mark = Top.mark, g.depth = Top.depth,
         g.pc <= Len(tree[g.list]),
         NodeAt(g).type \in {"if", "call", "foreach", "parse"},
         g.loop # "no" <=> NodeAt(g).type = "foreach",
         g.mark + LoopSlots(g) <= Len(held),
         f.t = g.t + (IF NodeAt(g).type = "parse" THEN 1 ELSE 0),
         f.mark = Len(held), f.loop = "no", f.depth = g.depth + CallsOn(g),
         macros' \in Seq([MacroName -> Macro \cup {None}]), Len(macros') = f.t,
         Len(held') = Len(held), SlotsOKAfter, UNCHANGED <<tree, coll, out, runs>>
  PROVE  Inv'
<1>1. /\ phase' \in {"run", "unwind"} /\ ret' \in RetType
      /\ stack' = Append(below, f) /\ (phase' = "run" => WithinDepth(f))
      /\ issued' \subseteq {"undefined"}
  <2>1. CASE Exceeds(f.depth, CallLimit(f.t))
    <3>1. /\ phase' = "unwind" /\ ret' = [stop |-> TRUE, err |-> "depth"]
          /\ issued' = issued /\ stack' = Append(below, f)
      BY <2>1 DEF EnterFrom, Return
    <3>2. QED
      BY <3>1 DEF RetType, Err, Inv, TypeOK
  <2>2. CASE ~ Exceeds(f.depth, CallLimit(f.t))
    BY <2>2 DEF EnterFrom, RetType, Inv, TypeOK, WithinDepth
  <2>3. QED
    BY <2>1, <2>2
<1>2. OthersTyped
  BY <1>1 DEF OthersTyped, Inv, TypeOK
<1>3. QED
  BY <1>1, <1>2, EnterStep

LEMMA EnterKeepsInv ==
  ASSUME Inv, NEW type \in {"if", "call", "parse"}, AtNode(type),
         NEW t, NEW list \in List, NEW depth \in Nat, Enter(t, list, depth),
         t = Top.t + (IF type = "parse" THEN 1 ELSE 0),
         depth = Top.depth + (IF type \in {"call", "parse"} THEN 1 ELSE 0),
         macros' \in Seq([MacroName -> Macro \cup {None}]), Len(macros') = t,
         UNCHANGED <<tree, held, ctx, coll, out, runs>>
  PROVE  Inv'
<1> DEFINE f == NewFrame(t, list, depth, Len(held), ctx)
<1>1. /\ phase = "run" /\ Top.loop = "no" /\ Top \in Frame /\ Top.t \in Nat \ {0}
      /\ Top.mark + LoopSlots(Top) <= Len(held) /\ Len(held) \in Nat
      /\ stack \in Seq(Frame) /\ stack[Len(stack)] = Top
  BY NotLooping, Running DEF Inv, TypeOK
<1>2. Top.pc <= Len(tree[Top.list]) /\ NodeAt(Top).type = type
  BY DEF AtNode, Current
<1>3. /\ f \in Frame /\ f.t = t /\ f.mark = Len(held) /\ f.loop = "no"
      /\ f.depth = depth
  <2>1. ctx \in Contexts(Value) /\ Nil \in Value /\ t \in Nat \ {0}
    BY <1>1 DEF Inv, TypeOK, Value, Literal
  <2>2. QED
    BY <1>1, <2>1 DEF NewFrame, Frame
<1>4. EnterFrom(stack, f)
  BY DEF Enter
<1>5. SlotsOKAfter /\ Len(held') = Len(held)
  BY SameSlots
<1> HIDE DEF f
<1>6. f.depth = Top.depth + CallsOn(Top)
  BY <1>2, <1>3 DEF CallsOn
<1>7. QED
  BY <1>1, <1>2, <1>3, <1>4, <1>5, <1>6, EnterFromKeepsInv
-----------------------------------------------------------------------------
(* One lemma for each action: Inv is preserved *)

LEMMA InvTypes ==
  ASSUME Inv
  PROVE  /\ coll \in Seq(Scalar) /\ out \in Nat /\ out + 1 \in Nat
         /\ macros \in Seq([MacroName -> Macro \cup {None}])
         /\ {"ok", "undefined", "nil", "other", "iterations"} \subseteq Err
         /\ EvalErr \cup {"ok"} \subseteq Err
  BY DEF Inv, TypeOK, Err, EvalErr

LEMMA TextInv == ASSUME Inv, Text PROVE Inv'
<1>1. phase = "run" /\ Top.mark <= Len(held)
  BY Running DEF Text, AtNode
<1>2. SlotsOKAfter /\ Len(held') = Len(held)
  BY SameSlots DEF Text
<1>3. QED
  BY <1>1, <1>2, ContinueKeepsInv, InvTypes DEF Text, Write

LEMMA SetPropertyInv == ASSUME Inv, SetProperty PROVE Inv'
<1>1. phase = "run" /\ Top.loop = "no" /\ Top.mark <= Len(held)
  BY Running, NotLooping DEF SetProperty
<1>2. SlotsOKAfter /\ Len(held') = Len(held)
  BY SameSlots DEF SetProperty
<1>3. Current.expr \in Expr /\ Current.target \in Simple
  BY AtNodeType, NodeFields DEF SetProperty, Inv
<1>4. ErrOf(Current.expr) \in Err /\ SimpleErr(Current.target) \in Err
  BY <1>3, EvalType, SimpleType, InvTypes DEF Inv
<1>5. \/ Fail(FALSE, ErrOf(Current.expr)) \/ Fail(FALSE, SimpleErr(Current.target))
      \/ Continue
  BY DEF SetProperty
<1>6. UNCHANGED <<tree, macros, coll, out, runs>>
  BY DEF SetProperty
<1>7. QED
  BY <1>1, <1>2, <1>4, <1>5, <1>6, ContinueKeepsInv, FailKeepsInv, InvTypes

LEMMA VarInv == ASSUME Inv, Var PROVE Inv'
<1>1. phase = "run" /\ Top.loop = "no" /\ Top.mark <= Len(held)
  BY Running, NotLooping DEF Var
<1>2. SlotsOKAfter /\ Len(held') = Len(held)
  BY SameSlots DEF Var
<1>3. Current.expr \in Simple
  BY AtNodeType, NodeFields DEF Var, Inv
<1>4. SimpleErr(Current.expr) \in Err
  BY <1>3, SimpleType, InvTypes DEF Inv
<1>5. \/ Fail(FALSE, SimpleErr(Current.expr)) /\ UNCHANGED out
      \/ Fail(TRUE, "other") /\ UNCHANGED out
      \/ Continue /\ Write
      \/ Continue /\ UNCHANGED out
  BY DEF Var
<1>6. out' \in Nat /\ UNCHANGED <<tree, macros, coll, runs>>
  BY <1>5, InvTypes DEF Var, Write
<1>7. QED
  BY <1>1, <1>2, <1>4, <1>5, <1>6, ContinueKeepsInv, FailKeepsInv, InvTypes

LEMMA AddInv == ASSUME Inv, Add PROVE Inv'
<1>1. phase = "run" /\ Top.mark <= Len(held)
  BY Running DEF Add, AtNode
<1>2. SlotsOKAfter /\ Len(held') = Len(held)
  BY SameSlots DEF Add
<1>3. Current.val \in Scalar
  BY AtNodeType, NodeFields DEF Add, Inv
<1>4. coll' \in Seq(Scalar)
  BY <1>3, InvTypes DEF Add
<1>5. QED
  BY <1>1, <1>2, <1>4, ContinueKeepsInv, InvTypes DEF Add, Write

LEMMA ClearInv == ASSUME Inv, Clear PROVE Inv'
<1>1. phase = "run" /\ Top.mark <= Len(held)
  BY Running DEF Clear, AtNode
<1>2. SlotsOKAfter /\ Len(held') = Len(held)
  BY SameSlots DEF Clear
<1>3. coll' \in Seq(Scalar)
  BY DEF Clear
<1>4. QED
  BY <1>1, <1>2, <1>3, ContinueKeepsInv, InvTypes DEF Clear

LEMMA DefineInv == ASSUME Inv, Define PROVE Inv'
<1>1. phase = "run" /\ Top.mark <= Len(held)
  BY Running DEF Define, AtNode
<1>2. SlotsOKAfter /\ Len(held') = Len(held)
  BY SameSlots DEF Define
<1>3. Current.name \in MacroName /\ Current.def \in Macro
  BY AtNodeType, NodeFields DEF Define, Inv
<1>4. macros' \in Seq([MacroName -> Macro \cup {None}]) /\ Len(macros') = Len(macros)
  <2> DEFINE own == [macros[Top.t] EXCEPT ![Current.name] = Current.def]
  <2>1. Top.t \in 1..Len(macros)
    BY <1>1, Running
  <2>2. own \in [MacroName -> Macro \cup {None}]
    BY <1>3, <2>1, InvTypes
  <2>3. /\ [macros EXCEPT ![Top.t] = own] \in Seq([MacroName -> Macro \cup {None}])
        /\ Len([macros EXCEPT ![Top.t] = own]) = Len(macros)
    BY <2>1, <2>2, InvTypes, ExceptSeq
  <2>4. [macros EXCEPT ![Top.t][Current.name] = Current.def] = [macros EXCEPT ![Top.t] = own]
    OBVIOUS
  <2>5. QED
    BY <2>3, <2>4, InvTypes DEF Define
<1>5. QED
  BY <1>1, <1>2, <1>4, ContinueKeepsInv, InvTypes DEF Define

LEMMA IncludeInv == ASSUME Inv, Include PROVE Inv'
<1>1. phase = "run" /\ Top.loop = "no" /\ Top.mark <= Len(held)
  BY Running, NotLooping DEF Include
<1>2. SlotsOKAfter /\ Len(held') = Len(held)
  BY SameSlots DEF Include
<1>3. Current.name \in Expr
  BY AtNodeType, NodeFields DEF Include, Inv
<1>4. ErrOf(Current.name) \in Err
  BY <1>3, EvalType, InvTypes DEF Inv
<1>5. \/ Fail(TRUE, ErrOf(Current.name)) /\ UNCHANGED out
      \/ Fail(FALSE, "other") /\ UNCHANGED out
      \/ Fail(TRUE, "other") /\ UNCHANGED out
      \/ Continue /\ Write
  BY DEF Include
<1>6. out' \in Nat /\ UNCHANGED <<tree, macros, coll, runs>>
  BY <1>5, InvTypes DEF Include, Write
<1>7. QED
  BY <1>1, <1>2, <1>4, <1>5, <1>6, ContinueKeepsInv, FailKeepsInv, InvTypes

LEMMA EvalInv == ASSUME Inv, Eval PROVE Inv'
<1>1. phase = "run" /\ Top.loop = "no"
  BY NotLooping DEF Eval
<1>2. SlotsOKAfter /\ Len(held') = Len(held)
  BY SameSlots DEF Eval
<1>3. QED
  BY <1>1, <1>2, FailKeepsInv, InvTypes DEF Eval

LEMMA BreakInv == ASSUME Inv, Break PROVE Inv'
<1>1. phase = "run" /\ Top.loop = "no"
  BY NotLooping DEF Break
<1>2. SlotsOKAfter /\ Len(held') = Len(held)
  BY SameSlots DEF Break
<1>3. QED
  BY <1>1, <1>2, FailKeepsInv, InvTypes DEF Break

LEMMA StopInv == ASSUME Inv, Stop PROVE Inv'
<1>1. phase = "run" /\ Top.loop = "no"
  BY NotLooping DEF Stop
<1>2. SlotsOKAfter /\ Len(held') = Len(held)
  BY SameSlots DEF Stop
<1>3. QED
  BY <1>1, <1>2, FailKeepsInv, InvTypes DEF Stop

LEMMA EndOfListInv == ASSUME Inv, EndOfList PROVE Inv'
<1>1. phase = "run" /\ Top.loop = "no"
  <2>1. phase = "run" /\ Top.pc \in Nat /\ ~ AtNode("foreach")
    <3>1. Top.list \in List /\ Top.pc \in Nat
      BY Running DEF EndOfList, Frame
    <3>2. Len(tree[Top.list]) \in Nat
      BY <3>1 DEF Inv, TypeOK
    <3>3. QED
      BY <3>1, <3>2 DEF EndOfList, AtNode
  <2>2. QED
    BY <2>1, Running
<1>2. SlotsOKAfter /\ Len(held') = Len(held)
  BY SameSlots DEF EndOfList
<1>3. QED
  BY <1>1, <1>2, FailKeepsInv, InvTypes DEF EndOfList

LEMMA CallUnknownInv == ASSUME Inv, CallUnknown PROVE Inv'
<1>1. phase = "run" /\ Top.loop = "no"
  BY NotLooping DEF CallUnknown
<1>2. SlotsOKAfter /\ Len(held') = Len(held)
  BY SameSlots DEF CallUnknown
<1>3. QED
  BY <1>1, <1>2, FailKeepsInv, InvTypes DEF CallUnknown

LEMMA SetVarInv == ASSUME Inv, SetVar PROVE Inv'
<1>1. phase = "run" /\ Top.loop = "no" /\ Top.mark <= Len(held)
      /\ Top.mark \in Nat /\ Len(held) \in Nat
  BY Running, NotLooping DEF SetVar
<1>2. Current.expr \in Expr /\ Current.var \in Name
  BY AtNodeType, NodeFields DEF SetVar, Inv
<1>3. ErrOf(Current.expr) \in Err /\ ValOf(Current.expr) \in Value
  BY <1>2, EvalType, InvTypes DEF Inv
<1>4. UNCHANGED <<tree, macros, coll, out, runs>>
  BY DEF SetVar
<1>5. CASE ErrOf(Current.expr) \in {"ok", "nil"}
  <2>1. /\ Continue
        /\ ctx' = Push(ctx, Current.var, ValOf(Current.expr))
        /\ held' = Append(held, SlotOf(ctx, Current.var))
    BY <1>5 DEF SetVar
  <2>2. /\ held \in Seq(Slot) /\ ctx \in Contexts(Value)
        /\ Ordered(held) /\ InBounds(held, ctx)
    BY DEF Inv, TypeOK, SlotsOK
  <2>3. SlotsOKAfter /\ Len(held') = Len(held) + 1
    BY <1>2, <1>3, <2>1, <2>2, PushSlot DEF SlotsOKAfter
  <2>4. Top.mark <= Len(held')
    BY <1>1, <2>3
  <2>5. QED
    BY <1>1, <1>4, <2>1, <2>3, <2>4, ContinueKeepsInv, InvTypes
<1>6. CASE ErrOf(Current.expr) \notin {"ok", "nil"}
  <2>1. Fail(FALSE, ErrOf(Current.expr)) /\ UNCHANGED <<held, ctx>>
    BY <1>6 DEF SetVar
  <2>2. QED
    BY <1>1, <1>3, <1>4, <2>1, SameSlots, FailKeepsInv, InvTypes
<1>7. QED
  BY <1>5, <1>6

LEMMA IfInv == ASSUME Inv, If PROVE Inv'
<1>1. phase = "run" /\ Top.loop = "no" /\ Top.mark <= Len(held) /\ Top.t = Len(macros)
  BY Running, NotLooping DEF If
<1>2. SlotsOKAfter /\ Len(held') = Len(held)
  BY SameSlots DEF If
<1>3. /\ Current.cond \in Expr \cup {None} /\ Current.items \in List
      /\ Current.else \in List \cup {None}
  BY AtNodeType, NodeFields DEF If, Inv
<1>4. Top.depth \in Nat
  BY Running DEF If, AtNode, Frame
<1>5. UNCHANGED <<tree, held, ctx, macros, coll, out, runs>>
  BY DEF If
<1> DEFINE err == IF Current.cond = None THEN "ok" ELSE ErrOf(Current.cond)
<1>6. err \in Err
  BY <1>3, EvalType, InvTypes DEF Inv
<1>7. \/ Fail(TRUE, err)
      \/ Enter(Top.t, Current.items, Top.depth)
      \/ Current.else # None /\ Enter(Top.t, Current.else, Top.depth)
      \/ Continue
  BY DEF If
<1> HIDE DEF err
<1>8. ASSUME NEW list \in List, Enter(Top.t, list, Top.depth) PROVE Inv'
  <2>1. AtNode("if") /\ Top.t \in Nat
    BY <1>1, Running DEF If
  <2>2. /\ Top.t = Top.t + (IF "if" = "parse" THEN 1 ELSE 0)
        /\ Top.depth = Top.depth + (IF "if" \in {"call", "parse"} THEN 1 ELSE 0)
    BY <1>4, <2>1
  <2>3. QED
    BY <1>1, <1>4, <1>5, <1>8, <2>1, <2>2, EnterKeepsInv, InvTypes
<1>9. QED
  BY <1>1, <1>2, <1>3, <1>5, <1>6, <1>7, <1>8, FailKeepsInv, ContinueKeepsInv, InvTypes

(* Binding an argument or calling: the macro has its type.                 *)
LEMMA CalledType ==
  ASSUME Inv, MayBind
  PROVE  /\ AtNode("call") /\ phase = "run" /\ Top.loop = "no"
         /\ Called \in Macro /\ Called.params \in Seq(Name) /\ Called.items \in List
         /\ Current.vals \in Seq(Expr)
         /\ Len(Called.params) <= Len(Current.vals)
<1>1. AtNode("call") /\ phase = "run" /\ Top.loop = "no" /\ Top.t \in 1..Len(macros)
  BY NotLooping, Running DEF MayBind
<1>2. Current.name \in MacroName /\ Current.vals \in Seq(Expr)
  BY <1>1, AtNodeType, NodeFields DEF Inv
<1>3. macros[Top.t] \in [MacroName -> Macro \cup {None}]
  BY <1>1, InvTypes
<1>4. Called \in Macro
  BY <1>2, <1>3 DEF Called, MayBind
<1>5. QED
  BY <1>1, <1>2, <1>4 DEF MayBind, Macro

LEMMA BindArgInv == ASSUME Inv, BindArg PROVE Inv'
<1> DEFINE n == Called.params[Top.args + 1]
           e == Current.vals[Top.args + 1]
           f == [Top EXCEPT !.args = @ + 1]
<1>1. /\ phase = "run" /\ Top.loop = "no" /\ stack # <<>>
      /\ Top \in Frame /\ Top.mark <= Len(held) /\ Top.mark \in Nat /\ Len(held) \in Nat
  BY CalledType, Running DEF BindArg
<1>2. n \in Name /\ e \in Expr
  <2>1. Top.args + 1 \in 1..Len(Called.params) /\ Top.args + 1 \in 1..Len(Current.vals)
    BY <1>1, CalledType DEF BindArg, Frame
  <2>2. QED
    BY <2>1, CalledType DEF BindArg
<1>3. ErrOf(e) \in Err /\ ValOf(e) \in Value
  BY <1>2, EvalType, InvTypes DEF Inv
<1>4. UNCHANGED <<tree, macros, coll, out, runs>>
  BY DEF BindArg
<1>5. /\ f \in Frame /\ f.t = Top.t /\ f.mark = Top.mark /\ f.loop = "no"
      /\ f.depth = Top.depth
  BY <1>1 DEF Frame
<1>6. IF ErrOf(e) # "ok"
      THEN Fail(TRUE, ErrOf(e)) /\ UNCHANGED <<held, ctx>>
      ELSE /\ ctx' = Push(ctx, n, ValOf(e))
           /\ held' = Append(held, SlotOf(ctx, n))
           /\ stack' = ReplaceTop(stack, f)
           /\ UNCHANGED <<phase, ret, issued>>
  BY DEF BindArg
<1> HIDE DEF n, e, f
<1>7. CASE ErrOf(e) # "ok"
  BY <1>1, <1>3, <1>4, <1>6, <1>7, SameSlots, FailKeepsInv, InvTypes
<1>8. CASE ErrOf(e) = "ok"
  <2>1. /\ held \in Seq(Slot) /\ ctx \in Contexts(Value)
        /\ Ordered(held) /\ InBounds(held, ctx)
    BY DEF Inv, TypeOK, SlotsOK
  <2>2. SlotsOKAfter /\ Len(held') = Len(held) + 1
    BY <1>2, <1>3, <1>6, <1>8, <2>1, PushSlot DEF SlotsOKAfter
  <2>3. f.mark + LoopSlots(f) <= Len(held')
    BY <1>1, <1>5, <2>2 DEF LoopSlots
  <2>4. OthersTyped /\ ret' \in RetType /\ phase' = "run"
    BY <1>1, <1>4, <1>6, <1>8 DEF OthersTyped, RetType, Inv, TypeOK
  <2>5. QED
    BY <1>1, <1>4, <1>5, <1>6, <1>8, <2>2, <2>3, <2>4, GoOnStep, InvTypes
<1>9. QED
  BY <1>7, <1>8

LEMMA CallInv == ASSUME Inv, Call PROVE Inv'
<1>1. AtNode("call") /\ Called.items \in List
  BY CalledType DEF Call
<1>2. /\ Top.depth + 1 \in Nat /\ Top.t = Len(macros)
      /\ Top.t = Top.t + (IF "call" = "parse" THEN 1 ELSE 0)
      /\ Top.depth + 1 = Top.depth + (IF "call" \in {"call", "parse"} THEN 1 ELSE 0)
  BY <1>1, Running DEF AtNode, Frame
<1>3. QED
  BY <1>1, <1>2, EnterKeepsInv, InvTypes DEF Call

LEMMA ParseInv == ASSUME Inv, Parse PROVE Inv'
<1>1. phase = "run" /\ Top.loop = "no" /\ AtNode("parse")
  BY NotLooping DEF Parse
<1>2. Current.name \in Expr /\ Current.file \in List \cup {None}
  BY <1>1, AtNodeType, NodeFields DEF Inv
<1>3. ErrOf(Current.name) \in Err
  BY <1>2, EvalType, InvTypes DEF Inv
<1>4. UNCHANGED <<tree, held, ctx, coll, out, runs>>
  BY DEF Parse
<1>5. \/ (Fail(TRUE, ErrOf(Current.name)) \/ Fail(TRUE, "other")) /\ UNCHANGED macros
      \/ /\ Current.file # None
         /\ macros' = Append(macros, Library)
         /\ Enter(Top.t + 1, Current.file, Top.depth + 1)
  BY DEF Parse
<1>6. CASE (Fail(TRUE, ErrOf(Current.name)) \/ Fail(TRUE, "other")) /\ UNCHANGED macros
  BY <1>1, <1>3, <1>4, <1>6, SameSlots, FailKeepsInv, InvTypes
<1>7. CASE /\ Current.file # None
           /\ macros' = Append(macros, Library)
           /\ Enter(Top.t + 1, Current.file, Top.depth + 1)
  <2>1. Top.t = Len(macros) /\ Top.t \in Nat /\ Top.depth + 1 \in Nat
    BY <1>1, Running DEF Frame
  <2>2. /\ macros' \in Seq([MacroName -> Macro \cup {None}])
        /\ Len(macros') = Top.t + 1
    BY <1>7, <2>1, ConstantsAssumption, InvTypes
  <2>3. /\ Top.t + 1 = Top.t + (IF "parse" = "parse" THEN 1 ELSE 0)
        /\ Top.depth + 1 = Top.depth + (IF "parse" \in {"call", "parse"} THEN 1 ELSE 0)
    OBVIOUS
  <2>4. QED
    BY <1>1, <1>2, <1>4, <1>7, <2>1, <2>2, <2>3, EnterKeepsInv
<1>8. QED
  BY <1>5, <1>6, <1>7

LEMMA ForeachStartInv == ASSUME Inv, ForeachStart PROVE Inv'
<1> DEFINE n == Current.var
           err == ErrOf(Current.iter)
           outer == Push(ctx, Foreach, Len(stack))
           pushed == Push(outer, n, Nil)
           one == Append(held, SlotOf(ctx, Foreach))
           two == Append(one, SlotOf(outer, n))
           f == [Top EXCEPT !.loop = "next"]
<1>1. /\ AtNode("foreach") /\ phase = "run" /\ Top.loop = "no" /\ stack # <<>>
      /\ Top \in Frame /\ Top.mark <= Len(held) /\ Top.mark \in Nat /\ Len(held) \in Nat
      /\ Len(stack) \in Nat
  BY Running DEF ForeachStart, AtNode
<1>2. Current.iter \in Expr /\ n \in Name
  BY <1>1, AtNodeType, NodeFields DEF Inv
<1>3. err \in Err
  BY <1>2, EvalType, InvTypes DEF Inv
<1>4. UNCHANGED <<tree, macros, coll, out, runs>>
  BY DEF ForeachStart
<1>5. /\ held \in Seq(Slot) /\ ctx \in Contexts(Value)
      /\ Ordered(held) /\ InBounds(held, ctx)
  BY DEF Inv, TypeOK, SlotsOK
<1>6. /\ one \in Seq(Slot) /\ Len(one) = Len(held) + 1 /\ outer \in Contexts(Value)
      /\ Ordered(one) /\ InBounds(one, outer) /\ InBounds(held, outer)
  <2>1. Foreach \in Name /\ Len(stack) \in Value
    BY <1>1, ConstantsAssumption DEF Value, Loop
  <2>2. QED
    BY <1>5, <2>1, PushSlot
<1>7. /\ two \in Seq(Slot) /\ Len(two) = Len(held) + 2 /\ pushed \in Contexts(Value)
      /\ Ordered(two) /\ InBounds(two, pushed) /\ InBounds(held, pushed)
  <2>1. Nil \in Value
    BY DEF Value, Literal
  <2> HIDE DEF one, outer
  <2>2. /\ two \in Seq(Slot) /\ Len(two) = Len(one) + 1 /\ pushed \in Contexts(Value)
        /\ Ordered(two) /\ InBounds(two, pushed)
    BY <1>2, <1>6, <2>1, PushSlot
  <2>3. InBounds(held, pushed)
    BY <1>2, <1>5, <1>6, <2>1, PushSlot
  <2>4. QED
    BY <1>1, <1>6, <2>2, <2>3
<1>8. \/ Fail(TRUE, err) /\ UNCHANGED <<held, ctx>>
      \/ Continue /\ UNCHANGED <<held, ctx>>
      \/ Fail(TRUE, "other") /\ ctx' = pushed /\ UNCHANGED held
      \/ /\ ctx' = pushed /\ held' = two
         /\ stack' = ReplaceTop(stack, f)
         /\ UNCHANGED <<phase, ret, issued>>
  BY DEF ForeachStart
<1>9. f \in Frame /\ f.t = Top.t /\ f.mark = Top.mark /\ f.loop = "next"
      /\ f.pc = Top.pc /\ f.list = Top.list /\ f.depth = Top.depth
  BY <1>1 DEF Frame
<1> HIDE DEF n, err, outer, pushed, one, two, f
<1>10. CASE Fail(TRUE, err) /\ UNCHANGED <<held, ctx>>
  BY <1>1, <1>3, <1>4, <1>10, SameSlots, FailKeepsInv, InvTypes
<1>11. CASE Continue /\ UNCHANGED <<held, ctx>>
  BY <1>1, <1>4, <1>11, SameSlots, ContinueKeepsInv, InvTypes
<1>12. CASE Fail(TRUE, "other") /\ ctx' = pushed /\ UNCHANGED held
  <2>1. SlotsOKAfter /\ Len(held') = Len(held)
    BY <1>5, <1>7, <1>12 DEF SlotsOKAfter
  <2>2. QED
    BY <1>1, <1>4, <1>12, <2>1, FailKeepsInv, InvTypes
<1>13. CASE /\ ctx' = pushed /\ held' = two
            /\ stack' = ReplaceTop(stack, f)
            /\ UNCHANGED <<phase, ret, issued>>
  <2>1. SlotsOKAfter /\ Len(held') = Len(held) + 2
    BY <1>7, <1>13 DEF SlotsOKAfter
  <2>2. f.mark + LoopSlots(f) <= Len(held')
    BY <1>1, <1>9, <2>1 DEF LoopSlots
  <2>3. OthersTyped /\ ret' \in RetType /\ phase' = "run"
    BY <1>1, <1>4, <1>13 DEF OthersTyped, RetType, Inv, TypeOK
  <2>4. f.pc <= Len(tree[f.list]) /\ NodeAt(f).type = "foreach"
    BY <1>1, <1>9 DEF AtNode, Current, NodeAt
  <2>5. QED
    BY <1>1, <1>4, <1>9, <1>13, <2>1, <2>2, <2>3, <2>4, GoOnStep, InvTypes
<1>14. QED
  BY <1>8, <1>10, <1>11, <1>12, <1>13

(* While a loop runs, its two slots are the last ones held.                *)
LEMMA LoopType ==
  ASSUME Inv, NEW state \in {"next", "end"}, InLoop(state)
  PROVE  /\ AtNode("foreach") /\ phase = "run" /\ Top.loop = state
         /\ Current.var \in Name /\ Current.items \in List
         /\ Current.else \in List \cup {None}
         /\ held \in Seq(Slot) /\ Len(held) >= Top.mark + 2 /\ held # <<>>
         /\ ctx \in Contexts(Value) /\ Ordered(held) /\ InBounds(held, ctx)
         /\ Top.pc <= Len(tree[Top.list]) /\ NodeAt(Top).type = "foreach"
<1>1. AtNode("foreach") /\ Top.loop = state
  BY DEF InLoop
<1>2. /\ phase = "run" /\ Current.var \in Name /\ Current.items \in List
      /\ Current.else \in List \cup {None}
  BY <1>1, AtNodeType, NodeFields DEF Inv
<1>3. Len(held) >= Top.mark + 2 /\ Top.mark \in Nat
  BY <1>1, <1>2, Running DEF LoopSlots
<1>4. /\ held \in Seq(Slot) /\ ctx \in Contexts(Value)
      /\ Ordered(held) /\ InBounds(held, ctx)
  BY DEF Inv, TypeOK, SlotsOK
<1>5. held # <<>>
  BY <1>3, <1>4
<1>6. QED
  BY <1>1, <1>2, <1>3, <1>4, <1>5 DEF AtNode, Current

(* A loop forgets its slots when it ends in an error.                      *)
LEMMA LoopNextInv == ASSUME Inv, LoopNext PROVE Inv'
<1> DEFINE i == Top.i + 1
           set == Set(ctx, Last(held).idx, Current.var, coll[i])
           g == [Top EXCEPT !.i = i, !.v = coll[i]]
           h == [Top EXCEPT !.loop = "no"]
           f == NewFrame(Top.t, Current.items, Top.depth, Len(held), set)
           below == ReplaceTop(stack, g)
<1>1. /\ AtNode("foreach") /\ phase = "run" /\ Top.loop = "next"
      /\ Current.var \in Name /\ Current.items \in List
      /\ held \in Seq(Slot) /\ Len(held) >= Top.mark + 2 /\ held # <<>>
      /\ ctx \in Contexts(Value) /\ Ordered(held) /\ InBounds(held, ctx)
      /\ Top.pc <= Len(tree[Top.list]) /\ NodeAt(Top).type = "foreach"
  BY LoopType DEF LoopNext
<1>2. /\ stack # <<>> /\ stack \in Seq(Frame) /\ Len(stack) \in Nat \ {0}
      /\ Top \in Frame /\ Top.mark \in Nat
      /\ Top.t = Len(macros) /\ Top.t \in Nat \ {0} /\ Top.depth \in Nat
      /\ Len(held) \in Nat
  BY <1>1, Running DEF Frame, Inv, TypeOK
<1>3. coll[i] \in Value /\ i \in Nat
  <2>1. Top.i \in Nat
    BY <1>2 DEF Frame
  <2>2. Top.i < Len(coll)
    BY DEF LoopNext, HasNext
  <2>3. coll \in Seq(Scalar) /\ Len(coll) \in Nat
    BY InvTypes
  <2>4. i \in 1..Len(coll) /\ i \in Nat
    BY <2>1, <2>2, <2>3
  <2>5. coll[i] \in Scalar
    BY <2>3, <2>4
  <2>6. QED
    BY <2>4, <2>5 DEF Value, Literal
<1>4. set \in Contexts(Value) /\ InBounds(held, set)
  <2>1. Last(held).idx \in Nat \ {0}
    <3>1. Last(held) \in Slot
      BY <1>1, LastFront
    <3>2. QED
      BY <3>1 DEF Slot
  <2>2. QED
    BY <1>1, <1>3, <2>1, SetSlot
<1>5. /\ g \in Frame /\ g.t = Top.t /\ g.mark = Top.mark /\ g.loop = "next"
      /\ g.pc = Top.pc /\ g.list = Top.list /\ g.depth = Top.depth
  BY <1>1, <1>2, <1>3 DEF Frame
<1>6. /\ h \in Frame /\ h.t = Top.t /\ h.mark = Top.mark /\ h.loop = "no"
      /\ h.depth = Top.depth
  BY <1>2 DEF Frame
<1>7. /\ f \in Frame /\ f.t = Top.t /\ f.mark = Len(held) /\ f.loop = "no"
      /\ f.depth = Top.depth
  <2>1. Nil \in Value
    BY DEF Value, Literal
  <2>2. QED
    BY <1>1, <1>2, <1>4, <2>1 DEF NewFrame, Frame
<1>8. UNCHANGED <<tree, macros, coll, out, runs>>
  BY DEF LoopNext
<1>9. \/ /\ Return(TRUE, "iterations")
         /\ stack' = ReplaceTop(stack, h)
         /\ held' = WithoutLoop(held)
         /\ UNCHANGED ctx
      \/ /\ ctx' = set /\ EnterFrom(below, f) /\ UNCHANGED held
  BY DEF LoopNext
<1> HIDE DEF i, set, g, h, f
<1>10. /\ below \in Seq(Frame) /\ Len(below) = Len(stack) /\ below[Len(stack)] = g
       /\ \A k \in 1..(Len(stack) - 1) : below[k] = stack[k]
  <2>1. /\ below \in Seq(Frame) /\ Len(below) = Len(stack) /\ Last(below) = g
        /\ \A k \in 1..(Len(stack) - 1) : below[k] = stack[k]
    BY <1>2, <1>5, ReplaceTopProperties
  <2>2. QED
    BY <2>1 DEF Last
<1> HIDE DEF below
<1>11. CASE /\ Return(TRUE, "iterations")
            /\ stack' = ReplaceTop(stack, h)
            /\ held' = WithoutLoop(held)
            /\ UNCHANGED ctx
  <2>1. SlotsOKAfter /\ Len(held') = Len(held) - 2
    BY <1>1, <1>2, <1>11, WithoutLoopSlots DEF SlotsOKAfter
  <2>2. phase' = "unwind" /\ ret' \in RetType /\ issued' = issued
    BY <1>11 DEF Return, RetType, Err
  <2>3. OthersTyped
    BY <1>8, <2>2 DEF OthersTyped, Inv, TypeOK
  <2>4. h.mark + LoopSlots(h) <= Len(held')
    BY <1>1, <1>2, <1>6, <2>1 DEF LoopSlots
  <2>5. QED
    BY <1>1, <1>6, <1>8, <1>11, <2>1, <2>2, <2>3, <2>4, GoOnStep, InvTypes
<1>12. CASE ctx' = set /\ EnterFrom(below, f) /\ UNCHANGED held
  <2>1. SlotsOKAfter /\ Len(held') = Len(held)
    BY <1>1, <1>4, <1>12 DEF SlotsOKAfter
  <2>2. g.mark + LoopSlots(g) <= Len(held)
    BY <1>1, <1>2, <1>5 DEF LoopSlots
  <2>3. g.pc <= Len(tree[g.list]) /\ NodeAt(g).type = "foreach"
    BY <1>1, <1>5 DEF NodeAt
  <2>4. /\ f.t = g.t + (IF NodeAt(g).type = "parse" THEN 1 ELSE 0) /\ Len(macros') = f.t
        /\ f.depth = g.depth + CallsOn(g)
    BY <1>2, <1>5, <1>7, <1>8, <2>3 DEF CallsOn
  <2>5. QED
    BY <1>1, <1>5, <1>7, <1>8, <1>10, <1>12, <2>1, <2>2, <2>3, <2>4,
       EnterFromKeepsInv, InvTypes
<1>13. QED
  BY <1>9, <1>11, <1>12

LEMMA LoopElseInv == ASSUME Inv, LoopElse PROVE Inv'
<1> DEFINE g == [Top EXCEPT !.loop = "end"]
           f == NewFrame(Top.t, Current.else, Top.depth, Len(held), ctx)
           below == ReplaceTop(stack, g)
<1>1. /\ phase = "run" /\ Current.else \in List
      /\ held \in Seq(Slot) /\ Len(held) >= Top.mark + 2
      /\ ctx \in Contexts(Value)
      /\ Top.pc <= Len(tree[Top.list]) /\ NodeAt(Top).type = "foreach"
  BY LoopType DEF LoopElse
<1>2. /\ stack # <<>> /\ stack \in Seq(Frame) /\ Len(stack) \in Nat \ {0}
      /\ Top \in Frame /\ Top.mark \in Nat
      /\ Top.t = Len(macros) /\ Top.t \in Nat \ {0} /\ Top.depth \in Nat
      /\ Len(held) \in Nat
  BY <1>1, Running DEF Frame, Inv, TypeOK
<1>3. /\ g \in Frame /\ g.t = Top.t /\ g.mark = Top.mark /\ g.loop = "end"
      /\ g.pc = Top.pc /\ g.list = Top.list /\ g.depth = Top.depth
  BY <1>2 DEF Frame
<1>4. /\ f \in Frame /\ f.t = Top.t /\ f.mark = Len(held) /\ f.loop = "no"
      /\ f.depth = Top.depth
  <2>1. Nil \in Value
    BY DEF Value, Literal
  <2>2. QED
    BY <1>1, <1>2, <2>1 DEF NewFrame, Frame
<1>5. EnterFrom(below, f) /\ UNCHANGED <<tree, held, ctx, macros, coll, out, runs>>
  BY DEF LoopElse
<1> HIDE DEF g, f
<1>6. /\ below \in Seq(Frame) /\ Len(below) = Len(stack) /\ below[Len(stack)] = g
      /\ \A k \in 1..(Len(stack) - 1) : below[k] = stack[k]
  <2>1. /\ below \in Seq(Frame) /\ Len(below) = Len(stack) /\ Last(below) = g
        /\ \A k \in 1..(Len(stack) - 1) : below[k] = stack[k]
    BY <1>2, <1>3, ReplaceTopProperties
  <2>2. QED
    BY <2>1 DEF Last
<1> HIDE DEF below
<1>7. g.mark + LoopSlots(g) <= Len(held)
  BY <1>1, <1>2, <1>3 DEF LoopSlots
<1>8. g.pc <= Len(tree[g.list]) /\ NodeAt(g).type = "foreach"
  BY <1>1, <1>3 DEF NodeAt
<1>9. /\ f.t = g.t + (IF NodeAt(g).type = "parse" THEN 1 ELSE 0) /\ Len(macros') = f.t
      /\ f.depth = g.depth + CallsOn(g)
  BY <1>2, <1>3, <1>4, <1>5, <1>8 DEF CallsOn
<1>10. QED
  BY <1>1, <1>3, <1>4, <1>5, <1>6, <1>7, <1>8, <1>9, SameSlots, EnterFromKeepsInv, InvTypes

LEMMA LoopEndInv == ASSUME Inv, LoopEnd PROVE Inv'
<1> DEFINE one == Pop(ctx, Last(held).idx, Last(held).name)
           h == Front(held)
           two == Pop(one, Last(h).idx, Last(h).name)
<1>1. /\ phase = "run"
      /\ held \in Seq(Slot) /\ Len(held) >= Top.mark + 2 /\ held # <<>>
      /\ ctx \in Contexts(Value) /\ Ordered(held) /\ InBounds(held, ctx)
  BY LoopType DEF LoopEnd
<1>2. Top.mark \in Nat /\ Len(held) \in Nat
  BY <1>1, Running
<1>3. /\ h \in Seq(Slot) /\ Len(h) = Len(held) - 1 /\ one \in Contexts(Value)
      /\ Ordered(h) /\ InBounds(h, one)
  BY <1>1, PopSlot
<1>4. /\ ctx' = two /\ held' = Front(h) /\ Continue
      /\ UNCHANGED <<tree, macros, coll, out, runs>>
  BY DEF LoopEnd, WithoutLoop
<1> HIDE DEF one, h
<1>5. /\ Front(h) \in Seq(Slot) /\ Len(Front(h)) = Len(held) - 2
      /\ two \in Contexts(Value) /\ Ordered(Front(h)) /\ InBounds(Front(h), two)
  <2>1. h # <<>>
    BY <1>1, <1>2, <1>3
  <2>2. /\ Front(h) \in Seq(Slot) /\ Len(Front(h)) = Len(h) - 1
        /\ two \in Contexts(Value) /\ Ordered(Front(h)) /\ InBounds(Front(h), two)
    BY <1>3, <2>1, PopSlot
  <2>3. QED
    BY <1>2, <1>3, <2>2
<1>6. SlotsOKAfter /\ Top.mark <= Len(held')
  BY <1>1, <1>2, <1>4, <1>5 DEF SlotsOKAfter
<1>7. QED
  BY <1>1, <1>4, <1>6, ContinueKeepsInv, InvTypes
-----------------------------------------------------------------------------
(* Returns *)

LEMMA RunDeferInv == ASSUME Inv, RunDefer PROVE Inv'
<1>1. /\ phase = "unwind" /\ Len(held) > Top.mark
      /\ ctx' = Pop(ctx, Last(held).idx, Last(held).name) /\ held' = Front(held)
      /\ UNCHANGED <<tree, phase, ret, stack, macros, coll, out, issued, runs>>
  BY DEF RunDefer
<1>2. /\ held \in Seq(Slot) /\ ctx \in Contexts(Value)
      /\ Ordered(held) /\ InBounds(held, ctx) /\ stack # <<>>
  BY <1>1 DEF Inv, TypeOK, SlotsOK
<1>3. Top.mark \in Nat /\ Len(held) \in Nat /\ held # <<>>
  <2>1. Top.mark \in Nat
    BY <1>2, TopType DEF Inv, Frame
  <2>2. QED
    BY <1>1, <1>2, <2>1
<1>4. SlotsOKAfter /\ Len(held') = Len(held) - 1
  BY <1>1, <1>2, <1>3, PopSlot DEF SlotsOKAfter
<1>5. TypeOK'
  BY <1>1, <1>4 DEF Inv, TypeOK, SlotsOKAfter
<1>6. StackOK'
  <2>1. Top.loop = "no"
    BY <1>1 DEF Inv, StackOK, AtNode
  <2>2. Top' = Top /\ Top.mark + LoopSlots(Top) <= Len(held')
    BY <1>1, <1>3, <1>4, <2>1 DEF LoopSlots, Top
  <2>3. QED
    BY <1>1, <2>1, <2>2 DEF Inv, StackOK, Adjacent, NodeAt, LoopSlots, CallsOn, WithinDepth
<1>7. SlotsOK'
  BY <1>4 DEF SlotsOKAfter, SlotsOK, Ordered, InBounds
<1>8. QED
  BY <1>5, <1>6, <1>7 DEF Inv

(* The frame that a return goes to.                                        *)
LEMMA Returning ==
  ASSUME Inv, NEW type, Returned(type)
  PROVE  /\ phase = "unwind" /\ Len(stack) \in Nat /\ Len(stack) > 1
         /\ Caller \in Frame /\ Caller = stack[Len(stack) - 1]
         /\ Caller.t \in Nat \ {0} /\ Caller.mark \in Nat /\ Len(held) \in Nat
         /\ Caller.mark + LoopSlots(Caller) <= Len(held)
         /\ Caller.pc <= Len(tree[Caller.list]) /\ NodeAt(Caller).type = type
         /\ Caller.loop # "no" <=> type = "foreach"
         /\ Len(macros) = Caller.t + (IF type = "parse" THEN 1 ELSE 0)
         /\ Advanced(Caller) \in Frame /\ Advanced(Caller).loop = "no"
         /\ Advanced(Caller).t = Caller.t /\ Advanced(Caller).mark = Caller.mark
         /\ Advanced(Caller).depth = Caller.depth
<1>1. /\ phase = "unwind" /\ Len(stack) > 1 /\ Len(held) = Top.mark
      /\ NodeAt(Caller).type = type
  BY DEF Returned
<1>2. stack \in Seq(Frame) /\ Len(stack) \in Nat /\ stack # <<>>
  BY <1>1 DEF Inv, TypeOK
<1>3. /\ Caller = stack[Len(stack) - 1] /\ Caller \in Frame
      /\ Top = stack[Len(stack)] /\ Len(stack) - 1 \in 1..(Len(stack) - 1)
  BY <1>1, <1>2, TopType DEF Caller, Inv
<1>4. Adjacent(stack[Len(stack) - 1], stack[(Len(stack) - 1) + 1])
  BY <1>3 DEF Inv, StackOK
<1>5. Adjacent(Caller, Top)
  <2>1. (Len(stack) - 1) + 1 = Len(stack)
    BY <1>2
  <2>2. QED
    BY <1>3, <1>4, <2>1
<1>6. Top.t = Len(macros)
  BY <1>1 DEF Inv, StackOK
<1>7. Caller.t \in Nat \ {0} /\ Caller.mark \in Nat /\ Len(held) \in Nat /\ Caller.pc \in Nat
  <2>1. held \in Seq(Slot)
    BY DEF Inv, TypeOK
  <2>2. QED
    BY <1>3, <2>1 DEF Frame
<1>8. /\ Advanced(Caller) \in Frame /\ Advanced(Caller).loop = "no"
      /\ Advanced(Caller).t = Caller.t /\ Advanced(Caller).mark = Caller.mark
      /\ Advanced(Caller).depth = Caller.depth
  <2>1. Caller.pc + 1 \in Nat \ {0} /\ Nil \in Value
    BY <1>7 DEF Value, Literal
  <2>2. Advanced(Caller) =
          [t |-> Caller.t, list |-> Caller.list, pc |-> Caller.pc + 1,
           depth |-> Caller.depth, mark |-> Caller.mark, args |-> 0,
           loop |-> "no", i |-> 0, v |-> Nil, entry |-> Caller.entry]
    BY <1>3 DEF Advanced, NewFrame
  <2>3. QED
    BY <1>3, <2>1, <2>2 DEF Frame
<1>9. QED
  BY <1>1, <1>2, <1>3, <1>5, <1>6, <1>7, <1>8 DEF Adjacent

(* The caller, become f, is the top of the stack now.                      *)
LEMMA LeaveKeepsInv ==
  ASSUME Inv, NEW type, Returned(type), phase' \in {"run", "unwind"}, ret' \in RetType,
         NEW f \in Frame,
         \/ stack' = Front(stack) /\ f = Caller
         \/ stack' = ReplaceTop(Front(stack), f),
         f.t = Caller.t, f.mark = Caller.mark, f.depth = Caller.depth,
         f.mark + LoopSlots(f) <= Len(held'),
         f.loop # "no" => /\ phase' = "run" /\ f.pc <= Len(tree[f.list])
                          /\ NodeAt(f).type = "foreach",
         macros' \in Seq([MacroName -> Macro \cup {None}]), Len(macros') = f.t,
         SlotsOKAfter, UNCHANGED <<tree, coll, out, issued, runs>>
  PROVE  Inv'
<1>1. /\ phase = "unwind" /\ Len(stack) \in Nat /\ Len(stack) > 1
      /\ Caller = stack[Len(stack) - 1]
  BY Returning
<1>2. stack \in Seq(Frame) /\ stack # <<>>
  BY <1>1 DEF Inv, TypeOK
<1> DEFINE b == Front(stack)
<1>3. /\ b \in Seq(Frame) /\ Len(b) = Len(stack) - 1 /\ b # <<>>
      /\ \A i \in 1..(Len(stack) - 1) : b[i] = stack[i]
  <2>1. /\ b \in Seq(Frame) /\ Len(b) = Len(stack) - 1
        /\ \A i \in 1..(Len(stack) - 1) : b[i] = stack[i]
    BY <1>2, LastFront
  <2>2. QED
    BY <1>1, <2>1
<1>4. (stack' = b /\ f = Caller) \/ stack' = ReplaceTop(b, f)
  OBVIOUS
<1> HIDE DEF b
<1>5. /\ stack' \in Seq(Frame) /\ Len(stack') = Len(stack) - 1
      /\ stack'[Len(stack) - 1] = f
      /\ \A i \in 1..(Len(stack) - 2) : stack'[i] = stack[i]
  <2>1. CASE stack' = b /\ f = Caller
    BY <1>1, <1>3, <2>1
  <2>2. CASE stack' = ReplaceTop(b, f)
    <3>1. /\ stack' \in Seq(Frame) /\ Len(stack') = Len(b) /\ Last(stack') = f
          /\ \A i \in 1..(Len(b) - 1) : stack'[i] = b[i]
      BY <1>3, <2>2, ReplaceTopProperties
    <3>2. QED
      BY <1>1, <1>3, <3>1 DEF Last
  <2>3. QED
    BY <1>4, <2>1, <2>2
<1>6. OthersTyped
  BY DEF OthersTyped, Inv, TypeOK
<1>7. QED
  BY <1>1, <1>5, <1>6, LeaveStep

(* A frame without a loop is called back: it goes on, or returns too.      *)
LEMMA ReturnKeepsInv ==
  ASSUME Inv, NEW type, type # "foreach", Returned(type),
         \/ Resume(Advanced(Caller))
         \/ \E stop \in BOOLEAN, err \in Err : PassOn(stop, err),
         macros' \in Seq([MacroName -> Macro \cup {None}]), Len(macros') = Caller.t,
         UNCHANGED <<tree, held, ctx, coll, out, issued, runs>>
  PROVE  Inv'
<1>1. /\ phase = "unwind" /\ Caller \in Frame /\ Caller.mark \in Nat /\ Len(held) \in Nat
      /\ Caller.loop = "no" /\ Caller.mark + LoopSlots(Caller) <= Len(held)
      /\ Advanced(Caller) \in Frame /\ Advanced(Caller).loop = "no"
      /\ Advanced(Caller).t = Caller.t /\ Advanced(Caller).mark = Caller.mark
      /\ Advanced(Caller).depth = Caller.depth
  BY Returning
<1>2. SlotsOKAfter /\ Len(held') = Len(held)
  BY SameSlots
<1>3. CASE Resume(Advanced(Caller))
  <2> DEFINE f == Advanced(Caller)
  <2>1. /\ phase' = "run" /\ ret' \in RetType /\ stack' = ReplaceTop(Front(stack), f)
    BY <1>3 DEF Resume, RetType, Inv, TypeOK
  <2>2. f.mark + LoopSlots(f) <= Len(held')
    BY <1>1, <1>2 DEF LoopSlots
  <2>3. /\ f \in Frame /\ f.loop = "no" /\ f.t = Caller.t /\ f.mark = Caller.mark
        /\ f.depth = Caller.depth
    BY <1>1
  <2> HIDE DEF f
  <2>4. QED
    BY <1>2, <2>1, <2>2, <2>3, LeaveKeepsInv
<1>4. CASE \E stop \in BOOLEAN, err \in Err : PassOn(stop, err)
  <2>1. phase' = "unwind" /\ ret' \in RetType /\ stack' = Front(stack)
    BY <1>1, <1>4 DEF PassOn, RetType
  <2>2. QED
    BY <1>1, <1>2, <2>1, LeaveKeepsInv
<1>5. QED
  BY <1>3, <1>4

LEMMA ReturnToIfInv == ASSUME Inv, ReturnToIf PROVE Inv'
<1>1. Returned("if") /\ UNCHANGED <<tree, held, ctx, macros, coll, out, issued, runs>>
  BY DEF ReturnToIf
<1>2. ret.err \in Err /\ Len(macros) = Caller.t
  <2>1. ret.err \in Err
    BY DEF Inv, TypeOK
  <2>2. Len(macros) = Caller.t + 0 /\ Caller.t \in Nat
    BY <1>1, Returning
  <2>3. QED
    BY <2>1, <2>2
<1>3. Resume(Advanced(Caller)) \/ PassOn(TRUE, ret.err)
  BY DEF ReturnToIf
<1>4. QED
  BY <1>1, <1>2, <1>3, ReturnKeepsInv, InvTypes

LEMMA ReturnToCallInv == ASSUME Inv, ReturnToCall PROVE Inv'
<1>1. Returned("call") /\ UNCHANGED <<tree, held, ctx, macros, coll, out, issued, runs>>
  BY DEF ReturnToCall
<1>2. ret.err \in Err /\ "ok" \in Err /\ Len(macros) = Caller.t
  <2>1. ret.err \in Err /\ "ok" \in Err
    BY DEF Inv, TypeOK, Err
  <2>2. Len(macros) = Caller.t + 0 /\ Caller.t \in Nat
    BY <1>1, Returning
  <2>3. QED
    BY <2>1, <2>2
<1>3. Resume(Advanced(Caller)) \/ PassOn(TRUE, ret.err) \/ PassOn(FALSE, "ok")
  BY DEF ReturnToCall
<1>4. QED
  BY <1>1, <1>2, <1>3, ReturnKeepsInv, InvTypes

LEMMA ReturnToParseInv == ASSUME Inv, ReturnToParse PROVE Inv'
<1>1. /\ Returned("parse") /\ macros' = Front(macros)
      /\ UNCHANGED <<tree, held, ctx, coll, out, issued, runs>>
  BY DEF ReturnToParse
<1>2. ret.err \in Err /\ Len(macros) = Caller.t + 1 /\ Caller.t \in Nat
  BY <1>1, Returning DEF Inv, TypeOK
<1>3. /\ macros' \in Seq([MacroName -> Macro \cup {None}]) /\ Len(macros') = Caller.t
  <2>1. macros \in Seq([MacroName -> Macro \cup {None}]) /\ macros # <<>>
    BY DEF Inv, TypeOK
  <2>2. /\ Front(macros) \in Seq([MacroName -> Macro \cup {None}])
        /\ Len(Front(macros)) = Len(macros) - 1
    BY <2>1, LastFront
  <2>3. QED
    BY <1>1, <1>2, <2>2
<1>4. Resume(Advanced(Caller)) \/ PassOn(TRUE, ret.err)
  BY DEF ReturnToParse
<1>5. QED
  BY <1>1, <1>2, <1>3, <1>4, ReturnKeepsInv

LEMMA ReturnToLoopInv == ASSUME Inv, ReturnToLoop PROVE Inv'
<1> DEFINE f == [Caller EXCEPT !.loop = "no"]
<1>1. Returned("foreach") /\ UNCHANGED <<tree, ctx, macros, coll, out, issued, runs>>
  BY DEF ReturnToLoop
<1>2. /\ phase = "unwind" /\ Caller \in Frame /\ Caller.mark \in Nat /\ Len(held) \in Nat
      /\ Caller.loop # "no" /\ Caller.mark + 2 <= Len(held)
      /\ Caller.pc <= Len(tree[Caller.list]) /\ NodeAt(Caller).type = "foreach"
      /\ Len(macros) = Caller.t
  BY <1>1, Returning DEF LoopSlots
<1>3. /\ held \in Seq(Slot) /\ ctx \in Contexts(Value)
      /\ Ordered(held) /\ InBounds(held, ctx)
      /\ ret \in RetType /\ macros \in Seq([MacroName -> Macro \cup {None}])
  BY DEF Inv, TypeOK, SlotsOK, RetType
<1>4. /\ f \in Frame /\ f.loop = "no" /\ f.t = Caller.t /\ f.mark = Caller.mark
      /\ f.depth = Caller.depth
  BY <1>2 DEF Frame
<1>5. \/ /\ ret' = [stop |-> TRUE, err |-> ret.err]
         /\ stack' = ReplaceTop(Front(stack), f)
         /\ held' = WithoutLoop(held) /\ UNCHANGED phase
      \/ Resume(Caller) /\ UNCHANGED held
  BY DEF ReturnToLoop
<1> HIDE DEF f
<1>6. CASE /\ ret' = [stop |-> TRUE, err |-> ret.err]
           /\ stack' = ReplaceTop(Front(stack), f)
           /\ held' = WithoutLoop(held) /\ UNCHANGED phase
  <2>1. SlotsOKAfter /\ Len(held') = Len(held) - 2
    BY <1>1, <1>2, <1>3, <1>6, WithoutLoopSlots DEF SlotsOKAfter
  <2>2. f.mark + LoopSlots(f) <= Len(held')
    BY <1>2, <1>4, <2>1 DEF LoopSlots
  <2>3. ret' \in RetType /\ phase' = "unwind"
    BY <1>2, <1>3, <1>6 DEF RetType
  <2>4. QED
    BY <1>1, <1>2, <1>3, <1>4, <1>6, <2>1, <2>2, <2>3, LeaveKeepsInv
<1>7. CASE Resume(Caller) /\ UNCHANGED held
  <2>1. SlotsOKAfter /\ Len(held') = Len(held)
    BY <1>1, <1>7, SameSlots
  <2>2. Caller.mark + LoopSlots(Caller) <= Len(held')
    BY <1>2, <2>1 DEF LoopSlots
  <2>3. phase' = "run" /\ ret' \in RetType /\ stack' = ReplaceTop(Front(stack), Caller)
    BY <1>3, <1>7 DEF Resume
  <2>4. QED
    BY <1>1, <1>2, <1>3, <2>1, <2>2, <2>3, LeaveKeepsInv
<1>8. QED
  BY <1>5, <1>6, <1>7

LEMMA ReturnToExecuteInv == ASSUME Inv, ReturnToExecute PROVE Inv'
<1>1. /\ phase' = "done" /\ phase = "unwind" /\ Len(stack) = 1
      /\ UNCHANGED <<tree, ret, stack, held, ctx, macros, coll, out, issued, runs>>
  BY DEF ReturnToExecute
<1>2. TypeOK'
  BY <1>1 DEF Inv, TypeOK
<1>3. Len(macros) = 1
  <2>1. stack # <<>> /\ Top = stack[Len(stack)]
    BY <1>1, TopType DEF Inv, TypeOK
  <2>2. QED
    BY <1>1, <2>1 DEF Inv, StackOK
<1>4. StackOK'
  BY <1>1, <1>3 DEF Inv, StackOK, Adjacent, NodeAt, LoopSlots, CallsOn, WithinDepth
<1>5. SlotsOK'
  BY <1>1 DEF Inv, SlotsOK, Ordered, InBounds
<1>6. QED
  BY <1>2, <1>4, <1>5 DEF Inv

LEMMA ExecuteInv == ASSUME Inv, Execute PROVE Inv'
<1>1. PICK c \in Bindings, s \in Contents :
         ctx' = c /\ coll' = s /\ stack' = <<NewFrame(1, Main, 0, 0, c)>>
  BY DEF Execute
<1>2. /\ phase = "done" /\ phase' = "run" /\ ret' = [stop |-> FALSE, err |-> "ok"]
      /\ held' = <<>> /\ out' = 0 /\ issued' = {}
      /\ runs < MaxRuns /\ runs' = runs + 1 /\ UNCHANGED <<tree, macros>>
  BY DEF Execute
<1>3. c \in Contexts(Value) /\ s \in Seq(Scalar) /\ Main \in List /\ MaxRuns \in Nat
  BY ConstantsAssumption DEF Contexts, Value
<1> DEFINE f == NewFrame(1, Main, 0, 0, c)
<1>4. /\ f \in Frame /\ f.t = 1 /\ f.mark = 0 /\ f.loop = "no" /\ f.depth = 0
      /\ WithinDepth(f)
  <2>1. Nil \in Value
    BY DEF Value, Literal
  <2>2. QED
    BY <1>3, <2>1, ConstantsAssumption
       DEF NewFrame, Frame, WithinDepth, Exceeds, CallLimit, Limit
<1>5. stack' = <<f>>
  BY <1>1
<1> HIDE DEF f
<1>6. TypeOK'
  BY <1>1, <1>2, <1>3, <1>4, <1>5 DEF Inv, TypeOK, Err
<1>7. StackOK'
  <2>1. Top' = f /\ Len(stack') = 1 /\ stack'[1] = f
    BY <1>5 DEF Top, Last
  <2>2. Len(macros') = 1 /\ Len(held') = 0
    BY <1>2 DEF Inv, StackOK
  <2>3. QED
    BY <1>2, <1>4, <2>1, <2>2 DEF StackOK, LoopSlots, WithinDepth
<1>8. SlotsOK'
  BY <1>2 DEF SlotsOK, Ordered, InBounds
<1>9. QED
  BY <1>6, <1>7, <1>8 DEF Inv

LEMMA StutterInv == ASSUME Inv, UNCHANGED vars PROVE Inv'
<1>1. TypeOK'
  BY DEF Inv, TypeOK, vars
<1>2. StackOK'
  BY DEF Inv, StackOK, Adjacent, NodeAt, LoopSlots, CallsOn, WithinDepth, Top, AtNode, Current, vars
<1>3. SlotsOK'
  BY DEF Inv, SlotsOK, Ordered, InBounds, vars
<1>4. QED
  BY <1>1, <1>2, <1>3 DEF Inv
-----------------------------------------------------------------------------
(* The theorems *)

LEMMA NextInv == Inv /\ [Next]_vars => Inv'
<1> SUFFICES ASSUME Inv, [Next]_vars PROVE Inv'
  OBVIOUS
<1>1. CASE Step
  BY <1>1, TextInv, SetVarInv, SetPropertyInv, VarInv, AddInv, ClearInv, DefineInv,
     IncludeInv, EvalInv, BreakInv, StopInv, EndOfListInv, IfInv, CallUnknownInv,
     BindArgInv, CallInv, ForeachStartInv, LoopNextInv, LoopElseInv, LoopEndInv,
     ParseInv, RunDeferInv, ReturnToIfInv, ReturnToCallInv, ReturnToLoopInv,
     ReturnToParseInv, ReturnToExecuteInv DEF Step
<1>2. CASE Execute
  BY <1>2, ExecuteInv
<1>3. CASE Finished \/ UNCHANGED vars
  BY <1>3, StutterInv DEF Finished
<1>4. QED
  BY <1>1, <1>2, <1>3 DEF Next

(* The inductive invariant holds in every state of every rendering.        *)
THEOREM InvInvariant == Spec => []Inv
  BY InitInv, NextInv, PTL DEF Spec

(* Every variable of the tree walk keeps its type.                         *)
THEOREM TypeCorrect == Spec => []TypeOK
<1>1. Inv => TypeOK
  BY DEF Inv
<1>2. QED
  BY <1>1, InvInvariant, PTL

(* No pop or set of _execute meets a slot that does not exist: Ctx.Pop      *)
(* never slices out of range and Ctx.Set never drops a loop's value, for    *)
(* any template, any context and any limits.                                *)
THEOREM SlotsStayInBounds == Spec => []SlotsInBounds
<1>1. Inv => SlotsInBounds
  <2>1. held \in Seq(Slot) => DOMAIN held = 1..Len(held)
    OBVIOUS
  <2>2. QED
    BY <2>1 DEF Inv, TypeOK, SlotsOK, InBounds, SlotsInBounds
<1>2. QED
  BY <1>1, InvInvariant, PTL

(* The depth limit holds for every frame that runs or waits, whatever       *)
(* macros call themselves and whatever templates #parse each other.         *)
THEOREM DepthStaysBounded == Spec => []DepthBounded
<1>1. Inv => DepthBounded
  <2> SUFFICES ASSUME Inv, phase # "done" PROVE DepthBounded
    BY DEF DepthBounded
  <2>1. /\ stack \in Seq(Frame) /\ Len(stack) \in Nat \ {0} /\ Top = stack[Len(stack)]
        /\ DOMAIN stack = 1..Len(stack)
    BY TopType DEF Inv, TypeOK
  <2>2. \A k \in 1..(Len(stack) - 1) : Adjacent(stack[k], stack[k + 1])
    BY DEF Inv, StackOK
  <2>3. ASSUME NEW k \in 1..(Len(stack) - 1)
        PROVE  stack[k + 1].depth = stack[k].depth
                 + (IF NodeAt(stack[k]).type \in {"call", "parse"} THEN 1 ELSE 0)
    BY <2>2 DEF Adjacent, CallsOn
  <2>4. ASSUME NEW k \in DOMAIN stack, k < Len(stack) \/ phase = "run"
        PROVE  ~ Exceeds(stack[k].depth, CallLimit(stack[k].t))
    <3>1. CASE k < Len(stack)
      <4>1. k \in 1..(Len(stack) - 1)
        BY <2>1, <3>1
      <4>2. QED
        BY <2>2, <4>1 DEF Adjacent, WithinDepth
    <3>2. CASE k = Len(stack) /\ phase = "run"
      BY <2>1, <3>2 DEF Inv, StackOK, WithinDepth
    <3>3. QED
      BY <2>1, <2>4, <3>1, <3>2
  <2>5. QED
    BY <2>3, <2>4 DEF DepthBounded
<1>2. QED
  BY <1>1, InvInvariant, PTL

(* No step forgets or replaces the definition of a macro.                  *)
LEMMA MacrosKept ==
  ASSUME Inv, [Next]_vars, NEW k \in DOMAIN macros \cap DOMAIN macros', NEW m \in MacroName,
         macros[k][m] # None
  PROVE  macros'[k][m] = macros[k][m]
<1>1. macros \in Seq([MacroName -> Macro \cup {None}]) /\ macros # <<>>
  BY DEF Inv, TypeOK
<1>2. CASE macros' = macros
  BY <1>2
<1>3. CASE Define
  BY <1>1, <1>3 DEF Define
<1>4. CASE Parse /\ macros' = Append(macros, Library)
  BY <1>1, <1>4
<1>5. CASE macros' = Front(macros)
  <2>1. /\ Len(Front(macros)) = Len(macros) - 1 /\ Len(macros) \in Nat
        /\ Front(macros) \in Seq([MacroName -> Macro \cup {None}])
        /\ \A i \in 1..(Len(macros) - 1) : Front(macros)[i] = macros[i]
    BY <1>1, LastFront
  <2>2. k \in 1..(Len(macros) - 1)
    BY <1>5, <2>1
  <2>3. QED
    BY <1>5, <2>1, <2>2
<1>6. macros' = macros \/ Define \/ Parse \/ ReturnToParse
  <2>1. CASE Step
    <3>1. CASE Text \/ SetVar \/ SetProperty \/ Var \/ Add \/ Clear \/ Include \/ Eval
      BY <3>1 DEF Text, SetVar, SetProperty, Var, Add, Clear, Include, Eval
    <3>2. CASE Break \/ Stop \/ EndOfList \/ If \/ CallUnknown \/ BindArg \/ Call
      BY <3>2 DEF Break, Stop, EndOfList, If, CallUnknown, BindArg, Call
    <3>3. CASE ForeachStart \/ LoopNext \/ LoopElse \/ LoopEnd
      BY <3>3 DEF ForeachStart, LoopNext, LoopElse, LoopEnd
    <3>4. CASE RunDefer \/ ReturnToIf \/ ReturnToCall \/ ReturnToLoop \/ ReturnToExecute
      BY <3>4 DEF RunDefer, ReturnToIf, ReturnToCall, ReturnToLoop, ReturnToExecute
    <3>5. QED
      BY <2>1, <3>1, <3>2, <3>3, <3>4 DEF Step
  <2>2. CASE Execute \/ Finished \/ UNCHANGED vars
    BY <2>2 DEF Execute, Finished, vars
  <2>3. QED
    BY <2>1, <2>2 DEF Next
<1>7. Parse => macros' = macros \/ macros' = Append(macros, Library)
  BY DEF Parse
<1>8. ReturnToParse => macros' = Front(macros)
  BY DEF ReturnToParse
<1>9. QED
  BY <1>2, <1>3, <1>4, <1>5, <1>6, <1>7, <1>8

(* The first definition of every macro stays, for any template, library     *)
(* and number of calls of Execute.                                          *)
THEOREM FirstMacroStays == Spec => FirstMacroWins
<1>1. Inv /\ [Next]_vars =>
        [\A k \in DOMAIN macros \cap DOMAIN macros', m \in MacroName :
           macros[k][m] # None => macros'[k][m] = macros[k][m]]_vars
  BY MacrosKept
<1>2. QED
  BY <1>1, InvInvariant, PTL DEF Spec, FirstMacroWins

(* An error that ends the rendering passes through every kind of list, and  *)
(* what it does on its way is pop slots and drop frames.                    *)
LEMMA FatalKept ==
  ASSUME Inv, [Next]_vars, Fatal, phase = "unwind"
  PROVE  Fatal' /\ ret' = ret /\ out' = out
<1>1. ret = [stop |-> TRUE, err |-> ret.err] /\ ret.stop /\ ret.err # "ok"
  <2>1. ret \in [stop : BOOLEAN, err : Err]
    BY DEF Inv, TypeOK
  <2>2. ret.stop = TRUE /\ ret.err # "ok"
    BY <2>1 DEF Fatal
  <2>3. QED
    BY <2>1, <2>2
<1>2. phase' # "run" /\ ret' = ret /\ out' = out => Fatal' /\ ret' = ret /\ out' = out
  BY DEF Fatal
<1>3. RunDefer \/ ReturnToIf \/ ReturnToCall \/ ReturnToLoop \/ ReturnToParse
      \/ ReturnToExecute \/ UNCHANGED vars
  <2>1. ~(Text \/ SetVar \/ SetProperty \/ Var \/ Add \/ Clear \/ Define \/ Include)
    BY DEF Text, SetVar, SetProperty, Var, Add, Clear, Define, Include, AtNode
  <2>2. ~(Eval \/ Break \/ Stop \/ EndOfList \/ If \/ CallUnknown \/ BindArg \/ Call)
    BY DEF Eval, Break, Stop, EndOfList, If, CallUnknown, BindArg, Call, MayBind, AtNode
  <2>3. ~(ForeachStart \/ LoopNext \/ LoopElse \/ LoopEnd \/ Parse)
    BY DEF ForeachStart, LoopNext, LoopElse, LoopEnd, Parse, InLoop, AtNode
  <2>4. ~ Execute
    BY DEF Execute
  <2>5. Finished => UNCHANGED vars
    BY DEF Finished
  <2>6. QED
    BY <2>1, <2>2, <2>3, <2>4, <2>5 DEF Next, Step
<1>4. CASE RunDefer \/ UNCHANGED vars
  BY <1>2, <1>4 DEF RunDefer, vars, Fatal
<1>5. CASE ReturnToIf
  BY <1>1, <1>2, <1>5 DEF ReturnToIf, PassOn
<1>6. CASE ReturnToCall
  BY <1>1, <1>2, <1>6 DEF ReturnToCall, PassOn
<1>7. CASE ReturnToLoop
  BY <1>1, <1>2, <1>7 DEF ReturnToLoop
<1>8. CASE ReturnToParse
  BY <1>1, <1>2, <1>8 DEF ReturnToParse, PassOn
<1>9. CASE ReturnToExecute
  BY <1>2, <1>9 DEF ReturnToExecute
<1>10. QED
  BY <1>3, <1>4, <1>5, <1>6, <1>7, <1>8, <1>9

(* However templates, macros, loops, #if and #parse are nested, none of     *)
(* them swallows or changes the error of a pair (true, err) and nothing is  *)
(* written after it.  The parts of a double-quoted string are excepted:     *)
(* eval drops their stop, and no pair (true, err) comes out of a string.    *)
THEOREM FatalErrorIsFinal == Spec => FatalIsFinal
<1>1. Inv /\ [Next]_vars =>
        [Fatal /\ phase = "unwind" => Fatal' /\ ret' = ret /\ out' = out]_vars
  BY FatalKept
<1>2. QED
  BY <1>1, InvInvariant, PTL DEF Spec, FatalIsFinal
-----------------------------------------------------------------------------
(***************************************************************************)
(* What a rendering does to the variables, proved for all templates,       *)
(* contexts and limits: every list leaves the context as it found it, a    *)
(* running loop finds its own values in its slots, and the context with    *)
(* its slots implements the block structure of Scoping.                    *)
(*                                                                         *)
(* The first two are not inductive.  A list restores its context because   *)
(* the slots held are exactly the values above the caller's (Owned), and   *)
(* because each frame's mark parts the slots into those below and those    *)
(* above what the context was at its call (Parted).  An error that ends    *)
(* the rendering gives up the first of these, never the second.            *)
(***************************************************************************)

(* Context c is b with more values on top.                                 *)
GrownFrom(b, c) ==
  \A n \in Name : /\ Len(b[n]) <= Len(c[n])
                  /\ \A i \in 1..Len(b[n]) : c[n][i] = b[n][i]

Marked(s, h) ==
  /\ s # <<>> => s[1].mark = 0
  /\ \A k, l \in 1..Len(s) : k <= l => s[k].mark <= s[l].mark
  /\ \A k \in 1..Len(s) : s[k].mark <= Len(h)

Based(s, c) ==
  \A k \in 1..Len(s) : /\ GrownFrom(s[1].entry, s[k].entry)
                       /\ GrownFrom(s[k].entry, c)

Parted(s, h) ==
  \A k \in 1..Len(s), j \in 1..Len(h) :
    j <= s[k].mark <=> h[j].idx <= Len(s[k].entry[h[j].name])

Framed(s, h, c) == Marked(s, h) /\ Based(s, c) /\ Parted(s, h)

Owned(s, h, c) ==
  s # <<>> =>
    \A n \in Name : \A i \in 1..Len(c[n]) :
      i > Len(s[1].entry[n]) => \E j \in 1..Len(h) : h[j].name = n /\ h[j].idx = i

(* The two slots below end are those of the loop of frame f, the k-th.      *)
LoopHolds(k, f, end, h, c) ==
  LET var == NodeAt(f).var IN
  /\ 2 <= end /\ end <= Len(h)
  /\ h[end - 1].name = Foreach /\ c[Foreach][h[end - 1].idx] = k
  /\ h[end].name = var /\ c[var][h[end].idx] = f.v

Loops(s, h, c) ==
  \A k \in 1..Len(s) :
    s[k].loop # "no" =>
      LoopHolds(k, s[k], IF k = Len(s) THEN Len(h) ELSE s[k + 1].mark, h, c)

ScopeInv ==
  /\ Framed(stack, held, ctx)
  /\ Loops(stack, held, ctx)
  /\ ~ Fatal => Owned(stack, held, ctx)
  /\ phase = "run" /\ Top.loop = "no" => Top.v = Nil

(* The slots 1..m and the values in them are the same.                      *)
Kept(m, h, c, g, d) ==
  /\ m <= Len(h) /\ m <= Len(g)
  /\ \A j \in 1..m : /\ g[j] = h[j]
                     /\ d[h[j].name][h[j].idx] = c[h[j].name][h[j].idx]
-----------------------------------------------------------------------------
(* Contexts that grow *)

LEMMA Lengths ==
  ASSUME NEW V, NEW c \in Contexts(V), NEW n \in Name
  PROVE  c[n] \in Seq(V) /\ Len(c[n]) \in Nat
  BY DEF Contexts

LEMMA SlotFields ==
  ASSUME NEW h \in Seq(Slot), NEW j \in 1..Len(h)
  PROVE  /\ h[j] \in Slot /\ h[j].name \in Name
         /\ h[j].idx \in Nat \ {0} /\ j \in Nat /\ Len(h) \in Nat
<1>1. h[j] \in Slot
  OBVIOUS
<1>2. QED
  BY <1>1 DEF Slot

LEMMA GrownTransitive ==
  ASSUME NEW V, NEW a \in Contexts(V), NEW b \in Contexts(V), NEW c \in Contexts(V),
         GrownFrom(a, b), GrownFrom(b, c)
  PROVE  GrownFrom(a, c)
<1> SUFFICES ASSUME NEW n \in Name
             PROVE  /\ Len(a[n]) <= Len(c[n])
                    /\ \A i \in 1..Len(a[n]) : c[n][i] = a[n][i]
  BY DEF GrownFrom
<1>1. Len(a[n]) \in Nat /\ Len(b[n]) \in Nat /\ Len(c[n]) \in Nat
  BY Lengths
<1>2. /\ Len(a[n]) <= Len(b[n]) /\ Len(b[n]) <= Len(c[n])
      /\ \A i \in 1..Len(a[n]) : b[n][i] = a[n][i]
      /\ \A i \in 1..Len(b[n]) : c[n][i] = b[n][i]
  BY DEF GrownFrom
<1>3. QED
  BY <1>1, <1>2

LEMMA GrownSelf ==
  ASSUME NEW V, NEW c \in Contexts(V)
  PROVE  GrownFrom(c, c)
  BY Lengths DEF GrownFrom

LEMMA GrownPush ==
  ASSUME NEW V, NEW c \in Contexts(V), NEW n \in Name, NEW v \in V
  PROVE  GrownFrom(c, Push(c, n, v))
<1>1. /\ Len(Push(c, n, v)[n]) = Len(c[n]) + 1
      /\ \A j \in 1..Len(c[n]) : Push(c, n, v)[n][j] = c[n][j]
      /\ \A k \in Name \ {n} : Push(c, n, v)[k] = c[k]
  BY PushProperties
<1>2. QED
  BY <1>1, Lengths DEF GrownFrom

(* A grown context still has every value that was held.                    *)
LEMMA GrownKeeps ==
  ASSUME NEW h \in Seq(Slot), NEW c \in Contexts(Value), NEW d \in Contexts(Value),
         InBounds(h, c), GrownFrom(c, d), NEW m \in Nat, m <= Len(h)
  PROVE  Kept(m, h, c, h, d)
<1>1. ASSUME NEW j \in 1..m
      PROVE  d[h[j].name][h[j].idx] = c[h[j].name][h[j].idx]
  <2>1. /\ j \in 1..Len(h) /\ h[j].name \in Name /\ h[j].idx \in Nat \ {0}
    BY SlotFields
  <2>2. h[j].idx <= Len(c[h[j].name]) /\ Len(c[h[j].name]) \in Nat
    BY <2>1, Lengths DEF InBounds
  <2>3. h[j].idx \in 1..Len(c[h[j].name])
    BY <2>1, <2>2
  <2>4. QED
    BY <2>1, <2>3 DEF GrownFrom
<1>2. QED
  BY <1>1 DEF Kept
-----------------------------------------------------------------------------
(* Frames come and go *)

LEMMA EntryType ==
  ASSUME NEW s \in Seq(Frame), NEW k \in 1..Len(s)
  PROVE  /\ s[k] \in Frame /\ s[k].entry \in Contexts(Value) /\ s[k].mark \in Nat
         /\ s[1].entry \in Contexts(Value) /\ 1 \in 1..Len(s)
<1>1. s[k] \in Frame /\ s[1] \in Frame /\ 1 \in 1..Len(s)
  OBVIOUS
<1>2. QED
  BY <1>1 DEF Frame

LEMMA FewerFrames ==
  ASSUME NEW s \in Seq(Frame), NEW r \in Seq(Frame), r # <<>>, Len(r) <= Len(s),
         \A k \in 1..Len(r) : r[k].mark = s[k].mark /\ r[k].entry = s[k].entry,
         NEW h \in Seq(Slot), NEW c \in Contexts(Value)
  PROVE  /\ Framed(s, h, c) => Framed(r, h, c)
         /\ Owned(s, h, c) => Owned(r, h, c)
<1>1. /\ s # <<>> /\ Len(r) \in Nat /\ Len(s) \in Nat /\ 1 \in 1..Len(r)
      /\ \A k \in 1..Len(r) : k \in 1..Len(s)
      /\ r[1].mark = s[1].mark /\ r[1].entry = s[1].entry
  OBVIOUS
<1>2. Marked(s, h) => Marked(r, h)
  BY <1>1 DEF Marked
<1>3. Based(s, c) => Based(r, c)
  BY <1>1 DEF Based
<1>4. Parted(s, h) => Parted(r, h)
  BY <1>1 DEF Parted
<1>5. Owned(s, h, c) => Owned(r, h, c)
  BY <1>1 DEF Owned
<1>6. QED
  BY <1>2, <1>3, <1>4, <1>5 DEF Framed

(* A call marks the slots held and notes the context.                      *)
LEMMA MoreFrames ==
  ASSUME NEW s \in Seq(Frame), NEW r \in Seq(Frame), s # <<>>, Len(r) = Len(s) + 1,
         \A k \in 1..Len(s) : r[k].mark = s[k].mark /\ r[k].entry = s[k].entry,
         NEW h \in Seq(Slot), NEW c \in Contexts(Value), InBounds(h, c),
         r[Len(r)].mark = Len(h), r[Len(r)].entry = c
  PROVE  /\ Framed(s, h, c) => Framed(r, h, c)
         /\ Owned(s, h, c) => Owned(r, h, c)
<1>1. /\ Len(r) \in Nat /\ Len(s) \in Nat /\ Len(h) \in Nat
      /\ 1 \in 1..Len(s) /\ r # <<>>
      /\ \A k \in 1..Len(r) : k \in 1..Len(s) \/ k = Len(r)
      /\ r[1].mark = s[1].mark /\ r[1].entry = s[1].entry
  OBVIOUS
<1>2. Marked(s, h) => Marked(r, h)
  <2> SUFFICES ASSUME Marked(s, h) PROVE Marked(r, h)
    OBVIOUS
  <2>1. ASSUME NEW k \in 1..Len(r), NEW l \in 1..Len(r), k <= l
        PROVE  r[k].mark <= r[l].mark
    <3>1. CASE l \in 1..Len(s)
      BY <1>1, <2>1, <3>1 DEF Marked
    <3>2. CASE l = Len(r) /\ k \in 1..Len(s)
      BY <1>1, <2>1, <3>2 DEF Marked
    <3>3. CASE l = Len(r) /\ k = Len(r)
      BY <1>1, <2>1, <3>3
    <3>4. QED
      BY <1>1, <2>1, <3>1, <3>2, <3>3
  <2>2. \A k \in 1..Len(r) : r[k].mark <= Len(h)
    BY <1>1 DEF Marked
  <2>3. QED
    BY <1>1, <2>1, <2>2 DEF Marked
<1>3. Based(s, c) => Based(r, c)
  BY <1>1, GrownSelf DEF Based
<1>4. Parted(s, h) => Parted(r, h)
  <2> SUFFICES ASSUME Parted(s, h), NEW k \in 1..Len(r), NEW j \in 1..Len(h)
               PROVE  j <= r[k].mark <=> h[j].idx <= Len(r[k].entry[h[j].name])
    BY DEF Parted
  <2>1. CASE k \in 1..Len(s)
    BY <1>1, <2>1 DEF Parted
  <2>2. CASE k = Len(r)
    BY <1>1, <2>2 DEF InBounds
  <2>3. QED
    BY <1>1, <2>1, <2>2
<1>5. Owned(s, h, c) => Owned(r, h, c)
  BY <1>1 DEF Owned
<1>6. QED
  BY <1>2, <1>3, <1>4, <1>5 DEF Framed
-----------------------------------------------------------------------------
(* Slots come and go *)

LEMMA GrownFramed ==
  ASSUME NEW s \in Seq(Frame), NEW h \in Seq(Slot),
         NEW c \in Contexts(Value), NEW d \in Contexts(Value),
         Framed(s, h, c), GrownFrom(c, d)
  PROVE  Framed(s, h, d)
<1>1. ASSUME NEW k \in 1..Len(s) PROVE GrownFrom(s[k].entry, d)
  BY EntryType, GrownTransitive DEF Framed, Based
<1>2. QED
  BY <1>1 DEF Framed, Based

(* The value of a push is in the slot it returns, above every mark.        *)
LEMMA PushFramed ==
  ASSUME NEW s \in Seq(Frame), NEW h \in Seq(Slot), NEW c \in Contexts(Value),
         NEW n \in Name, NEW v \in Value, Framed(s, h, c)
  PROVE  LET g == Append(h, SlotOf(c, n))
             d == Push(c, n, v) IN
         /\ Framed(s, g, d)
         /\ Owned(s, h, c) => Owned(s, g, d)
         /\ Len(g) = Len(h) + 1 /\ \A j \in 1..Len(h) : g[j] = h[j]
         /\ g[Len(h) + 1].name = n /\ d[n][g[Len(h) + 1].idx] = v
<1> DEFINE g == Append(h, SlotOf(c, n))
           d == Push(c, n, v)
<1>1. /\ d \in Contexts(Value)
      /\ Len(d[n]) = Len(c[n]) + 1 /\ d[n][Len(c[n]) + 1] = v
      /\ \A k \in Name \ {n} : d[k] = c[k]
      /\ SlotOf(c, n).name = n /\ SlotOf(c, n).idx = Len(c[n]) + 1
  BY PushProperties DEF SlotOf
<1>2. GrownFrom(c, d)
  BY GrownPush
<1>3. Len(c[n]) \in Nat /\ Len(h) \in Nat
  BY Lengths
<1>4. /\ Len(g) = Len(h) + 1 /\ \A j \in 1..Len(h) : g[j] = h[j]
      /\ g[Len(h) + 1].name = n /\ g[Len(h) + 1].idx = Len(c[n]) + 1
  BY <1>1
<1> HIDE DEF g, d
<1>5. Framed(s, h, d)
  BY <1>1, <1>2, GrownFramed
<1>6. Marked(s, g)
  <2>1. \A k \in 1..Len(s) : s[k].mark \in Nat
    BY EntryType
  <2>2. QED
    BY <1>3, <1>4, <2>1 DEF Framed, Marked
<1>7. Parted(s, g)
  <2> SUFFICES ASSUME NEW k \in 1..Len(s), NEW j \in 1..Len(g)
               PROVE  j <= s[k].mark <=> g[j].idx <= Len(s[k].entry[g[j].name])
    BY DEF Parted
  <2>1. CASE j \in 1..Len(h)
    BY <1>4, <2>1 DEF Framed, Parted
  <2>2. CASE j = Len(h) + 1
    <3>1. s[k].mark \in Nat /\ s[k].entry \in Contexts(Value)
      BY EntryType
    <3>2. s[k].mark <= Len(h) /\ Len(s[k].entry[n]) <= Len(c[n])
      BY DEF Framed, Marked, Based, GrownFrom
    <3>3. Len(s[k].entry[n]) \in Nat
      BY <3>1, Lengths
    <3>4. QED
      BY <1>3, <1>4, <2>2, <3>1, <3>2, <3>3
  <2>3. QED
    BY <1>3, <1>4, <2>1, <2>2
<1>8. Owned(s, h, c) => Owned(s, g, d)
  <2> SUFFICES ASSUME Owned(s, h, c), s # <<>>, NEW k \in Name, NEW i \in 1..Len(d[k]),
                      i > Len(s[1].entry[k])
               PROVE  \E j \in 1..Len(g) : g[j].name = k /\ g[j].idx = i
    BY DEF Owned
  <2>1. CASE i \in 1..Len(c[k])
    <3>1. PICK j \in 1..Len(h) : h[j].name = k /\ h[j].idx = i
      BY <2>1 DEF Owned
    <3>2. j \in 1..Len(g) /\ g[j] = h[j]
      BY <1>3, <1>4
    <3>3. QED
      BY <3>1, <3>2
  <2>2. CASE k = n /\ i = Len(c[n]) + 1
    BY <1>3, <1>4, <2>2
  <2>3. i \in 1..Len(c[k]) \/ (k = n /\ i = Len(c[n]) + 1)
    BY <1>1, <1>3
  <2>4. QED
    BY <2>1, <2>2, <2>3
<1>9. QED
  BY <1>1, <1>4, <1>5, <1>6, <1>7, <1>8 DEF Framed, g, d

LEMMA PushKept ==
  ASSUME NEW h \in Seq(Slot), NEW c \in Contexts(Value), InBounds(h, c),
         NEW n \in Name, NEW v \in Value, NEW m \in Nat, m <= Len(h)
  PROVE  Kept(m, h, c, Append(h, SlotOf(c, n)), Push(c, n, v))
<1>1. Kept(m, h, c, h, Push(c, n, v))
  BY GrownPush, GrownKeeps, PushProperties
<1>2. /\ Len(h) \in Nat /\ Len(Append(h, SlotOf(c, n))) = Len(h) + 1
      /\ \A j \in 1..Len(h) : Append(h, SlotOf(c, n))[j] = h[j]
  OBVIOUS
<1>3. QED
  BY <1>1, <1>2 DEF Kept

(* Fewer slots are held; none that a mark covers is missing.               *)
LEMMA FewerSlots ==
  ASSUME NEW s \in Seq(Frame), NEW h \in Seq(Slot), NEW g \in Seq(Slot),
         NEW c \in Contexts(Value), Framed(s, h, c), Len(g) <= Len(h),
         \A j \in 1..Len(g) : g[j] = h[j],
         \A k \in 1..Len(s) : s[k].mark <= Len(g)
  PROVE  Framed(s, g, c)
<1>1. Marked(s, g)
  BY DEF Framed, Marked
<1>2. \A j \in 1..Len(g) : j \in 1..Len(h)
  OBVIOUS
<1>3. Parted(s, g)
  BY <1>2 DEF Framed, Parted
<1>4. QED
  BY <1>1, <1>3 DEF Framed

(* A slot above every mark is above every context noted at a call.         *)
LEMMA AboveMarks ==
  ASSUME NEW s \in Seq(Frame), NEW h \in Seq(Slot), NEW c \in Contexts(Value),
         Framed(s, h, c), NEW k \in 1..Len(s), NEW j \in 1..Len(h), s[k].mark < j
  PROVE  h[j].idx > Len(s[k].entry[h[j].name])
<1>1. ~(h[j].idx <= Len(s[k].entry[h[j].name]))
  <2>1. s[k].mark \in Nat /\ j \in Nat
    BY EntryType
  <2>2. ~(j <= s[k].mark)
    BY <2>1
  <2>3. QED
    BY <2>2 DEF Framed, Parted
<1>2. h[j].idx \in Nat /\ h[j].name \in Name /\ s[k].entry \in Contexts(Value)
  BY EntryType, SlotFields
<1>3. Len(s[k].entry[h[j].name]) \in Nat
  BY <1>2, Lengths
<1>4. QED
  BY <1>1, <1>2, <1>3

(* Popping the slot held last, above every mark, leaves what the contexts  *)
(* noted at the calls say; when every value above the first of them has    *)
(* its slot, the one popped is the last of its name.                       *)
LEMMA PopFramed ==
  ASSUME NEW s \in Seq(Frame), NEW h \in Seq(Slot), NEW c \in Contexts(Value),
         h # <<>>, Ordered(h), InBounds(h, c), Framed(s, h, c),
         \A k \in 1..Len(s) : s[k].mark < Len(h)
  PROVE  LET d == Pop(c, Last(h).idx, Last(h).name) IN
         /\ Framed(s, Front(h), d)
         /\ s # <<>> /\ Owned(s, h, c) => Owned(s, Front(h), d)
<1> DEFINE l == Last(h)
           g == Front(h)
           d == Pop(c, l.idx, l.name)
<1>0. \A k \in 1..Len(s), j \in 1..Len(h) :
        s[k].mark < j => h[j].idx > Len(s[k].entry[h[j].name])
  BY AboveMarks
<1>1. /\ Len(h) \in Nat \ {0} /\ l = h[Len(h)] /\ Len(h) \in 1..Len(h)
      /\ l.name \in Name /\ l.idx \in 1..Len(c[l.name]) /\ l.idx \in Nat \ {0}
      /\ Len(c[l.name]) \in Nat
      /\ g \in Seq(Slot) /\ Len(g) = Len(h) - 1
      /\ \A j \in 1..Len(g) : g[j] = h[j]
      /\ d \in Contexts(Value)
  <2>1. /\ Len(h) \in Nat \ {0} /\ l = h[Len(h)]
        /\ \A j \in 1..(Len(h) - 1) : g[j] = h[j]
    BY LastFront
  <2>2. /\ l \in Slot /\ l.idx \in 1..Len(c[l.name])
        /\ g \in Seq(Slot) /\ Len(g) = Len(h) - 1 /\ d \in Contexts(Value)
    BY PopSlot
  <2>3. l.name \in Name /\ l.idx \in Nat \ {0}
    BY <2>2 DEF Slot
  <2>4. QED
    BY <2>1, <2>2, <2>3, Lengths
<1>2. /\ Len(d[l.name]) = Len(c[l.name]) - 1
      /\ \A j \in 1..(Len(c[l.name]) - 1) :
           d[l.name][j] = IF j < l.idx THEN c[l.name][j] ELSE c[l.name][j + 1]
      /\ \A n \in Name \ {l.name} : d[n] = c[n]
  <2>1. l.name \in Name /\ l.idx \in 1..Len(c[l.name])
    BY <1>1
  <2>2. QED
    BY <2>1, PopProperties
<1> HIDE DEF l, g, d
<1>3. ASSUME NEW k \in 1..Len(s) PROVE GrownFrom(s[k].entry, d)
  <2>1. GrownFrom(s[k].entry, c) /\ s[k].entry \in Contexts(Value)
    BY EntryType DEF Framed, Based
  <2>2. l.idx > Len(s[k].entry[l.name]) /\ Len(s[k].entry[l.name]) \in Nat
    BY <1>0, <1>1, <2>1, Lengths
  <2>3. /\ Len(s[k].entry[l.name]) <= Len(d[l.name])
        /\ \A i \in 1..Len(s[k].entry[l.name]) : d[l.name][i] = s[k].entry[l.name][i]
    <3>1. /\ Len(s[k].entry[l.name]) <= Len(c[l.name])
          /\ \A i \in 1..Len(s[k].entry[l.name]) : c[l.name][i] = s[k].entry[l.name][i]
      BY <1>1, <2>1 DEF GrownFrom
    <3>2. ASSUME NEW i \in 1..Len(s[k].entry[l.name])
          PROVE  d[l.name][i] = c[l.name][i]
      <4>1. i \in 1..(Len(c[l.name]) - 1) /\ i < l.idx
        BY <1>1, <2>2
      <4>2. QED
        BY <1>2, <4>1
    <3>3. Len(s[k].entry[l.name]) <= Len(d[l.name])
      <4>1. Len(s[k].entry[l.name]) <= Len(c[l.name]) - 1
        BY <1>1, <2>2
      <4>2. Len(d[l.name]) = Len(c[l.name]) - 1
        BY <1>2
      <4>3. QED
        BY <4>1, <4>2
    <3>4. QED
      BY <3>1, <3>2, <3>3
  <2>4. QED
    BY <1>2, <2>1, <2>3 DEF GrownFrom
<1>4. Framed(s, g, d)
  <2>1. \A k \in 1..Len(s) : s[k].mark <= Len(g)
    <3>1. \A k \in 1..Len(s) : s[k].mark \in Nat
      BY EntryType
    <3>2. QED
      BY <1>1, <3>1
  <2>2. Framed(s, g, c)
    <3>1. g \in Seq(Slot) /\ Len(g) <= Len(h) /\ \A j \in 1..Len(g) : g[j] = h[j]
      BY <1>1
    <3>2. QED
      BY <2>1, <3>1, FewerSlots
  <2>3. QED
    BY <1>3, <2>2 DEF Framed, Based
<1>5. ASSUME s # <<>>, Owned(s, h, c) PROVE Owned(s, g, d)
  <2>1. 1 \in 1..Len(s) /\ s[1].entry \in Contexts(Value)
    <3>1. 1 \in 1..Len(s)
      BY <1>5
    <3>2. QED
      BY <3>1, EntryType
  <2>2. l.idx = Len(c[l.name])
    <3>0. l.idx \in 1..Len(c[l.name]) /\ Len(c[l.name]) \in Nat
      BY <1>1, Lengths
    <3> SUFFICES ASSUME l.idx < Len(c[l.name]) PROVE FALSE
      BY <3>0
    <3>1. l.idx > Len(s[1].entry[l.name]) /\ Len(s[1].entry[l.name]) \in Nat
      <4>1. Len(s[1].entry[l.name]) \in Nat
        BY <1>1, <2>1, Lengths
      <4>2. s[1].mark < Len(h) /\ Len(h) \in 1..Len(h)
        BY <1>1, <2>1
      <4>3. h[Len(h)].idx > Len(s[1].entry[h[Len(h)].name])
        BY <1>0, <2>1, <4>2
      <4>4. QED
        BY <1>1, <4>1, <4>3
    <3>2. PICK j \in 1..Len(h) : h[j].name = l.name /\ h[j].idx = Len(c[l.name])
      <4>1. Len(c[l.name]) \in 1..Len(c[l.name]) /\ Len(c[l.name]) > Len(s[1].entry[l.name])
        <5>1. Len(c[l.name]) \in Nat /\ l.idx \in Nat /\ l.idx < Len(c[l.name])
          BY <3>0
        <5>2. Len(c[l.name]) > Len(s[1].entry[l.name])
          BY <3>1, <5>1
        <5>3. Len(c[l.name]) \in 1..Len(c[l.name])
          BY <5>1
        <5>4. QED
          BY <5>2, <5>3
      <4>2. l.name \in Name
        BY <1>1
      <4>3. QED
        BY <1>5, <4>1, <4>2 DEF Owned
    <3>3. CASE j = Len(h)
      BY <1>1, <3>2, <3>3
    <3>4. CASE j < Len(h)
      <4>1. h[j].idx < h[Len(h)].idx
        BY <1>1, <3>2, <3>4 DEF Ordered
      <4>2. QED
        BY <1>1, <3>2, <4>1
    <3>5. QED
      BY <1>1, <3>3, <3>4
  <2>3. SUFFICES ASSUME NEW n \in Name, NEW i \in 1..Len(d[n]), i > Len(s[1].entry[n])
                 PROVE  \E j \in 1..Len(g) : g[j].name = n /\ g[j].idx = i
    BY DEF Owned
  <2>4. i \in 1..Len(c[n]) /\ (n = l.name => i # l.idx)
    BY <1>1, <1>2, <2>2
  <2>5. PICK j \in 1..Len(h) : h[j].name = n /\ h[j].idx = i
    BY <1>5, <2>3, <2>4 DEF Owned
  <2>6. j # Len(h)
    BY <1>1, <2>4, <2>5
  <2>7. j \in 1..Len(g) /\ g[j] = h[j]
    BY <1>1, <2>6
  <2>8. QED
    BY <2>5, <2>7
<1>6. QED
  BY <1>4, <1>5 DEF l, g, d

(* Popping the slot held last leaves the values in the others.             *)
LEMMA PopKept ==
  ASSUME NEW h \in Seq(Slot), NEW c \in Contexts(Value), h # <<>>,
         Ordered(h), InBounds(h, c), NEW m \in Nat, m < Len(h)
  PROVE  Kept(m, h, c, Front(h), Pop(c, Last(h).idx, Last(h).name))
<1> DEFINE l == Last(h)
           d == Pop(c, l.idx, l.name)
<1>1. /\ Len(h) \in Nat \ {0} /\ l = h[Len(h)] /\ l \in Slot /\ l.name \in Name
      /\ l.idx \in 1..Len(c[l.name]) /\ Len(Front(h)) = Len(h) - 1
      /\ \A j \in 1..(Len(h) - 1) : Front(h)[j] = h[j]
  <2>1. /\ Len(h) \in Nat \ {0} /\ l = h[Len(h)]
        /\ \A j \in 1..(Len(h) - 1) : Front(h)[j] = h[j]
    BY LastFront
  <2>2. l \in Slot /\ l.idx \in 1..Len(c[l.name]) /\ Len(Front(h)) = Len(h) - 1
    BY PopSlot
  <2> HIDE DEF l
  <2>3. l.name \in Name
    BY <2>2 DEF Slot
  <2>4. QED
    BY <2>1, <2>2, <2>3
<1>2. /\ \A j \in 1..(Len(c[l.name]) - 1) :
           d[l.name][j] = IF j < l.idx THEN c[l.name][j] ELSE c[l.name][j + 1]
      /\ \A n \in Name \ {l.name} : d[n] = c[n]
  <2>1. l.name \in Name /\ l.idx \in 1..Len(c[l.name])
    BY <1>1
  <2>2. QED
    BY <2>1, PopProperties
<1> HIDE DEF l, d
<1>3. ASSUME NEW j \in 1..m PROVE d[h[j].name][h[j].idx] = c[h[j].name][h[j].idx]
  <2>1. /\ j \in 1..Len(h) /\ j < Len(h) /\ Len(h) \in 1..Len(h)
        /\ h[j].name \in Name /\ h[j].idx \in Nat \ {0}
    <3>1. j \in 1..Len(h) /\ j < Len(h) /\ Len(h) \in 1..Len(h)
      BY <1>1
    <3>2. QED
      BY <3>1, SlotFields
  <2>2. CASE h[j].name = l.name
    <3>1. h[j].idx < l.idx /\ l.idx <= Len(c[l.name]) /\ l.idx \in Nat
          /\ Len(c[l.name]) \in Nat
      <4>1. h[j].idx < h[Len(h)].idx
        BY <1>1, <2>1, <2>2 DEF Ordered
      <4>2. Len(c[l.name]) \in Nat
        BY <1>1, Lengths
      <4>3. QED
        BY <1>1, <4>1, <4>2
    <3>2. h[j].idx \in 1..(Len(c[l.name]) - 1)
      BY <2>1, <3>1
    <3>3. d[l.name][h[j].idx] = c[l.name][h[j].idx]
      BY <1>2, <3>1, <3>2
    <3>4. QED
      BY <2>2, <3>3
  <2>3. CASE h[j].name # l.name
    BY <1>2, <2>1, <2>3
  <2>4. QED
    BY <2>2, <2>3
<1>4. QED
  BY <1>1, <1>3 DEF Kept, l, d

(* A loop's variable is in the slot held last.                             *)
LEMMA SetFramed ==
  ASSUME NEW s \in Seq(Frame), NEW h \in Seq(Slot), NEW c \in Contexts(Value),
         h # <<>>, Ordered(h), InBounds(h, c), Framed(s, h, c), NEW v \in Value,
         \A k \in 1..Len(s) : s[k].mark < Len(h)
  PROVE  LET d == Set(c, Last(h).idx, Last(h).name, v) IN
         /\ Framed(s, h, d)
         /\ Owned(s, h, c) => Owned(s, h, d)
         /\ d[Last(h).name][Last(h).idx] = v
         /\ \A m \in Nat : m < Len(h) => Kept(m, h, c, h, d)
<1> DEFINE l == Last(h)
           d == Set(c, l.idx, l.name, v)
<1>1. /\ Len(h) \in Nat \ {0} /\ l = h[Len(h)] /\ Len(h) \in 1..Len(h)
      /\ l.name \in Name /\ l.idx \in Nat \ {0} /\ l.idx <= Len(c[l.name])
      /\ Len(c[l.name]) \in Nat
  <2>1. Len(h) \in Nat \ {0} /\ l = h[Len(h)] /\ Len(h) \in 1..Len(h)
    <3>1. Len(h) \in Nat \ {0} /\ l = h[Len(h)]
      BY LastFront
    <3>2. QED
      BY <3>1
  <2>2. l.name \in Name /\ l.idx \in Nat \ {0}
    BY <2>1, SlotFields
  <2>3. QED
    BY <2>1, <2>2, Lengths DEF InBounds
<1>2. /\ d \in Contexts(Value) /\ \A n \in Name : Len(d[n]) = Len(c[n])
      /\ d[l.name][l.idx] = v
      /\ \A j \in 1..Len(c[l.name]) : j # l.idx => d[l.name][j] = c[l.name][j]
      /\ \A n \in Name \ {l.name} : d[n] = c[n]
  <2>1. l.name \in Name /\ l.idx \in Nat \ {0} /\ l.idx <= Len(c[l.name])
    BY <1>1
  <2> DEFINE n == l.name
             i == l.idx
  <2> HIDE DEF l
  <2>2. n \in Name /\ i \in Nat \ {0} /\ i <= Len(c[n])
    BY <2>1
  <2> HIDE DEF n, i
  <2>3. /\ Set(c, i, n, v) \in Contexts(Value)
        /\ \A k \in Name : Len(Set(c, i, n, v)[k]) = Len(c[k])
        /\ Set(c, i, n, v)[n][i] = v
        /\ \A j \in 1..Len(c[n]) : j # i => Set(c, i, n, v)[n][j] = c[n][j]
        /\ \A k \in Name \ {n} : Set(c, i, n, v)[k] = c[k]
    BY <2>2, SetProperties
  <2>4. QED
    BY <2>3 DEF n, i
<1> HIDE DEF l, d
<1>3. ASSUME NEW k \in 1..Len(s) PROVE GrownFrom(s[k].entry, d)
  <2>1. GrownFrom(s[k].entry, c) /\ s[k].entry \in Contexts(Value)
    BY EntryType DEF Framed, Based
  <2>2. l.idx > Len(s[k].entry[l.name]) /\ Len(s[k].entry[l.name]) \in Nat
    BY <1>1, <2>1, AboveMarks, Lengths
  <2>3. ASSUME NEW i \in 1..Len(s[k].entry[l.name])
        PROVE  d[l.name][i] = s[k].entry[l.name][i]
    <3>1. i \in 1..Len(c[l.name]) /\ i # l.idx
      BY <1>1, <2>2
    <3>2. c[l.name][i] = s[k].entry[l.name][i]
      BY <1>1, <2>1 DEF GrownFrom
    <3>3. QED
      BY <1>2, <3>1, <3>2
  <2>4. QED
    BY <1>2, <2>1, <2>3 DEF GrownFrom
<1>4. Framed(s, h, d)
  BY <1>3 DEF Framed, Based
<1>5. Owned(s, h, c) => Owned(s, h, d)
  BY <1>2 DEF Owned
<1>6. ASSUME NEW m \in Nat, m < Len(h) PROVE Kept(m, h, c, h, d)
  <2>1. ASSUME NEW j \in 1..m PROVE d[h[j].name][h[j].idx] = c[h[j].name][h[j].idx]
    <3>1. /\ j \in 1..Len(h) /\ j < Len(h) /\ h[j].name \in Name
          /\ h[j].idx \in Nat \ {0} /\ h[j].idx <= Len(c[h[j].name])
      <4>1. j \in 1..Len(h) /\ j < Len(h)
        BY <1>1, <1>6
      <4>2. QED
        BY <4>1, SlotFields DEF InBounds
    <3>2. CASE h[j].name = l.name
      <4>1. h[j].idx < l.idx
        BY <1>1, <3>1, <3>2 DEF Ordered
      <4>2. h[j].idx \in 1..Len(c[l.name]) /\ h[j].idx # l.idx
        BY <1>1, <3>1, <3>2, <4>1
      <4>3. QED
        BY <1>2, <3>2, <4>2
    <3>3. CASE h[j].name # l.name
      BY <1>2, <3>1, <3>3
    <3>4. QED
      BY <3>2, <3>3
  <2>2. QED
    BY <1>1, <1>6, <2>1 DEF Kept
<1>7. QED
  BY <1>2, <1>4, <1>5, <1>6 DEF l, d
-----------------------------------------------------------------------------
(* The invariant after the steps that have the same shape *)

LEMMA LoopKept ==
  ASSUME NEW h \in Seq(Slot), NEW g \in Seq(Slot), NEW c, NEW d, NEW k, NEW f,
         NEW end \in Nat, NEW m \in Nat, end <= m,
         LoopHolds(k, f, end, h, c), Kept(m, h, c, g, d)
  PROVE  LoopHolds(k, f, end, g, d)
<1>1. /\ 2 <= end /\ m <= Len(g) /\ Len(g) \in Nat
      /\ end \in 1..m /\ end - 1 \in 1..m
  BY DEF LoopHolds, Kept
<1>2. /\ g[end] = h[end] /\ d[h[end].name][h[end].idx] = c[h[end].name][h[end].idx]
      /\ g[end - 1] = h[end - 1]
      /\ d[h[end - 1].name][h[end - 1].idx] = c[h[end - 1].name][h[end - 1].idx]
  BY <1>1 DEF Kept
<1>3. end <= Len(g)
  BY <1>1
<1>4. QED
  BY <1>2, <1>3 DEF LoopHolds

LEMMA ScopeInvAfter ==
  ASSUME Framed(stack', held', ctx'), Loops(stack, held, ctx)',
         ~ Fatal' => Owned(stack', held', ctx'),
         phase' = "run" /\ Top'.loop = "no" => Top'.v = Nil
  PROVE  ScopeInv'
  BY DEF ScopeInv, Framed, Marked, Based, Parted, Owned, GrownFrom

(* The frames below the top one, and their loops, are not touched by what  *)
(* the top one does to its own slots.                                      *)
LEMMA LoopsBelow ==
  ASSUME Inv, ScopeInv, stack # <<>>, Kept(Top.mark, held, ctx, held', ctx'),
         UNCHANGED tree, held' \in Seq(Slot), NEW k \in 1..(Len(stack) - 1), stack[k].loop # "no"
  PROVE  /\ stack[k + 1].mark \in Nat
         /\ LoopHolds(k, stack[k], stack[k + 1].mark, held', ctx')
<1>1. /\ stack \in Seq(Frame) /\ held \in Seq(Slot) /\ Len(stack) \in Nat \ {0}
      /\ Top = stack[Len(stack)] /\ k \in 1..Len(stack) /\ k + 1 \in 1..Len(stack)
      /\ Len(stack) \in 1..Len(stack) /\ k # Len(stack)
  BY TopType DEF Inv, TypeOK
<1>2. stack[k + 1].mark \in Nat /\ Top.mark \in Nat
  BY <1>1, EntryType
<1>3. stack[k + 1].mark <= Top.mark
  BY <1>1 DEF ScopeInv, Framed, Marked
<1>4. LoopHolds(k, stack[k], stack[k + 1].mark, held, ctx)
  BY <1>1 DEF ScopeInv, Loops
<1>5. QED
  BY <1>1, <1>2, <1>3, <1>4, LoopKept

(* The top frame becomes f, or stays.                                      *)
LEMMA GoOnScope ==
  ASSUME Inv, ScopeInv, stack # <<>>, NEW f \in Frame,
         stack' \in Seq(Frame), Len(stack') = Len(stack), stack'[Len(stack)] = f,
         \A i \in 1..(Len(stack) - 1) : stack'[i] = stack[i],
         f.mark = Top.mark, f.entry = Top.entry, UNCHANGED tree,
         held' \in Seq(Slot), ctx' \in Contexts(Value),
         Framed(stack, held', ctx'), Kept(Top.mark, held, ctx, held', ctx'),
         f.loop # "no" => LoopHolds(Len(stack), f, Len(held'), held', ctx'),
         ~ Fatal' => Owned(stack, held', ctx'),
         phase' = "run" /\ f.loop = "no" => f.v = Nil
  PROVE  ScopeInv'
<1>1. /\ stack \in Seq(Frame) /\ Len(stack) \in Nat \ {0}
      /\ Top = stack[Len(stack)] /\ stack' # <<>>
  BY TopType DEF Inv, TypeOK
<1>2. Top' = f
  BY <1>1 DEF Top, Last
<1>3. \A k \in 1..Len(stack') : stack'[k].mark = stack[k].mark /\ stack'[k].entry = stack[k].entry
  <2> SUFFICES ASSUME NEW k \in 1..Len(stack')
               PROVE  stack'[k].mark = stack[k].mark /\ stack'[k].entry = stack[k].entry
    OBVIOUS
  <2>1. CASE k = Len(stack)
    BY <1>1, <2>1
  <2>2. CASE k \in 1..(Len(stack) - 1)
    BY <2>2
  <2>3. QED
    BY <1>1, <2>1, <2>2
<1>4. /\ Framed(stack', held', ctx')
      /\ Owned(stack, held', ctx') => Owned(stack', held', ctx')
  <2>1. Len(stack') <= Len(stack)
    BY <1>1
  <2>2. QED
    BY <1>1, <1>3, <2>1, FewerFrames
<1>5. Loops(stack, held, ctx)'
  <2>1. SUFFICES ASSUME NEW k \in 1..Len(stack'), stack'[k].loop # "no"
                 PROVE  LoopHolds(k, stack'[k],
                                  IF k = Len(stack') THEN Len(held') ELSE stack'[k + 1].mark,
                                  held', ctx')
    BY DEF Loops, LoopHolds, NodeAt
  <2>2. CASE k = Len(stack)
    BY <2>1, <2>2
  <2>3. CASE k \in 1..(Len(stack) - 1)
    <3>1. stack'[k] = stack[k] /\ k + 1 \in 1..Len(stack') /\ k # Len(stack')
      BY <1>1, <2>3
    <3>2. LoopHolds(k, stack[k], stack[k + 1].mark, held', ctx')
      BY <2>1, <2>3, <3>1, LoopsBelow
    <3>3. QED
      BY <1>3, <3>1, <3>2
  <2>4. QED
    BY <1>1, <2>2, <2>3
<1>6. QED
  BY <1>2, <1>4, <1>5, ScopeInvAfter

(* The top frame, become g, has called _execute for a frame f.             *)
LEMMA EnterScope ==
  ASSUME Inv, ScopeInv, stack # <<>>, NEW g \in Frame, NEW f \in Frame,
         stack' \in Seq(Frame), Len(stack') = Len(stack) + 1,
         stack'[Len(stack)] = g, stack'[Len(stack) + 1] = f,
         \A i \in 1..(Len(stack) - 1) : stack'[i] = stack[i],
         g.mark = Top.mark, g.entry = Top.entry, UNCHANGED <<tree, held>>,
         f.mark = Len(held), f.entry = ctx', f.loop = "no", f.v = Nil,
         ctx' \in Contexts(Value), InBounds(held, ctx'),
         Framed(stack, held, ctx'), Owned(stack, held, ctx'),
         Kept(Top.mark, held, ctx, held, ctx'),
         g.loop # "no" => LoopHolds(Len(stack), g, Len(held), held, ctx')
  PROVE  ScopeInv'
<1>1. /\ stack \in Seq(Frame) /\ Len(stack) \in Nat \ {0} /\ held \in Seq(Slot)
      /\ Top = stack[Len(stack)] /\ held' = held
  BY TopType DEF Inv, TypeOK
<1>2. Top' = f
  BY <1>1 DEF Top, Last
<1>3. \A k \in 1..Len(stack) : stack'[k].mark = stack[k].mark /\ stack'[k].entry = stack[k].entry
  <2> SUFFICES ASSUME NEW k \in 1..Len(stack)
               PROVE  stack'[k].mark = stack[k].mark /\ stack'[k].entry = stack[k].entry
    OBVIOUS
  <2>1. CASE k = Len(stack)
    BY <1>1, <2>1
  <2>2. CASE k \in 1..(Len(stack) - 1)
    BY <2>2
  <2>3. QED
    BY <1>1, <2>1, <2>2
<1>4. Framed(stack', held', ctx') /\ Owned(stack', held', ctx')
  <2>1. stack'[Len(stack')].mark = Len(held) /\ stack'[Len(stack')].entry = ctx'
    OBVIOUS
  <2>2. Framed(stack', held, ctx') /\ Owned(stack', held, ctx')
    BY <1>1, <1>3, <2>1, MoreFrames
  <2>3. QED
    BY <1>1, <2>2
<1>5. Loops(stack, held, ctx)'
  <2>1. SUFFICES ASSUME NEW k \in 1..Len(stack'), stack'[k].loop # "no"
                 PROVE  LoopHolds(k, stack'[k],
                                  IF k = Len(stack') THEN Len(held') ELSE stack'[k + 1].mark,
                                  held', ctx')
    BY DEF Loops, LoopHolds, NodeAt
  <2>2. CASE k = Len(stack)
    <3>1. k # Len(stack') /\ stack'[k + 1].mark = Len(held)
      BY <1>1, <2>2
    <3>2. QED
      BY <1>1, <2>1, <2>2, <3>1
  <2>3. CASE k \in 1..(Len(stack) - 1)
    <3>1. stack'[k] = stack[k] /\ k + 1 \in 1..Len(stack) /\ k # Len(stack')
      BY <1>1, <2>3
    <3>2. LoopHolds(k, stack[k], stack[k + 1].mark, held', ctx')
      BY <1>1, <2>1, <2>3, <3>1, LoopsBelow
    <3>3. QED
      BY <1>3, <3>1, <3>2
  <2>4. CASE k = Len(stack) + 1
    BY <2>1, <2>4
  <2>5. QED
    BY <1>1, <2>2, <2>3, <2>4
<1>6. QED
  BY <1>2, <1>4, <1>5, ScopeInvAfter

(* The top frame has popped its slots and is gone.  Its caller, become f,  *)
(* goes on with its loop or has none.                                      *)
LEMMA LeaveScope ==
  ASSUME Inv, ScopeInv, Len(stack) > 1, Len(held) = Top.mark, NEW f \in Frame,
         stack' \in Seq(Frame), Len(stack') = Len(stack) - 1, stack'[Len(stack) - 1] = f,
         \A i \in 1..(Len(stack) - 2) : stack'[i] = stack[i],
         f.mark = Caller.mark, f.entry = Caller.entry, UNCHANGED <<tree, ctx>>,
         held' \in Seq(Slot), Len(held') <= Len(held), Caller.mark <= Len(held'),
         \A j \in 1..Len(held') : held'[j] = held[j],
         f.loop # "no" => f = Caller /\ held' = held,
         ~ Fatal' => ~ Fatal /\ held' = held,
         phase' = "run" /\ f.loop = "no" => f.v = Nil
  PROVE  ScopeInv'
<1>1. /\ stack \in Seq(Frame) /\ Len(stack) \in Nat /\ held \in Seq(Slot)
      /\ ctx \in Contexts(Value) /\ ctx' = ctx /\ stack # <<>> /\ stack' # <<>>
      /\ Top = stack[Len(stack)] /\ Caller = stack[Len(stack) - 1]
      /\ Len(held') \in Nat /\ Len(held) \in Nat
  BY TopType DEF Inv, TypeOK, Caller
<1>2. Top' = f
  BY <1>1 DEF Top, Last
<1>3. ASSUME NEW k \in 1..Len(stack')
      PROVE  /\ k \in 1..Len(stack) /\ stack'[k].mark = stack[k].mark
             /\ stack'[k].entry = stack[k].entry /\ stack[k].mark \in Nat
             /\ stack[k].mark <= Len(held')
  <2>1. k \in 1..Len(stack) /\ Len(stack) - 1 \in 1..Len(stack) /\ k <= Len(stack) - 1
    BY <1>1
  <2>2. stack[k].mark <= Caller.mark
    BY <1>1, <2>1 DEF ScopeInv, Framed, Marked
  <2>3. stack[k].mark \in Nat /\ Caller.mark \in Nat
    BY <1>1, <2>1, EntryType
  <2>4. stack[k].mark <= Len(held')
    BY <1>1, <2>2, <2>3
  <2>5. CASE k = Len(stack) - 1
    BY <1>1, <2>1, <2>3, <2>4, <2>5
  <2>6. CASE k \in 1..(Len(stack) - 2)
    BY <2>1, <2>3, <2>4, <2>6
  <2>7. QED
    BY <1>1, <2>1, <2>5, <2>6
<1>4. /\ Framed(stack', held, ctx)
      /\ Owned(stack, held, ctx) => Owned(stack', held, ctx)
  <2>1. Len(stack') <= Len(stack)
    BY <1>1
  <2>2. QED
    BY <1>1, <1>3, <2>1, FewerFrames DEF ScopeInv
<1>5. Framed(stack', held', ctx')
  <2>1. \A k \in 1..Len(stack') : stack'[k].mark <= Len(held')
    BY <1>3
  <2>2. QED
    BY <1>1, <1>4, <2>1, FewerSlots
<1>6. ~ Fatal' => Owned(stack', held', ctx')
  BY <1>1, <1>4 DEF ScopeInv
<1>7. Loops(stack, held, ctx)'
  <2>1. SUFFICES ASSUME NEW k \in 1..Len(stack'), stack'[k].loop # "no"
                 PROVE  LoopHolds(k, stack'[k],
                                  IF k = Len(stack') THEN Len(held') ELSE stack'[k + 1].mark,
                                  held', ctx')
    BY DEF Loops, LoopHolds, NodeAt
  <2>2. CASE k = Len(stack) - 1
    <3>1. stack'[k] = stack[k] /\ held' = held /\ k \in 1..Len(stack) /\ k # Len(stack)
          /\ k + 1 = Len(stack) /\ k = Len(stack')
      BY <1>1, <2>1, <2>2
    <3>2. LoopHolds(k, stack[k], stack[k + 1].mark, held, ctx)
      BY <2>1, <3>1 DEF ScopeInv, Loops
    <3>3. stack[k + 1].mark = Len(held)
      BY <1>1, <3>1
    <3>4. QED
      BY <1>1, <3>1, <3>2, <3>3
  <2>3. CASE k \in 1..(Len(stack) - 2)
    <3>1. /\ stack'[k] = stack[k] /\ k + 1 \in 1..Len(stack') /\ k # Len(stack')
          /\ k \in 1..Len(stack) /\ k # Len(stack)
      BY <1>1, <2>3
    <3>2. LoopHolds(k, stack[k], stack[k + 1].mark, held, ctx)
      BY <2>1, <3>1 DEF ScopeInv, Loops
    <3>3. /\ stack'[k + 1].mark = stack[k + 1].mark
          /\ stack[k + 1].mark \in Nat /\ stack[k + 1].mark <= Len(held')
      BY <1>3, <3>1
    <3>4. Kept(stack[k + 1].mark, held, ctx, held', ctx')
      BY <1>1, <3>3 DEF Kept
    <3>5. LoopHolds(k, stack[k], stack[k + 1].mark, held', ctx')
      BY <1>1, <3>2, <3>3, <3>4, LoopKept
    <3>6. QED
      BY <3>1, <3>3, <3>5
  <2>4. QED
    BY <1>1, <2>2, <2>3
<1>8. QED
  BY <1>2, <1>5, <1>6, <1>7, ScopeInvAfter
-----------------------------------------------------------------------------
(* The control operators of the actions *)

LEMMA RunningScope ==
  ASSUME Inv, ScopeInv, phase = "run"
  PROVE  /\ stack \in Seq(Frame) /\ stack # <<>> /\ Len(stack) \in Nat \ {0}
         /\ Top \in Frame /\ Top = stack[Len(stack)] /\ Len(stack) \in 1..Len(stack)
         /\ held \in Seq(Slot) /\ Len(held) \in Nat /\ ctx \in Contexts(Value)
         /\ Ordered(held) /\ InBounds(held, ctx)
         /\ Framed(stack, held, ctx) /\ Owned(stack, held, ctx)
         /\ Top.mark \in Nat /\ Top.mark <= Len(held)
         /\ Top.loop = "no" => Top.v = Nil
<1>1. ~ Fatal
  BY DEF Fatal
<1>2. stack \in Seq(Frame) /\ held \in Seq(Slot) /\ Len(held) \in Nat /\ ctx \in Contexts(Value)
  BY DEF Inv, TypeOK
<1>3. Len(stack) \in 1..Len(stack) /\ stack # <<>> /\ Len(stack) \in Nat \ {0}
      /\ Top = stack[Len(stack)] /\ Top \in Frame
  BY <1>2, Running
<1>4. QED
  BY <1>1, <1>2, <1>3, Running DEF ScopeInv, Inv, SlotsOK

LEMMA NothingMoved ==
  ASSUME Inv, stack # <<>>, Top.mark <= Len(held)
  PROVE  Kept(Top.mark, held, ctx, held, ctx)
  BY DEF Kept

LEMMA ReplacedTop ==
  ASSUME Inv, stack # <<>>, NEW f \in Frame
  PROVE  /\ ReplaceTop(stack, f) \in Seq(Frame) /\ Len(ReplaceTop(stack, f)) = Len(stack)
         /\ ReplaceTop(stack, f)[Len(stack)] = f
         /\ \A i \in 1..(Len(stack) - 1) : ReplaceTop(stack, f)[i] = stack[i]
<1>1. stack \in Seq(Frame) /\ Len(stack) \in Nat \ {0}
  BY DEF Inv, TypeOK
<1>2. /\ ReplaceTop(stack, f) \in Seq(Frame) /\ Len(ReplaceTop(stack, f)) = Len(stack)
      /\ Last(ReplaceTop(stack, f)) = f
      /\ \A i \in 1..(Len(stack) - 1) : ReplaceTop(stack, f)[i] = stack[i]
  BY <1>1, ReplaceTopProperties
<1>3. QED
  BY <1>1, <1>2 DEF Last

LEMMA AdvancedFields ==
  ASSUME NEW f \in Frame
  PROVE  /\ Advanced(f) \in Frame
         /\ Advanced(f).loop = "no" /\ Advanced(f).v = Nil
         /\ Advanced(f).mark = f.mark /\ Advanced(f).entry = f.entry
<1>1. f.pc + 1 \in Nat \ {0} /\ Nil \in Value
  BY DEF Frame, Value, Literal
<1>2. Advanced(f) = [t |-> f.t, list |-> f.list, pc |-> f.pc + 1,
                     depth |-> f.depth, mark |-> f.mark, args |-> 0,
                     loop |-> "no", i |-> 0, v |-> Nil, entry |-> f.entry]
  BY DEF Advanced, NewFrame, Frame
<1>3. QED
  BY <1>1, <1>2 DEF Frame

LEMMA FailScope ==
  ASSUME Inv, ScopeInv, phase = "run", Top.loop = "no",
         NEW stop, NEW err, Fail(stop, err), UNCHANGED <<tree, held>>,
         UNCHANGED ctx \/ (/\ ctx' \in Contexts(Value) /\ GrownFrom(ctx, ctx')
                           /\ stop = TRUE /\ err # "ok")
  PROVE  ScopeInv'
<1>1. /\ stack \in Seq(Frame) /\ stack # <<>> /\ Top \in Frame /\ Top = stack[Len(stack)]
      /\ held \in Seq(Slot) /\ ctx \in Contexts(Value) /\ InBounds(held, ctx)
      /\ Framed(stack, held, ctx) /\ Owned(stack, held, ctx)
      /\ Top.mark \in Nat /\ Top.mark <= Len(held)
  BY RunningScope
<1>2. /\ stack' = stack /\ held' = held /\ tree' = tree /\ phase' = "unwind"
      /\ ret' = [stop |-> stop, err |-> err]
  BY DEF Fail, Return
<1>3. /\ ctx' \in Contexts(Value) /\ Framed(stack, held, ctx')
      /\ Kept(Top.mark, held, ctx, held, ctx')
      /\ ~ Fatal' => Owned(stack, held, ctx')
  <2>1. CASE UNCHANGED ctx
    BY <1>1, <2>1, NothingMoved
  <2>2. CASE /\ ctx' \in Contexts(Value) /\ GrownFrom(ctx, ctx')
             /\ stop = TRUE /\ err # "ok"
    <3>1. Fatal'
      BY <1>2, <2>2 DEF Fatal
    <3>2. QED
      BY <1>1, <2>2, <3>1, GrownFramed, GrownKeeps
  <2>3. QED
    BY <2>1, <2>2
<1>4. QED
  BY <1>1, <1>2, <1>3, GoOnScope

(* The top frame goes on outside a loop, having pushed or popped.          *)
LEMMA ReplaceScope ==
  ASSUME Inv, ScopeInv, phase = "run", NEW f \in Frame, stack' = ReplaceTop(stack, f),
         f.mark = Top.mark, f.entry = Top.entry, UNCHANGED tree,
         held' \in Seq(Slot), ctx' \in Contexts(Value),
         Framed(stack, held', ctx'), Kept(Top.mark, held, ctx, held', ctx'),
         f.loop # "no" => LoopHolds(Len(stack), f, Len(held'), held', ctx'),
         ~ Fatal' => Owned(stack, held', ctx'),
         phase' = "run" /\ f.loop = "no" => f.v = Nil
  PROVE  ScopeInv'
<1>1. stack # <<>>
  BY RunningScope
<1>2. /\ stack' \in Seq(Frame) /\ Len(stack') = Len(stack) /\ stack'[Len(stack)] = f
      /\ \A i \in 1..(Len(stack) - 1) : stack'[i] = stack[i]
  BY <1>1, ReplacedTop
<1>3. QED
  BY <1>1, <1>2, GoOnScope

LEMMA ContinueScope ==
  ASSUME Inv, ScopeInv, phase = "run", Continue, UNCHANGED <<tree, held, ctx>>
  PROVE  ScopeInv'
<1>1. /\ stack # <<>> /\ Top \in Frame /\ held \in Seq(Slot) /\ ctx \in Contexts(Value)
      /\ Framed(stack, held, ctx) /\ Owned(stack, held, ctx) /\ Top.mark <= Len(held)
  BY RunningScope
<1> DEFINE f == Advanced(Top)
<1>2. /\ f \in Frame /\ f.loop = "no" /\ f.v = Nil
      /\ f.mark = Top.mark /\ f.entry = Top.entry
  BY <1>1, AdvancedFields
<1>3. Kept(Top.mark, held, ctx, held', ctx')
  BY <1>1, NothingMoved
<1>4. stack' = ReplaceTop(stack, f) /\ held' = held /\ ctx' = ctx /\ tree' = tree
  BY DEF Continue
<1> HIDE DEF f
<1>5. QED
  BY <1>1, <1>2, <1>3, <1>4, ReplaceScope

LEMMA EnterFromScope ==
  ASSUME Inv, ScopeInv, phase = "run", NEW below \in Seq(Frame), NEW g \in Frame, NEW f \in Frame,
         EnterFrom(below, f), Len(below) = Len(stack), below[Len(stack)] = g,
         \A i \in 1..(Len(stack) - 1) : below[i] = stack[i],
         g.mark = Top.mark, g.entry = Top.entry, UNCHANGED <<tree, held>>,
         f.mark = Len(held), f.entry = ctx', f.loop = "no", f.v = Nil,
         ctx' \in Contexts(Value), InBounds(held, ctx'),
         Framed(stack, held, ctx'), Owned(stack, held, ctx'),
         Kept(Top.mark, held, ctx, held, ctx'),
         g.loop # "no" => LoopHolds(Len(stack), g, Len(held), held, ctx')
  PROVE  ScopeInv'
<1>1. stack # <<>> /\ Len(stack) \in Nat \ {0}
  BY RunningScope
<1>2. stack' = Append(below, f)
  BY DEF EnterFrom
<1>3. /\ stack' \in Seq(Frame) /\ Len(stack') = Len(stack) + 1
      /\ stack'[Len(stack)] = g /\ stack'[Len(stack) + 1] = f
      /\ \A i \in 1..(Len(stack) - 1) : stack'[i] = stack[i]
  BY <1>1, <1>2
<1>4. QED
  BY <1>1, <1>3, EnterScope

LEMMA NewFrameFields ==
  ASSUME NEW t \in Nat \ {0}, NEW list \in List, NEW depth \in Nat, NEW mark \in Nat,
         NEW c \in Contexts(Value)
  PROVE  LET f == NewFrame(t, list, depth, mark, c) IN
         /\ f \in Frame /\ f.mark = mark /\ f.entry = c /\ f.loop = "no" /\ f.v = Nil
         /\ f.t = t /\ f.depth = depth
<1>1. Nil \in Value
  BY DEF Value, Literal
<1>2. QED
  BY <1>1 DEF NewFrame, Frame

LEMMA EnterScopeStep ==
  ASSUME Inv, ScopeInv, phase = "run", Top.loop = "no",
         NEW t \in Nat \ {0}, NEW list \in List, NEW depth \in Nat, Enter(t, list, depth),
         UNCHANGED <<tree, held, ctx>>
  PROVE  ScopeInv'
<1> DEFINE f == NewFrame(t, list, depth, Len(held), ctx)
<1>1. /\ stack \in Seq(Frame) /\ stack # <<>> /\ Top \in Frame /\ Top = stack[Len(stack)]
      /\ held \in Seq(Slot) /\ Len(held) \in Nat /\ ctx \in Contexts(Value)
      /\ InBounds(held, ctx) /\ Framed(stack, held, ctx) /\ Owned(stack, held, ctx)
      /\ Top.mark <= Len(held)
  BY RunningScope
<1>2. f \in Frame /\ f.mark = Len(held) /\ f.entry = ctx /\ f.loop = "no" /\ f.v = Nil
  BY <1>1, NewFrameFields
<1>3. EnterFrom(stack, f)
  BY DEF Enter
<1>4. Kept(Top.mark, held, ctx, held, ctx')
  BY <1>1, NothingMoved
<1> HIDE DEF f
<1>5. QED
  BY <1>1, <1>2, <1>3, <1>4, EnterFromScope

LEMMA MarksBelowTop ==
  ASSUME Inv, ScopeInv, stack # <<>>, NEW k \in 1..Len(stack)
  PROVE  stack[k].mark \in Nat /\ stack[k].mark <= Top.mark /\ Top.mark \in Nat
<1>1. stack \in Seq(Frame) /\ Len(stack) \in 1..Len(stack) /\ Top = stack[Len(stack)]
      /\ k <= Len(stack)
  <2>1. stack \in Seq(Frame) /\ Len(stack) \in Nat \ {0} /\ Top = stack[Len(stack)]
    BY TopType DEF Inv, TypeOK
  <2>2. QED
    BY <2>1
<1>2. QED
  BY <1>1, EntryType DEF ScopeInv, Framed, Marked

LEMMA KeptTransitive ==
  ASSUME NEW m \in Nat, NEW h, NEW c, NEW g, NEW d, NEW q, NEW e,
         Kept(m, h, c, g, d), Kept(m, g, d, q, e)
  PROVE  Kept(m, h, c, q, e)
  BY DEF Kept
-----------------------------------------------------------------------------
(* One lemma for each action: ScopeInv is preserved *)

LEMMA InitScope == Init => ScopeInv
<1> SUFFICES ASSUME Init PROVE ScopeInv
  OBVIOUS
<1>1. stack = <<>> /\ held = <<>> /\ phase = "done"
  BY DEF Init
<1>2. Framed(stack, held, ctx) /\ Owned(stack, held, ctx) /\ Loops(stack, held, ctx)
  BY <1>1 DEF Framed, Marked, Based, Parted, Owned, Loops
<1>3. QED
  BY <1>1, <1>2 DEF ScopeInv

(* The actions that leave slots and context alone and call no list.        *)
Plain == \/ Text \/ SetProperty \/ Var \/ Add \/ Clear \/ Define \/ Include \/ Eval
         \/ Break \/ Stop \/ EndOfList \/ CallUnknown

LEMMA PlainStep ==
  ASSUME Inv, Plain
  PROVE  /\ phase = "run" /\ UNCHANGED <<tree, held, ctx>>
         /\ \/ Continue
            \/ Top.loop = "no" /\ \E stop, err : Fail(stop, err)
<1>1. CASE Text \/ Add \/ Clear \/ Define
  BY <1>1 DEF Text, Add, Clear, Define, AtNode
<1>2. CASE SetProperty
  BY <1>2, NotLooping DEF SetProperty
<1>3. CASE Var
  BY <1>3, NotLooping DEF Var
<1>4. CASE Include
  BY <1>4, NotLooping DEF Include
<1>5. CASE Eval \/ Break \/ Stop \/ CallUnknown
  BY <1>5, NotLooping DEF Eval, Break, Stop, CallUnknown
<1>6. CASE EndOfList
  <2>1. phase = "run" /\ Top.list \in List /\ Top.pc \in Nat
    BY <1>6, Running DEF EndOfList, Frame
  <2>2. Len(tree[Top.list]) \in Nat
    BY <2>1 DEF Inv, TypeOK
  <2>3. ~ AtNode("foreach")
    BY <1>6, <2>1, <2>2 DEF EndOfList, AtNode
  <2>4. Top.loop = "no"
    BY <2>1, <2>3, Running
  <2>5. QED
    BY <1>6, <2>1, <2>4 DEF EndOfList
<1>7. QED
  BY <1>1, <1>2, <1>3, <1>4, <1>5, <1>6 DEF Plain

LEMMA PlainScope == ASSUME Inv, ScopeInv, Plain PROVE ScopeInv'
  BY PlainStep, ContinueScope, FailScope

LEMMA SetVarScope == ASSUME Inv, ScopeInv, SetVar PROVE ScopeInv'
<1> DEFINE n == Current.var
           v == ValOf(Current.expr)
           f == Advanced(Top)
<1>1. phase = "run" /\ Top.loop = "no" /\ UNCHANGED tree
  BY NotLooping DEF SetVar
<1>2. Current.expr \in Expr /\ n \in Name
  BY AtNodeType, NodeFields DEF SetVar, Inv
<1>3. v \in Value
  BY <1>2, EvalType DEF Inv
<1>4. /\ held \in Seq(Slot) /\ ctx \in Contexts(Value) /\ InBounds(held, ctx)
      /\ Ordered(held) /\ Framed(stack, held, ctx) /\ Owned(stack, held, ctx)
      /\ stack \in Seq(Frame) /\ Top \in Frame /\ Top.mark \in Nat /\ Top.mark <= Len(held)
  BY <1>1, RunningScope
<1>5. \/ Fail(FALSE, ErrOf(Current.expr)) /\ UNCHANGED <<held, ctx>>
      \/ /\ stack' = ReplaceTop(stack, f)
         /\ ctx' = Push(ctx, n, v)
         /\ held' = Append(held, SlotOf(ctx, n))
  BY DEF SetVar, Continue
<1>6. /\ f \in Frame /\ f.loop = "no" /\ f.v = Nil
      /\ f.mark = Top.mark /\ f.entry = Top.entry
  BY <1>4, AdvancedFields
<1> HIDE DEF n, v, f
<1>7. CASE Fail(FALSE, ErrOf(Current.expr)) /\ UNCHANGED <<held, ctx>>
  BY <1>1, <1>7, FailScope
<1>8. CASE /\ stack' = ReplaceTop(stack, f)
           /\ ctx' = Push(ctx, n, v)
           /\ held' = Append(held, SlotOf(ctx, n))
  <2>1. held' \in Seq(Slot) /\ ctx' \in Contexts(Value)
    BY <1>2, <1>3, <1>4, <1>8, PushSlot
  <2>2. Framed(stack, held', ctx') /\ Owned(stack, held', ctx')
    BY <1>2, <1>3, <1>4, <1>8, PushFramed
  <2>3. Kept(Top.mark, held, ctx, held', ctx')
    BY <1>2, <1>3, <1>4, <1>8, PushKept
  <2>4. QED
    BY <1>1, <1>6, <1>8, <2>1, <2>2, <2>3, ReplaceScope
<1>9. QED
  BY <1>5, <1>7, <1>8

LEMMA BindArgScope == ASSUME Inv, ScopeInv, BindArg PROVE ScopeInv'
<1> DEFINE n == Called.params[Top.args + 1]
           e == Current.vals[Top.args + 1]
           v == ValOf(e)
           f == [Top EXCEPT !.args = @ + 1]
<1>1. phase = "run" /\ Top.loop = "no" /\ UNCHANGED tree
  BY CalledType DEF BindArg
<1>2. /\ held \in Seq(Slot) /\ ctx \in Contexts(Value) /\ InBounds(held, ctx)
      /\ Ordered(held) /\ Framed(stack, held, ctx) /\ Owned(stack, held, ctx)
      /\ stack \in Seq(Frame) /\ Top \in Frame /\ Top.mark \in Nat /\ Top.mark <= Len(held)
      /\ Top.v = Nil
  BY <1>1, RunningScope
<1>3. n \in Name /\ e \in Expr
  <2>1. Top.args + 1 \in 1..Len(Called.params) /\ Top.args + 1 \in 1..Len(Current.vals)
    BY <1>2, CalledType DEF BindArg, Frame
  <2>2. QED
    BY <2>1, CalledType DEF BindArg
<1>4. v \in Value
  BY <1>3, EvalType DEF Inv
<1>5. \/ Fail(TRUE, ErrOf(e)) /\ UNCHANGED <<held, ctx>>
      \/ /\ stack' = ReplaceTop(stack, f)
         /\ ctx' = Push(ctx, n, v)
         /\ held' = Append(held, SlotOf(ctx, n))
  BY DEF BindArg
<1>6. /\ f \in Frame /\ f.loop = "no" /\ f.v = Nil
      /\ f.mark = Top.mark /\ f.entry = Top.entry
  <2>1. Top \in Frame /\ Top.args + 1 \in Nat
    BY <1>2 DEF Frame
  <2>2. QED
    BY <1>1, <1>2, <2>1 DEF Frame
<1> HIDE DEF n, e, v, f
<1>7. CASE Fail(TRUE, ErrOf(e)) /\ UNCHANGED <<held, ctx>>
  BY <1>1, <1>7, FailScope
<1>8. CASE /\ stack' = ReplaceTop(stack, f)
           /\ ctx' = Push(ctx, n, v)
           /\ held' = Append(held, SlotOf(ctx, n))
  <2>1. held' \in Seq(Slot) /\ ctx' \in Contexts(Value)
    BY <1>2, <1>3, <1>4, <1>8, PushSlot
  <2>2. Framed(stack, held', ctx') /\ Owned(stack, held', ctx')
    BY <1>2, <1>3, <1>4, <1>8, PushFramed
  <2>3. Kept(Top.mark, held, ctx, held', ctx')
    BY <1>2, <1>3, <1>4, <1>8, PushKept
  <2>4. QED
    BY <1>1, <1>6, <1>8, <2>1, <2>2, <2>3, ReplaceScope
<1>9. QED
  BY <1>5, <1>7, <1>8

LEMMA CallScope == ASSUME Inv, ScopeInv, Call PROVE ScopeInv'
<1>1. phase = "run" /\ Top.loop = "no" /\ Called.items \in List
  BY CalledType DEF Call
<1>2. Top.t \in Nat \ {0} /\ Top.depth + 1 \in Nat
  BY <1>1, Running DEF Frame
<1>3. QED
  BY <1>1, <1>2, EnterScopeStep DEF Call

LEMMA IfScope == ASSUME Inv, ScopeInv, If PROVE ScopeInv'
<1> DEFINE err == IF Current.cond = None THEN "ok" ELSE ErrOf(Current.cond)
<1>1. phase = "run" /\ Top.loop = "no" /\ UNCHANGED <<tree, held, ctx>>
  BY NotLooping DEF If
<1>2. Current.items \in List /\ Current.else \in List \cup {None}
  BY AtNodeType, NodeFields DEF If, Inv
<1>3. Top.t \in Nat \ {0} /\ Top.depth \in Nat
  BY <1>1, Running DEF Frame
<1>4. \/ Fail(TRUE, err)
      \/ Enter(Top.t, Current.items, Top.depth)
      \/ Current.else # None /\ Enter(Top.t, Current.else, Top.depth)
      \/ Continue
  BY DEF If
<1> HIDE DEF err
<1>5. CASE Fail(TRUE, err) \/ Continue
  BY <1>1, <1>5, FailScope, ContinueScope
<1>6. CASE \E list \in List : Enter(Top.t, list, Top.depth)
  BY <1>1, <1>3, <1>6, EnterScopeStep
<1>7. QED
  BY <1>2, <1>4, <1>5, <1>6

LEMMA ParseScope == ASSUME Inv, ScopeInv, Parse PROVE ScopeInv'
<1>1. phase = "run" /\ Top.loop = "no" /\ UNCHANGED <<tree, held, ctx>>
  BY NotLooping DEF Parse
<1>2. Current.file \in List \cup {None}
  BY AtNodeType, NodeFields DEF Parse, Inv
<1>3. Top.t + 1 \in Nat \ {0} /\ Top.depth + 1 \in Nat
  BY <1>1, Running DEF Frame
<1>4. \/ Fail(TRUE, ErrOf(Current.name)) \/ Fail(TRUE, "other")
      \/ Current.file # None /\ Enter(Top.t + 1, Current.file, Top.depth + 1)
  BY DEF Parse
<1>5. QED
  BY <1>1, <1>2, <1>3, <1>4, FailScope, EnterScopeStep

LEMMA ForeachStartScope == ASSUME Inv, ScopeInv, ForeachStart PROVE ScopeInv'
<1> DEFINE n == Current.var
           err == ErrOf(Current.iter)
           outer == Push(ctx, Foreach, Len(stack))
           pushed == Push(outer, n, Nil)
           one == Append(held, SlotOf(ctx, Foreach))
           two == Append(one, SlotOf(outer, n))
           f == [Top EXCEPT !.loop = "next"]
<1>1. /\ AtNode("foreach") /\ phase = "run" /\ Top.loop = "no" /\ UNCHANGED tree
  BY DEF ForeachStart, AtNode
<1>2. /\ held \in Seq(Slot) /\ ctx \in Contexts(Value) /\ InBounds(held, ctx)
      /\ Ordered(held) /\ Framed(stack, held, ctx) /\ Owned(stack, held, ctx)
      /\ stack \in Seq(Frame) /\ Top \in Frame /\ Top.mark \in Nat /\ Top.mark <= Len(held)
      /\ Top.v = Nil /\ Len(stack) \in Nat /\ Len(held) \in Nat
  BY <1>1, RunningScope
<1>3. /\ n \in Name /\ Foreach \in Name /\ Nil \in Value /\ Len(stack) \in Value
  BY <1>1, <1>2, AtNodeType, NodeFields, ConstantsAssumption DEF Inv, Value, Literal, Loop
<1>4. \/ Fail(TRUE, err) /\ UNCHANGED <<held, ctx>>
      \/ Continue /\ UNCHANGED <<held, ctx>>
      \/ Fail(TRUE, "other") /\ ctx' = pushed /\ UNCHANGED held
      \/ /\ ctx' = pushed /\ held' = two
         /\ stack' = ReplaceTop(stack, f)
         /\ UNCHANGED <<phase, ret, issued>>
  BY DEF ForeachStart
<1>5. /\ f \in Frame /\ f.mark = Top.mark /\ f.entry = Top.entry /\ f.loop = "next"
      /\ f.v = Nil /\ NodeAt(f).var = n
  BY <1>2 DEF Frame, NodeAt, Current
<1>6. /\ one \in Seq(Slot) /\ outer \in Contexts(Value) /\ InBounds(one, outer)
      /\ Ordered(one) /\ InBounds(held, outer)
  BY <1>2, <1>3, PushSlot
<1>7. /\ Framed(stack, one, outer) /\ Owned(stack, one, outer)
      /\ Len(one) = Len(held) + 1
      /\ one[Len(held) + 1].name = Foreach /\ outer[Foreach][one[Len(held) + 1].idx] = Len(stack)
  BY <1>2, <1>3, PushFramed
<1>8. Kept(Top.mark, held, ctx, one, outer)
  BY <1>2, <1>3, PushKept
<1>9. GrownFrom(ctx, outer)
  BY <1>2, <1>3, GrownPush
<1>10. GrownFrom(outer, pushed) /\ pushed \in Contexts(Value)
  BY <1>3, <1>6, GrownPush, PushSlot
<1>11. GrownFrom(ctx, pushed)
  BY <1>2, <1>6, <1>9, <1>10, GrownTransitive
<1> HIDE DEF one, outer
<1>12. /\ Framed(stack, two, pushed) /\ Owned(stack, two, pushed)
       /\ Len(two) = Len(one) + 1 /\ \A j \in 1..Len(one) : two[j] = one[j]
       /\ two[Len(one) + 1].name = n /\ pushed[n][two[Len(one) + 1].idx] = Nil
  BY <1>2, <1>3, <1>6, <1>7, PushFramed
<1>13. two \in Seq(Slot)
  BY <1>3, <1>6, PushSlot
<1>14. \A m \in Nat : m <= Len(one) => Kept(m, one, outer, two, pushed)
  BY <1>3, <1>6, PushKept
<1> HIDE DEF n, err, pushed, two, f
<1>15. CASE (Fail(TRUE, err) \/ Continue) /\ UNCHANGED <<held, ctx>>
  BY <1>1, <1>15, FailScope, ContinueScope
<1>16. CASE Fail(TRUE, "other") /\ ctx' = pushed /\ UNCHANGED held
  BY <1>1, <1>10, <1>11, <1>16, FailScope
<1>17. CASE /\ ctx' = pushed /\ held' = two
            /\ stack' = ReplaceTop(stack, f)
            /\ UNCHANGED <<phase, ret, issued>>
  <2>1. Kept(Top.mark, held, ctx, two, pushed)
    <3>1. Top.mark <= Len(one)
      BY <1>2, <1>7
    <3>2. QED
      BY <1>2, <1>8, <1>14, <3>1, KeptTransitive
  <2>2. LoopHolds(Len(stack), f, Len(two), two, pushed)
    <3>1. /\ Len(one) \in Nat \ {0} /\ Len(two) = Len(one) + 1 /\ Len(one) \in 1..Len(one)
          /\ Len(two) - 1 = Len(one) /\ Len(one) = Len(held) + 1
      BY <1>2, <1>7, <1>12
    <3>2. two[Len(one)] = one[Len(one)] /\ one[Len(one)].name = Foreach
      BY <1>7, <1>12, <3>1
    <3>3. Kept(Len(one), one, outer, two, pushed)
      BY <1>14, <3>1
    <3>4. pushed[Foreach][two[Len(one)].idx] = Len(stack)
      BY <1>7, <3>1, <3>2, <3>3 DEF Kept
    <3>5. QED
      BY <1>5, <1>12, <3>1, <3>2, <3>4 DEF LoopHolds
  <2>3. QED
    BY <1>1, <1>5, <1>10, <1>12, <1>13, <1>17, <2>1, <2>2, ReplaceScope
<1>18. QED
  BY <1>4, <1>15, <1>16, <1>17

(* A loop's two slots are above every mark and hold what it put there.      *)
LEMMA LoopScope ==
  ASSUME Inv, ScopeInv, NEW state \in {"next", "end"}, InLoop(state)
  PROVE  /\ phase = "run" /\ Top.loop = state /\ stack # <<>> /\ stack \in Seq(Frame)
         /\ Len(stack) \in Nat \ {0} /\ Top = stack[Len(stack)]
         /\ Top \in Frame /\ Top.mark \in Nat /\ Len(held) \in Nat
         /\ held \in Seq(Slot) /\ held # <<>> /\ Top.mark + 2 <= Len(held)
         /\ ctx \in Contexts(Value) /\ Ordered(held) /\ InBounds(held, ctx)
         /\ Framed(stack, held, ctx) /\ Owned(stack, held, ctx)
         /\ \A k \in 1..Len(stack) : stack[k].mark < Len(held) - 1
         /\ LoopHolds(Len(stack), Top, Len(held), held, ctx)
         /\ Last(held) = held[Len(held)] /\ Last(held).name = Current.var
         /\ NodeAt(Top) = Current
<1>1. /\ phase = "run" /\ Top.loop = state /\ held \in Seq(Slot) /\ held # <<>>
      /\ Len(held) >= Top.mark + 2 /\ ctx \in Contexts(Value)
      /\ Ordered(held) /\ InBounds(held, ctx)
  BY LoopType
<1>2. /\ stack # <<>> /\ stack \in Seq(Frame) /\ Len(stack) \in Nat \ {0}
      /\ Len(stack) \in 1..Len(stack)
      /\ Top = stack[Len(stack)] /\ Top \in Frame /\ Top.mark \in Nat /\ Len(held) \in Nat
      /\ Framed(stack, held, ctx) /\ Owned(stack, held, ctx)
  BY <1>1, RunningScope
<1>3. \A k \in 1..Len(stack) : stack[k].mark < Len(held) - 1
  <2> SUFFICES ASSUME NEW k \in 1..Len(stack) PROVE stack[k].mark < Len(held) - 1
    OBVIOUS
  <2>1. stack[k].mark \in Nat /\ stack[k].mark <= Top.mark
    BY <1>2, MarksBelowTop
  <2>2. QED
    BY <1>1, <1>2, <2>1
<1>4. LoopHolds(Len(stack), Top, Len(held), held, ctx)
  <2>1. stack[Len(stack)].loop # "no"
    BY <1>1, <1>2
  <2>2. QED
    BY <1>2, <2>1 DEF ScopeInv, Loops
<1>5. Last(held) = held[Len(held)] /\ held[Len(held)].name = Current.var
  BY <1>1, <1>4, LastFront DEF LoopHolds, Current
<1>6. NodeAt(Top) = Current
  BY DEF Current
<1>7. QED
  BY <1>1, <1>2, <1>3, <1>4, <1>5, <1>6

LEMMA WithoutLoopFields ==
  ASSUME NEW h \in Seq(Slot), Len(h) >= 2
  PROVE  /\ WithoutLoop(h) \in Seq(Slot) /\ Len(WithoutLoop(h)) = Len(h) - 2
         /\ \A j \in 1..(Len(h) - 2) : WithoutLoop(h)[j] = h[j]
<1> DEFINE g == Front(h)
<1>1. h # <<>> /\ Len(h) \in Nat
  OBVIOUS
<1>2. g \in Seq(Slot) /\ Len(g) = Len(h) - 1 /\ \A j \in 1..(Len(h) - 1) : g[j] = h[j]
  BY <1>1, LastFront
<1>3. g # <<>>
  BY <1>1, <1>2
<1> HIDE DEF g
<1>4. /\ Front(g) \in Seq(Slot) /\ Len(Front(g)) = Len(g) - 1
      /\ \A j \in 1..(Len(g) - 1) : Front(g)[j] = g[j]
  BY <1>2, <1>3, LastFront
<1>5. QED
  BY <1>1, <1>2, <1>4 DEF WithoutLoop, g

LEMMA LoopNextScope == ASSUME Inv, ScopeInv, LoopNext PROVE ScopeInv'
<1> DEFINE i == Top.i + 1
           set == Set(ctx, Last(held).idx, Current.var, coll[i])
           g == [Top EXCEPT !.i = i, !.v = coll[i]]
           h == [Top EXCEPT !.loop = "no"]
           f == NewFrame(Top.t, Current.items, Top.depth, Len(held), set)
           below == ReplaceTop(stack, g)
<1>1. /\ phase = "run" /\ Top.loop = "next" /\ stack # <<>> /\ stack \in Seq(Frame)
      /\ Top \in Frame /\ Top.mark \in Nat /\ Len(held) \in Nat
      /\ held \in Seq(Slot) /\ held # <<>> /\ Top.mark + 2 <= Len(held)
      /\ ctx \in Contexts(Value) /\ Ordered(held) /\ InBounds(held, ctx)
      /\ Framed(stack, held, ctx) /\ Owned(stack, held, ctx)
      /\ \A k \in 1..Len(stack) : stack[k].mark < Len(held) - 1
      /\ LoopHolds(Len(stack), Top, Len(held), held, ctx)
      /\ Last(held) = held[Len(held)] /\ Last(held).name = Current.var
      /\ NodeAt(Top) = Current
  BY LoopScope DEF LoopNext
<1>2. /\ Current.var \in Name /\ Current.items \in List
      /\ Top.t \in Nat \ {0} /\ Top.depth \in Nat
  BY <1>1, LoopType DEF LoopNext, Frame
<1>3. coll[i] \in Value /\ i \in Nat
  <2>1. Top.i \in Nat /\ Top.i < Len(coll) /\ coll \in Seq(Scalar)
    BY <1>1, InvTypes DEF Frame, LoopNext, HasNext
  <2>2. i \in 1..Len(coll) /\ i \in Nat
    BY <2>1
  <2>3. coll[i] \in Scalar
    BY <2>1, <2>2
  <2>4. QED
    BY <2>2, <2>3 DEF Value, Literal
<1>4. UNCHANGED tree
  BY DEF LoopNext
<1>5. \/ /\ Return(TRUE, "iterations")
         /\ stack' = ReplaceTop(stack, h)
         /\ held' = WithoutLoop(held)
         /\ UNCHANGED ctx
      \/ /\ ctx' = set /\ EnterFrom(below, f) /\ UNCHANGED held
  BY DEF LoopNext
<1>6. /\ h \in Frame /\ h.mark = Top.mark /\ h.entry = Top.entry /\ h.loop = "no"
  BY <1>1 DEF Frame
<1>7. /\ g \in Frame /\ g.mark = Top.mark /\ g.entry = Top.entry /\ g.loop = "next"
      /\ g.v = coll[i] /\ NodeAt(g) = Current
  BY <1>1, <1>3 DEF Frame, NodeAt
<1>8. set \in Contexts(Value) /\ InBounds(held, set)
  <2>1. Last(held).idx \in Nat \ {0}
    <3>1. Len(held) \in 1..Len(held)
      BY <1>1
    <3>2. QED
      BY <1>1, <3>1, SlotFields
  <2>2. QED
    BY <1>1, <1>2, <1>3, <2>1, SetSlot
<1>9. f \in Frame /\ f.mark = Len(held) /\ f.entry = set /\ f.loop = "no" /\ f.v = Nil
  <2>1. Top.t \in Nat \ {0} /\ Current.items \in List /\ Top.depth \in Nat /\ Len(held) \in Nat
    BY <1>1, <1>2
  <2>2. set \in Contexts(Value)
    BY <1>8
  <2> HIDE DEF set
  <2>3. QED
    BY <2>1, <2>2, NewFrameFields
<1>10. /\ Framed(stack, held, set) /\ Owned(stack, held, set)
       /\ set[Current.var][held[Len(held)].idx] = coll[i]
       /\ \A m \in Nat : m < Len(held) => Kept(m, held, ctx, held, set)
  <2> DEFINE v == coll[i]
             last == Last(held)
  <2>1. v \in Value
    BY <1>3
  <2>2. \A k \in 1..Len(stack) : stack[k].mark < Len(held)
    <3>1. \A k \in 1..Len(stack) : stack[k].mark \in Nat
      BY <1>1, EntryType
    <3>2. QED
      BY <1>1, <3>1
  <2> HIDE DEF v
  <2>3. LET d == Set(ctx, Last(held).idx, Last(held).name, v) IN
        /\ Framed(stack, held, d)
        /\ Owned(stack, held, ctx) => Owned(stack, held, d)
        /\ d[Last(held).name][Last(held).idx] = v
        /\ \A m \in Nat : m < Len(held) => Kept(m, held, ctx, held, d)
    BY <1>1, <2>1, <2>2, SetFramed
  <2>4. QED
    BY <1>1, <2>3 DEF v
<1>11. below \in Seq(Frame) /\ Len(below) = Len(stack) /\ below[Len(stack)] = g
       /\ \A k \in 1..(Len(stack) - 1) : below[k] = stack[k]
  BY <1>1, <1>7, ReplacedTop
<1> HIDE DEF i, set, g, h, f, below
<1>12. CASE /\ Return(TRUE, "iterations")
            /\ stack' = ReplaceTop(stack, h)
            /\ held' = WithoutLoop(held)
            /\ UNCHANGED ctx
  <2>1. /\ held' \in Seq(Slot) /\ Len(held') = Len(held) - 2
        /\ \A j \in 1..(Len(held) - 2) : held'[j] = held[j]
    BY <1>1, <1>12, WithoutLoopFields
  <2>2. Kept(Top.mark, held, ctx, held', ctx')
    BY <1>1, <1>12, <2>1 DEF Kept
  <2>3. Framed(stack, held', ctx')
    <3>1. \A k \in 1..Len(stack) : stack[k].mark <= Len(held')
      <4>1. \A k \in 1..Len(stack) : stack[k].mark \in Nat
        BY <1>1, EntryType
      <4>2. QED
        BY <1>1, <2>1, <4>1
    <3>2. Len(held') <= Len(held) /\ \A j \in 1..Len(held') : held'[j] = held[j]
      BY <1>1, <2>1
    <3>3. QED
      BY <1>1, <1>12, <2>1, <3>1, <3>2, FewerSlots
  <2>4. Fatal' /\ phase' # "run"
    BY <1>12 DEF Return, Fatal
  <2>5. QED
    BY <1>1, <1>4, <1>6, <1>12, <2>1, <2>2, <2>3, <2>4, ReplaceScope
<1>13. CASE ctx' = set /\ EnterFrom(below, f) /\ UNCHANGED held
  <2>1. Kept(Top.mark, held, ctx, held, set)
    BY <1>1, <1>10
  <2>2. LoopHolds(Len(stack), g, Len(held), held, set)
    <3>1. /\ 2 <= Len(held) /\ held[Len(held) - 1].name = Foreach
          /\ ctx[Foreach][held[Len(held) - 1].idx] = Len(stack)
          /\ held[Len(held)].name = Current.var
      BY <1>1 DEF LoopHolds
    <3>2. set[Foreach][held[Len(held) - 1].idx] = Len(stack)
      <4>1. Len(held) - 1 \in Nat /\ Len(held) - 1 < Len(held) /\ Len(held) - 1 \in 1..(Len(held) - 1)
        BY <1>1, <3>1
      <4>2. Kept(Len(held) - 1, held, ctx, held, set)
        BY <1>10, <4>1
      <4>3. QED
        BY <3>1, <4>1, <4>2 DEF Kept
    <3>3. QED
      BY <1>1, <1>7, <1>10, <3>1, <3>2 DEF LoopHolds
  <2>3. QED
    BY <1>1, <1>4, <1>7, <1>8, <1>9, <1>10, <1>11, <1>13, <2>1, <2>2, EnterFromScope
<1>14. QED
  BY <1>5, <1>12, <1>13

LEMMA LoopElseScope == ASSUME Inv, ScopeInv, LoopElse PROVE ScopeInv'
<1> DEFINE g == [Top EXCEPT !.loop = "end"]
           f == NewFrame(Top.t, Current.else, Top.depth, Len(held), ctx)
           below == ReplaceTop(stack, g)
<1>1. /\ phase = "run" /\ stack # <<>> /\ stack \in Seq(Frame)
      /\ Top \in Frame /\ Top.mark \in Nat /\ Len(held) \in Nat
      /\ held \in Seq(Slot) /\ Top.mark <= Len(held)
      /\ ctx \in Contexts(Value) /\ InBounds(held, ctx)
      /\ Framed(stack, held, ctx) /\ Owned(stack, held, ctx)
      /\ LoopHolds(Len(stack), Top, Len(held), held, ctx)
  <2>1. Top.mark + 2 <= Len(held) /\ Top.mark \in Nat /\ Len(held) \in Nat
    BY LoopScope DEF LoopElse
  <2>2. Top.mark <= Len(held)
    BY <2>1
  <2>3. QED
    BY <2>1, <2>2, LoopScope DEF LoopElse
<1>2. /\ Current.else \in List /\ Top.t \in Nat \ {0} /\ Top.depth \in Nat
  BY <1>1, LoopType DEF LoopElse, Frame
<1>3. /\ g \in Frame /\ g.mark = Top.mark /\ g.entry = Top.entry /\ g.loop = "end"
      /\ g.v = Top.v /\ NodeAt(g) = NodeAt(Top)
  BY <1>1 DEF Frame, NodeAt
<1>4. f \in Frame /\ f.mark = Len(held) /\ f.entry = ctx /\ f.loop = "no" /\ f.v = Nil
  <2>1. /\ Top.t \in Nat \ {0} /\ Current.else \in List /\ Top.depth \in Nat
        /\ Len(held) \in Nat /\ ctx \in Contexts(Value)
    BY <1>1, <1>2
  <2>2. QED
    BY <2>1, NewFrameFields
<1>5. EnterFrom(below, f) /\ UNCHANGED <<tree, held, ctx>>
  BY DEF LoopElse
<1>6. below \in Seq(Frame) /\ Len(below) = Len(stack) /\ below[Len(stack)] = g
      /\ \A k \in 1..(Len(stack) - 1) : below[k] = stack[k]
  BY <1>1, <1>3, ReplacedTop
<1> HIDE DEF g, f, below
<1>7. LoopHolds(Len(stack), g, Len(held), held, ctx)
  BY <1>1, <1>3 DEF LoopHolds
<1>8. Kept(Top.mark, held, ctx, held, ctx)
  BY <1>1, NothingMoved
<1>9. QED
  BY <1>1, <1>3, <1>4, <1>5, <1>6, <1>7, <1>8, EnterFromScope

(* What the two pops of a loop that ends do.                               *)
LEMMA TwoPops ==
  ASSUME Inv, ScopeInv, LoopEnd
  PROVE  /\ held' \in Seq(Slot) /\ Len(held') = Len(held) - 2
         /\ ctx' \in Contexts(Value)
         /\ Framed(stack, held', ctx') /\ Owned(stack, held', ctx')
         /\ Kept(Len(held'), held, ctx, held', ctx')
<1> DEFINE one == Pop(ctx, Last(held).idx, Last(held).name)
           h == Front(held)
           two == Pop(one, Last(h).idx, Last(h).name)
<1>1. /\ stack # <<>> /\ stack \in Seq(Frame) /\ Top.mark \in Nat /\ Len(held) \in Nat
      /\ held \in Seq(Slot) /\ held # <<>> /\ Top.mark + 2 <= Len(held)
      /\ ctx \in Contexts(Value) /\ Ordered(held) /\ InBounds(held, ctx)
      /\ Framed(stack, held, ctx) /\ Owned(stack, held, ctx)
      /\ \A k \in 1..Len(stack) : stack[k].mark < Len(held) - 1
  BY LoopScope DEF LoopEnd
<1>2. \A k \in 1..Len(stack) : stack[k].mark \in Nat /\ stack[k].mark < Len(held)
  <2>1. \A k \in 1..Len(stack) : stack[k].mark \in Nat
    BY <1>1, EntryType
  <2>2. QED
    BY <1>1, <2>1
<1>3. ctx' = two /\ held' = Front(h)
  BY DEF LoopEnd, WithoutLoop
<1>4. /\ h \in Seq(Slot) /\ Len(h) = Len(held) - 1 /\ one \in Contexts(Value)
      /\ Ordered(h) /\ InBounds(h, one)
  BY <1>1, PopSlot
<1>5. Framed(stack, h, one) /\ Owned(stack, h, one)
  BY <1>1, <1>2, PopFramed
<1>6. Len(held) - 2 \in Nat /\ Len(held) - 2 < Len(held) /\ Len(held) - 2 < Len(h)
  BY <1>1, <1>4
<1>7. Kept(Len(held) - 2, held, ctx, h, one)
  BY <1>1, <1>6, PopKept
<1>8. h # <<>> /\ \A k \in 1..Len(stack) : stack[k].mark < Len(h)
  BY <1>1, <1>2, <1>4
<1> HIDE DEF one, h
<1>9. /\ Front(h) \in Seq(Slot) /\ Len(Front(h)) = Len(h) - 1 /\ two \in Contexts(Value)
  BY <1>4, <1>8, PopSlot
<1>10. Framed(stack, Front(h), two) /\ Owned(stack, Front(h), two)
  BY <1>1, <1>4, <1>5, <1>8, PopFramed
<1>11. Kept(Len(held) - 2, h, one, Front(h), two)
  BY <1>4, <1>6, <1>8, PopKept
<1>12. Kept(Len(held) - 2, held, ctx, Front(h), two)
  BY <1>6, <1>7, <1>11, KeptTransitive
<1>13. QED
  BY <1>1, <1>3, <1>4, <1>9, <1>10, <1>12

LEMMA LoopEndScope == ASSUME Inv, ScopeInv, LoopEnd PROVE ScopeInv'
<1> DEFINE f == Advanced(Top)
<1>1. /\ held' \in Seq(Slot) /\ Len(held') = Len(held) - 2 /\ ctx' \in Contexts(Value)
      /\ Framed(stack, held', ctx') /\ Owned(stack, held', ctx')
      /\ Kept(Len(held'), held, ctx, held', ctx')
  BY TwoPops
<1>2. /\ phase = "run" /\ Top \in Frame /\ Top.mark \in Nat /\ Len(held) \in Nat
      /\ Top.mark + 2 <= Len(held)
  BY LoopScope DEF LoopEnd
<1>3. Kept(Top.mark, held, ctx, held', ctx')
  BY <1>1, <1>2 DEF Kept
<1>4. /\ f \in Frame /\ f.loop = "no" /\ f.v = Nil
      /\ f.mark = Top.mark /\ f.entry = Top.entry
  BY <1>2, AdvancedFields
<1>5. stack' = ReplaceTop(stack, f) /\ UNCHANGED tree
  BY DEF LoopEnd, Continue
<1> HIDE DEF f
<1>6. QED
  BY <1>1, <1>2, <1>3, <1>4, <1>5, ReplaceScope

(* What a deferred pop does.                                               *)
LEMMA OnePop ==
  ASSUME Inv, ScopeInv, RunDefer
  PROVE  /\ stack # <<>> /\ Top.mark \in Nat /\ Len(held) \in Nat /\ Top.mark < Len(held)
         /\ held' \in Seq(Slot) /\ Len(held') = Len(held) - 1
         /\ ctx' \in Contexts(Value)
         /\ Framed(stack, held', ctx')
         /\ ~ Fatal => Owned(stack, held', ctx')
         /\ Kept(Len(held'), held, ctx, held', ctx')
<1>1. /\ stack # <<>> /\ stack \in Seq(Frame) /\ held \in Seq(Slot) /\ Len(held) \in Nat
      /\ ctx \in Contexts(Value) /\ Ordered(held) /\ InBounds(held, ctx)
      /\ Framed(stack, held, ctx) /\ (~ Fatal => Owned(stack, held, ctx))
      /\ ctx' = Pop(ctx, Last(held).idx, Last(held).name) /\ held' = Front(held)
      /\ Len(held) > Top.mark
  BY DEF RunDefer, Inv, TypeOK, SlotsOK, ScopeInv
<1>2. Top.mark \in Nat /\ \A k \in 1..Len(stack) : stack[k].mark < Len(held)
  <2>1. Top.mark \in Nat
    BY <1>1, TopType DEF Inv, Frame
  <2>2. ASSUME NEW k \in 1..Len(stack) PROVE stack[k].mark < Len(held)
    <3>1. stack[k].mark \in Nat /\ stack[k].mark <= Top.mark
      BY <1>1, MarksBelowTop
    <3>2. QED
      BY <1>1, <2>1, <3>1
  <2>3. QED
    BY <2>1, <2>2
<1>3. held # <<>> /\ Len(held) - 1 \in Nat /\ Len(held) - 1 < Len(held)
  BY <1>1, <1>2
<1>4. held' \in Seq(Slot) /\ Len(held') = Len(held) - 1 /\ ctx' \in Contexts(Value)
  BY <1>1, <1>3, PopSlot
<1>5. Framed(stack, held', ctx') /\ (Owned(stack, held, ctx) => Owned(stack, held', ctx'))
  BY <1>1, <1>2, <1>3, PopFramed
<1>6. Kept(Len(held) - 1, held, ctx, held', ctx')
  BY <1>1, <1>3, PopKept
<1>7. QED
  BY <1>1, <1>2, <1>3, <1>4, <1>5, <1>6

LEMMA RunDeferScope == ASSUME Inv, ScopeInv, RunDefer PROVE ScopeInv'
<1>1. /\ stack # <<>> /\ Top.mark \in Nat /\ Len(held) \in Nat /\ Top.mark < Len(held)
      /\ held' \in Seq(Slot) /\ Len(held') = Len(held) - 1 /\ ctx' \in Contexts(Value)
      /\ Framed(stack, held', ctx') /\ (~ Fatal => Owned(stack, held', ctx'))
      /\ Kept(Len(held'), held, ctx, held', ctx')
  BY OnePop
<1>2. /\ stack \in Seq(Frame) /\ Top \in Frame /\ Top = stack[Len(stack)]
  BY <1>1, TopType DEF Inv, TypeOK
<1>3. /\ phase = "unwind" /\ UNCHANGED <<tree, phase, ret, stack>>
  BY DEF RunDefer
<1>4. Top.loop = "no"
  BY <1>3 DEF Inv, StackOK, AtNode
<1>5. Kept(Top.mark, held, ctx, held', ctx')
  BY <1>1 DEF Kept
<1>6. Fatal' <=> Fatal
  BY <1>3 DEF Fatal
<1>7. QED
  BY <1>1, <1>2, <1>3, <1>4, <1>5, <1>6, GoOnScope

(* The stack without its top, or with the caller replaced.                 *)
LEMMA CallerOnTop ==
  ASSUME Inv, NEW type, Returned(type), NEW f \in Frame,
         \/ stack' = Front(stack) /\ f = Caller
         \/ stack' = ReplaceTop(Front(stack), f)
  PROVE  /\ stack' \in Seq(Frame) /\ Len(stack') = Len(stack) - 1
         /\ stack'[Len(stack) - 1] = f
         /\ \A i \in 1..(Len(stack) - 2) : stack'[i] = stack[i]
<1>1. /\ Len(stack) \in Nat /\ Len(stack) > 1 /\ Caller = stack[Len(stack) - 1]
  BY Returning
<1>2. stack \in Seq(Frame) /\ stack # <<>>
  BY <1>1 DEF Inv, TypeOK
<1> DEFINE b == Front(stack)
<1>3. /\ b \in Seq(Frame) /\ Len(b) = Len(stack) - 1
      /\ \A i \in 1..(Len(stack) - 1) : b[i] = stack[i]
  BY <1>2, LastFront
<1>4. b # <<>>
  BY <1>1, <1>3
<1>5. (stack' = b /\ f = Caller) \/ stack' = ReplaceTop(b, f)
  OBVIOUS
<1> HIDE DEF b
<1>6. CASE stack' = b /\ f = Caller
  BY <1>1, <1>3, <1>6
<1>7. CASE stack' = ReplaceTop(b, f)
  <2>1. /\ ReplaceTop(b, f) \in Seq(Frame) /\ Len(ReplaceTop(b, f)) = Len(b)
        /\ Last(ReplaceTop(b, f)) = f
        /\ \A i \in 1..(Len(b) - 1) : ReplaceTop(b, f)[i] = b[i]
    BY <1>3, <1>4, ReplaceTopProperties
  <2>2. QED
    BY <1>1, <1>3, <1>7, <2>1 DEF Last
<1>8. QED
  BY <1>5, <1>6, <1>7

(* A return that keeps the slots: to the caller's next node, to its loop,  *)
(* or on to the caller's caller.                                           *)
LEMMA ReturnScope ==
  ASSUME Inv, ScopeInv, NEW type, Returned(type), UNCHANGED <<tree, held, ctx>>,
         Fatal => Fatal',
         \/ stack' = Front(stack) /\ Caller.loop = "no" /\ phase' = "unwind"
         \/ stack' = ReplaceTop(Front(stack), Advanced(Caller))
         \/ stack' = ReplaceTop(Front(stack), Caller) /\ Caller.loop # "no"
  PROVE  ScopeInv'
<1>1. /\ Caller \in Frame /\ Caller.mark <= Len(held) /\ held \in Seq(Slot)
      /\ Len(stack) > 1 /\ Len(held) = Top.mark /\ Len(held) \in Nat
  <2>1. /\ Caller \in Frame /\ Caller.mark \in Nat /\ Len(held) \in Nat
        /\ Caller.mark + LoopSlots(Caller) <= Len(held)
    BY Returning
  <2>2. Caller.mark <= Len(held)
    BY <2>1 DEF LoopSlots
  <2>3. QED
    BY <2>1, <2>2 DEF Returned, Inv, TypeOK
<1>2. PICK f \in {Caller, Advanced(Caller)} :
         /\ \/ stack' = Front(stack) /\ f = Caller
            \/ stack' = ReplaceTop(Front(stack), f)
         /\ phase' = "run" /\ f.loop = "no" => f = Advanced(Caller)
  OBVIOUS
<1>3. /\ Advanced(Caller) \in Frame /\ Advanced(Caller).loop = "no"
      /\ Advanced(Caller).v = Nil /\ Advanced(Caller).mark = Caller.mark
      /\ Advanced(Caller).entry = Caller.entry
  BY <1>1, AdvancedFields
<1>4. /\ f \in Frame /\ f.mark = Caller.mark /\ f.entry = Caller.entry
      /\ f.loop # "no" => f = Caller
      /\ phase' = "run" /\ f.loop = "no" => f.v = Nil
  BY <1>1, <1>2, <1>3
<1>5. /\ stack' \in Seq(Frame) /\ Len(stack') = Len(stack) - 1
      /\ stack'[Len(stack) - 1] = f
      /\ \A i \in 1..(Len(stack) - 2) : stack'[i] = stack[i]
  BY <1>2, <1>4, CallerOnTop
<1>6. held' = held /\ ctx' = ctx /\ tree' = tree /\ (~ Fatal' => ~ Fatal)
  OBVIOUS
<1>7. /\ held' \in Seq(Slot) /\ Len(held') <= Len(held) /\ Caller.mark <= Len(held')
      /\ \A j \in 1..Len(held') : held'[j] = held[j]
  BY <1>1, <1>6
<1>8. QED
  BY <1>1, <1>4, <1>5, <1>6, <1>7, LeaveScope

LEMMA FatalStays == ASSUME Inv, Next, Fatal, phase = "unwind" PROVE Fatal'
  BY FatalKept

LEMMA ReturnsScope ==
  ASSUME Inv, ScopeInv, ReturnToIf \/ ReturnToCall \/ ReturnToParse
  PROVE  ScopeInv'
<1>1. phase = "unwind" /\ UNCHANGED <<tree, held, ctx>>
  BY DEF ReturnToIf, ReturnToCall, ReturnToParse, Returned
<1>2. Fatal => Fatal'
  BY <1>1, FatalStays DEF Next, Step
<1>3. PICK type \in {"if", "call", "parse"} :
        /\ Returned(type)
        /\ \/ stack' = Front(stack) /\ phase' = phase
           \/ stack' = ReplaceTop(Front(stack), Advanced(Caller))
  <2>1. CASE ReturnToIf
    BY <2>1 DEF ReturnToIf, PassOn, Resume
  <2>2. CASE ReturnToCall
    BY <2>2 DEF ReturnToCall, PassOn, Resume
  <2>3. CASE ReturnToParse
    BY <2>3 DEF ReturnToParse, PassOn, Resume
  <2>4. QED
    BY <2>1, <2>2, <2>3
<1>4. Caller.loop = "no"
  BY <1>3, Returning
<1>5. QED
  BY <1>1, <1>2, <1>3, <1>4, ReturnScope

LEMMA ReturnToLoopScope == ASSUME Inv, ScopeInv, ReturnToLoop PROVE ScopeInv'
<1> DEFINE f == [Caller EXCEPT !.loop = "no"]
<1>1. Returned("foreach") /\ phase = "unwind" /\ UNCHANGED <<tree, ctx>>
  BY DEF ReturnToLoop, Returned
<1>2. Fatal => Fatal'
  BY <1>1, FatalStays DEF Next, Step
<1>3. /\ Caller \in Frame /\ Caller.mark \in Nat /\ Caller.loop # "no"
      /\ Caller.mark + 2 <= Len(held) /\ Len(held) \in Nat
  <2>1. /\ Caller \in Frame /\ Caller.mark \in Nat /\ Caller.loop # "no"
        /\ Caller.mark + LoopSlots(Caller) <= Len(held) /\ Len(held) \in Nat
    BY <1>1, Returning
  <2>2. QED
    BY <2>1 DEF LoopSlots
<1>4. f \in Frame /\ f.mark = Caller.mark /\ f.entry = Caller.entry /\ f.loop = "no"
  BY <1>3 DEF Frame
<1>5. \/ /\ ret.err # "ok" /\ ret' = [stop |-> TRUE, err |-> ret.err]
         /\ stack' = ReplaceTop(Front(stack), f)
         /\ held' = WithoutLoop(held) /\ phase' = phase
      \/ stack' = ReplaceTop(Front(stack), Caller) /\ UNCHANGED held
  BY DEF ReturnToLoop, Resume
<1> HIDE DEF f
<1>6. CASE /\ ret.err # "ok" /\ ret' = [stop |-> TRUE, err |-> ret.err]
           /\ stack' = ReplaceTop(Front(stack), f)
           /\ held' = WithoutLoop(held) /\ phase' = phase
  <2>1. Fatal' /\ phase' = "unwind"
    BY <1>1, <1>6 DEF Fatal
  <2>2. /\ held' \in Seq(Slot) /\ Len(held') = Len(held) - 2
        /\ \A j \in 1..(Len(held) - 2) : held'[j] = held[j]
    <3>1. held \in Seq(Slot) /\ Len(held) >= 2
      BY <1>3 DEF Inv, TypeOK
    <3>2. QED
      BY <1>6, <3>1, WithoutLoopFields
  <2>3. /\ stack' \in Seq(Frame) /\ Len(stack') = Len(stack) - 1
        /\ stack'[Len(stack) - 1] = f
        /\ \A i \in 1..(Len(stack) - 2) : stack'[i] = stack[i]
    BY <1>1, <1>4, <1>6, CallerOnTop
  <2>4. Len(held') <= Len(held) /\ Caller.mark <= Len(held')
        /\ \A j \in 1..Len(held') : held'[j] = held[j]
    BY <1>3, <2>2
  <2>5. Len(stack) > 1 /\ Len(held) = Top.mark
    BY <1>1 DEF Returned
  <2>6. QED
    BY <1>1, <1>4, <2>1, <2>2, <2>3, <2>4, <2>5, LeaveScope
<1>7. CASE stack' = ReplaceTop(Front(stack), Caller) /\ UNCHANGED held
  BY <1>1, <1>2, <1>3, <1>7, ReturnScope
<1>8. QED
  BY <1>5, <1>6, <1>7

LEMMA ReturnToExecuteScope == ASSUME Inv, ScopeInv, ReturnToExecute PROVE ScopeInv'
<1>1. /\ phase = "unwind" /\ phase' = "done"
      /\ UNCHANGED <<tree, ret, stack, held, ctx>>
  BY DEF ReturnToExecute
<1>2. Fatal' <=> Fatal
  BY <1>1 DEF Fatal
<1>3. Framed(stack', held', ctx') /\ (~ Fatal' => Owned(stack', held', ctx'))
  BY <1>1, <1>2 DEF ScopeInv
<1>4. Loops(stack, held, ctx)'
  BY <1>1 DEF ScopeInv, Loops, LoopHolds, NodeAt
<1>5. QED
  BY <1>1, <1>3, <1>4, ScopeInvAfter

LEMMA ExecuteScope == ASSUME Inv, ScopeInv, Execute PROVE ScopeInv'
<1>1. PICK c \in Bindings : ctx' = c /\ stack' = <<NewFrame(1, Main, 0, 0, c)>>
  BY DEF Execute
<1>2. held' = <<>> /\ phase' = "run"
  BY DEF Execute
<1>3. c \in Contexts(Value) /\ Main \in List
  BY ConstantsAssumption DEF Contexts, Value
<1> DEFINE f == NewFrame(1, Main, 0, 0, c)
<1>4. f \in Frame /\ f.mark = 0 /\ f.entry = c /\ f.loop = "no" /\ f.v = Nil
  BY <1>3, NewFrameFields
<1>5. stack' = <<f>>
  BY <1>1
<1> HIDE DEF f
<1>6. Len(stack') = 1 /\ stack'[1] = f /\ Top' = f /\ Len(held') = 0 /\ ctx' = c
  BY <1>1, <1>2, <1>5 DEF Top, Last
<1>7. Framed(stack', held', ctx')
  BY <1>3, <1>4, <1>6, GrownSelf DEF Framed, Marked, Based, Parted
<1>8. Owned(stack', held', ctx')
  <2>1. \A n \in Name : Len(c[n]) \in Nat
    BY <1>3, Lengths
  <2>2. QED
    BY <1>4, <1>6, <2>1 DEF Owned
<1>9. Loops(stack, held, ctx)'
  BY <1>4, <1>6 DEF Loops
<1>10. QED
  BY <1>4, <1>6, <1>7, <1>8, <1>9, ScopeInvAfter

LEMMA StutterScope == ASSUME ScopeInv, UNCHANGED vars PROVE ScopeInv'
<1>1. UNCHANGED <<tree, phase, ret, stack, held, ctx>>
  BY DEF vars
<1>2. Fatal' <=> Fatal
  BY <1>1 DEF Fatal
<1>3. Framed(stack', held', ctx') /\ (~ Fatal' => Owned(stack', held', ctx'))
  BY <1>1, <1>2 DEF ScopeInv
<1>4. Loops(stack, held, ctx)'
  BY <1>1 DEF ScopeInv, Loops, LoopHolds, NodeAt
<1>5. phase' = "run" /\ Top'.loop = "no" => Top'.v = Nil
  BY <1>1 DEF ScopeInv, Top
<1>6. QED
  BY <1>3, <1>4, <1>5, ScopeInvAfter

LEMMA NextScope == Inv /\ ScopeInv /\ [Next]_vars => ScopeInv'
<1> SUFFICES ASSUME Inv, ScopeInv, [Next]_vars PROVE ScopeInv'
  OBVIOUS
<1>1. CASE Step
  <2>1. CASE Plain
    BY <2>1, PlainScope
  <2>2. CASE ReturnToIf \/ ReturnToCall \/ ReturnToParse
    BY <2>2, ReturnsScope
  <2>3. QED
    BY <1>1, <2>1, <2>2, SetVarScope, IfScope, BindArgScope, CallScope, ForeachStartScope,
       LoopNextScope, LoopElseScope, LoopEndScope, ParseScope, RunDeferScope,
       ReturnToLoopScope, ReturnToExecuteScope DEF Step, Plain
<1>2. CASE Execute
  BY <1>2, ExecuteScope
<1>3. CASE Finished \/ UNCHANGED vars
  BY <1>3, StutterScope DEF Finished
<1>4. QED
  BY <1>1, <1>2, <1>3 DEF Next
-----------------------------------------------------------------------------
(* The theorems *)

(* The inductive invariant of slots and contexts holds in every state.     *)
THEOREM ScopeInvariant == Spec => [](Inv /\ ScopeInv)
<1>1. Init => Inv /\ ScopeInv
  BY InitInv, InitScope
<1>2. Inv /\ ScopeInv /\ [Next]_vars => Inv' /\ ScopeInv'
  BY NextInv, NextScope
<1>3. QED
  BY <1>1, <1>2, PTL DEF Spec

(* Whatever a list and the lists below it set, bind and loop over: when it *)
(* returns without an error that ends the rendering, the context is the one *)
(* of its call, value by value.                                            *)
THEOREM ScopeIsRestored == Spec => []ScopeRestored
<1>1. Inv /\ ScopeInv => ScopeRestored
  <2> SUFFICES ASSUME Inv, ScopeInv, phase = "unwind", ~ Fatal, Len(held) = Top.mark
               PROVE  ctx = Top.entry
    BY DEF ScopeRestored
  <2>1. /\ stack \in Seq(Frame) /\ Top = stack[Len(stack)] /\ Len(stack) \in 1..Len(stack)
        /\ 1 \in 1..Len(stack) /\ stack # <<>>
        /\ ctx \in Contexts(Value) /\ held \in Seq(Slot)
    <3>1. stack # <<>> /\ stack \in Seq(Frame)
      BY DEF Inv, TypeOK
    <3>2. Len(stack) \in Nat \ {0} /\ Top = stack[Len(stack)]
      BY <3>1, TopType DEF Inv
    <3>3. QED
      BY <3>1, <3>2 DEF Inv, TypeOK
  <2>2. Top.entry \in Contexts(Value) /\ stack[1].entry \in Contexts(Value)
    BY <2>1, EntryType
  <2>3. GrownFrom(stack[1].entry, Top.entry) /\ GrownFrom(Top.entry, ctx)
    BY <2>1 DEF ScopeInv, Framed, Based
  <2>4. ASSUME NEW n \in Name PROVE ctx[n] = Top.entry[n]
    <3>1. /\ ctx[n] \in Seq(Value) /\ Top.entry[n] \in Seq(Value)
          /\ Len(ctx[n]) \in Nat /\ Len(Top.entry[n]) \in Nat
          /\ Len(stack[1].entry[n]) \in Nat
      BY <2>1, <2>2, Lengths
    <3>2. Len(ctx[n]) = Len(Top.entry[n])
      <4> SUFFICES ASSUME Len(ctx[n]) > Len(Top.entry[n]) PROVE FALSE
        BY <2>3, <3>1 DEF GrownFrom
      <4>1. Len(ctx[n]) > Len(stack[1].entry[n]) /\ Len(ctx[n]) \in 1..Len(ctx[n])
        BY <2>3, <3>1 DEF GrownFrom
      <4>2. PICK j \in 1..Len(held) : held[j].name = n /\ held[j].idx = Len(ctx[n])
        BY <2>1, <4>1 DEF ScopeInv, Owned
      <4>3. j <= Top.mark
        OBVIOUS
      <4>4. held[j].idx <= Len(Top.entry[n])
        BY <2>1, <4>2, <4>3 DEF ScopeInv, Framed, Parted
      <4>5. QED
        BY <3>1, <4>2, <4>4
    <3>3. \A i \in 1..Len(Top.entry[n]) : ctx[n][i] = Top.entry[n][i]
      BY <2>3 DEF GrownFrom
    <3>4. QED
      BY <3>1, <3>2, <3>3, SeqEqual
  <2>5. QED
    BY <2>1, <2>2, <2>4 DEF Contexts
<1>2. QED
  BY <1>1, ScopeInvariant, PTL

(* A running loop's *foreach and its element are in its two slots, however *)
(* many lists, loops and macros run inside it and whatever they shadow.    *)
THEOREM LoopVariablesStay == Spec => []LoopVariables
<1>1. Inv /\ ScopeInv => LoopVariables
  <2> SUFFICES ASSUME Inv, ScopeInv, phase # "done", NEW k \in DOMAIN stack, stack[k].loop # "no"
               PROVE  /\ ctx[Foreach][held[HeldEnd(k) - 1].idx] = k
                      /\ ctx[NodeAt(stack[k]).var][held[HeldEnd(k)].idx] = stack[k].v
    BY DEF LoopVariables
  <2>1. k \in 1..Len(stack)
    BY DEF Inv, TypeOK
  <2>2. LoopHolds(k, stack[k], HeldEnd(k), held, ctx)
    BY <2>1 DEF ScopeInv, Loops, HeldEnd
  <2>3. QED
    BY <2>2 DEF LoopHolds
<1>2. QED
  BY <1>1, ScopeInvariant, PTL
-----------------------------------------------------------------------------
(***************************************************************************)
(* The refinement of Scoping.  That a name means its binding made last     *)
(* follows from ScopeInv in every state.  A step is then one of Scoping's  *)
(* by what it does to the slots, to the frames and to Fatal: each action   *)
(* gets a lemma that says which.                                           *)
(***************************************************************************)
Binding == [name : Name, val : Value]

GlobalsOf(s) == IF s = <<>> THEN [n \in Name |-> None] ELSE Shown(s[1].entry)

EnvOf(h, c) == [j \in DOMAIN h |-> [name |-> h[j].name, val |-> c[h[j].name][h[j].idx]]]

BlocksOf(s) == [k \in DOMAIN s |-> s[k].mark]

LEMMA EnvType ==
  ASSUME NEW h \in Seq(Slot), NEW c \in Contexts(Value), InBounds(h, c)
  PROVE  /\ EnvOf(h, c) \in Seq(Binding) /\ Len(EnvOf(h, c)) = Len(h)
         /\ \A j \in 1..Len(h) :
              EnvOf(h, c)[j] = [name |-> h[j].name, val |-> c[h[j].name][h[j].idx]]
<1>1. DOMAIN h = 1..Len(h) /\ Len(h) \in Nat
  OBVIOUS
<1>2. ASSUME NEW j \in 1..Len(h)
      PROVE  [name |-> h[j].name, val |-> c[h[j].name][h[j].idx]] \in Binding
  <2>1. h[j].name \in Name /\ h[j].idx \in Nat \ {0} /\ h[j].idx <= Len(c[h[j].name])
    BY SlotFields DEF InBounds
  <2>2. c[h[j].name] \in Seq(Value) /\ Len(c[h[j].name]) \in Nat
    BY <2>1, Lengths
  <2>3. c[h[j].name][h[j].idx] \in Value
    BY <2>1, <2>2
  <2>4. QED
    BY <2>1, <2>3 DEF Binding
<1>3. EnvOf(h, c) \in [1..Len(h) -> Binding]
  BY <1>1, <1>2 DEF EnvOf
<1>4. EnvOf(h, c) \in Seq(Binding)
  BY <1>1, <1>3, SeqDef
<1>5. Len(EnvOf(h, c)) = Len(h)
  <2>1. DOMAIN EnvOf(h, c) = 1..Len(h)
    BY <1>3
  <2>2. DOMAIN EnvOf(h, c) = 1..Len(EnvOf(h, c)) /\ Len(EnvOf(h, c)) \in Nat
    BY <1>4
  <2>3. QED
    BY <1>1, <2>1, <2>2
<1>6. QED
  BY <1>1, <1>4, <1>5 DEF EnvOf

LEMMA BlocksType ==
  ASSUME NEW s \in Seq(Frame)
  PROVE  /\ BlocksOf(s) \in Seq(Nat) /\ Len(BlocksOf(s)) = Len(s)
         /\ \A k \in 1..Len(s) : BlocksOf(s)[k] = s[k].mark
<1>1. DOMAIN s = 1..Len(s) /\ Len(s) \in Nat
  OBVIOUS
<1>2. BlocksOf(s) \in [1..Len(s) -> Nat]
  BY <1>1, EntryType DEF BlocksOf
<1>3. BlocksOf(s) \in Seq(Nat)
  BY <1>1, <1>2, SeqDef
<1>4. Len(BlocksOf(s)) = Len(s)
  <2>1. DOMAIN BlocksOf(s) = 1..Len(s)
    BY <1>2
  <2>2. DOMAIN BlocksOf(s) = 1..Len(BlocksOf(s)) /\ Len(BlocksOf(s)) \in Nat
    BY <1>3
  <2>3. QED
    BY <1>1, <2>1, <2>2
<1>5. QED
  BY <1>1, <1>3, <1>4 DEF BlocksOf

LEMMA ExtendsWhen ==
  ASSUME NEW V, NEW s \in Seq(V), NEW t \in Seq(V), Len(s) < Len(t),
         \A i \in 1..Len(s) : t[i] = s[i]
  PROVE  Scopes!Extends(s, t)
<1>1. Len(s) \in Nat /\ Len(t) \in Nat
  OBVIOUS
<1>2. /\ SubSeq(t, 1, Len(s)) \in Seq(V) /\ Len(SubSeq(t, 1, Len(s))) = Len(s)
      /\ \A i \in 1..Len(s) : SubSeq(t, 1, Len(s))[i] = t[i]
  BY <1>1
<1> DEFINE u == SubSeq(t, 1, Len(s))
<1>3. \A i \in 1..Len(s) : u[i] = s[i]
  BY <1>2
<1>4. u \in Seq(V) /\ Len(u) = Len(s)
  BY <1>2
<1> HIDE DEF u
<1>5. u = s
  BY <1>3, <1>4, SeqEqual
<1>6. QED
  BY <1>5 DEF Scopes!Extends, u

(* Every name means its binding made last, or what the caller gave it.      *)
LEMMA ScopeConsistent == Inv /\ ScopeInv /\ stack # <<>> => Scopes!Consistent
<1> SUFFICES ASSUME Inv, ScopeInv, ~ Fatal, stack # <<>>
             PROVE  Shown(ctx) = [n \in Name |->
                      Scopes!Meaning(GlobalsOf(stack), EnvOf(held, ctx), n)]
  BY DEF Scopes!Consistent, GlobalsOf, EnvOf
<1>1. /\ stack \in Seq(Frame) /\ held \in Seq(Slot) /\ ctx \in Contexts(Value)
      /\ Ordered(held) /\ InBounds(held, ctx) /\ Framed(stack, held, ctx)
      /\ Owned(stack, held, ctx) /\ 1 \in 1..Len(stack)
  BY DEF Inv, TypeOK, SlotsOK, ScopeInv
<1> DEFINE E == EnvOf(held, ctx)
<1>2. /\ E \in Seq(Binding) /\ Len(E) = Len(held) /\ Len(held) \in Nat
      /\ DOMAIN E = 1..Len(held)
      /\ \A j \in 1..Len(held) :
           E[j] = [name |-> held[j].name, val |-> ctx[held[j].name][held[j].idx]]
  <2>1. /\ E \in Seq(Binding) /\ Len(E) = Len(held)
        /\ \A j \in 1..Len(held) :
             E[j] = [name |-> held[j].name, val |-> ctx[held[j].name][held[j].idx]]
    BY <1>1, EnvType
  <2> HIDE DEF E
  <2>2. QED
    BY <1>1, <2>1
<1> HIDE DEF E
<1>3. SUFFICES ASSUME NEW n \in Name
               PROVE  Shown(ctx)[n] = Scopes!Meaning(GlobalsOf(stack), E, n)
  BY DEF Shown, E
<1> DEFINE own == {j \in DOMAIN E : E[j].name = n}
<1>4. own = {j \in 1..Len(held) : held[j].name = n}
  BY <1>2
<1>5. ctx[n] \in Seq(Value) /\ Len(ctx[n]) \in Nat
  BY <1>1, Lengths
<1>6. CASE own = {}
  <2>1. Scopes!Meaning(GlobalsOf(stack), E, n) = GlobalsOf(stack)[n]
    BY <1>6 DEF Scopes!Meaning
  <2>2. stack[1].entry[n] \in Seq(Value) /\ Len(stack[1].entry[n]) \in Nat
    BY <1>1, EntryType, Lengths
  <2>3. /\ Len(stack[1].entry[n]) <= Len(ctx[n])
        /\ \A i \in 1..Len(stack[1].entry[n]) : ctx[n][i] = stack[1].entry[n][i]
    BY <1>1 DEF Framed, Based, GrownFrom
  <2>4. ~(Len(stack[1].entry[n]) < Len(ctx[n]))
    <3> SUFFICES ASSUME Len(stack[1].entry[n]) < Len(ctx[n]) PROVE FALSE
      OBVIOUS
    <3>1. Len(ctx[n]) \in 1..Len(ctx[n])
      BY <1>5, <2>2
    <3>2. PICK j \in 1..Len(held) : held[j].name = n
      BY <1>1, <2>2, <3>1 DEF Owned
    <3>3. QED
      BY <1>4, <1>6, <3>2
  <2>5. ctx[n] = stack[1].entry[n]
    BY <1>5, <2>2, <2>3, <2>4, SeqEqual
  <2>6. QED
    BY <2>1, <2>5 DEF GlobalsOf, Shown, IsDefined, Get
<1>7. CASE own # {}
  <2>1. PICK l \in 1..Len(held) : held[l].name = n
    BY <1>4, <1>7
  <2>2. stack[1].mark = 0 /\ Len(stack[1].entry[n]) \in Nat /\ l > 0
    BY <1>1, EntryType, Lengths DEF Framed, Marked
  <2>3. /\ held[l].idx > Len(stack[1].entry[n]) /\ held[l].idx <= Len(ctx[n])
        /\ held[l].idx \in Nat
    BY <1>1, <2>1, <2>2, AboveMarks, SlotFields DEF InBounds
  <2>4. PICK j \in 1..Len(held) : held[j].name = n /\ held[j].idx = Len(ctx[n])
    <3>1. Len(ctx[n]) \in 1..Len(ctx[n]) /\ Len(ctx[n]) > Len(stack[1].entry[n])
      BY <1>5, <2>2, <2>3
    <3>2. QED
      BY <1>1, <3>1 DEF Owned
  <2>5. ASSUME NEW i \in own PROVE i <= j
    <3> SUFFICES ASSUME j < i PROVE FALSE
      BY <1>4
    <3>1. i \in 1..Len(held) /\ held[i].name = n
      BY <1>4
    <3>2. held[j].idx < held[i].idx
      BY <1>1, <2>4, <3>1 DEF Ordered
    <3>3. held[i].idx <= Len(ctx[n]) /\ held[i].idx \in Nat
      BY <1>1, <3>1, SlotFields DEF InBounds
    <3>4. QED
      BY <1>5, <2>4, <3>2, <3>3
  <2>6. j \in own /\ \A i \in own : i \in Nat /\ j \in Nat
    BY <1>4, <2>4
  <2>7. Scopes!Max(own) = j
    <3>1. \A x \in own : (\A i \in own : x >= i) => x = j
      BY <2>5, <2>6
    <3>2. \A i \in own : j >= i
      BY <2>5, <2>6
    <3> HIDE DEF own
    <3>3. QED
      BY <2>6, <3>1, <3>2 DEF Scopes!Max
  <2>8. Scopes!Meaning(GlobalsOf(stack), E, n) = E[j].val
    BY <1>7, <2>7 DEF Scopes!Meaning
  <2>9. E[j].val = ctx[n][Len(ctx[n])]
    BY <1>2, <2>4
  <2>10. Shown(ctx)[n] = ctx[n][Len(ctx[n])]
    <3>1. ctx[n] # <<>>
      BY <1>5, <2>2, <2>3
    <3>2. QED
      BY <3>1 DEF Shown, IsDefined, Get, Last
  <2>11. QED
    BY <2>8, <2>9, <2>10
<1>8. QED
  BY <1>6, <1>7

LEMMA SameBlocks ==
  ASSUME NEW s \in Seq(Frame), NEW r \in Seq(Frame), s # <<>>, Len(r) = Len(s),
         \A k \in 1..Len(s) : r[k].mark = s[k].mark /\ r[k].entry = s[k].entry
  PROVE  BlocksOf(r) = BlocksOf(s) /\ GlobalsOf(r) = GlobalsOf(s)
<1>1. 1 \in 1..Len(s) /\ r # <<>> /\ DOMAIN r = DOMAIN s /\ DOMAIN s = 1..Len(s)
  OBVIOUS
<1>2. QED
  BY <1>1 DEF BlocksOf, GlobalsOf

LEMMA ReplacedBlocks ==
  ASSUME Inv, stack # <<>>, NEW f \in Frame, f.mark = Top.mark, f.entry = Top.entry
  PROVE  /\ BlocksOf(ReplaceTop(stack, f)) = BlocksOf(stack)
         /\ GlobalsOf(ReplaceTop(stack, f)) = GlobalsOf(stack)
<1> DEFINE r == ReplaceTop(stack, f)
<1>1. stack \in Seq(Frame) /\ Len(stack) \in Nat \ {0} /\ Top = stack[Len(stack)]
  BY TopType DEF Inv, TypeOK
<1>2. /\ r \in Seq(Frame) /\ Len(r) = Len(stack) /\ r[Len(stack)] = f
      /\ \A i \in 1..(Len(stack) - 1) : r[i] = stack[i]
  BY ReplacedTop
<1> HIDE DEF r
<1>3. ASSUME NEW k \in 1..Len(stack)
      PROVE  r[k].mark = stack[k].mark /\ r[k].entry = stack[k].entry
  <2>1. CASE k = Len(stack)
    BY <1>1, <1>2, <2>1
  <2>2. CASE k \in 1..(Len(stack) - 1)
    BY <1>2, <2>2
  <2>3. QED
    BY <1>1, <2>1, <2>2
<1>4. BlocksOf(r) = BlocksOf(stack) /\ GlobalsOf(r) = GlobalsOf(stack)
  BY <1>1, <1>2, <1>3, SameBlocks
<1>5. QED
  BY <1>4 DEF r

LEMMA OpenedBlocks ==
  ASSUME NEW s \in Seq(Frame), s # <<>>, NEW f \in Frame
  PROVE  /\ BlocksOf(Append(s, f)) = Append(BlocksOf(s), f.mark)
         /\ GlobalsOf(Append(s, f)) = GlobalsOf(s)
<1> DEFINE r == Append(s, f)
           b == Append(BlocksOf(s), f.mark)
<1>1. /\ r \in Seq(Frame) /\ r # <<>> /\ Len(r) = Len(s) + 1 /\ Len(s) \in Nat
      /\ r[Len(s) + 1] = f /\ \A k \in 1..Len(s) : r[k] = s[k]
      /\ 1 \in 1..Len(s) /\ f.mark \in Nat
  <2>1. /\ r \in Seq(Frame) /\ Len(r) = Len(s) + 1 /\ Len(s) \in Nat /\ Len(s) > 0
        /\ r[Len(s) + 1] = f /\ \A k \in 1..Len(s) : r[k] = s[k]
    OBVIOUS
  <2>2. f.mark \in Nat
    BY DEF Frame
  <2> HIDE DEF r
  <2>3. QED
    BY <2>1, <2>2
<1>2. /\ BlocksOf(s) \in Seq(Nat) /\ Len(BlocksOf(s)) = Len(s)
      /\ \A k \in 1..Len(s) : BlocksOf(s)[k] = s[k].mark
  BY BlocksType
<1>3. /\ BlocksOf(r) \in Seq(Nat) /\ Len(BlocksOf(r)) = Len(s) + 1
      /\ \A k \in 1..(Len(s) + 1) : BlocksOf(r)[k] = r[k].mark
  BY <1>1, BlocksType
<1>4. /\ b \in Seq(Nat) /\ Len(b) = Len(s) + 1 /\ b[Len(s) + 1] = f.mark
      /\ \A k \in 1..Len(s) : b[k] = s[k].mark
  BY <1>1, <1>2
<1> HIDE DEF r, b
<1>5. \A k \in 1..(Len(s) + 1) : b[k] = BlocksOf(r)[k]
  <2> SUFFICES ASSUME NEW k \in 1..(Len(s) + 1) PROVE b[k] = BlocksOf(r)[k]
    OBVIOUS
  <2>1. CASE k \in 1..Len(s)
    BY <1>1, <1>3, <1>4, <2>1
  <2>2. CASE k = Len(s) + 1
    BY <1>1, <1>3, <1>4, <2>2
  <2>3. QED
    BY <1>1, <2>1, <2>2
<1>6. b = BlocksOf(r)
  BY <1>3, <1>4, <1>5, SeqEqual
<1>7. GlobalsOf(r) = GlobalsOf(s)
  BY <1>1 DEF GlobalsOf
<1>8. QED
  BY <1>6, <1>7 DEF r, b

LEMMA ClosedBlocks ==
  ASSUME NEW s \in Seq(Frame), NEW r \in Seq(Frame), Len(s) > 1, Len(r) = Len(s) - 1,
         \A k \in 1..Len(r) : r[k].mark = s[k].mark /\ r[k].entry = s[k].entry
  PROVE  /\ BlocksOf(r) = Front(BlocksOf(s)) /\ GlobalsOf(r) = GlobalsOf(s)
         /\ BlocksOf(s) # <<>>
<1>1. /\ 1 \in 1..Len(r) /\ r # <<>> /\ s # <<>> /\ Len(s) \in Nat
      /\ \A k \in 1..Len(r) : k \in 1..Len(s)
  OBVIOUS
<1>2. /\ BlocksOf(s) \in Seq(Nat) /\ Len(BlocksOf(s)) = Len(s)
      /\ \A k \in 1..Len(s) : BlocksOf(s)[k] = s[k].mark
  BY BlocksType
<1>3. /\ BlocksOf(r) \in Seq(Nat) /\ Len(BlocksOf(r)) = Len(s) - 1
      /\ \A k \in 1..(Len(s) - 1) : BlocksOf(r)[k] = r[k].mark
  BY BlocksType
<1>4. BlocksOf(s) # <<>>
  BY <1>1, <1>2
<1>5. /\ Front(BlocksOf(s)) \in Seq(Nat) /\ Len(Front(BlocksOf(s))) = Len(s) - 1
      /\ \A k \in 1..(Len(s) - 1) : Front(BlocksOf(s))[k] = s[k].mark
  <2> DEFINE b == BlocksOf(s)
  <2>1. /\ Front(b) \in Seq(Nat) /\ Len(Front(b)) = Len(b) - 1
        /\ \A k \in 1..(Len(b) - 1) : Front(b)[k] = b[k]
    BY <1>2, <1>4, LastFront
  <2>2. QED
    BY <1>1, <1>2, <2>1
<1>6. \A k \in 1..(Len(s) - 1) : Front(BlocksOf(s))[k] = BlocksOf(r)[k]
  BY <1>3, <1>5
<1>7. Front(BlocksOf(s)) = BlocksOf(r)
  BY <1>3, <1>5, <1>6, SeqEqual
<1>8. GlobalsOf(r) = GlobalsOf(s)
  BY <1>1 DEF GlobalsOf
<1>9. QED
  BY <1>4, <1>7, <1>8

(* The bindings before and after a step that keeps the first m of them.    *)
LEMMA KeptEnv ==
  ASSUME NEW h \in Seq(Slot), NEW c \in Contexts(Value), InBounds(h, c),
         NEW g \in Seq(Slot), NEW d \in Contexts(Value), InBounds(g, d),
         NEW m \in Nat, Kept(m, h, c, g, d)
  PROVE  /\ m = Len(h) /\ m = Len(g) => EnvOf(g, d) = EnvOf(h, c)
         /\ m = Len(h) /\ m < Len(g) => Scopes!Extends(EnvOf(h, c), EnvOf(g, d))
         /\ m < Len(h) /\ m = Len(g) => Scopes!Extends(EnvOf(g, d), EnvOf(h, c))
<1> DEFINE E == EnvOf(h, c)
           F == EnvOf(g, d)
<1>1. /\ E \in Seq(Binding) /\ Len(E) = Len(h)
      /\ \A j \in 1..Len(h) : E[j] = [name |-> h[j].name, val |-> c[h[j].name][h[j].idx]]
  BY EnvType
<1>2. /\ F \in Seq(Binding) /\ Len(F) = Len(g)
      /\ \A j \in 1..Len(g) : F[j] = [name |-> g[j].name, val |-> d[g[j].name][g[j].idx]]
  BY EnvType
<1> HIDE DEF E, F
<1>3. m <= Len(h) /\ m <= Len(g) /\ Len(h) \in Nat /\ Len(g) \in Nat
  BY DEF Kept
<1>4. ASSUME NEW j \in 1..m PROVE F[j] = E[j]
  <2>1. j \in 1..Len(h) /\ j \in 1..Len(g)
    BY <1>3
  <2>2. g[j] = h[j] /\ d[h[j].name][h[j].idx] = c[h[j].name][h[j].idx]
    BY DEF Kept
  <2>3. QED
    BY <1>1, <1>2, <2>1, <2>2
<1>5. m = Len(h) /\ m = Len(g) => F = E
  BY <1>1, <1>2, <1>4, SeqEqual
<1>6. m = Len(h) /\ m < Len(g) => Scopes!Extends(E, F)
  BY <1>1, <1>2, <1>4, ExtendsWhen
<1>7. m < Len(h) /\ m = Len(g) => Scopes!Extends(F, E)
  BY <1>1, <1>2, <1>4, ExtendsWhen
<1>8. QED
  BY <1>5, <1>6, <1>7 DEF E, F
-----------------------------------------------------------------------------
(* What a step comes to in Scoping *)

SameScope == /\ GlobalsOf(stack') = GlobalsOf(stack)
             /\ BlocksOf(stack') = BlocksOf(stack)

Stays == /\ SameScope /\ EnvOf(held', ctx') = EnvOf(held, ctx)
         /\ ctx' = ctx /\ (Fatal' <=> Fatal)

Fails == /\ Fatal' /\ GlobalsOf(stack') = GlobalsOf(stack)
         /\ \/ EnvOf(held', ctx') = EnvOf(held, ctx)
            \/ Scopes!Extends(EnvOf(held', ctx'), EnvOf(held, ctx))

Binds == /\ SameScope /\ ~ Fatal /\ ~ Fatal'
         /\ Scopes!Extends(EnvOf(held, ctx), EnvOf(held', ctx'))

Unbinds == /\ SameScope /\ ~ Fatal /\ ~ Fatal'
           /\ Scopes!Extends(EnvOf(held', ctx'), EnvOf(held, ctx))
           /\ Len(EnvOf(held', ctx')) >= Last(BlocksOf(stack))

Opens == /\ GlobalsOf(stack') = GlobalsOf(stack) /\ ~ Fatal /\ ~ Fatal'
         /\ BlocksOf(stack') = Append(BlocksOf(stack), Len(EnvOf(held, ctx)))
         /\ EnvOf(held', ctx') = EnvOf(held, ctx)

Iterates == /\ GlobalsOf(stack') = GlobalsOf(stack) /\ ~ Fatal /\ ~ Fatal'
            /\ BlocksOf(stack') = Append(BlocksOf(stack), Len(EnvOf(held, ctx)))
            /\ Len(EnvOf(held, ctx)) > Last(BlocksOf(stack))
            /\ Len(EnvOf(held', ctx')) = Len(EnvOf(held, ctx))
            /\ Front(EnvOf(held', ctx')) = Front(EnvOf(held, ctx))
            /\ Last(EnvOf(held', ctx')).name = Last(EnvOf(held, ctx)).name

Closes == /\ GlobalsOf(stack') = GlobalsOf(stack) /\ (Fatal' <=> Fatal)
          /\ BlocksOf(stack) # <<>> /\ Len(EnvOf(held, ctx)) = Last(BlocksOf(stack))
          /\ BlocksOf(stack') = Front(BlocksOf(stack))
          /\ EnvOf(held', ctx') = EnvOf(held, ctx)

Starts == /\ EnvOf(held', ctx') = <<>> /\ BlocksOf(stack') = <<0>> /\ ~ Fatal'

LEMMA ScopesStep ==
  ASSUME Fails \/ Binds \/ Unbinds \/ Opens \/ Iterates \/ Closes \/ Starts,
         Scopes!Consistent'
  PROVE  Scopes!Next
<1>1. Fails => Scopes!Fail
  BY DEF Fails, Fatal, Scopes!Fail, GlobalsOf, EnvOf
<1>2. Binds => Scopes!Bind
  BY DEF Binds, SameScope, Fatal, Scopes!Bind, GlobalsOf, EnvOf, BlocksOf
<1>3. Unbinds => Scopes!Unbind
  BY DEF Unbinds, SameScope, Fatal, Scopes!Unbind, GlobalsOf, EnvOf, BlocksOf,
         Last, Scopes!Last
<1>4. Opens => Scopes!Open
  BY DEF Opens, Fatal, Scopes!Open, GlobalsOf, EnvOf, BlocksOf
<1>5. Iterates => Scopes!Iterate
  BY DEF Iterates, Fatal, Scopes!Iterate, GlobalsOf, EnvOf, BlocksOf,
         Last, Scopes!Last, Front, Scopes!Front
<1>6. Closes => Scopes!Close
  BY DEF Closes, Fatal, Scopes!Close, GlobalsOf, EnvOf, BlocksOf,
         Last, Scopes!Last, Front, Scopes!Front
<1>7. Starts => Scopes!Start
  BY DEF Starts, Fatal, Scopes!Start, EnvOf, BlocksOf
<1>8. QED
  BY <1>1, <1>2, <1>3, <1>4, <1>5, <1>6, <1>7 DEF Scopes!Next

LEMMA ScopesStutter == ASSUME Stays PROVE UNCHANGED Scopes!vars
  BY DEF Stays, SameScope, Scopes!vars, GlobalsOf, EnvOf, BlocksOf

Moves == /\ stack' # <<>>
         /\ Fails \/ Binds \/ Unbinds \/ Opens \/ Iterates \/ Closes \/ Starts
-----------------------------------------------------------------------------
(* The steps of a shape *)

LEMMA SameEnv ==
  ASSUME Inv, UNCHANGED <<held, ctx>> PROVE EnvOf(held', ctx') = EnvOf(held, ctx)
  BY DEF EnvOf

LEMMA GrownBounds ==
  ASSUME NEW h \in Seq(Slot), NEW c \in Contexts(Value), NEW d \in Contexts(Value),
         InBounds(h, c), GrownFrom(c, d)
  PROVE  InBounds(h, d)
<1> SUFFICES ASSUME NEW j \in 1..Len(h) PROVE h[j].idx <= Len(d[h[j].name])
  BY DEF InBounds
<1>1. h[j].idx \in Nat /\ h[j].name \in Name /\ h[j].idx <= Len(c[h[j].name])
  BY SlotFields DEF InBounds
<1>2. /\ Len(c[h[j].name]) <= Len(d[h[j].name])
      /\ Len(c[h[j].name]) \in Nat /\ Len(d[h[j].name]) \in Nat
  BY <1>1, Lengths DEF GrownFrom
<1>3. QED
  BY <1>1, <1>2

LEMMA FailMoves ==
  ASSUME Inv, phase = "run", NEW stop, NEW err, Fail(stop, err), UNCHANGED held,
         UNCHANGED ctx \/ (/\ ctx' \in Contexts(Value) /\ GrownFrom(ctx, ctx')
                           /\ stop = TRUE /\ err # "ok")
  PROVE  Stays \/ Moves
<1>1. /\ held \in Seq(Slot) /\ ctx \in Contexts(Value) /\ InBounds(held, ctx)
      /\ stack # <<>> /\ Len(held) \in Nat
  BY DEF Inv, TypeOK, SlotsOK
<1>2. /\ stack' = stack /\ held' = held /\ phase' = "unwind"
      /\ ret' = [stop |-> stop, err |-> err]
  BY DEF Fail, Return
<1>3. ~ Fatal
  BY DEF Fatal
<1>4. GlobalsOf(stack') = GlobalsOf(stack) /\ BlocksOf(stack') = BlocksOf(stack)
  BY <1>2
<1>5. EnvOf(held', ctx') = EnvOf(held, ctx)
  <2>1. CASE UNCHANGED ctx
    BY <1>2, <2>1
  <2>2. CASE ctx' \in Contexts(Value) /\ GrownFrom(ctx, ctx')
    <3>1. Kept(Len(held), held, ctx, held, ctx') /\ InBounds(held, ctx')
      BY <1>1, <2>2, GrownKeeps, GrownBounds
    <3>2. EnvOf(held, ctx') = EnvOf(held, ctx)
      BY <1>1, <2>2, <3>1, KeptEnv
    <3>3. QED
      BY <1>2, <3>2
  <2>3. QED
    BY <2>1, <2>2
<1>6. CASE Fatal'
  BY <1>1, <1>2, <1>4, <1>5, <1>6 DEF Fails, Moves
<1>7. CASE ~ Fatal'
  <2>1. UNCHANGED ctx
    BY <1>2, <1>7 DEF Fatal
  <2>2. QED
    BY <1>3, <1>4, <1>5, <1>7, <2>1 DEF Stays, SameScope
<1>8. QED
  BY <1>6, <1>7

LEMMA SameFrames ==
  ASSUME Inv, stack # <<>>, NEW f \in Frame, f.mark = Top.mark, f.entry = Top.entry,
         stack' = ReplaceTop(stack, f)
  PROVE  SameScope /\ stack' # <<>>
<1>1. /\ BlocksOf(ReplaceTop(stack, f)) = BlocksOf(stack)
      /\ GlobalsOf(ReplaceTop(stack, f)) = GlobalsOf(stack)
  BY ReplacedBlocks
<1>2. Len(stack') = Len(stack) /\ Len(stack) > 0 /\ stack' \in Seq(Frame)
  BY ReplacedTop, TopType DEF Inv
<1>3. stack' # <<>>
  BY <1>2
<1>4. QED
  BY <1>1, <1>3 DEF SameScope

LEMMA ContinueMoves ==
  ASSUME Inv, phase = "run", Continue, UNCHANGED <<held, ctx>>
  PROVE  Stays
<1> DEFINE f == Advanced(Top)
<1>1. stack # <<>> /\ Top \in Frame
  BY Running
<1>2. f \in Frame /\ f.mark = Top.mark /\ f.entry = Top.entry
  BY <1>1, AdvancedFields
<1>3. stack' = ReplaceTop(stack, f) /\ phase' = phase
  BY DEF Continue
<1> HIDE DEF f
<1>4. SameScope
  BY <1>1, <1>2, <1>3, SameFrames
<1>5. ~ Fatal /\ ~ Fatal'
  BY <1>3 DEF Fatal
<1>6. QED
  BY <1>4, <1>5, SameEnv DEF Stays

(* The list that runs pushed values, each with its slot.                    *)
LEMMA BindMoves ==
  ASSUME Inv, phase = "run", NEW f \in Frame, f.mark = Top.mark, f.entry = Top.entry,
         stack' = ReplaceTop(stack, f), UNCHANGED phase,
         held' \in Seq(Slot), ctx' \in Contexts(Value), InBounds(held', ctx'),
         Len(held) < Len(held'), Kept(Len(held), held, ctx, held', ctx')
  PROVE  Moves
<1>1. /\ held \in Seq(Slot) /\ ctx \in Contexts(Value) /\ InBounds(held, ctx)
      /\ stack # <<>> /\ Len(held) \in Nat
  BY DEF Inv, TypeOK, SlotsOK
<1>2. SameScope /\ stack' # <<>>
  BY <1>1, SameFrames
<1>3. Scopes!Extends(EnvOf(held, ctx), EnvOf(held', ctx'))
  BY <1>1, KeptEnv
<1>4. ~ Fatal /\ ~ Fatal'
  BY DEF Fatal
<1>5. QED
  BY <1>2, <1>3, <1>4 DEF Binds, Moves

(* The list that runs popped values with their slots, none but its own.     *)
LEMMA UnbindMoves ==
  ASSUME Inv, ScopeInv, stack # <<>>, SameScope, stack' # <<>>, Fatal' <=> Fatal,
         held' \in Seq(Slot), ctx' \in Contexts(Value), InBounds(held', ctx'),
         Len(held') < Len(held), Kept(Len(held'), held, ctx, held', ctx'),
         Len(held') >= Top.mark
  PROVE  Moves
<1>1. /\ held \in Seq(Slot) /\ ctx \in Contexts(Value) /\ InBounds(held, ctx)
      /\ Len(held) \in Nat /\ Len(held') \in Nat
      /\ stack \in Seq(Frame) /\ Len(stack) \in Nat \ {0} /\ Top = stack[Len(stack)]
  BY TopType DEF Inv, TypeOK, SlotsOK
<1>2. Scopes!Extends(EnvOf(held', ctx'), EnvOf(held, ctx))
  BY <1>1, KeptEnv
<1>3. Len(EnvOf(held', ctx')) = Len(held')
  BY EnvType
<1>4. Last(BlocksOf(stack)) = Top.mark
  <2>1. /\ Len(BlocksOf(stack)) = Len(stack) /\ Len(stack) \in 1..Len(stack)
        /\ \A k \in 1..Len(stack) : BlocksOf(stack)[k] = stack[k].mark
    BY <1>1, BlocksType
  <2>2. QED
    BY <1>1, <2>1 DEF Last
<1>5. Len(EnvOf(held', ctx')) >= Last(BlocksOf(stack))
  BY <1>3, <1>4
<1>6. CASE Fatal
  BY <1>2, <1>6 DEF Fails, SameScope, Moves
<1>7. CASE ~ Fatal
  BY <1>2, <1>5, <1>7 DEF Unbinds, Moves
<1>8. QED
  BY <1>6, <1>7

(* A list is called.                                                        *)
LEMMA EnterMoves ==
  ASSUME Inv, phase = "run", NEW below \in Seq(Frame), NEW f \in Frame,
         EnterFrom(below, f), f.mark = Len(held), below # <<>>,
         BlocksOf(below) = BlocksOf(stack), GlobalsOf(below) = GlobalsOf(stack),
         UNCHANGED <<held, ctx>>
  PROVE  Moves
<1>1. stack' = Append(below, f)
  BY DEF EnterFrom
<1>2. stack' # <<>>
  BY <1>1
<1>3. /\ BlocksOf(stack') = Append(BlocksOf(stack), Len(held))
      /\ GlobalsOf(stack') = GlobalsOf(stack)
  BY <1>1, OpenedBlocks
<1>4. EnvOf(held', ctx') = EnvOf(held, ctx) /\ Len(EnvOf(held, ctx)) = Len(held)
  BY SameEnv, EnvType DEF Inv, TypeOK, SlotsOK
<1>5. ~ Fatal
  BY DEF Fatal
<1>6. CASE Fatal'
  BY <1>2, <1>3, <1>4, <1>6 DEF Fails, Moves
<1>7. CASE ~ Fatal'
  BY <1>2, <1>3, <1>4, <1>5, <1>7 DEF Opens, Moves
<1>8. QED
  BY <1>6, <1>7

LEMMA EnterListMoves ==
  ASSUME Inv, phase = "run", NEW t \in Nat \ {0}, NEW list \in List, NEW depth \in Nat,
         Enter(t, list, depth), UNCHANGED <<held, ctx>>
  PROVE  Moves
<1> DEFINE f == NewFrame(t, list, depth, Len(held), ctx)
<1>1. /\ stack \in Seq(Frame) /\ stack # <<>> /\ Len(held) \in Nat /\ ctx \in Contexts(Value)
  BY DEF Inv, TypeOK
<1>2. f \in Frame /\ f.mark = Len(held)
  BY <1>1, NewFrameFields
<1>3. EnterFrom(stack, f)
  BY DEF Enter
<1> HIDE DEF f
<1>4. QED
  BY <1>1, <1>2, <1>3, EnterMoves

(* A list returns to its caller, or on to the caller's caller.              *)
LEMMA ReturnMoves ==
  ASSUME Inv, NEW type, Returned(type), UNCHANGED <<held, ctx>>, Fatal => Fatal',
         NEW f \in Frame, f.mark = Caller.mark, f.entry = Caller.entry,
         \/ stack' = Front(stack) /\ f = Caller
         \/ stack' = ReplaceTop(Front(stack), f)
  PROVE  Moves
<1>1. /\ stack \in Seq(Frame) /\ Len(stack) \in Nat /\ Len(stack) > 1
      /\ Caller = stack[Len(stack) - 1] /\ Len(held) = Top.mark /\ stack # <<>>
      /\ held \in Seq(Slot) /\ ctx \in Contexts(Value) /\ InBounds(held, ctx)
  BY Returning DEF Inv, TypeOK, SlotsOK, Returned
<1>2. /\ stack' \in Seq(Frame) /\ Len(stack') = Len(stack) - 1
      /\ stack'[Len(stack) - 1] = f
      /\ \A i \in 1..(Len(stack) - 2) : stack'[i] = stack[i]
  BY CallerOnTop
<1>3. ASSUME NEW k \in 1..Len(stack')
      PROVE  stack'[k].mark = stack[k].mark /\ stack'[k].entry = stack[k].entry
  <2>1. CASE k = Len(stack) - 1
    BY <1>1, <1>2, <2>1
  <2>2. CASE k \in 1..(Len(stack) - 2)
    BY <1>2, <2>2
  <2>3. QED
    BY <1>1, <1>2, <2>1, <2>2
<1>4. stack' # <<>>
  BY <1>1, <1>2
<1>5. /\ BlocksOf(stack') = Front(BlocksOf(stack)) /\ BlocksOf(stack) # <<>>
      /\ GlobalsOf(stack') = GlobalsOf(stack)
  BY <1>1, <1>2, <1>3, ClosedBlocks
<1>6. Len(EnvOf(held, ctx)) = Last(BlocksOf(stack))
  <2>1. /\ Len(BlocksOf(stack)) = Len(stack) /\ Len(stack) \in 1..Len(stack)
        /\ \A k \in 1..Len(stack) : BlocksOf(stack)[k] = stack[k].mark
    BY <1>1, BlocksType
  <2>2. Top = stack[Len(stack)]
    BY <1>1, TopType DEF Inv
  <2>3. Len(EnvOf(held, ctx)) = Len(held)
    BY <1>1, EnvType
  <2>4. QED
    BY <1>1, <2>1, <2>2, <2>3 DEF Last
<1>7. EnvOf(held', ctx') = EnvOf(held, ctx)
  BY SameEnv
<1>8. CASE Fatal' <=> Fatal
  BY <1>4, <1>5, <1>6, <1>7, <1>8 DEF Closes, Moves
<1>9. CASE Fatal' /\ ~ Fatal
  BY <1>4, <1>5, <1>7, <1>9 DEF Fails, Moves
<1>10. QED
  BY <1>8, <1>9
-----------------------------------------------------------------------------
(* One lemma for each action that touches slots or frames *)

LEMMA PlainMoves == ASSUME Inv, Plain PROVE Stays \/ Moves
  BY PlainStep, ContinueMoves, FailMoves

LEMMA SetVarMoves == ASSUME Inv, ScopeInv, SetVar, Inv' PROVE Stays \/ Moves
<1> DEFINE n == Current.var
           v == ValOf(Current.expr)
           f == Advanced(Top)
<1>1. phase = "run" /\ n \in Name /\ Current.expr \in Expr
  BY AtNodeType, NodeFields DEF SetVar, Inv
<1>2. v \in Value
  BY <1>1, EvalType DEF Inv
<1>3. /\ held \in Seq(Slot) /\ ctx \in Contexts(Value) /\ InBounds(held, ctx)
      /\ Top \in Frame /\ Len(held) \in Nat
  BY <1>1, RunningScope
<1>4. held' \in Seq(Slot) /\ ctx' \in Contexts(Value) /\ InBounds(held', ctx')
  BY DEF Inv, TypeOK, SlotsOK
<1>5. \/ Fail(FALSE, ErrOf(Current.expr)) /\ UNCHANGED <<held, ctx>>
      \/ /\ stack' = ReplaceTop(stack, f) /\ UNCHANGED phase
         /\ ctx' = Push(ctx, n, v)
         /\ held' = Append(held, SlotOf(ctx, n))
  BY DEF SetVar, Continue
<1>6. f \in Frame /\ f.mark = Top.mark /\ f.entry = Top.entry
  BY <1>3, AdvancedFields
<1> HIDE DEF n, v, f
<1>7. CASE Fail(FALSE, ErrOf(Current.expr)) /\ UNCHANGED <<held, ctx>>
  BY <1>1, <1>7, FailMoves
<1>8. CASE /\ stack' = ReplaceTop(stack, f) /\ UNCHANGED phase
           /\ ctx' = Push(ctx, n, v)
           /\ held' = Append(held, SlotOf(ctx, n))
  <2>1. Kept(Len(held), held, ctx, held', ctx') /\ Len(held) < Len(held')
    BY <1>1, <1>2, <1>3, <1>8, PushKept
  <2>2. QED
    BY <1>1, <1>4, <1>6, <1>8, <2>1, BindMoves
<1>9. QED
  BY <1>5, <1>7, <1>8

LEMMA BindArgMoves == ASSUME Inv, ScopeInv, BindArg, Inv' PROVE Stays \/ Moves
<1> DEFINE n == Called.params[Top.args + 1]
           e == Current.vals[Top.args + 1]
           v == ValOf(e)
           f == [Top EXCEPT !.args = @ + 1]
<1>1. phase = "run"
  BY CalledType DEF BindArg
<1>2. /\ held \in Seq(Slot) /\ ctx \in Contexts(Value) /\ InBounds(held, ctx)
      /\ Top \in Frame /\ Len(held) \in Nat
  BY <1>1, RunningScope
<1>3. n \in Name /\ e \in Expr
  <2>1. Top.args + 1 \in 1..Len(Called.params) /\ Top.args + 1 \in 1..Len(Current.vals)
    BY <1>2, CalledType DEF BindArg, Frame
  <2>2. QED
    BY <2>1, CalledType DEF BindArg
<1>4. v \in Value
  BY <1>3, EvalType DEF Inv
<1>5. held' \in Seq(Slot) /\ ctx' \in Contexts(Value) /\ InBounds(held', ctx')
  BY DEF Inv, TypeOK, SlotsOK
<1>6. \/ Fail(TRUE, ErrOf(e)) /\ UNCHANGED <<held, ctx>>
      \/ /\ stack' = ReplaceTop(stack, f) /\ UNCHANGED phase
         /\ ctx' = Push(ctx, n, v)
         /\ held' = Append(held, SlotOf(ctx, n))
  BY DEF BindArg
<1>7. f \in Frame /\ f.mark = Top.mark /\ f.entry = Top.entry
  BY <1>2 DEF Frame
<1> HIDE DEF n, e, v, f
<1>8. CASE Fail(TRUE, ErrOf(e)) /\ UNCHANGED <<held, ctx>>
  BY <1>1, <1>8, FailMoves
<1>9. CASE /\ stack' = ReplaceTop(stack, f) /\ UNCHANGED phase
           /\ ctx' = Push(ctx, n, v)
           /\ held' = Append(held, SlotOf(ctx, n))
  <2>1. Kept(Len(held), held, ctx, held', ctx') /\ Len(held) < Len(held')
    BY <1>2, <1>3, <1>4, <1>9, PushKept
  <2>2. QED
    BY <1>1, <1>5, <1>7, <1>9, <2>1, BindMoves
<1>10. QED
  BY <1>6, <1>8, <1>9

LEMMA CallMoves == ASSUME Inv, Call PROVE Moves
<1>1. phase = "run" /\ Called.items \in List
  BY CalledType DEF Call
<1>2. Top.t \in Nat \ {0} /\ Top.depth + 1 \in Nat
  BY <1>1, Running DEF Frame
<1>3. QED
  BY <1>1, <1>2, EnterListMoves DEF Call

LEMMA IfMoves == ASSUME Inv, If PROVE Stays \/ Moves
<1> DEFINE err == IF Current.cond = None THEN "ok" ELSE ErrOf(Current.cond)
<1>1. phase = "run" /\ UNCHANGED <<held, ctx>>
  BY DEF If, AtNode
<1>2. Current.items \in List /\ Current.else \in List \cup {None}
  BY AtNodeType, NodeFields DEF If, Inv
<1>3. Top.t \in Nat \ {0} /\ Top.depth \in Nat
  BY <1>1, Running DEF Frame
<1>4. \/ Fail(TRUE, err)
      \/ Enter(Top.t, Current.items, Top.depth)
      \/ Current.else # None /\ Enter(Top.t, Current.else, Top.depth)
      \/ Continue
  BY DEF If
<1> HIDE DEF err
<1>5. CASE Fail(TRUE, err) \/ Continue
  BY <1>1, <1>5, FailMoves, ContinueMoves
<1>6. CASE \E list \in List : Enter(Top.t, list, Top.depth)
  BY <1>1, <1>3, <1>6, EnterListMoves
<1>7. QED
  BY <1>2, <1>4, <1>5, <1>6

LEMMA ParseMoves == ASSUME Inv, Parse PROVE Stays \/ Moves
<1>1. phase = "run" /\ UNCHANGED <<held, ctx>>
  BY DEF Parse, AtNode
<1>2. Current.file \in List \cup {None}
  BY AtNodeType, NodeFields DEF Parse, Inv
<1>3. Top.t + 1 \in Nat \ {0} /\ Top.depth + 1 \in Nat
  BY <1>1, Running DEF Frame
<1>4. \/ Fail(TRUE, ErrOf(Current.name)) \/ Fail(TRUE, "other")
      \/ Current.file # None /\ Enter(Top.t + 1, Current.file, Top.depth + 1)
  BY DEF Parse
<1>5. QED
  BY <1>1, <1>2, <1>3, <1>4, FailMoves, EnterListMoves

LEMMA ForeachStartMoves == ASSUME Inv, ScopeInv, ForeachStart, Inv' PROVE Stays \/ Moves
<1> DEFINE n == Current.var
           err == ErrOf(Current.iter)
           outer == Push(ctx, Foreach, Len(stack))
           pushed == Push(outer, n, Nil)
           one == Append(held, SlotOf(ctx, Foreach))
           two == Append(one, SlotOf(outer, n))
           f == [Top EXCEPT !.loop = "next"]
<1>1. AtNode("foreach") /\ phase = "run"
  BY DEF ForeachStart, AtNode
<1>2. /\ held \in Seq(Slot) /\ ctx \in Contexts(Value) /\ InBounds(held, ctx)
      /\ Ordered(held) /\ Top \in Frame /\ Len(stack) \in Nat /\ Len(held) \in Nat
  BY <1>1, RunningScope
<1>3. n \in Name /\ Foreach \in Name /\ Nil \in Value /\ Len(stack) \in Value
  BY <1>1, <1>2, AtNodeType, NodeFields, ConstantsAssumption DEF Inv, Value, Literal, Loop
<1>4. \/ Fail(TRUE, err) /\ UNCHANGED <<held, ctx>>
      \/ Continue /\ UNCHANGED <<held, ctx>>
      \/ Fail(TRUE, "other") /\ ctx' = pushed /\ UNCHANGED held
      \/ /\ ctx' = pushed /\ held' = two
         /\ stack' = ReplaceTop(stack, f)
         /\ UNCHANGED <<phase, ret, issued>>
  BY DEF ForeachStart
<1>5. f \in Frame /\ f.mark = Top.mark /\ f.entry = Top.entry
  BY <1>2 DEF Frame
<1>6. /\ one \in Seq(Slot) /\ outer \in Contexts(Value) /\ InBounds(one, outer)
      /\ Len(one) = Len(held) + 1
  BY <1>2, <1>3, PushSlot
<1>7. Kept(Len(held), held, ctx, one, outer) /\ GrownFrom(ctx, outer)
  BY <1>2, <1>3, PushKept, GrownPush
<1> HIDE DEF one, outer
<1>8. GrownFrom(outer, pushed) /\ pushed \in Contexts(Value) /\ Len(two) = Len(one) + 1
  BY <1>3, <1>6, GrownPush, PushProperties
<1>9. GrownFrom(ctx, pushed)
  BY <1>2, <1>6, <1>7, <1>8, GrownTransitive
<1>10. Kept(Len(held), one, outer, two, pushed)
  BY <1>2, <1>3, <1>6, PushKept
<1> HIDE DEF n, err, pushed, two, f
<1>11. CASE (Fail(TRUE, err) \/ Continue) /\ UNCHANGED <<held, ctx>>
  BY <1>1, <1>11, FailMoves, ContinueMoves
<1>12. CASE Fail(TRUE, "other") /\ ctx' = pushed /\ UNCHANGED held
  BY <1>1, <1>8, <1>9, <1>12, FailMoves
<1>13. CASE /\ ctx' = pushed /\ held' = two
            /\ stack' = ReplaceTop(stack, f)
            /\ UNCHANGED <<phase, ret, issued>>
  <2>1. Kept(Len(held), held, ctx, held', ctx')
    BY <1>2, <1>7, <1>10, <1>13, KeptTransitive
  <2>2. Len(held) < Len(held')
    BY <1>2, <1>6, <1>8, <1>13
  <2>3. held' \in Seq(Slot) /\ ctx' \in Contexts(Value) /\ InBounds(held', ctx')
    BY DEF Inv, TypeOK, SlotsOK
  <2>4. QED
    BY <1>1, <1>5, <1>13, <2>1, <2>2, <2>3, BindMoves
<1>14. QED
  BY <1>4, <1>11, <1>12, <1>13

(* Only the value in the last slot has changed.                             *)
LEMMA LastEnv ==
  ASSUME NEW h \in Seq(Slot), NEW c \in Contexts(Value), InBounds(h, c), h # <<>>,
         NEW d \in Contexts(Value), InBounds(h, d), Kept(Len(h) - 1, h, c, h, d)
  PROVE  /\ Len(EnvOf(h, d)) = Len(EnvOf(h, c))
         /\ Front(EnvOf(h, d)) = Front(EnvOf(h, c))
         /\ Last(EnvOf(h, d)).name = Last(EnvOf(h, c)).name
<1> DEFINE E == EnvOf(h, c)
           F == EnvOf(h, d)
<1>1. Len(h) \in Nat \ {0} /\ Len(h) \in 1..Len(h)
  OBVIOUS
<1>2. /\ E \in Seq(Binding) /\ Len(E) = Len(h)
      /\ \A j \in 1..Len(h) : E[j] = [name |-> h[j].name, val |-> c[h[j].name][h[j].idx]]
  BY EnvType
<1>3. /\ F \in Seq(Binding) /\ Len(F) = Len(h)
      /\ \A j \in 1..Len(h) : F[j] = [name |-> h[j].name, val |-> d[h[j].name][h[j].idx]]
  BY EnvType
<1> HIDE DEF E, F
<1>4. E # <<>> /\ F # <<>>
  BY <1>1, <1>2, <1>3
<1>5. /\ Front(E) \in Seq(Binding) /\ Len(Front(E)) = Len(h) - 1
      /\ \A j \in 1..(Len(h) - 1) : Front(E)[j] = E[j]
      /\ Last(E) = E[Len(h)]
  BY <1>2, <1>4, LastFront
<1>6. /\ Front(F) \in Seq(Binding) /\ Len(Front(F)) = Len(h) - 1
      /\ \A j \in 1..(Len(h) - 1) : Front(F)[j] = F[j]
      /\ Last(F) = F[Len(h)]
  BY <1>3, <1>4, LastFront
<1>7. ASSUME NEW j \in 1..(Len(h) - 1) PROVE Front(F)[j] = Front(E)[j]
  <2>1. j \in 1..Len(h) /\ d[h[j].name][h[j].idx] = c[h[j].name][h[j].idx]
    BY <1>1 DEF Kept
  <2>2. F[j] = E[j]
    BY <1>2, <1>3, <2>1
  <2>3. QED
    BY <1>5, <1>6, <2>2
<1>8. Front(F) = Front(E)
  BY <1>5, <1>6, <1>7, SeqEqual
<1>9. Last(F).name = Last(E).name
  <2> DEFINE j == Len(h)
  <2>1. j \in 1..Len(h)
    BY <1>1
  <2> HIDE DEF j
  <2>2. /\ E[j] = [name |-> h[j].name, val |-> c[h[j].name][h[j].idx]]
        /\ F[j] = [name |-> h[j].name, val |-> d[h[j].name][h[j].idx]]
    BY <1>2, <1>3, <2>1
  <2>3. E[j].name = h[j].name /\ F[j].name = h[j].name
    BY <2>2
  <2>4. QED
    BY <1>5, <1>6, <2>3 DEF j
<1>10. QED
  BY <1>2, <1>3, <1>8, <1>9 DEF E, F

(* At its limit the loop fails; else its variable gets the next element.    *)
LEMMA LoopNextMoves == ASSUME Inv, ScopeInv, LoopNext, Inv' PROVE Moves
<1> DEFINE i == Top.i + 1
           set == Set(ctx, Last(held).idx, Current.var, coll[i])
           g == [Top EXCEPT !.i = i, !.v = coll[i]]
           h == [Top EXCEPT !.loop = "no"]
           f == NewFrame(Top.t, Current.items, Top.depth, Len(held), set)
           below == ReplaceTop(stack, g)
<1>1. /\ phase = "run" /\ stack # <<>> /\ stack \in Seq(Frame) /\ Len(stack) \in Nat \ {0}
      /\ Top \in Frame /\ Top = stack[Len(stack)] /\ Top.mark \in Nat /\ Len(held) \in Nat
      /\ held \in Seq(Slot) /\ held # <<>> /\ Top.mark + 2 <= Len(held)
      /\ ctx \in Contexts(Value) /\ Ordered(held) /\ InBounds(held, ctx)
      /\ Framed(stack, held, ctx)
      /\ \A k \in 1..Len(stack) : stack[k].mark < Len(held) - 1
      /\ Last(held).name = Current.var
  BY LoopScope DEF LoopNext
<1>2. /\ Current.items \in List /\ Top.t \in Nat \ {0} /\ Top.depth \in Nat
      /\ WithinDepth(Top)
  BY <1>1, LoopType DEF LoopNext, Frame, Inv, StackOK
<1>3. coll[i] \in Value /\ i \in Nat
  <2>1. Top.i \in Nat /\ Top.i < Len(coll) /\ coll \in Seq(Scalar)
    BY <1>1, InvTypes DEF Frame, LoopNext, HasNext
  <2>2. i \in 1..Len(coll) /\ i \in Nat
    BY <2>1
  <2>3. coll[i] \in Scalar
    BY <2>1, <2>2
  <2>4. QED
    BY <2>2, <2>3 DEF Value, Literal
<1>4. \/ /\ Return(TRUE, "iterations")
         /\ stack' = ReplaceTop(stack, h)
         /\ held' = WithoutLoop(held)
         /\ UNCHANGED ctx
      \/ /\ ctx' = set /\ EnterFrom(below, f) /\ UNCHANGED held
  BY DEF LoopNext
<1>5. h \in Frame /\ h.mark = Top.mark /\ h.entry = Top.entry
  BY <1>1 DEF Frame
<1>6. g \in Frame /\ g.mark = Top.mark /\ g.entry = Top.entry
  BY <1>1, <1>3 DEF Frame
<1>7. held' \in Seq(Slot) /\ ctx' \in Contexts(Value) /\ InBounds(held', ctx')
  BY DEF Inv, TypeOK, SlotsOK
<1>8. ~ Fatal
  BY <1>1 DEF Fatal
<1>9. Len(held) - 1 \in Nat /\ Len(held) - 1 < Len(held)
  BY <1>1
<1>10. Kept(Len(held) - 1, held, ctx, held, set)
  <2> DEFINE v == coll[i]
             last == Last(held)
  <2>1. v \in Value
    BY <1>3
  <2>2. \A k \in 1..Len(stack) : stack[k].mark < Len(held)
    <3>1. \A k \in 1..Len(stack) : stack[k].mark \in Nat
      BY <1>1, EntryType
    <3>2. QED
      BY <1>1, <3>1
  <2> HIDE DEF v
  <2>3. LET d == Set(ctx, Last(held).idx, Last(held).name, v) IN
        \A m \in Nat : m < Len(held) => Kept(m, held, ctx, held, d)
    BY <1>1, <2>1, <2>2, SetFramed
  <2>4. QED
    BY <1>1, <1>9, <2>3 DEF v
<1>11. /\ below \in Seq(Frame) /\ Len(below) = Len(stack)
       /\ BlocksOf(below) = BlocksOf(stack) /\ GlobalsOf(below) = GlobalsOf(stack)
  BY <1>1, <1>6, ReplacedTop, ReplacedBlocks
<1>12. CASE /\ Return(TRUE, "iterations")
            /\ stack' = ReplaceTop(stack, h)
            /\ held' = WithoutLoop(held)
            /\ UNCHANGED ctx
  <2> HIDE DEF h
  <2>1. /\ Len(held') = Len(held) - 2
        /\ \A j \in 1..(Len(held) - 2) : held'[j] = held[j]
    BY <1>1, <1>12, WithoutLoopFields
  <2>2. Len(held') < Len(held) /\ Len(held') \in Nat
    BY <1>1, <2>1
  <2>3. Kept(Len(held'), held, ctx, held', ctx')
    BY <1>1, <1>12, <2>1, <2>2 DEF Kept
  <2>4. Scopes!Extends(EnvOf(held', ctx'), EnvOf(held, ctx))
    BY <1>1, <1>7, <2>2, <2>3, KeptEnv
  <2>5. SameScope /\ stack' # <<>>
    BY <1>1, <1>5, <1>12, SameFrames
  <2>6. Fatal'
    BY <1>12 DEF Return, Fatal
  <2>7. QED
    BY <2>4, <2>5, <2>6 DEF Fails, SameScope, Moves
<1>13. CASE ctx' = set /\ EnterFrom(below, f) /\ UNCHANGED held
  <2>1. f \in Frame /\ f.mark = Len(held) /\ f.t = Top.t /\ f.depth = Top.depth
    <3>1. set \in Contexts(Value)
      BY <1>7, <1>13
    <3>2. /\ Top.t \in Nat \ {0} /\ Current.items \in List /\ Top.depth \in Nat
          /\ Len(held) \in Nat
      BY <1>1, <1>2
    <3> HIDE DEF set
    <3>3. QED
      BY <3>1, <3>2, NewFrameFields
  <2> HIDE DEF set, f, g, below
  <2>2. stack' = Append(below, f) /\ phase' = "run"
    BY <1>2, <1>13, <2>1 DEF EnterFrom, WithinDepth
  <2>3. stack' # <<>> /\ below # <<>>
    BY <1>1, <1>11, <2>2
  <2>4. /\ BlocksOf(stack') = Append(BlocksOf(stack), Len(held))
        /\ GlobalsOf(stack') = GlobalsOf(stack)
    BY <1>11, <2>1, <2>2, <2>3, OpenedBlocks
  <2>5. Len(EnvOf(held, ctx)) = Len(held) /\ Len(held) > Last(BlocksOf(stack))
    <3>1. /\ Len(BlocksOf(stack)) = Len(stack) /\ Len(stack) \in 1..Len(stack)
          /\ \A k \in 1..Len(stack) : BlocksOf(stack)[k] = stack[k].mark
      BY <1>1, BlocksType
    <3>2. Last(BlocksOf(stack)) = Top.mark
      BY <1>1, <3>1 DEF Last
    <3>3. Len(EnvOf(held, ctx)) = Len(held)
      BY <1>1, EnvType
    <3>4. QED
      BY <1>1, <3>2, <3>3
  <2>6. /\ Len(EnvOf(held', ctx')) = Len(EnvOf(held, ctx))
        /\ Front(EnvOf(held', ctx')) = Front(EnvOf(held, ctx))
        /\ Last(EnvOf(held', ctx')).name = Last(EnvOf(held, ctx)).name
    <3>1. /\ set \in Contexts(Value) /\ InBounds(held, set) /\ held' = held /\ ctx' = set
      BY <1>7, <1>13
    <3>2. QED
      BY <1>1, <1>10, <3>1, LastEnv
  <2>7. ~ Fatal'
    BY <2>2 DEF Fatal
  <2>8. QED
    BY <1>8, <2>3, <2>4, <2>5, <2>6, <2>7 DEF Iterates, Moves
<1>14. QED
  BY <1>4, <1>12, <1>13

LEMMA LoopElseMoves == ASSUME Inv, ScopeInv, LoopElse PROVE Moves
<1> DEFINE g == [Top EXCEPT !.loop = "end"]
           f == NewFrame(Top.t, Current.else, Top.depth, Len(held), ctx)
           below == ReplaceTop(stack, g)
<1>1. /\ phase = "run" /\ stack # <<>> /\ Top \in Frame /\ Len(held) \in Nat
      /\ ctx \in Contexts(Value) /\ Len(stack) \in Nat \ {0}
  BY LoopScope DEF LoopElse
<1>2. Current.else \in List /\ Top.t \in Nat \ {0} /\ Top.depth \in Nat
  BY <1>1, LoopType DEF LoopElse, Frame
<1>3. g \in Frame /\ g.mark = Top.mark /\ g.entry = Top.entry
  BY <1>1 DEF Frame
<1>4. f \in Frame /\ f.mark = Len(held)
  <2>1. /\ Top.t \in Nat \ {0} /\ Current.else \in List /\ Top.depth \in Nat
        /\ Len(held) \in Nat /\ ctx \in Contexts(Value)
    BY <1>1, <1>2
  <2> QED BY <2>1, NewFrameFields
<1>5. EnterFrom(below, f) /\ UNCHANGED <<held, ctx>>
  BY DEF LoopElse
<1> HIDE DEF g, f
<1>6. /\ below \in Seq(Frame) /\ Len(below) = Len(stack)
      /\ BlocksOf(below) = BlocksOf(stack) /\ GlobalsOf(below) = GlobalsOf(stack)
  BY <1>1, <1>3, ReplacedTop, ReplacedBlocks
<1> HIDE DEF below
<1>7. below # <<>>
  BY <1>1, <1>6
<1>8. QED
  BY <1>1, <1>4, <1>5, <1>6, <1>7, EnterMoves

LEMMA LoopEndMoves == ASSUME Inv, ScopeInv, LoopEnd, Inv' PROVE Moves
<1> DEFINE f == Advanced(Top)
<1>1. Len(held') = Len(held) - 2 /\ Kept(Len(held'), held, ctx, held', ctx')
  BY TwoPops
<1>2. /\ phase = "run" /\ stack # <<>> /\ Top \in Frame /\ Top.mark \in Nat
      /\ Len(held) \in Nat /\ Top.mark + 2 <= Len(held)
  BY LoopScope DEF LoopEnd
<1>3. f \in Frame /\ f.mark = Top.mark /\ f.entry = Top.entry
  BY <1>2, AdvancedFields
<1>4. stack' = ReplaceTop(stack, f) /\ phase' = phase
  BY DEF LoopEnd, Continue
<1> HIDE DEF f
<1>5. SameScope /\ stack' # <<>>
  BY <1>2, <1>3, <1>4, SameFrames
<1>6. held' \in Seq(Slot) /\ ctx' \in Contexts(Value) /\ InBounds(held', ctx')
  BY DEF Inv, TypeOK, SlotsOK
<1>7. Len(held') < Len(held) /\ Len(held') >= Top.mark
  BY <1>1, <1>2
<1>8. ~ Fatal /\ ~ Fatal'
  BY <1>2, <1>4 DEF Fatal
<1>9. QED
  BY <1>1, <1>2, <1>5, <1>6, <1>7, <1>8, UnbindMoves

LEMMA RunDeferMoves == ASSUME Inv, ScopeInv, RunDefer, Inv' PROVE Moves
<1>1. /\ stack # <<>> /\ Top.mark \in Nat /\ Len(held) \in Nat /\ Top.mark < Len(held)
      /\ Len(held') = Len(held) - 1 /\ Kept(Len(held'), held, ctx, held', ctx')
  BY OnePop
<1>2. UNCHANGED <<phase, ret, stack>>
  BY DEF RunDefer
<1>3. SameScope /\ stack' # <<>> /\ (Fatal' <=> Fatal)
  BY <1>1, <1>2 DEF SameScope, Fatal
<1>4. held' \in Seq(Slot) /\ ctx' \in Contexts(Value) /\ InBounds(held', ctx')
  BY DEF Inv, TypeOK, SlotsOK
<1>5. Len(held') < Len(held) /\ Len(held') >= Top.mark
  BY <1>1
<1>6. QED
  BY <1>1, <1>3, <1>4, <1>5, UnbindMoves

LEMMA ReturnsMoves ==
  ASSUME Inv, ReturnToIf \/ ReturnToCall \/ ReturnToParse
  PROVE  Moves
<1>1. phase = "unwind" /\ UNCHANGED <<held, ctx>>
  BY DEF ReturnToIf, ReturnToCall, ReturnToParse, Returned
<1>2. Fatal => Fatal'
  BY <1>1, FatalStays DEF Next, Step
<1>3. PICK type \in {"if", "call", "parse"} :
        /\ Returned(type)
        /\ \/ stack' = Front(stack)
           \/ stack' = ReplaceTop(Front(stack), Advanced(Caller))
  <2>1. CASE ReturnToIf
    BY <2>1 DEF ReturnToIf, PassOn, Resume
  <2>2. CASE ReturnToCall
    BY <2>2 DEF ReturnToCall, PassOn, Resume
  <2>3. CASE ReturnToParse
    BY <2>3 DEF ReturnToParse, PassOn, Resume
  <2>4. QED
    BY <2>1, <2>2, <2>3
<1>4. Caller \in Frame
  BY <1>3, Returning
<1> DEFINE f == Advanced(Caller)
<1>5. f \in Frame /\ f.mark = Caller.mark /\ f.entry = Caller.entry
  BY <1>4, AdvancedFields
<1>6. CASE stack' = Front(stack)
  BY <1>1, <1>2, <1>3, <1>4, <1>6, ReturnMoves
<1>7. CASE stack' = ReplaceTop(Front(stack), f)
  <2> HIDE DEF f
  <2>1. QED
    BY <1>1, <1>2, <1>3, <1>5, <1>7, ReturnMoves
<1>8. QED
  BY <1>3, <1>6, <1>7

(* An error in the body of a loop makes the loop forget its slots.          *)
LEMMA ReturnToLoopMoves == ASSUME Inv, ReturnToLoop, Inv' PROVE Moves
<1> DEFINE f == [Caller EXCEPT !.loop = "no"]
<1>1. Returned("foreach") /\ phase = "unwind" /\ UNCHANGED ctx
  BY DEF ReturnToLoop, Returned
<1>2. Fatal => Fatal'
  BY <1>1, FatalStays DEF Next, Step
<1>3. /\ Caller \in Frame /\ Caller = stack[Len(stack) - 1]
      /\ Len(held) \in Nat /\ Len(held) >= 2 /\ Len(stack) \in Nat /\ Len(stack) > 1
  <2>1. /\ Caller \in Frame /\ Caller.mark \in Nat /\ Caller.loop # "no"
        /\ Caller.mark + LoopSlots(Caller) <= Len(held) /\ Len(held) \in Nat
        /\ Caller = stack[Len(stack) - 1] /\ Len(stack) \in Nat /\ Len(stack) > 1
    BY <1>1, Returning
  <2>2. QED
    BY <2>1 DEF LoopSlots
<1>4. f \in Frame /\ f.mark = Caller.mark /\ f.entry = Caller.entry
  BY <1>3 DEF Frame
<1>5. \/ /\ ret.err # "ok" /\ ret' = [stop |-> TRUE, err |-> ret.err]
         /\ stack' = ReplaceTop(Front(stack), f)
         /\ held' = WithoutLoop(held) /\ phase' = phase
      \/ stack' = ReplaceTop(Front(stack), Caller) /\ UNCHANGED held
  BY DEF ReturnToLoop, Resume
<1> HIDE DEF f
<1>6. CASE /\ ret.err # "ok" /\ ret' = [stop |-> TRUE, err |-> ret.err]
           /\ stack' = ReplaceTop(Front(stack), f)
           /\ held' = WithoutLoop(held) /\ phase' = phase
  <2>1. Fatal'
    BY <1>1, <1>6 DEF Fatal
  <2>2. /\ held \in Seq(Slot) /\ ctx \in Contexts(Value) /\ InBounds(held, ctx)
        /\ held' \in Seq(Slot) /\ InBounds(held', ctx)
        /\ stack \in Seq(Frame)
    BY <1>1 DEF Inv, TypeOK, SlotsOK
  <2>3. /\ Len(held') = Len(held) - 2
        /\ \A j \in 1..(Len(held) - 2) : held'[j] = held[j]
    BY <1>3, <1>6, <2>2, WithoutLoopFields
  <2>4. Len(held') < Len(held) /\ Len(held') \in Nat /\ Len(held') = Len(held) - 2
    BY <1>3, <2>2, <2>3
  <2>5. Kept(Len(held'), held, ctx, held', ctx)
    BY <2>3, <2>4 DEF Kept
  <2>6. Scopes!Extends(EnvOf(held', ctx'), EnvOf(held, ctx))
    BY <1>1, <2>2, <2>4, <2>5, KeptEnv
  <2>7. /\ stack' \in Seq(Frame) /\ Len(stack') = Len(stack) - 1
        /\ stack'[Len(stack) - 1] = f
        /\ \A i \in 1..(Len(stack) - 2) : stack'[i] = stack[i]
    BY <1>1, <1>4, <1>6, CallerOnTop
  <2>8. ASSUME NEW k \in 1..Len(stack')
        PROVE  stack'[k].mark = stack[k].mark /\ stack'[k].entry = stack[k].entry
    <3>1. CASE k = Len(stack) - 1
      BY <1>3, <1>4, <2>7, <3>1
    <3>2. CASE k \in 1..(Len(stack) - 2)
      BY <2>7, <3>2
    <3>3. QED
      BY <1>3, <2>7, <3>1, <3>2
  <2>9. GlobalsOf(stack') = GlobalsOf(stack)
    BY <1>3, <2>2, <2>7, <2>8, ClosedBlocks
  <2>10. stack' # <<>>
    BY <1>3, <2>7
  <2>11. QED
    BY <2>1, <2>6, <2>9, <2>10 DEF Fails, Moves
<1>7. CASE stack' = ReplaceTop(Front(stack), Caller) /\ UNCHANGED held
  BY <1>1, <1>2, <1>3, <1>7, ReturnMoves
<1>8. QED
  BY <1>5, <1>6, <1>7

LEMMA ReturnToExecuteMoves == ASSUME Inv, ReturnToExecute PROVE Stays
<1>1. /\ phase = "unwind" /\ phase' = "done" /\ UNCHANGED <<ret, stack, held, ctx>>
  BY DEF ReturnToExecute
<1>2. Fatal' <=> Fatal
  BY <1>1 DEF Fatal
<1>3. QED
  BY <1>1, <1>2 DEF Stays, SameScope

LEMMA ExecuteMoves == ASSUME Execute, Inv' PROVE Moves
<1>1. PICK c : stack' = <<NewFrame(1, Main, 0, 0, c)>> /\ held' = <<>> /\ phase' = "run"
  BY DEF Execute
<1>2. stack' # <<>> /\ ~ Fatal' /\ Len(held') = 0
  BY <1>1 DEF Fatal
<1>3. EnvOf(held', ctx') = <<>>
  BY <1>1 DEF EnvOf
<1>4. BlocksOf(stack') = <<0>>
  BY <1>1 DEF BlocksOf, NewFrame
<1>5. QED
  BY <1>2, <1>3, <1>4 DEF Starts, Moves

LEMMA StutterMoves == ASSUME UNCHANGED vars PROVE Stays
<1>1. UNCHANGED <<phase, ret, stack, held, ctx>>
  BY DEF vars
<1>2. Fatal' <=> Fatal
  BY <1>1 DEF Fatal
<1>3. QED
  BY <1>1, <1>2 DEF Stays, SameScope

LEMMA NextMoves == ASSUME Inv, ScopeInv, [Next]_vars, Inv' PROVE Stays \/ Moves
<1>1. CASE Step
  <2>1. CASE Plain
    BY <2>1, PlainMoves
  <2>2. CASE ReturnToIf \/ ReturnToCall \/ ReturnToParse
    BY <2>2, ReturnsMoves
  <2>3. QED
    BY <1>1, <2>1, <2>2, SetVarMoves, IfMoves, BindArgMoves, CallMoves, ForeachStartMoves,
       LoopNextMoves, LoopElseMoves, LoopEndMoves, ParseMoves, RunDeferMoves,
       ReturnToLoopMoves, ReturnToExecuteMoves DEF Step, Plain
<1>2. CASE Execute
  BY <1>2, ExecuteMoves
<1>3. CASE Finished \/ UNCHANGED vars
  BY <1>3, StutterMoves DEF Finished
<1>4. QED
  BY <1>1, <1>2, <1>3 DEF Next
-----------------------------------------------------------------------------
(* The refinement *)

LEMMA InitScopes == Init => Scopes!Init
  BY DEF Init, Scopes!Init, Fatal, Shown, IsDefined

(* Every state is one in which a name means its binding made last, so that  *)
(* a step whose parts are right is a step of Scoping.                       *)
LEMMA NextScopes ==
  Inv /\ ScopeInv /\ Inv' /\ ScopeInv' /\ [Next]_vars => [Scopes!Next]_(Scopes!vars)
<1> SUFFICES ASSUME Inv, ScopeInv, Inv', ScopeInv', [Next]_vars
             PROVE  [Scopes!Next]_(Scopes!vars)
  OBVIOUS
<1>1. (Inv /\ ScopeInv /\ stack # <<>> => Scopes!Consistent)'
  BY ScopeConsistent, PTL
<1>2. CASE Stays
  BY <1>2, ScopesStutter
<1>3. CASE Moves
  <2>1. Scopes!Consistent'
    BY <1>1, <1>3 DEF Moves
  <2>2. QED
    BY <1>3, <2>1, ScopesStep DEF Moves
<1>4. QED
  BY <1>2, <1>3, NextMoves

(* Every rendering, with all its nested lists, macros and #parse, treats    *)
(* variables as the blocks of Scoping do: Execute's walk with the slots of  *)
(* Ctx implements block structure.                                          *)
THEOREM ScopesAreBlocks == Spec => IsScoped
<1>1. Init => Scopes!Init
  BY InitScopes
<1>2. Inv /\ ScopeInv /\ Inv' /\ ScopeInv' /\ [Next]_vars => [Scopes!Next]_(Scopes!vars)
  BY NextScopes
<1>3. QED
  BY <1>1, <1>2, ScopeInvariant, PTL DEF Spec, IsScoped, Scopes!Spec
=============================================================================
