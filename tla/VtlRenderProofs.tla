-------------------------- MODULE VtlRenderProofs ---------------------------
(***************************************************************************)
(* What concurrent renderings of one Template cannot do to one another,    *)
(* and what each of them writes, proved for any number of renderings, any  *)
(* templates and any values.                                               *)
(*                                                                         *)
(* The three parts of Isolation rest on three facts.  The mutex is held by *)
(* the rendering that uses the cache, and by it alone (Guarded).  Macros   *)
(* are never taken away, so that a rendering which began with all of them  *)
(* meets none that is new (Known).  And a rendering that no other has      *)
(* overlapped so far is the last that has set the position (Alone).        *)
(*                                                                         *)
(* OutputExact rests on what is on the way to the output.  No buffer has   *)
(* two owners (Owned), so that a step of one rendering leaves what the     *)
(* others have printed (OthersKeep).  While a value is printed, what is in *)
(* the buffer followed by what the frames of the stack have left is that   *)
(* value (Halfway), and an element of an object under way is left, or      *)
(* under way itself, or can be printed to its end (Frames).                *)
(***************************************************************************)
EXTENDS VtlRender, TLAPS, FiniteSetTheorems, WellFoundedInduction, SequenceTheorems

Running(r) == pc[r] \notin {"new", "ended"}

Label == {"new", "ended", "node", "get", "lock", "quote", "check", "find", "fail", "define",
          "look", "fill", "print", "float", "copy", "write", "put", "unquote"}

Shape ==
  /\ tree \in Trees /\ macros \subseteq {"m"} /\ pos \in Nat
  /\ pc \in [Rendering -> Label]
  /\ at \in [Rendering -> Nat \ {0}]
  /\ knew \in [Rendering -> BOOLEAN]
  /\ line \in [Rendering -> Nat]
  /\ err \in [Rendering -> {None} \cup [what : {"ok", "error", "cycle", "size"},
                                      line : Nat \cup {None}]]

Guarded == \A r \in Rendering : pc[r] \in {"look", "fill"} => mutex = r

Known ==
  \A r \in Rendering :
    /\ pc[r] \in {"check", "define"} => at[r] <= Len(tree) /\ tree[at[r]] = "macro"
    /\ Running(r) /\ knew[r] => Names \subseteq macros
    /\ pc[r] = "define" => ~ knew[r]

Alone ==
  /\ \A r1, r2 \in Rendering : r1 # r2 /\ Running(r1) /\ Running(r2) => r1 \in met
  /\ \A r \in Rendering : Running(r) /\ pc[r] # "node" => pos = line[r] \/ r \in met
  /\ \A r \in Rendering :
       err[r] # None => /\ pc[r] = "ended"
                        /\ err[r].what # "ok" => err[r].line = line[r] \/ r \in met

IsolationInv == Shape /\ Guarded /\ Known /\ Alone
-----------------------------------------------------------------------------
(* Steps of one rendering *)

(* Where a rendering is within a node, but for the two maps it may use.     *)
Inside == {"get", "lock", "quote", "find", "fail", "print", "float", "copy", "write",
           "put", "unquote"}

LEMMA InitIsolation == Init => IsolationInv
<1> SUFFICES ASSUME Init PROVE IsolationInv
  OBVIOUS
<1>1. Shape
  BY DEF Init, Shape, Label, Names
<1>2. Guarded /\ Known /\ Alone
  BY DEF Init, Guarded, Known, Alone, Running
<1>3. QED
  BY <1>1, <1>2 DEF IsolationInv

(* A step that touches nothing shared.                                     *)
LEMMA QuietKeeps ==
  ASSUME IsolationInv, NEW r \in Rendering, NEW l \in Inside \cup {"node"},
         pc' = [pc EXCEPT ![r] = l], pc[r] \in Inside \cup {"check", "define", "look", "fill"},
         UNCHANGED <<tree, knew, met, pos, err, line>>,
         macros \subseteq macros', macros' \subseteq {"m"},
         \A q \in Rendering : pc'[q] \in {"look", "fill"} => mutex' = q,
         \/ UNCHANGED at
         \/ \E k \in Nat \ {0} : at' = [at EXCEPT ![r] = k]
  PROVE  IsolationInv'
<1>1. /\ pc'[r] = l /\ \A q \in Rendering \ {r} : pc'[q] = pc[q] /\ at'[q] = at[q]
      /\ pc' \in [Rendering -> Label] /\ at' \in [Rendering -> Nat \ {0}]
  BY DEF IsolationInv, Shape, Label, Inside
<1>2. Shape'
  BY <1>1 DEF IsolationInv, Shape
<1>3. Guarded'
  BY DEF Guarded
<1>4. Known'
  <2> SUFFICES ASSUME NEW q \in Rendering
               PROVE  /\ pc'[q] \in {"check", "define"} => at'[q] <= Len(tree) /\ tree[at'[q]] = "macro"
                      /\ Running(q)' /\ knew[q] => Names \subseteq macros'
                      /\ pc'[q] = "define" => ~ knew[q]
    BY DEF Known, Names
  <2>1. CASE q = r
    BY <1>1, <2>1 DEF IsolationInv, Known, Running, Inside
  <2>2. CASE q # r
    BY <1>1, <2>2 DEF IsolationInv, Known, Running
  <2>3. QED
    BY <2>1, <2>2
<1>5. \A q \in Rendering : Running(q)' <=> Running(q)
  BY <1>1 DEF Running, Inside
<1>6. Alone'
  BY <1>1, <1>5 DEF IsolationInv, Alone, Inside, Running
<1>7. QED
  BY <1>2, <1>3, <1>4, <1>6 DEF IsolationInv

(* The rendering ends; an error has the position of its node.              *)
LEMMA EndKeeps ==
  ASSUME IsolationInv, NEW r \in Rendering, pc' = [pc EXCEPT ![r] = "ended"], Running(r),
         NEW what \in {"ok", "error", "cycle", "size"}, NEW l \in Nat \cup {None},
         err' = [err EXCEPT ![r] = [what |-> what, line |-> l]],
         what # "ok" => l = pos /\ pc[r] # "node",
         UNCHANGED <<tree, knew, met, shared, at, line>>
  PROVE  IsolationInv'
<1>1. /\ pc'[r] = "ended" /\ \A q \in Rendering \ {r} : pc'[q] = pc[q] /\ err'[q] = err[q]
      /\ pc' \in [Rendering -> Label]
      /\ err'[r] = [what |-> what, line |-> l]
  BY DEF IsolationInv, Shape, Label
<1>2. Shape'
  BY <1>1 DEF IsolationInv, Shape, shared
<1>3. Guarded'
  BY <1>1 DEF IsolationInv, Guarded, shared
<1>4. Known'
  BY <1>1 DEF IsolationInv, Known, Running, Names, shared
<1>5. Alone'
  <2>1. \A q \in Rendering : Running(q)' => Running(q) /\ q # r
    BY <1>1 DEF Running
  <2>2. err'[r].what = what /\ err'[r].line = l
    BY <1>1
  <2>3. what # "ok" => l = line[r] \/ r \in met
    BY DEF IsolationInv, Alone
  <2>4. ASSUME NEW q \in Rendering, err'[q] # None
        PROVE  /\ pc'[q] = "ended"
               /\ err'[q].what # "ok" => err'[q].line = line[q] \/ q \in met
    <3>1. CASE q = r
      BY <1>1, <2>2, <2>3, <3>1
    <3>2. CASE q # r
      BY <1>1, <2>4, <3>2 DEF IsolationInv, Alone
    <3>3. QED
      BY <3>1, <3>2
  <2>5. \A q \in Rendering : Running(q)' /\ pc'[q] # "node" => pos' = line'[q] \/ q \in met'
    BY <1>1, <2>1 DEF IsolationInv, Alone, shared
  <2>6. \A q1, q2 \in Rendering : q1 # q2 /\ Running(q1)' /\ Running(q2)' => q1 \in met'
    BY <2>1 DEF IsolationInv, Alone
  <2>7. QED
    BY <2>4, <2>5, <2>6 DEF Alone
<1>6. QED
  BY <1>2, <1>3, <1>4, <1>5 DEF IsolationInv

(* The rendering sets the position: to the line of its node, or of the     *)
(* body of the macro.  Whoever runs at the same time has met it.           *)
LEMMA MoveKeeps ==
  ASSUME IsolationInv, NEW r \in Rendering, pc[r] \in {"node", "find"},
         NEW l \in Label \ {"new", "ended", "node", "look", "fill", "define"},
         pc' = [pc EXCEPT ![r] = l],
         l = "check" => at[r] <= Len(tree) /\ tree[at[r]] = "macro",
         NEW n \in Nat, OnLine(r, n),
         UNCHANGED <<tree, knew, met, macros, mutex, at, err>>
  PROVE  IsolationInv'
<1>1. /\ pc'[r] = l /\ \A q \in Rendering \ {r} : pc'[q] = pc[q] /\ line'[q] = line[q]
      /\ pc' \in [Rendering -> Label] /\ line' \in [Rendering -> Nat]
      /\ line'[r] = n /\ pos' = n
  BY DEF IsolationInv, Shape, OnLine, Set
<1>2. Shape'
  BY <1>1 DEF IsolationInv, Shape
<1>3. Guarded'
  BY <1>1 DEF IsolationInv, Guarded
<1>4. Running(r) /\ \A q \in Rendering : Running(q)' <=> Running(q)
  BY <1>1 DEF Running
<1>5. Known'
  <2> SUFFICES ASSUME NEW q \in Rendering
               PROVE  /\ pc'[q] \in {"check", "define"} => at[q] <= Len(tree) /\ tree[at[q]] = "macro"
                      /\ Running(q)' /\ knew[q] => Names \subseteq macros
                      /\ pc'[q] = "define" => ~ knew[q]
    BY DEF Known, Names
  <2>1. QED
    BY <1>1, <1>4 DEF IsolationInv, Known
<1>6. Alone'
  <2>1. \A q1, q2 \in Rendering : q1 # q2 /\ Running(q1)' /\ Running(q2)' => q1 \in met'
    BY <1>4 DEF IsolationInv, Alone
  <2>2. ASSUME NEW q \in Rendering, Running(q)', pc'[q] # "node"
        PROVE  pos' = line'[q] \/ q \in met'
    <3>1. CASE q = r
      BY <1>1, <3>1
    <3>2. CASE q # r
      BY <1>4, <2>1, <2>2, <3>2
    <3>3. QED
      BY <3>1, <3>2
  <2>3. ASSUME NEW q \in Rendering, err'[q] # None
        PROVE  /\ pc'[q] = "ended"
               /\ err'[q].what # "ok" => err'[q].line = line'[q] \/ q \in met'
    <3>1. pc[q] = "ended" /\ q # r
      BY <2>3 DEF IsolationInv, Alone
    <3>2. QED
      BY <1>1, <2>3, <3>1 DEF IsolationInv, Alone
  <2>4. QED
    BY <2>1, <2>2, <2>3 DEF Alone
<1>7. QED
  BY <1>2, <1>3, <1>5, <1>6 DEF IsolationInv

(* The rendering comes to a map, or gets the mutex.                        *)
LEMMA ReachKeeps ==
  ASSUME IsolationInv, NEW r \in Rendering, NEW l \in {"define", "look", "fill"},
         pc' = [pc EXCEPT ![r] = l], pc[r] \in {"check", "lock", "look"},
         l = "define" => pc[r] = "check" /\ "m" \notin macros,
         \A q \in Rendering : pc'[q] \in {"look", "fill"} => mutex' = q,
         UNCHANGED <<tree, knew, met, macros, pos, at, err, line>>
  PROVE  IsolationInv'
<1>1. /\ pc'[r] = l /\ \A q \in Rendering \ {r} : pc'[q] = pc[q]
      /\ pc' \in [Rendering -> Label]
  BY DEF IsolationInv, Shape, Label
<1>2. Shape'
  BY <1>1 DEF IsolationInv, Shape
<1>3. Guarded'
  BY DEF Guarded
<1>4. Running(r) /\ \A q \in Rendering : Running(q)' <=> Running(q)
  BY <1>1 DEF Running
<1>5. l = "define" => ~ knew[r]
  <2> SUFFICES ASSUME l = "define", knew[r] PROVE FALSE
    BY DEF IsolationInv, Shape
  <2>1. at[r] <= Len(tree) /\ tree[at[r]] = "macro" /\ at[r] \in Nat \ {0} /\ tree \in Trees
    BY DEF IsolationInv, Known, Shape
  <2>2. at[r] \in DOMAIN tree
    BY <2>1, ConstantsAssumption
  <2>3. "macro" \in ToSet(tree)
    BY <2>1, <2>2 DEF ToSet
  <2>4. Names \subseteq macros /\ "m" \notin macros
    BY <1>4 DEF IsolationInv, Known
  <2>5. QED
    BY <2>3, <2>4 DEF Names
<1>6. Known'
  <2> SUFFICES ASSUME NEW q \in Rendering
               PROVE  /\ pc'[q] \in {"check", "define"} => at[q] <= Len(tree) /\ tree[at[q]] = "macro"
                      /\ Running(q)' /\ knew[q] => Names \subseteq macros
                      /\ pc'[q] = "define" => ~ knew[q]
    BY DEF Known, Names
  <2>1. CASE q = r
    BY <1>1, <1>4, <1>5, <2>1 DEF IsolationInv, Known
  <2>2. CASE q # r
    BY <1>1, <1>4, <2>2 DEF IsolationInv, Known
  <2>3. QED
    BY <2>1, <2>2
<1>7. Alone'
  BY <1>1, <1>4 DEF IsolationInv, Alone
<1>8. QED
  BY <1>2, <1>3, <1>6, <1>7 DEF IsolationInv

LEMMA StartKeeps ==
  ASSUME IsolationInv, NEW r \in Rendering, Start(r) PROVE IsolationInv'
<1>1. /\ pc[r] = "new" /\ pc'[r] = "node" /\ \A q \in Rendering \ {r} : pc'[q] = pc[q]
      /\ pc' \in [Rendering -> Label]
      /\ knew' \in [Rendering -> BOOLEAN] /\ knew'[r] = (Names \subseteq macros)
      /\ \A q \in Rendering \ {r} : knew'[q] = knew[q]
  BY DEF IsolationInv, Shape, Label, Start, Goto, Set
<1>2. UNCHANGED <<tree, macros, mutex, pos, at, line, err>>
  BY DEF Start, shared, own
<1>3. Shape'
  BY <1>1, <1>2 DEF IsolationInv, Shape
<1>4. Guarded'
  BY <1>1, <1>2 DEF IsolationInv, Guarded
<1>5. Known'
  BY <1>1, <1>2 DEF IsolationInv, Known, Running, Names
<1>6. \A q \in Rendering : Running(q)' <=> Running(q) \/ q = r
  BY <1>1 DEF Running
<1>7. met \subseteq met' /\ \A q \in Rendering \ {r} : Running(q) => q \in met' /\ r \in met'
  <2>1. Under(r) = {q \in Rendering \ {r} : Running(q)}
    BY DEF Under, Running
  <2>2. met' = IF Under(r) = {} THEN met ELSE met \cup Under(r) \cup {r}
    BY DEF Start
  <2>3. QED
    BY <2>1, <2>2
<1>8. Alone'
  <2>1. \A q1, q2 \in Rendering : q1 # q2 /\ Running(q1)' /\ Running(q2)' => q1 \in met'
    BY <1>6, <1>7 DEF IsolationInv, Alone
  <2>2. \A q \in Rendering : Running(q)' /\ pc'[q] # "node" => pos' = line'[q] \/ q \in met'
    BY <1>1, <1>2, <1>6, <1>7 DEF IsolationInv, Alone
  <2>3. ASSUME NEW q \in Rendering, err'[q] # None
        PROVE  /\ pc'[q] = "ended"
               /\ err'[q].what # "ok" => err'[q].line = line'[q] \/ q \in met'
    BY <1>1, <1>2, <1>7, <2>3 DEF IsolationInv, Alone
  <2>4. QED
    BY <2>1, <2>2, <2>3 DEF Alone
<1>9. QED
  BY <1>3, <1>4, <1>5, <1>8 DEF IsolationInv
-----------------------------------------------------------------------------
(* One lemma for each kind of action *)

(* Actions that use buffers only.                                          *)
LEMMA BufferSteps ==
  ASSUME IsolationInv, NEW r \in Rendering, UNCHANGED <<tree, knew, met>>,
         Quote(r) \/ Get(r) \/ Printed(r) \/ Float(r) \/ Copy(r) \/ Write(r) \/ Put(r) \/ Unquote(r)
  PROVE  IsolationInv'
<1>1. UNCHANGED <<macros, mutex, pos, err, line>>
  BY DEF Quote, Get, Printed, Float, Copy, Write, Put, Unquote, shared
<1>2. /\ pc[r] \in Inside
      /\ pc' = pc \/ \E l \in Inside \cup {"node"} : pc' = [pc EXCEPT ![r] = l]
  BY DEF Quote, Get, Printed, Float, Copy, Write, Put, Unquote, Inside, Goto, NextNode
<1>3. PICK l \in Inside \cup {"node"} : pc' = [pc EXCEPT ![r] = l]
  <2>1. pc = [pc EXCEPT ![r] = pc[r]]
    BY DEF IsolationInv, Shape
  <2>2. QED
    BY <1>2, <2>1
<1>4. UNCHANGED at \/ \E k \in Nat \ {0} : at' = [at EXCEPT ![r] = k]
  <2>1. at[r] + 1 \in Nat \ {0}
    BY DEF IsolationInv, Shape
  <2>2. UNCHANGED at \/ at' = [at EXCEPT ![r] = at[r] + 1]
    BY DEF Quote, Get, Printed, Float, Copy, Write, Put, Unquote, NextNode, Set
  <2>3. QED
    BY <2>1, <2>2
<1>5. \A q \in Rendering : pc'[q] \in {"look", "fill"} => mutex' = q
  BY <1>1, <1>3 DEF IsolationInv, Shape, Guarded, Inside
<1>6. macros \subseteq macros' /\ macros' \subseteq {"m"}
  BY <1>1 DEF IsolationInv, Shape
<1>7. QED
  BY <1>1, <1>2, <1>3, <1>4, <1>5, <1>6, QuietKeeps

LEMMA PrintSteps ==
  ASSUME IsolationInv, NEW r \in Rendering, UNCHANGED <<tree, knew, met>>, vtlPrint(r)
  PROVE  IsolationInv'
<1>1. pc[r] = "print" /\ UNCHANGED shared
  BY DEF vtlPrint
<1>2. \/ Ends(r, "cycle") \/ Ends(r, "size")
      \/ UNCHANGED <<err, line, at>> /\ (pc' = pc \/ pc' = [pc EXCEPT ![r] = "float"])
  BY DEF vtlPrint, Goto, own
<1>3. CASE Ends(r, "cycle") \/ Ends(r, "size")
  <2>1. PICK what \in {"cycle", "size"} : Ends(r, what)
    BY <1>3
  <2>2. /\ pc' = [pc EXCEPT ![r] = "ended"] /\ UNCHANGED <<at, line>>
        /\ err' = [err EXCEPT ![r] = [what |-> what, line |-> pos]]
    BY <2>1 DEF Ends, Goto, Set
  <2>3. pos \in Nat \cup {None} /\ Running(r)
    BY <1>1 DEF IsolationInv, Shape, Running
  <2>4. QED
    BY <1>1, <2>1, <2>2, <2>3, EndKeeps
<1>4. CASE UNCHANGED <<err, line, at>> /\ (pc' = pc \/ pc' = [pc EXCEPT ![r] = "float"])
  <2>1. UNCHANGED <<macros, mutex, pos>>
    BY <1>1 DEF shared
  <2>2. PICK l \in Inside : pc' = [pc EXCEPT ![r] = l]
    <3>1. pc = [pc EXCEPT ![r] = "print"]
      BY <1>1 DEF IsolationInv, Shape
    <3>2. QED
      BY <1>4, <3>1 DEF Inside
  <2>3. \A q \in Rendering : pc'[q] \in {"look", "fill"} => mutex' = q
    BY <2>1, <2>2 DEF IsolationInv, Shape, Guarded, Inside
  <2>4. macros \subseteq macros' /\ macros' \subseteq {"m"} /\ pc[r] \in Inside
    BY <1>1, <2>1 DEF IsolationInv, Shape, Inside
  <2>5. QED
    BY <1>4, <2>1, <2>2, <2>3, <2>4, QuietKeeps
<1>5. QED
  BY <1>2, <1>3, <1>4

LEMMA NodeSteps ==
  ASSUME IsolationInv, NEW r \in Rendering, UNCHANGED <<tree, knew, met>>, Node(r) \/ End(r) \/ Fails(r)
  PROVE  IsolationInv'
<1>1. CASE Node(r)
  <2> DEFINE l == First[tree[at[r]]]
  <2>1. /\ pc[r] = "node" /\ at[r] <= Len(tree) /\ OnLine(r, at[r])
        /\ pc' = [pc EXCEPT ![r] = l]
        /\ UNCHANGED <<macros, mutex, at, err>>
    BY <1>1 DEF Node, Goto
  <2>2. at[r] \in Nat \ {0} /\ tree \in Trees
    BY DEF IsolationInv, Shape
  <2>3. tree[at[r]] \in {"show", "call", "quote", "macro", "use", "fail"}
    BY <2>1, <2>2, ConstantsAssumption
  <2>4. /\ l \in Label \ {"new", "ended", "node", "look", "fill", "define"}
        /\ l = "check" => tree[at[r]] = "macro"
    BY <2>3 DEF First, Label
  <2> HIDE DEF l
  <2>5. QED
    BY <2>1, <2>2, <2>4, MoveKeeps
<1>2. CASE End(r)
  <2>1. /\ pc[r] = "node" /\ pc' = [pc EXCEPT ![r] = "ended"] /\ UNCHANGED <<shared, at, line>>
        /\ err' = [err EXCEPT ![r] = [what |-> "ok", line |-> None]]
    BY <1>2 DEF End, Goto, Set
  <2>2. Running(r)
    BY <2>1 DEF Running
  <2>3. QED
    BY <2>1, <2>2, EndKeeps
<1>3. CASE Fails(r)
  <2>1. /\ pc[r] = "fail" /\ pc' = [pc EXCEPT ![r] = "ended"] /\ UNCHANGED <<shared, at, line>>
        /\ err' = [err EXCEPT ![r] = [what |-> "error", line |-> pos]]
    BY <1>3 DEF Fails, Ends, Goto, Set
  <2>2. Running(r) /\ pos \in Nat \cup {None}
    BY <2>1 DEF IsolationInv, Shape, Running
  <2>3. QED
    BY <2>1, <2>2, EndKeeps
<1>4. QED
  BY <1>1, <1>2, <1>3

LEMMA MacroSteps ==
  ASSUME IsolationInv, NEW r \in Rendering, UNCHANGED <<tree, knew, met>>, Check(r) \/ Define(r) \/ Find(r)
  PROVE  IsolationInv'
<1>1. at[r] + 1 \in Nat \ {0} /\ macros \subseteq {"m"}
  BY DEF IsolationInv, Shape
<1>2. ASSUME NEW l \in Inside \cup {"node", "define"}, pc' = [pc EXCEPT ![r] = l], UNCHANGED mutex
      PROVE  \A q \in Rendering : pc'[q] \in {"look", "fill"} => mutex' = q
  BY <1>2 DEF IsolationInv, Shape, Guarded, Inside
<1>3. CASE Check(r)
  <2>1. pc[r] = "check" /\ UNCHANGED <<macros, mutex, pos, err, line>>
    BY <1>3 DEF Check, shared
  <2>2. CASE "m" \in macros
    <3>1. at' = [at EXCEPT ![r] = at[r] + 1] /\ pc' = [pc EXCEPT ![r] = "node"]
      BY <1>3, <2>2 DEF Check, NextNode, Goto, Set
    <3>2. QED
      BY <1>1, <1>2, <2>1, <3>1, QuietKeeps
  <2>3. CASE "m" \notin macros
    <3>1. UNCHANGED at /\ pc' = [pc EXCEPT ![r] = "define"]
      BY <1>3, <2>3 DEF Check, Goto
    <3>2. QED
      BY <1>2, <2>1, <2>3, <3>1, ReachKeeps
  <2>4. QED
    BY <2>2, <2>3
<1>4. CASE Define(r)
  <2>1. /\ pc[r] = "define" /\ macros' = macros \cup {"m"}
        /\ at' = [at EXCEPT ![r] = at[r] + 1] /\ pc' = [pc EXCEPT ![r] = "node"]
        /\ UNCHANGED <<mutex, pos, err, line>>
    BY <1>4 DEF Define, NextNode, Goto, Set
  <2>2. QED
    BY <1>1, <1>2, <2>1, QuietKeeps
<1>5. CASE Find(r)
  <2>1. pc[r] = "find" /\ UNCHANGED <<macros, mutex, at, err>>
    BY <1>5 DEF Find
  <2>2. CASE "m" \in macros
    <3>1. OnLine(r, Body) /\ pc' = [pc EXCEPT ![r] = "get"] /\ Body \in Nat
      BY <1>5, <2>2 DEF Find, Goto, Body
    <3>2. QED
      BY <2>1, <3>1, MoveKeeps DEF Label
  <2>3. CASE "m" \notin macros
    <3>1. UNCHANGED <<pos, line>> /\ pc' = [pc EXCEPT ![r] = "fail"]
      BY <1>5, <2>3 DEF Find, Goto
    <3>2. QED
      BY <1>1, <1>2, <2>1, <3>1, QuietKeeps DEF Inside
  <2>4. QED
    BY <2>2, <2>3
<1>6. QED
  BY <1>3, <1>4, <1>5

(* The mutex passes from hand to hand.                                     *)
LEMMA CacheSteps ==
  ASSUME IsolationInv, NEW r \in Rendering, UNCHANGED <<tree, knew, met>>, Lock(r) \/ Look(r) \/ Fill(r)
  PROVE  IsolationInv'
<1>1. /\ pc[r] \in {"lock", "look", "fill"}
      /\ UNCHANGED <<macros, pos, at, err, line>> /\ macros \subseteq {"m"}
  BY DEF Lock, Look, Fill, own, IsolationInv, Shape
<1>2. \/ /\ pc[r] = "lock" /\ mutex = None
         /\ mutex' = r /\ pc' = [pc EXCEPT ![r] = "look"]
      \/ /\ pc[r] = "look" /\ UNCHANGED mutex /\ pc' = [pc EXCEPT ![r] = "fill"]
      \/ /\ pc[r] \in {"look", "fill"}
         /\ mutex' = None /\ pc' = [pc EXCEPT ![r] = "get"]
  BY DEF Lock, Look, Fill, Goto
<1>3. \A q \in Rendering : pc'[q] \in {"look", "fill"} => mutex' = q
  <2>1. /\ pc \in [Rendering -> Label] /\ None \notin Rendering
        /\ \A q \in Rendering : pc[q] \in {"look", "fill"} => mutex = q
    BY ConstantsAssumption DEF IsolationInv, Shape, Guarded
  <2>2. QED
    BY <1>2, <2>1
<1>4. CASE \E l \in {"look", "fill"} : pc' = [pc EXCEPT ![r] = l] /\ pc[r] \in {"lock", "look"}
  BY <1>1, <1>3, <1>4, ReachKeeps
<1>5. CASE pc' = [pc EXCEPT ![r] = "get"] /\ pc[r] \in {"look", "fill"}
  BY <1>1, <1>3, <1>5, QuietKeeps DEF Inside
<1>6. QED
  BY <1>2, <1>4, <1>5
-----------------------------------------------------------------------------
(* The theorems *)

LEMMA NextIsolation == IsolationInv /\ [Next]_vars => IsolationInv'
<1> SUFFICES ASSUME IsolationInv, [Next]_vars PROVE IsolationInv'
  OBVIOUS
<1>1. CASE UNCHANGED <<tree, shared, pc, at, err, line, knew, met>>
  BY <1>1 DEF IsolationInv, Shape, Guarded, Known, Alone, Running, Names, shared
<1>2. CASE MapFatal \/ UNCHANGED vars
  BY <1>1, <1>2 DEF MapFatal, vars, own
<1>3. ASSUME NEW r \in Rendering, Start(r) PROVE IsolationInv'
  BY <1>3, StartKeeps
<1>4. ASSUME NEW r \in Rendering, Step(r) PROVE IsolationInv'
  BY <1>4, BufferSteps, PrintSteps, NodeSteps, MacroSteps, CacheSteps DEF Step
<1>5. QED
  BY <1>2, <1>3, <1>4 DEF Next

(* What renderings of one Template share they share safely: the mutex      *)
(* keeps the cache of methods to one at a time, whoever began with every   *)
(* macro known never writes to the macros, and an error's position is only *)
(* off where renderings overlapped.                                        *)
THEOREM RenderingsAreIsolated == Spec => []Isolation
<1>1. Init => IsolationInv
  BY InitIsolation
<1>2. IsolationInv /\ [Next]_vars => IsolationInv'
  BY NextIsolation
<1>3. IsolationInv => Isolation
  <2> SUFFICES ASSUME IsolationInv, NEW r1 \in Rendering, NEW r2 \in Rendering
               PROVE  /\ ~Races(r1, r2, "cache")
                      /\ Races(r1, r2, "macros") => ~knew[r1]
                      /\ err[r1] # None /\ err[r1].what # "ok" =>
                           err[r1].line = line[r1] \/ r1 \in met
    BY DEF Isolation
  <2>1. ~Races(r1, r2, "cache")
    BY DEF Races, Writes, Uses, IsolationInv, Guarded
  <2>2. Races(r1, r2, "macros") => ~knew[r1]
    BY DEF Races, Writes, IsolationInv, Known
  <2>3. QED
    BY <2>1, <2>2 DEF IsolationInv, Alone
<1>4. QED
  BY <1>1, <1>2, <1>3, PTL DEF Spec
-----------------------------------------------------------------------------
(* Sequences of sequences, one after the other.                            *)

LEMMA LeastExists ==
  ASSUME NEW S \in SUBSET Nat, S # {}
  PROVE  \E x \in S : \A y \in S : x <= y
<1>1. \E x \in S : \A y \in S : ~(<<y, x>> \in OpToRel(<, Nat))
  BY WFMin, NatLessThanWellFounded
<1>2. PICK x \in S : \A y \in S : ~(<<y, x>> \in OpToRel(<, Nat))
  BY <1>1
<1>3. ASSUME NEW y \in S PROVE x <= y
  <2>1. ~(y < x)
    BY <1>2, <1>3 DEF OpToRel
  <2> QED BY <2>1
<1> QED BY <1>3

Joins(f, s, n) == f = [i \in 1 .. n |-> IF i = 1 THEN s[i] ELSE f[i - 1] \o s[i]]

LEMMA JoinsExist ==
  ASSUME NEW E, NEW s \in Seq(Seq(E)), NEW n \in 0 .. Len(s)
  PROVE  \E f \in [1 .. n -> Seq(E)] : Joins(f, s, n)
<1> DEFINE P(k) == \E f \in [1 .. k -> Seq(E)] : Joins(f, s, k)
           bad  == {k \in 0 .. Len(s) : ~P(k)}
<1>1. \A i \in 1 .. Len(s) : s[i] \in Seq(E)
  OBVIOUS
<1>2. P(0)
  <2>1. [i \in 1 .. 0 |-> <<>>] \in [1 .. 0 -> Seq(E)] /\ Joins([i \in 1 .. 0 |-> <<>>], s, 0)
    BY DEF Joins
  <2> QED BY <2>1
<1>3. ASSUME NEW k \in 1 .. Len(s), P(k - 1)
      PROVE  P(k)
  <2>1. PICK f \in [1 .. k - 1 -> Seq(E)] : Joins(f, s, k - 1)
    BY <1>3
  <2> DEFINE g == [i \in 1 .. k |-> IF i < k THEN f[i] ELSE IF k = 1 THEN s[k] ELSE f[k - 1] \o s[k]]
  <2>2. g[k] \in Seq(E)
    <3>1. k # 1 => f[k - 1] \in Seq(E)
      OBVIOUS
    <3>2. k # 1 => f[k - 1] \o s[k] \in Seq(E)
      BY <1>1, <3>1, ConcatProperties
    <3> QED BY <1>1, <3>2
  <2>3. g \in [1 .. k -> Seq(E)]
    <3>1. \A i \in 1 .. k : i < k => i \in 1 .. k - 1
      OBVIOUS
    <3> QED BY <2>2, <3>1
  <2>4. \A i \in 1 .. k : g[i] = IF i = 1 THEN s[i] ELSE g[i - 1] \o s[i]
    <3> SUFFICES ASSUME NEW i \in 1 .. k PROVE g[i] = IF i = 1 THEN s[i] ELSE g[i - 1] \o s[i]
      OBVIOUS
    <3>1. i # 1 => i - 1 \in 1 .. k - 1 /\ g[i - 1] = f[i - 1]
      OBVIOUS
    <3>2. i < k => i \in 1 .. k - 1 /\ g[i] = f[i]
      OBVIOUS
    <3>3. i = k => g[i] = IF k = 1 THEN s[k] ELSE f[k - 1] \o s[k]
      OBVIOUS
    <3>4. i \in 1 .. k - 1 => f[i] = IF i = 1 THEN s[i] ELSE f[i - 1] \o s[i]
      BY <2>1 DEF Joins
    <3>5. i < k \/ i = k
      OBVIOUS
    <3> HIDE DEF g
    <3> QED BY <3>1, <3>2, <3>3, <3>4, <3>5
  <2>5. Joins(g, s, k)
    <3>1. g = [i \in 1 .. k |-> g[i]]
      OBVIOUS
    <3> HIDE DEF g
    <3> QED BY <2>4, <3>1 DEF Joins
  <2> QED BY <2>3, <2>5
<1> HIDE DEF P
<1>4. bad = {}
  <2> SUFFICES ASSUME bad # {} PROVE FALSE
    OBVIOUS
  <2>0. bad \in SUBSET Nat
    OBVIOUS
  <2>1. PICK k \in bad : \A j \in bad : k <= j
    <3> HIDE DEF bad
    <3> QED BY <2>0, LeastExists
  <2>2. k \in 1 .. Len(s) /\ k - 1 \in 0 .. Len(s) /\ k - 1 \notin bad
    BY <1>2, <2>1
  <2> QED BY <1>3, <2>1, <2>2
<1> QED BY <1>4 DEF P

(* Joins has one solution.                                                 *)
LEMMA JoinsUnique ==
  ASSUME NEW n \in Nat, NEW s, NEW f, NEW g, Joins(f, s, n), Joins(g, s, n)
  PROVE  f = g
<1> DEFINE bad == {k \in 1 .. n : f[k] # g[k]}
<1>1. \A k \in 1 .. n : f[k] = IF k = 1 THEN s[k] ELSE f[k - 1] \o s[k]
  BY DEF Joins
<1>2. \A k \in 1 .. n : g[k] = IF k = 1 THEN s[k] ELSE g[k - 1] \o s[k]
  BY DEF Joins
<1>3. bad = {}
  <2> SUFFICES ASSUME bad # {} PROVE FALSE
    OBVIOUS
  <2>0. bad \in SUBSET Nat
    OBVIOUS
  <2>1. PICK k \in bad : \A j \in bad : k <= j
    <3> HIDE DEF bad
    <3> QED BY <2>0, LeastExists
  <2>2. k # 1 => k - 1 \in 1 .. n /\ k - 1 \notin bad
    BY <2>1
  <2>3. k # 1 => f[k - 1] = g[k - 1]
    BY <2>2
  <2> QED BY <1>1, <1>2, <2>1, <2>3
<1>4. f = [i \in 1 .. n |-> f[i]] /\ g = [i \in 1 .. n |-> g[i]]
  BY DEF Joins
<1> QED BY <1>3, <1>4

LEMMA FlattenIs ==
  ASSUME NEW E, NEW s \in Seq(Seq(E)), s # <<>>, NEW f, Joins(f, s, Len(s))
  PROVE  FlattenSeq(s) = f[Len(s)]
<1> DEFINE flatten == CHOOSE g : Joins(g, s, Len(s))
<1>1. Len(s) \in Nat /\ Len(s) # 0
  OBVIOUS
<1>2. Joins(flatten, s, Len(s))
  OBVIOUS
<1>3. FlattenSeq(s) = flatten[Len(s)]
  BY <1>1 DEF FlattenSeq, Joins
<1> HIDE DEF flatten
<1>4. flatten = f
  BY <1>1, <1>2, JoinsUnique
<1> QED BY <1>3, <1>4

LEMMA FlattenEmpty == FlattenSeq(<<>>) = <<>>
BY DEF FlattenSeq

LEMMA FlattenType ==
  ASSUME NEW E, NEW s \in Seq(Seq(E))
  PROVE  FlattenSeq(s) \in Seq(E)
<1>1. CASE s = <<>>
  <2>1. FlattenSeq(s) = <<>>
    BY <1>1, FlattenEmpty
  <2> QED BY <2>1
<1>2. CASE s # <<>>
  <2>1. Len(s) \in 1 .. Len(s) /\ Len(s) \in 0 .. Len(s)
    BY <1>2
  <2>2. PICK f \in [1 .. Len(s) -> Seq(E)] : Joins(f, s, Len(s))
    BY <2>1, JoinsExist
  <2> QED BY <1>2, <2>1, <2>2, FlattenIs
<1> QED BY <1>1, <1>2

LEMMA FlattenCons ==
  ASSUME NEW E, NEW e \in Seq(E), NEW s \in Seq(Seq(E))
  PROVE  FlattenSeq(<<e>> \o s) = e \o FlattenSeq(s)
<1> DEFINE n == Len(s)
           c == <<e>> \o s
<1>1. n \in Nat /\ n \in 0 .. n /\ \A i \in 1 .. n : s[i] \in Seq(E)
  OBVIOUS
<1>2. c \in Seq(Seq(E)) /\ Len(c) = n + 1 /\ c[1] = e /\ \A i \in 1 .. n : c[i + 1] = s[i]
  OBVIOUS
<1>3. PICK f \in [1 .. n -> Seq(E)] : Joins(f, s, n)
  BY <1>1, JoinsExist
<1> DEFINE g == [i \in 1 .. n + 1 |-> IF i = 1 THEN e ELSE e \o f[i - 1]]
<1> HIDE DEF c
<1>g. \A i \in 1 .. n + 1 : g[i] = IF i = 1 THEN e ELSE e \o f[i - 1]
  OBVIOUS
<1>f. \A i \in 1 .. n : f[i] = (IF i = 1 THEN s[i] ELSE f[i - 1] \o s[i]) /\ f[i] \in Seq(E)
  BY <1>3 DEF Joins
<1>a. \A x, y, z \in Seq(E) : (x \o y) \o z = x \o (y \o z)
  BY ConcatAssociative
<1>4. ASSUME NEW i \in 1 .. n + 1
      PROVE  g[i] = IF i = 1 THEN c[i] ELSE g[i - 1] \o c[i]
  <2> HIDE DEF g, n
  <2>g. /\ i # 1 => g[i] = e \o f[i - 1]
        /\ i - 1 \in 1 .. n + 1 /\ i - 1 # 1 => g[i - 1] = e \o f[(i - 1) - 1]
        /\ i - 1 = 1 => g[i - 1] = e
    <3>1. 1 \in 1 .. n + 1
      BY <1>1
    <3> QED BY <1>g, <3>1, Zenon
  <2>1. CASE i = 1
    BY <1>2, <1>g, <2>1
  <2>2. CASE i = 2
    <3>1. i - 1 = 1 /\ 1 \in 1 .. n /\ 1 \in 1 .. n + 1 /\ 1 + 1 = 2
      BY <1>1, <2>2
    <3>2. f[1] = s[1] /\ c[2] = s[1]
      BY <1>2, <1>f, <3>1
    <3>3. g[i] = e \o f[i - 1] /\ g[i - 1] = e
      BY <2>g, <2>2, <3>1
    <3>4. i # 1 /\ c[i] = s[1] /\ f[i - 1] = s[1]
      BY <2>2, <3>1, <3>2
    <3> QED BY <3>2, <3>3, <3>4, Zenon
  <2>3. CASE i > 2
    <3>1. i - 2 \in 1 .. n /\ i - 1 \in 1 .. n /\ i - 1 \in 1 .. n + 1 /\ i - 1 # 1 /\ (i - 1) - 1 = i - 2
      BY <1>1, <2>3
    <3>2. f[i - 1] = f[i - 2] \o s[i - 1]
      BY <1>f, <3>1
    <3>3. c[i] = s[i - 1]
      <4>1. (i - 1) + 1 = i
        OBVIOUS
      <4> QED BY <1>2, <3>1, <4>1
    <3>4. f[i - 2] \in Seq(E) /\ s[i - 1] \in Seq(E)
      BY <1>1, <1>f, <3>1
    <3>5. (e \o f[i - 2]) \o s[i - 1] = e \o (f[i - 2] \o s[i - 1])
      BY <1>a, <3>4, Zenon
    <3>6. g[i] = e \o f[i - 1] /\ g[i - 1] = e \o f[i - 2]
      <4>1. i # 1
        BY <2>3
      <4> QED BY <2>g, <3>1, <4>1, Zenon
    <3>7. i # 1
      BY <2>3
    <3> QED BY <3>2, <3>3, <3>5, <3>6, <3>7, Zenon
  <2>4. i = 1 \/ i = 2 \/ i > 2
    BY <1>1
  <2> QED BY <2>1, <2>2, <2>3, <2>4
<1>5. Joins(g, c, n + 1)
  <2>1. g = [i \in 1 .. n + 1 |-> g[i]]
    OBVIOUS
  <2> HIDE DEF g
  <2> QED BY <1>4, <2>1 DEF Joins
<1>6. FlattenSeq(c) = g[n + 1]
  <2>1. c # <<>>
    BY <1>1, <1>2
  <2> HIDE DEF g, n
  <2> QED BY <1>2, <1>5, <2>1, FlattenIs
<1>7. CASE s = <<>>
  <2>1. g[n + 1] = e /\ e \o <<>> = e
    BY <1>7
  <2>2. FlattenSeq(s) = <<>>
    BY <1>7, FlattenEmpty
  <2> QED BY <1>6, <2>1, <2>2 DEF c
<1>8. CASE s # <<>>
  <2>1. FlattenSeq(s) = f[n]
    BY <1>3, <1>8, FlattenIs
  <2>2. g[n + 1] = e \o f[n]
    BY <1>1, <1>8
  <2> QED BY <1>6, <2>1, <2>2 DEF c
<1> QED BY <1>7, <1>8

LEMMA FlattenAppend ==
  ASSUME NEW E, NEW e \in Seq(E), NEW s \in Seq(Seq(E))
  PROVE  FlattenSeq(Append(s, e)) = FlattenSeq(s) \o e
<1> DEFINE n == Len(s)
           c == Append(s, e)
<1>1. n \in Nat /\ n \in 0 .. n /\ \A i \in 1 .. n : s[i] \in Seq(E)
  OBVIOUS
<1>2. c \in Seq(Seq(E)) /\ Len(c) = n + 1 /\ c[n + 1] = e /\ \A i \in 1 .. n : c[i] = s[i]
  OBVIOUS
<1>3. PICK f \in [1 .. n -> Seq(E)] : Joins(f, s, n)
  BY <1>1, JoinsExist
<1> DEFINE g == [i \in 1 .. n + 1 |-> IF i <= n THEN f[i] ELSE IF n = 0 THEN e ELSE f[n] \o e]
<1> HIDE DEF c
<1>4. ASSUME NEW i \in 1 .. n + 1
      PROVE  g[i] = IF i = 1 THEN c[i] ELSE g[i - 1] \o c[i]
  <2>1. i \in 1 .. n \/ i = n + 1
    BY <1>1
  <2>2. i # 1 => i - 1 \in 1 .. n /\ g[i - 1] = f[i - 1]
    BY <1>1
  <2>3. i \in 1 .. n => g[i] = f[i] /\ c[i] = s[i]
    BY <1>1, <1>2
  <2>4. i = n + 1 => g[i] = (IF n = 0 THEN e ELSE f[n] \o e) /\ c[i] = e /\ i - 1 = n
    BY <1>1, <1>2
  <2>5. i \in 1 .. n => f[i] = IF i = 1 THEN s[i] ELSE f[i - 1] \o s[i]
    BY <1>3 DEF Joins
  <2>6. i = n + 1 => (n = 0 <=> i = 1)
    BY <1>1
  <2> HIDE DEF g, n
  <2> QED BY <2>1, <2>2, <2>3, <2>4, <2>5, <2>6
<1>5. Joins(g, c, n + 1)
  <2>1. g = [i \in 1 .. n + 1 |-> g[i]]
    OBVIOUS
  <2> HIDE DEF g
  <2> QED BY <1>4, <2>1 DEF Joins
<1>6. FlattenSeq(c) = g[n + 1]
  <2>1. c # <<>>
    BY <1>1, <1>2
  <2> HIDE DEF g, n
  <2> QED BY <1>2, <1>5, <2>1, FlattenIs
<1>7. CASE s = <<>>
  <2>1. g[n + 1] = e /\ <<>> \o e = e
    BY <1>7
  <2>2. FlattenSeq(s) = <<>>
    BY <1>7, FlattenEmpty
  <2> QED BY <1>6, <2>1, <2>2 DEF c
<1>8. CASE s # <<>>
  <2>1. FlattenSeq(s) = f[n]
    BY <1>3, <1>8, FlattenIs
  <2>2. g[n + 1] = f[n] \o e
    BY <1>1, <1>8
  <2> QED BY <1>6, <2>1, <2>2 DEF c
<1> QED BY <1>7, <1>8

(* One more copy.                                                          *)
Copies(n, p) == FlattenSeq([k \in 1 .. n |-> p])

LEMMA CopiesGrow ==
  ASSUME NEW E, NEW p \in Seq(E), NEW n \in Nat
  PROVE  /\ Copies(n, p) \in Seq(E)
         /\ Copies(n + 1, p) = Copies(n, p) \o p
         /\ Copies(0, p) = <<>>
<1> DEFINE s == [k \in 1 .. n |-> p]
<1>1. s \in Seq(Seq(E))
  OBVIOUS
<1>2. [k \in 1 .. n + 1 |-> p] = Append(s, p)
  <2>1. Len(s) = n /\ DOMAIN s = 1 .. n
    OBVIOUS
  <2>2. Append(s, p) \in Seq(Seq(E)) /\ Len(Append(s, p)) = n + 1
    BY <1>1, <2>1
  <2>3. \A i \in 1 .. n + 1 : Append(s, p)[i] = p
    BY <1>1, <2>1
  <2>4. [k \in 1 .. n + 1 |-> p] \in Seq(Seq(E)) /\ Len([k \in 1 .. n + 1 |-> p]) = n + 1
    OBVIOUS
  <2> HIDE DEF s
  <2> QED BY <2>2, <2>3, <2>4, SeqEqual
<1>3. Copies(n, p) \in Seq(E)
  BY <1>1, FlattenType DEF Copies
<1>4. Copies(n + 1, p) = Copies(n, p) \o p
  <2> HIDE DEF s
  <2>1. FlattenSeq(Append(s, p)) = FlattenSeq(s) \o p
    BY <1>1, FlattenAppend
  <2> QED BY <1>2, <2>1 DEF Copies, s
<1>5. Copies(0, p) = <<>>
  <2>1. [k \in 1 .. 0 |-> p] = <<>>
    OBVIOUS
  <2> QED BY <2>1, FlattenEmpty DEF Copies
<1> QED BY <1>3, <1>4, <1>5
-----------------------------------------------------------------------------
(* The atoms of values.                                                    *)

AtomsAt(f, n) ==
  [o \in Object |->
     IF Kind[o] \in {"text", "float"} THEN <<o>>
     ELSE IF n = 0 THEN <<>>
     ELSE FlattenSeq([k \in DOMAIN Parts[o] |-> f[n - 1][Parts[o][k]]])]

LEMMA ObjectsAre ==
  ASSUME NEW o \in Object
  PROVE  /\ Kind[o] \in {"text", "float", "pointer", "raw"}
         /\ o \in DOMAIN Parts <=> Kind[o] \in {"pointer", "raw"}
         /\ o \in DOMAIN Parts => Parts[o] \in Seq(Object) /\ Inner(o) = ToSet(Parts[o])
         /\ o \notin DOMAIN Parts => Inner(o) = {}
         /\ Inner(o) \subseteq Object
<1>1. /\ Kind \in [Object -> {"text", "float", "pointer", "raw"}]
      /\ DOMAIN Parts = {p \in Object : Kind[p] \in {"pointer", "raw"}}
      /\ \A p \in DOMAIN Parts : Parts[p] \in Seq(Object)
  BY ConstantsAssumption
<1>2. Kind[o] \in {"text", "float", "pointer", "raw"}
  BY <1>1
<1>3. o \in DOMAIN Parts <=> Kind[o] \in {"pointer", "raw"}
  BY <1>1
<1>4. o \in DOMAIN Parts => ToSet(Parts[o]) \subseteq Object
  BY <1>1 DEF ToSet
<1> QED BY <1>1, <1>2, <1>3, <1>4 DEF Inner

LEMMA AtomsAtType ==
  ASSUME NEW n \in Nat, NEW f, n = 0 \/ f[n - 1] \in [Object -> Seq(Object)]
  PROVE  AtomsAt(f, n) \in [Object -> Seq(Object)]
<1> SUFFICES ASSUME NEW o \in Object, Kind[o] \notin {"text", "float"}, n # 0
             PROVE  FlattenSeq([k \in DOMAIN Parts[o] |-> f[n - 1][Parts[o][k]]]) \in Seq(Object)
  BY DEF AtomsAt
<1> DEFINE s == [k \in DOMAIN Parts[o] |-> f[n - 1][Parts[o][k]]]
           prev == f[n - 1]
<1>1. prev \in [Object -> Seq(Object)]
  OBVIOUS
<1>2. Parts[o] \in Seq(Object)
  BY ObjectsAre
<1>3. s \in Seq(Seq(Object))
  <2>1. s = [k \in DOMAIN Parts[o] |-> prev[Parts[o][k]]]
    OBVIOUS
  <2> HIDE DEF prev, s
  <2>2. \A k \in DOMAIN Parts[o] : prev[Parts[o][k]] \in Seq(Object)
    BY <1>1, <1>2
  <2>3. DOMAIN Parts[o] = 1 .. Len(Parts[o]) /\ Len(Parts[o]) \in Nat
    BY <1>2
  <2> QED BY <2>1, <2>2, <2>3
<1> QED BY <1>3, FlattenType

LEMMA AtomsExist ==
  ASSUME NEW m \in Nat
  PROVE  \E f \in [0 .. m -> [Object -> Seq(Object)]] : f = [n \in 0 .. m |-> AtomsAt(f, n)]
<1> DEFINE P(i) == \E f \in [0 .. i -> [Object -> Seq(Object)]] : f = [n \in 0 .. i |-> AtomsAt(f, n)]
           bad  == {i \in Nat : ~P(i)}
<1>1. ASSUME NEW i \in Nat, i # 0 => P(i - 1)
      PROVE  P(i)
  <2>1. PICK f : i # 0 => /\ f \in [0 .. i - 1 -> [Object -> Seq(Object)]]
                          /\ f = [n \in 0 .. i - 1 |-> AtomsAt(f, n)]
    BY <1>1
  <2> DEFINE g == [n \in 0 .. i |-> IF n = i THEN AtomsAt(f, i) ELSE f[n]]
  <2>2. AtomsAt(f, i) \in [Object -> Seq(Object)]
    <3>1. i # 0 => i - 1 \in 0 .. i - 1
      OBVIOUS
    <3>2. i # 0 => f[i - 1] \in [Object -> Seq(Object)]
      BY <2>1, <3>1
    <3> QED BY <3>2, AtomsAtType
  <2>3. \A n \in 0 .. i : n # i => n \in 0 .. i - 1 /\ i # 0
    OBVIOUS
  <2>4. g \in [0 .. i -> [Object -> Seq(Object)]]
    BY <2>1, <2>2, <2>3
  <2>5. ASSUME NEW n \in 0 .. i
        PROVE  g[n] = AtomsAt(g, n)
    <3>1. n # 0 => g[n - 1] = f[n - 1]
      <4>1. n # 0 => n - 1 \in 0 .. i /\ n - 1 # i
        OBVIOUS
      <4> QED BY <4>1
    <3>2. AtomsAt(g, n) = AtomsAt(f, n)
      <4> HIDE DEF g
      <4> QED BY <3>1 DEF AtomsAt
    <3>3. n # i => f[n] = AtomsAt(f, n)
      BY <2>1, <2>3
    <3>4. g[n] = IF n = i THEN AtomsAt(f, i) ELSE f[n]
      OBVIOUS
    <3> HIDE DEF g
    <3> QED BY <3>2, <3>3, <3>4
  <2>6. g = [n \in 0 .. i |-> AtomsAt(g, n)]
    <3>1. g = [n \in 0 .. i |-> g[n]]
      OBVIOUS
    <3> HIDE DEF g
    <3> QED BY <2>5, <3>1
  <2> HIDE DEF g
  <2> QED BY <2>4, <2>6
<1> HIDE DEF P
<1>2. bad = {}
  <2> SUFFICES ASSUME bad # {} PROVE FALSE
    OBVIOUS
  <2>1. bad \in SUBSET Nat
    OBVIOUS
  <2>2. PICK i \in bad : \A j \in bad : i <= j
    <3> HIDE DEF bad
    <3> QED BY <2>1, LeastExists
  <2>3. i # 0 => i - 1 \in Nat /\ i - 1 \notin bad
    BY <2>2
  <2> QED BY <1>1, <2>2, <2>3
<1> QED BY <1>2 DEF P

LEMMA AtomsOfIs ==
  /\ AtomsOf \in [0 .. MaxStack -> [Object -> Seq(Object)]]
  /\ \A n \in 0 .. MaxStack, o \in Object : AtomsOf[n][o] = AtomsAt(AtomsOf, n)[o]
<1> DEFINE m == MaxStack
           is(f) == f = [n \in 0 .. m |-> AtomsAt(f, n)]
           atoms == CHOOSE f : is(f)
<1>1. m \in Nat
  BY ConstantsAssumption
<1>2. \E f : is(f)
  BY <1>1, AtomsExist
<1>3. is(atoms)
  BY <1>2
<1>4. AtomsOf = atoms
  BY DEF AtomsOf, AtomsAt
<1> HIDE DEF atoms
<1>5. \A n \in 0 .. m : AtomsOf[n] = AtomsAt(AtomsOf, n)
  BY <1>3, <1>4
<1>6. \A n \in 0 .. m : AtomsOf[n] \in [Object -> Seq(Object)]
  <2> DEFINE bad == {n \in 0 .. m : AtomsOf[n] \notin [Object -> Seq(Object)]}
  <2> SUFFICES ASSUME bad # {} PROVE FALSE
    OBVIOUS
  <2>1. bad \in SUBSET Nat
    OBVIOUS
  <2>2. PICK n \in bad : \A j \in bad : n <= j
    <3> HIDE DEF bad
    <3> QED BY <2>1, LeastExists
  <2>3. n # 0 => n - 1 \in 0 .. m /\ n - 1 \notin bad
    <3>1. n \in 0 .. m
      BY <2>2
    <3> HIDE DEF bad, m
    <3> QED BY <1>1, <2>2, <3>1
  <2>4. n = 0 \/ AtomsOf[n - 1] \in [Object -> Seq(Object)]
    BY <2>3
  <2>5. n \in Nat
    BY <2>1
  <2>6. AtomsAt(AtomsOf, n) \in [Object -> Seq(Object)]
    <3> HIDE DEF bad
    <3> QED BY <2>4, <2>5, AtomsAtType
  <2> QED BY <1>5, <2>2, <2>6
<1>7. AtomsOf = [n \in 0 .. m |-> AtomsOf[n]]
  BY <1>3, <1>4
<1> QED BY <1>5, <1>6, <1>7

(* The atoms of the elements of a sequence, n levels deep.                 *)
AtomsIn(n, todo) == FlattenSeq([k \in DOMAIN todo |-> AtomsOf[n][todo[k]]])

LEMMA AtomsInType ==
  ASSUME NEW n \in 0 .. MaxStack, NEW todo \in Seq(Object)
  PROVE  /\ [k \in DOMAIN todo |-> AtomsOf[n][todo[k]]] \in Seq(Seq(Object))
         /\ AtomsIn(n, todo) \in Seq(Object)
<1> DEFINE prev == AtomsOf[n]
           s == [k \in DOMAIN todo |-> prev[todo[k]]]
<1>1. prev \in [Object -> Seq(Object)]
  BY AtomsOfIs
<1>2. s \in Seq(Seq(Object))
  <2> HIDE DEF prev
  <2>1. \A k \in DOMAIN todo : prev[todo[k]] \in Seq(Object)
    BY <1>1
  <2>2. DOMAIN todo = 1 .. Len(todo) /\ Len(todo) \in Nat
    OBVIOUS
  <2> QED BY <2>1, <2>2
<1>3. FlattenSeq(s) \in Seq(Object)
  <2> HIDE DEF s
  <2> QED BY <1>2, FlattenType
<1> QED BY <1>2, <1>3 DEF AtomsIn

LEMMA AtomsOfLeaf ==
  ASSUME NEW n \in 0 .. MaxStack, NEW o \in Object, o \notin DOMAIN Parts
  PROVE  AtomsOf[n][o] = <<o>>
<1>1. Kind[o] \in {"text", "float"}
  BY ObjectsAre
<1> QED BY <1>1, AtomsOfIs DEF AtomsAt

LEMMA AtomsOfParts ==
  ASSUME NEW n \in 1 .. MaxStack, NEW o \in DOMAIN Parts, o \in Object
  PROVE  AtomsOf[n][o] = AtomsIn(n - 1, Parts[o])
<1>1. MaxStack \in Nat
  BY ConstantsAssumption
<1>2. n \in 0 .. MaxStack /\ n # 0
  BY <1>1
<1>3. Kind[o] \notin {"text", "float"}
  BY ObjectsAre
<1> QED BY <1>2, <1>3, AtomsOfIs DEF AtomsAt, AtomsIn

LEMMA AtomsInNone == \A n : AtomsIn(n, <<>>) = <<>>
<1> SUFFICES ASSUME NEW n PROVE AtomsIn(n, <<>>) = <<>>
  OBVIOUS
<1>1. [k \in DOMAIN <<>> |-> AtomsOf[n][<<>>[k]]] = <<>>
  OBVIOUS
<1> QED BY <1>1, FlattenEmpty DEF AtomsIn

LEMMA AtomsInCons ==
  ASSUME NEW n \in 0 .. MaxStack, NEW todo \in Seq(Object), todo # <<>>
  PROVE  AtomsIn(n, todo) = AtomsOf[n][Head(todo)] \o AtomsIn(n, Tail(todo))
<1> DEFINE prev == AtomsOf[n]
           e == prev[Head(todo)]
           s == [k \in DOMAIN Tail(todo) |-> prev[Tail(todo)[k]]]
           c == [k \in DOMAIN todo |-> prev[todo[k]]]
<1>1. prev \in [Object -> Seq(Object)]
  BY AtomsOfIs
<1>2. Head(todo) \in Object /\ Tail(todo) \in Seq(Object)
  OBVIOUS
<1>3. s \in Seq(Seq(Object)) /\ c \in Seq(Seq(Object))
  BY <1>2, AtomsInType
<1>4. e \in Seq(Object)
  BY <1>1, <1>2
<1>5. c = <<e>> \o s
  <2>1. Len(c) = Len(todo) /\ Len(s) = Len(todo) - 1 /\ Len(todo) \in Nat \ {0}
    <3>1. DOMAIN c = 1 .. Len(todo) /\ DOMAIN s = 1 .. Len(todo) - 1
      BY <1>2
    <3> HIDE DEF c, s
    <3> QED BY <1>3, <3>1
  <2>2. <<e>> \o s \in Seq(Seq(Object)) /\ Len(<<e>> \o s) = Len(todo)
    <3>1. <<e>> \in Seq(Seq(Object)) /\ Len(<<e>>) = 1
      BY <1>4
    <3> HIDE DEF e, s
    <3> QED BY <1>3, <2>1, <3>1, ConcatProperties
  <2>3. \A k \in 1 .. Len(todo) : c[k] = prev[todo[k]]
    OBVIOUS
  <2>4. \A k \in 1 .. Len(todo) - 1 : s[k] = prev[todo[k + 1]]
    <3>1. \A k \in 1 .. Len(todo) - 1 : k \in DOMAIN Tail(todo) /\ Tail(todo)[k] = todo[k + 1]
      OBVIOUS
    <3> HIDE DEF prev
    <3> QED BY <3>1
  <2>5. c[1] = e
    <3>1. 1 \in 1 .. Len(todo) /\ Head(todo) = todo[1]
      OBVIOUS
    <3> QED BY <2>3, <3>1
  <2>6. \A k \in 1 .. Len(todo) : (<<e>> \o s)[k] = IF k = 1 THEN e ELSE s[k - 1]
    <3> HIDE DEF e, s
    <3> QED BY <1>3, <1>4, <2>1
  <2>7. \A k \in 1 .. Len(todo) : (<<e>> \o s)[k] = c[k]
    <3> SUFFICES ASSUME NEW k \in 1 .. Len(todo) PROVE (<<e>> \o s)[k] = c[k]
      OBVIOUS
    <3>1. CASE k = 1
      BY <2>5, <2>6, <3>1
    <3>2. CASE k # 1
      <4>1. k - 1 \in 1 .. Len(todo) - 1 /\ (k - 1) + 1 = k
        BY <2>1, <3>2
      <4>2. s[k - 1] = prev[todo[k]]
        <5> HIDE DEF s, prev
        <5> QED BY <2>4, <4>1
      <4> HIDE DEF s, c, e, prev
      <4> QED BY <2>3, <2>6, <3>2, <4>2
    <3> QED BY <3>1, <3>2
  <2> HIDE DEF c, e, s
  <2> QED BY <1>3, <2>1, <2>2, <2>7, SeqEqual
<1>6. FlattenSeq(<<e>> \o s) = e \o FlattenSeq(s)
  <2> HIDE DEF e, s
  <2> QED BY <1>3, <1>4, FlattenCons
<1> QED BY <1>5, <1>6 DEF AtomsIn

(* Atoms as a rendering prints them.                                       *)
By(r, s) == [k \in DOMAIN s |-> <<r, s[k]>>]

LEMMA ByIs ==
  ASSUME NEW r \in Rendering, NEW s \in Seq(Object)
  PROVE  /\ By(r, s) \in Seq(Rendering \X Object)
         /\ Len(By(r, s)) = Len(s)
         /\ \A k \in 1 .. Len(s) : By(r, s)[k] = <<r, s[k]>>
         /\ By(r, <<>>) = <<>>
<1>1. DOMAIN s = 1 .. Len(s) /\ Len(s) \in Nat
  OBVIOUS
<1> QED BY <1>1 DEF By

LEMMA ByConcat ==
  ASSUME NEW r \in Rendering, NEW s \in Seq(Object), NEW t \in Seq(Object)
  PROVE  By(r, s \o t) = By(r, s) \o By(r, t)
<1> DEFINE u == s \o t
           v == By(r, s) \o By(r, t)
<1>1. u \in Seq(Object) /\ Len(u) = Len(s) + Len(t)
      /\ \A k \in 1 .. Len(s) + Len(t) : u[k] = IF k <= Len(s) THEN s[k] ELSE t[k - Len(s)]
  BY ConcatProperties
<1>2. /\ v \in Seq(Rendering \X Object) /\ Len(v) = Len(s) + Len(t)
      /\ \A k \in 1 .. Len(s) + Len(t) :
           v[k] = IF k <= Len(s) THEN By(r, s)[k] ELSE By(r, t)[k - Len(s)]
  <2>1. /\ By(r, s) \in Seq(Rendering \X Object) /\ Len(By(r, s)) = Len(s)
        /\ By(r, t) \in Seq(Rendering \X Object) /\ Len(By(r, t)) = Len(t)
    BY ByIs
  <2>2. \A S : \A x, y \in Seq(S) :
          /\ x \o y \in Seq(S) /\ Len(x \o y) = Len(x) + Len(y)
          /\ \A i \in 1 .. Len(x) + Len(y) : (x \o y)[i] = IF i <= Len(x) THEN x[i] ELSE y[i - Len(x)]
    BY ConcatProperties, Zenon
  <2>3. /\ v \in Seq(Rendering \X Object) /\ Len(v) = Len(By(r, s)) + Len(By(r, t))
        /\ \A k \in 1 .. Len(By(r, s)) + Len(By(r, t)) :
             v[k] = IF k <= Len(By(r, s)) THEN By(r, s)[k] ELSE By(r, t)[k - Len(By(r, s))]
    BY <2>1, <2>2, Zenon
  <2> QED BY <2>1, <2>3, Zenon
<1> HIDE DEF u, v
<1>3. By(r, u) \in Seq(Rendering \X Object) /\ Len(By(r, u)) = Len(s) + Len(t)
  BY <1>1, ByIs
<1>4. \A k \in 1 .. Len(s) + Len(t) : By(r, u)[k] = v[k]
  <2> SUFFICES ASSUME NEW k \in 1 .. Len(s) + Len(t) PROVE By(r, u)[k] = v[k]
    OBVIOUS
  <2>1. By(r, u)[k] = <<r, u[k]>>
    BY <1>1, ByIs
  <2>2. k <= Len(s) => k \in 1 .. Len(s) /\ By(r, s)[k] = <<r, s[k]>>
    BY ByIs
  <2>3. ~(k <= Len(s)) => k - Len(s) \in 1 .. Len(t) /\ By(r, t)[k - Len(s)] = <<r, t[k - Len(s)]>>
    BY ByIs
  <2> QED BY <1>1, <1>2, <2>1, <2>2, <2>3
<1>5. By(r, u) = v
  BY <1>2, <1>3, <1>4, SeqEqual
<1> QED BY <1>5 DEF u, v
-----------------------------------------------------------------------------
(* What is part of what, and what can be printed to its end.               *)

LEMMA ReachedIs ==
  ASSUME NEW o \in Object
  PROVE  /\ Reached[o] \in SUBSET Object
         /\ o \in Reached[o]
         /\ \A p \in Reached[o] : Inner(p) \subseteq Reached[o]
<1>1. Reached[o] = {p \in Object : \A S \in Closed : o \in S => p \in S}
  BY DEF Reached
<1>2. ASSUME NEW p \in Reached[o], NEW q \in Inner(p)
      PROVE  q \in Reached[o]
  <2>1. p \in Object
    BY <1>1
  <2>2. q \in Object
    BY <2>1, <1>2, ObjectsAre
  <2> QED BY <1>1, <1>2, <2>2 DEF Closed
<1> QED BY <1>1, <1>2

LEMMA ReachedBy ==
  ASSUME NEW o \in Object, NEW y \in Reached[o], y # o
  PROVE  \E p \in Inner(o) : y \in Reached[p]
<1> DEFINE S == {o} \cup UNION {Reached[p] : p \in Inner(o)}
<1>1. Inner(o) \subseteq Object
  BY ObjectsAre
<1>2. S \in SUBSET Object
  BY <1>1, ReachedIs
<1>3. \A z \in S : Inner(z) \subseteq S
  BY <1>1, ReachedIs
<1>4. S \in Closed
  BY <1>2, <1>3 DEF Closed
<1>5. y \in S
  <2> HIDE DEF S
  <2>1. o \in S => y \in S
    BY <1>4 DEF Reached
  <2> QED BY <2>1 DEF S
<1> QED BY <1>5

(* What can be printed to its end below pointers with these addresses: an  *)
(* object that has none of them, is not too long, and whose parts can be   *)
(* printed below it, beginning with what has no parts.                     *)
Addresses    == {Addr[p] : p \in DOMAIN Addr}
Fresh(o, A)  == Kind[o] = "pointer" => Addr[o] \notin A
Around(o, A) == IF Kind[o] = "pointer" THEN A \cup {Addr[o]} ELSE A
Leads(S) ==
  \A x \in Object, A \in SUBSET Addresses :
    ~TooLong(x) /\ Fresh(x, A) /\ (\A p \in Inner(x) : <<p, Around(x, A)>> \in S) => <<x, A>> \in S
PrintableIn(A) ==
  {o \in Object : \A S \in SUBSET (Object \X SUBSET Addresses) : Leads(S) => <<o, A>> \in S}
Printable == PrintableIn({})

LEMMA AroundIs ==
  ASSUME NEW o \in Object, NEW A \in SUBSET Addresses
  PROVE  Around(o, A) \in SUBSET Addresses /\ A \subseteq Around(o, A)
BY ConstantsAssumption DEF Around, Addresses

LEMMA PrintableIf ==
  ASSUME NEW o \in Object, NEW A \in SUBSET Addresses, ~TooLong(o), Fresh(o, A),
         Inner(o) \subseteq PrintableIn(Around(o, A))
  PROVE  o \in PrintableIn(A)
<1>1. ASSUME NEW S \in SUBSET (Object \X SUBSET Addresses), Leads(S)
      PROVE  <<o, A>> \in S
  <2>1. \A p \in Inner(o) : <<p, Around(o, A)>> \in S
    BY <1>1 DEF PrintableIn
  <2> QED BY <1>1, <2>1 DEF Leads
<1> QED BY <1>1 DEF PrintableIn

LEMMA PrintableIs ==
  ASSUME NEW o \in Printable
  PROVE  ~Found(o) /\ ~Oversize(o) /\ ~Endless(o)
<1> DEFINE Good(y, A) == /\ ~TooLong(y) /\ ~Circular(y) /\ Fresh(y, A)
                         /\ ~(Kind[y] = "pointer" /\ Meets(y))
           S == {e \in Object \X SUBSET Addresses : \A y \in Reached[e[1]] : Good(y, e[2])}
<1>1. ASSUME NEW x \in Object, NEW A \in SUBSET Addresses, ~TooLong(x), Fresh(x, A),
             \A p \in Inner(x) : <<p, Around(x, A)>> \in S
      PROVE  <<x, A>> \in S
  <2>1. \A p \in Inner(x) : \A y \in Reached[p] : Good(y, Around(x, A))
    <3> HIDE DEF Good
    <3> QED BY <1>1
  <2>2. ~Circular(x)
    BY <2>1 DEF Circular
  <2>3. ~(Kind[x] = "pointer" /\ Meets(x))
    <3> SUFFICES ASSUME Kind[x] = "pointer", Meets(x) PROVE FALSE
      OBVIOUS
    <3>1. PICK q \in Inner(x) : \E y \in Reached[q] : Kind[y] = "pointer" /\ Addr[y] = Addr[x]
      BY DEF Meets
    <3>2. PICK y \in Reached[q] : Kind[y] = "pointer" /\ Addr[y] = Addr[x]
      BY <3>1
    <3>3. Fresh(y, Around(x, A))
      BY <2>1
    <3> QED BY <3>2, <3>3 DEF Fresh, Around
  <2>4. ASSUME NEW y \in Reached[x], y # x
        PROVE  Good(y, A)
    <3>1. PICK p \in Inner(x) : y \in Reached[p]
      BY <2>4, ReachedBy
    <3>2. Good(y, Around(x, A))
      BY <2>1, <3>1
    <3>3. Fresh(y, A)
      BY <3>2, AroundIs DEF Fresh
    <3> QED BY <3>2, <3>3
  <2>5. Good(x, A)
    BY <1>1, <2>2, <2>3
  <2>6. \A y \in Reached[x] : Good(y, A)
    BY <2>4, <2>5
  <2> HIDE DEF Good
  <2> QED BY <2>6
<1>2. o \in Object /\ <<o, {}>> \in S
  <2>1. S \in SUBSET (Object \X SUBSET Addresses)
    OBVIOUS
  <2> HIDE DEF S
  <2>2. Leads(S)
    BY <1>1 DEF Leads
  <2> QED BY <2>1, <2>2 DEF Printable, PrintableIn
<1>3. \A y \in Reached[o] : Good(y, {})
  <2> HIDE DEF Good
  <2> QED BY <1>2
<1>4. ~Oversize(o)
  BY <1>3 DEF Oversize
<1>5. ~Found(o) /\ ~Endless(o)
  BY <1>3 DEF Found, Endless
<1> QED BY <1>4, <1>5
-----------------------------------------------------------------------------
(* The stack of one rendering that prints v.  What the frames have to do   *)
(* are elements of the object of the frame, which is one of the elements   *)
(* of the frame below and has an address that no pointer on the way to it  *)
(* has; and an element is to do, under way or was printed.                 *)
Frame == [obj : Object \cup {None}, todo : Seq(Object)]
Elements(s, k, v) == IF k = 1 THEN {v} ELSE Inner(s[k].obj)
Way(s, k) == {Addr[s[j].obj] : j \in {i \in 2 .. k : Kind[s[i].obj] = "pointer"}}

Nested(s, v) ==
  /\ s \in Seq(Frame) /\ Len(s) \in 1 .. MaxStack
  /\ \A k \in 1 .. Len(s) : ToSet(s[k].todo) \subseteq Elements(s, k, v)
  /\ \A k \in 2 .. Len(s) :
       /\ s[k].obj \in Elements(s, k - 1, v) /\ s[k].obj \in DOMAIN Parts /\ ~TooLong(s[k].obj)
       /\ s[k].obj \in Reached[v] /\ Fresh(s[k].obj, Way(s, k - 1))
  /\ \A k \in 2 .. Len(s), j \in 2 .. Len(s) :
       j < k => \E p \in Inner(s[j].obj) : s[k].obj \in Reached[p]

Done(s, v, k, now) == Elements(s, k, v) \subseteq PrintableIn(Way(s, k)) \cup ToSet(s[k].todo) \cup now
Frames(s, v) ==
  /\ Nested(s, v)
  /\ \A k \in 1 .. Len(s) : Done(s, v, k, IF k = Len(s) THEN {} ELSE {s[k + 1].obj})

(* What is left to print: x.                                               *)
Level(k) == MaxStack + 1 - k
LeftBy(t, s) ==
  /\ t \in [0 .. Len(s) -> Seq(Object)] /\ t[0] = <<>>
  /\ \A k \in 1 .. Len(s) : t[k] = AtomsIn(Level(k), s[k].todo) \o t[k - 1]
Left(s, x) == \E t \in [0 .. Len(s) -> Seq(Object)] : LeftBy(t, s) /\ t[Len(s)] = x

LEMMA LevelIs ==
  ASSUME NEW k \in 1 .. MaxStack
  PROVE  Level(k) \in 1 .. MaxStack /\ Level(k) \in 0 .. MaxStack /\ Level(k + 1) = Level(k) - 1
BY ConstantsAssumption DEF Level

(* The top frame goes on to its next element.                              *)
GoesOn(s, s2) ==
  /\ s2 \in Seq(Frame) /\ Len(s2) = Len(s)
  /\ \A k \in 1 .. Len(s) : k # Len(s) => s2[k] = s[k]
  /\ s2[Len(s)].obj = s[Len(s)].obj /\ s2[Len(s)].todo = Tail(s[Len(s)].todo)

LEMMA FrontIs ==
  ASSUME NEW E, NEW s \in Seq(E), s # <<>>
  PROVE  /\ Front(s) \in Seq(E) /\ Len(Front(s)) = Len(s) - 1
         /\ \A k \in 1 .. Len(s) - 1 : Front(s)[k] = s[k]
<1>1. Len(s) \in Nat \ {0} /\ \A k \in 1 .. Len(s) - 1 : s[k] \in E
  OBVIOUS
<1> DEFINE m == Len(s) - 1
<1>2. m \in Int /\ 1 \in Int /\ \A k \in 1 .. m : s[k] \in E
  BY <1>1
<1>3. /\ SubSeq(s, 1, m) \in Seq(E) /\ Len(SubSeq(s, 1, m)) = (IF 1 <= m THEN m - 1 + 1 ELSE 0)
      /\ \A i \in 1 .. m - 1 + 1 : SubSeq(s, 1, m)[i] = s[1 + i - 1]
  <2> HIDE DEF m
  <2> QED BY <1>2, SubSeqProperties
<1>4. m \in Nat /\ m - 1 + 1 = m /\ \A i \in 1 .. m : 1 + i - 1 = i
  BY <1>1
<1>5. Len(SubSeq(s, 1, m)) = m /\ \A i \in 1 .. m : SubSeq(s, 1, m)[i] = s[i]
  <2> HIDE DEF m
  <2> QED BY <1>3, <1>4
<1> QED BY <1>3, <1>5 DEF Front

LEMMA RestIs ==
  ASSUME NEW s \in Seq(Frame), s # <<>>, Last(s).todo # <<>>
  PROVE  GoesOn(s, Front(s) \o <<[Last(s) EXCEPT !.todo = Tail(@)]>>)
<1> DEFINE n == Len(s)
           top == [Last(s) EXCEPT !.todo = Tail(@)]
           f == Front(s)
           s2 == f \o <<top>>
<1>1. n \in Nat \ {0} /\ Last(s) = s[n] /\ s[n] \in Frame
  BY DEF Last
<1>2. top \in Frame /\ top.obj = s[n].obj /\ top.todo = Tail(s[n].todo)
  <2>1. s[n].todo \in Seq(Object) /\ s[n].todo # <<>> /\ s[n].obj \in Object \cup {None}
    BY <1>1 DEF Frame
  <2>2. top = [obj |-> s[n].obj, todo |-> Tail(s[n].todo)]
    <3>1. s[n] = [obj |-> s[n].obj, todo |-> s[n].todo] /\ top = [s[n] EXCEPT !.todo = Tail(s[n].todo)]
      BY <1>1 DEF Frame
    <3> HIDE DEF n, top
    <3> QED BY <3>1
  <2>3. Tail(s[n].todo) \in Seq(Object)
    BY <2>1
  <2> HIDE DEF n, top
  <2> QED BY <2>1, <2>2, <2>3 DEF Frame
<1>3. f \in Seq(Frame) /\ Len(f) = n - 1 /\ \A k \in 1 .. n - 1 : f[k] = s[k]
  BY FrontIs
<1> HIDE DEF top, f, n
<1>4. <<top>> \in Seq(Frame) /\ Len(<<top>>) = 1 /\ <<top>>[1] = top
  BY <1>2
<1>5. /\ s2 \in Seq(Frame) /\ Len(s2) = n
      /\ \A k \in 1 .. n : s2[k] = IF k <= n - 1 THEN f[k] ELSE <<top>>[k - (n - 1)]
  BY <1>1, <1>3, <1>4, ConcatProperties
<1>6. s2[n] = top
  BY <1>1, <1>4, <1>5
<1>7. \A k \in 1 .. n : k # n => s2[k] = s[k]
  BY <1>1, <1>3, <1>5
<1> HIDE DEF s2
<1> QED BY <1>2, <1>5, <1>6, <1>7 DEF GoesOn, s2, top, f, n

LEMMA ToSetTail ==
  ASSUME NEW s \in Seq(Object), s # <<>>
  PROVE  ToSet(s) = {Head(s)} \cup ToSet(Tail(s))
<1>1. Len(s) \in Nat \ {0} /\ DOMAIN s = 1 .. Len(s) /\ DOMAIN Tail(s) = 1 .. Len(s) - 1
  OBVIOUS
<1>2. Head(s) = s[1] /\ \A k \in 1 .. Len(s) - 1 : Tail(s)[k] = s[k + 1]
  OBVIOUS
<1>3. ASSUME NEW k \in 1 .. Len(s)
      PROVE  s[k] \in {Head(s)} \cup ToSet(Tail(s))
  <2>1. k = 1 \/ (k - 1 \in 1 .. Len(s) - 1 /\ s[k] = Tail(s)[k - 1])
    BY <1>1, <1>2
  <2> QED BY <1>1, <1>2, <2>1 DEF ToSet
<1>4. ASSUME NEW k \in 1 .. Len(s) - 1
      PROVE  Tail(s)[k] \in ToSet(s)
  <2>1. k + 1 \in 1 .. Len(s) /\ Tail(s)[k] = s[k + 1]
    BY <1>1, <1>2
  <2> QED BY <1>1, <2>1 DEF ToSet
<1>5. Head(s) \in ToSet(s)
  <2>1. 1 \in DOMAIN s
    BY <1>1
  <2> QED BY <1>2, <2>1 DEF ToSet
<1> QED BY <1>1, <1>3, <1>4, <1>5 DEF ToSet

LEMMA StackIs ==
  ASSUME NEW v, NEW s, Nested(s, v)
  PROVE  /\ s \in Seq(Frame) /\ Len(s) \in 1 .. MaxStack /\ Len(s) \in Nat \ {0} /\ s # <<>>
         /\ \A k \in 1 .. Len(s) : s[k].todo \in Seq(Object) /\ k \in 1 .. MaxStack
         /\ \A k \in 2 .. Len(s) : s[k].obj \in Object
<1>1. s \in Seq(Frame) /\ Len(s) \in 1 .. MaxStack
  BY DEF Nested
<1>2. MaxStack \in Nat /\ DOMAIN Parts \subseteq Object
  BY ConstantsAssumption
<1>3. \A k \in 1 .. Len(s) : s[k] \in Frame /\ k \in 1 .. MaxStack
  BY <1>1, <1>2
<1>4. \A k \in 2 .. Len(s) : s[k].obj \in Object
  BY <1>2 DEF Nested
<1> QED BY <1>1, <1>2, <1>3, <1>4 DEF Frame

LEMMA WayIs ==
  ASSUME NEW v, NEW s, Nested(s, v)
  PROVE  /\ \A k \in 1 .. Len(s) : Way(s, k) \in SUBSET Addresses
         /\ \A k \in 2 .. Len(s) : Way(s, k) = Around(s[k].obj, Way(s, k - 1))
         /\ Way(s, 1) = {}
<1>1. Len(s) \in Nat \ {0} /\ \A k \in 2 .. Len(s) : s[k].obj \in Object
  BY StackIs
<1>2. ASSUME NEW k \in 1 .. Len(s)
      PROVE  Way(s, k) \in SUBSET Addresses
  <2>1. \A j \in 2 .. k : s[j].obj \in Object
    BY <1>1
  <2> QED BY <2>1, ConstantsAssumption DEF Way, Addresses
<1>3. ASSUME NEW k \in 2 .. Len(s)
      PROVE  Way(s, k) = Around(s[k].obj, Way(s, k - 1))
  <2>1. 2 .. k = (2 .. k - 1) \cup {k}
    BY <1>1
  <2> QED BY <2>1 DEF Way, Around
<1>4. Way(s, 1) = {}
  BY DEF Way
<1> QED BY <1>2, <1>3, <1>4

(* The way depends on the objects alone.                                   *)
LEMMA SameWay ==
  ASSUME NEW s, NEW s2, NEW k \in Nat, \A j \in 2 .. k : s2[j].obj = s[j].obj
  PROVE  Way(s2, k) = Way(s, k)
BY DEF Way

LEMMA NestedGoesOn ==
  ASSUME NEW v, NEW s, Nested(s, v), s[Len(s)].todo # <<>>, NEW s2, GoesOn(s, s2)
  PROVE  /\ Nested(s2, v)
         /\ \A k \in 1 .. Len(s) : /\ s2[k].obj = s[k].obj /\ Elements(s2, k, v) = Elements(s, k, v)
                                   /\ Way(s2, k) = Way(s, k)
         /\ ToSet(s[Len(s)].todo) = {Head(s[Len(s)].todo)} \cup ToSet(s2[Len(s)].todo)
         /\ Head(s[Len(s)].todo) \in Object \cap Elements(s, Len(s), v)
<1> DEFINE n == Len(s)
<1>1. n \in Nat \ {0} /\ n \in 1 .. n /\ s[n].todo \in Seq(Object) /\ Len(s2) = n
  BY StackIs DEF GoesOn
<1>2. \A k \in 1 .. n : s2[k].obj = s[k].obj
  BY DEF GoesOn
<1>3. \A k \in 1 .. n : Elements(s2, k, v) = Elements(s, k, v)
  BY <1>2 DEF Elements
<1>4. ToSet(s[n].todo) = {Head(s[n].todo)} \cup ToSet(s2[n].todo)
  BY <1>1, ToSetTail DEF GoesOn
<1>5. ToSet(s[n].todo) \subseteq Elements(s, n, v)
  BY <1>1 DEF Nested
<1>6. \A k \in 1 .. n : ToSet(s2[k].todo) \subseteq Elements(s2, k, v)
  <2> SUFFICES ASSUME NEW k \in 1 .. n PROVE ToSet(s2[k].todo) \subseteq Elements(s2, k, v)
    OBVIOUS
  <2>1. CASE k = n
    BY <1>3, <1>4, <1>5, <2>1
  <2>2. CASE k # n
    BY <1>3, <2>2 DEF GoesOn, Nested
  <2> QED BY <2>1, <2>2
<1>7. \A k \in 2 .. n : k \in 1 .. n /\ k - 1 \in 1 .. n
  BY <1>1
<1>8. \A k \in 1 .. n : Way(s2, k) = Way(s, k)
  <2> SUFFICES ASSUME NEW k \in 1 .. n PROVE Way(s2, k) = Way(s, k)
    OBVIOUS
  <2>1. k \in Nat /\ \A j \in 2 .. k : j \in 1 .. n
    BY <1>1
  <2> QED BY <1>2, <2>1, SameWay
<1>9. Nested(s2, v)
  <2>1. s2 \in Seq(Frame) /\ Len(s2) = n
    BY DEF GoesOn
  <2>2. \A k \in 2 .. n : /\ s2[k].obj = s[k].obj /\ Elements(s2, k - 1, v) = Elements(s, k - 1, v)
                          /\ Way(s2, k - 1) = Way(s, k - 1)
    BY <1>2, <1>3, <1>7, <1>8
  <2> HIDE DEF n
  <2> QED BY <1>6, <2>1, <2>2 DEF Nested, n
<1>10. Head(s[n].todo) \in Object
  BY <1>1
<1> QED BY <1>2, <1>3, <1>4, <1>5, <1>9, <1>10, <1>8

LEMMA LeftGoesOn ==
  ASSUME NEW v, NEW s, Nested(s, v), s[Len(s)].todo # <<>>, NEW s2, GoesOn(s, s2), NEW x, Left(s, x)
  PROVE  \E x2 \in Seq(Object) :
           Left(s2, x2) /\ x = AtomsOf[Level(Len(s))][Head(s[Len(s)].todo)] \o x2
<1> DEFINE n == Len(s)
           todo == s[n].todo
           e == AtomsOf[Level(n)][Head(todo)]
<1>1. PICK t \in [0 .. n -> Seq(Object)] : LeftBy(t, s) /\ t[n] = x
  BY DEF Left
<1>2. /\ n \in Nat \ {0} /\ n \in 1 .. n /\ n \in 1 .. MaxStack /\ todo \in Seq(Object)
      /\ \A k \in 1 .. n : k - 1 \in 0 .. n /\ k \in 0 .. n
      /\ n - 1 \in 0 .. n /\ n - 1 # n /\ 0 \in 0 .. n /\ n # 0
  BY StackIs
<1>3. Level(n) \in 0 .. MaxStack
  BY <1>2, LevelIs
<1> DEFINE y == AtomsIn(Level(n), Tail(todo)) \o t[n - 1]
           u == [k \in 0 .. n |-> IF k = n THEN y ELSE t[k]]
<1>4. /\ AtomsIn(Level(n), Tail(todo)) \in Seq(Object) /\ t[n - 1] \in Seq(Object)
      /\ y \in Seq(Object) /\ e \in Seq(Object)
  <2>1. Tail(todo) \in Seq(Object) /\ Head(todo) \in Object
    BY <1>2
  <2>2. AtomsIn(Level(n), Tail(todo)) \in Seq(Object)
    BY <1>3, <2>1, AtomsInType
  <2>3. t[n - 1] \in Seq(Object)
    BY <1>2
  <2>4. e \in Seq(Object)
    BY <1>3, <2>1, AtomsOfIs
  <2> QED BY <2>2, <2>3, <2>4, ConcatProperties
<1>5. x = e \o y
  <2>1. x = AtomsIn(Level(n), todo) \o t[n - 1]
    BY <1>1, <1>2 DEF LeftBy
  <2>2. AtomsIn(Level(n), todo) = e \o AtomsIn(Level(n), Tail(todo))
    BY <1>2, <1>3, AtomsInCons
  <2>3. \A a, b, c \in Seq(Object) : (a \o b) \o c = a \o (b \o c)
    BY ConcatAssociative
  <2> HIDE DEF e, todo
  <2>4. (e \o AtomsIn(Level(n), Tail(todo))) \o t[n - 1] = e \o y
    BY <1>4, <2>3, Zenon
  <2> QED BY <2>1, <2>2, <2>4, Zenon
<1>6. u \in [0 .. n -> Seq(Object)] /\ u[n] = y /\ u[0] = t[0] /\ \A k \in 1 .. n : u[k - 1] = t[k - 1]
  <2> HIDE DEF y
  <2>1. \A k \in 1 .. n : k - 1 # n
    BY <1>2
  <2> QED BY <1>2, <1>4, <2>1
<1>7. \A k \in 1 .. n : k # n => u[k] = t[k]
  OBVIOUS
<1> HIDE DEF u
<1>8. \A k \in 1 .. n : u[k] = AtomsIn(Level(k), s2[k].todo) \o u[k - 1]
  <2> SUFFICES ASSUME NEW k \in 1 .. n PROVE u[k] = AtomsIn(Level(k), s2[k].todo) \o u[k - 1]
    OBVIOUS
  <2>1. CASE k = n
    <3>1. s2[n].todo = Tail(todo)
      BY DEF GoesOn
    <3> QED BY <1>2, <1>6, <2>1, <3>1
  <2>2. CASE k # n
    <3>1. s2[k] = s[k]
      BY <2>2 DEF GoesOn
    <3>2. t[k] = AtomsIn(Level(k), s[k].todo) \o t[k - 1]
      BY <1>1 DEF LeftBy
    <3> QED BY <1>6, <1>7, <2>2, <3>1, <3>2
  <2> QED BY <2>1, <2>2
<1>9. Len(s2) = n
  BY DEF GoesOn
<1>10. Left(s2, y)
  <2> HIDE DEF y, n
  <2>1. LeftBy(u, s2)
    BY <1>1, <1>6, <1>8, <1>9 DEF LeftBy
  <2> QED BY <1>6, <1>9, <2>1 DEF Left
<1> HIDE DEF y
<1> QED BY <1>4, <1>5, <1>10

(* An element without parts is printed.                                    *)
LEMMA PrintLeaf ==
  ASSUME NEW v, NEW s, Frames(s, v), s[Len(s)].todo # <<>>, NEW s2, GoesOn(s, s2),
         NEW x, Left(s, x), NEW o, o = Head(s[Len(s)].todo), o \notin DOMAIN Parts
  PROVE  /\ Frames(s2, v)
         /\ \E x2 \in Seq(Object) : Left(s2, x2) /\ x = Cons(o, x2)
<1> DEFINE n == Len(s)
<1>1. Nested(s, v)
  BY DEF Frames
<1>2. /\ Nested(s2, v) /\ Len(s2) = n /\ n \in Nat \ {0} /\ n \in 1 .. MaxStack
      /\ \A k \in 1 .. n : /\ s2[k].obj = s[k].obj /\ Elements(s2, k, v) = Elements(s, k, v)
                           /\ Way(s2, k) = Way(s, k)
      /\ ToSet(s[n].todo) = {o} \cup ToSet(s2[n].todo) /\ o \in Object
  <2>1. Nested(s2, v) /\ ToSet(s[n].todo) = {Head(s[n].todo)} \cup ToSet(s2[n].todo)
    BY <1>1, NestedGoesOn
  <2>2. \A k \in 1 .. n : /\ s2[k].obj = s[k].obj /\ Elements(s2, k, v) = Elements(s, k, v)
                         /\ Way(s2, k) = Way(s, k)
    BY <1>1, NestedGoesOn
  <2>3. Len(s2) = n /\ n \in Nat \ {0} /\ n \in 1 .. MaxStack
    BY <1>1, StackIs DEF GoesOn
  <2>4. o \in Object
    BY <1>1, NestedGoesOn
  <2> QED BY <2>1, <2>2, <2>3, <2>4
<1>3. o \in PrintableIn(Way(s, n))
  <2>1. Way(s, n) \in SUBSET Addresses
    BY <1>1, <1>2, WayIs
  <2>2. ~TooLong(o) /\ Inner(o) = {} /\ Fresh(o, Way(s, n))
    BY <1>2, ObjectsAre, ConstantsAssumption DEF TooLong, Fresh
  <2> QED BY <1>2, <2>1, <2>2, PrintableIf
<1>4. ASSUME NEW k \in 1 .. n
      PROVE  Done(s2, v, k, IF k = n THEN {} ELSE {s2[k + 1].obj})
  <2>1. Done(s, v, k, IF k = n THEN {} ELSE {s[k + 1].obj})
    BY DEF Frames
  <2>2. CASE k = n
    BY <1>2, <1>3, <2>1, <2>2 DEF Done
  <2>3. CASE k # n
    <3>1. k + 1 \in 1 .. n /\ s2[k].todo = s[k].todo
      BY <1>2, <2>3 DEF GoesOn
    <3> QED BY <1>2, <2>1, <2>3, <3>1 DEF Done
  <2> QED BY <2>2, <2>3
<1>5. Frames(s2, v)
  BY <1>2, <1>4 DEF Frames
<1>6. AtomsOf[Level(n)][o] = <<o>>
  BY <1>2, LevelIs, AtomsOfLeaf
<1>7. \E x2 \in Seq(Object) : Left(s2, x2) /\ x = AtomsOf[Level(n)][o] \o x2
  BY <1>1, LeftGoesOn
<1>8. \E x2 \in Seq(Object) : Left(s2, x2) /\ x = Cons(o, x2)
  BY <1>6, <1>7, Zenon DEF Cons
<1> QED BY <1>5, <1>8, Zenon

(* An object with parts is printed part by part.                           *)
LEMMA PrintParts ==
  ASSUME NEW v \in Object, NEW s, Frames(s, v), s[Len(s)].todo # <<>>, NEW s2, GoesOn(s, s2),
         NEW x, Left(s, x), NEW o, o = Head(s[Len(s)].todo), o \in DOMAIN Parts, ~TooLong(o),
         Fresh(o, Way(s, Len(s))), Len(s) # MaxStack
  PROVE  /\ Frames(Append(s2, [obj |-> o, todo |-> Parts[o]]), v)
         /\ Left(Append(s2, [obj |-> o, todo |-> Parts[o]]), x)
<1> DEFINE n  == Len(s)
           f  == [obj |-> o, todo |-> Parts[o]]
           s3 == Append(s2, f)
<1>1. Nested(s, v)
  BY DEF Frames
<1>2. /\ Nested(s2, v) /\ Len(s2) = n /\ n \in Nat \ {0} /\ n \in 1 .. MaxStack
      /\ \A k \in 1 .. n : /\ s2[k].obj = s[k].obj /\ Elements(s2, k, v) = Elements(s, k, v)
                           /\ Way(s2, k) = Way(s, k)
      /\ ToSet(s[n].todo) = {o} \cup ToSet(s2[n].todo) /\ o \in Object
      /\ o \in Elements(s, n, v)
  <2>1. n \in Nat \ {0} /\ n \in 1 .. MaxStack /\ Len(s2) = n
    BY <1>1, StackIs DEF GoesOn
  <2>2. /\ Nested(s2, v)
        /\ ToSet(s[n].todo) = {o} \cup ToSet(s2[n].todo) /\ o \in Object \cap Elements(s, n, v)
    BY <1>1, NestedGoesOn
  <2>3. \A k \in 1 .. n : /\ s2[k].obj = s[k].obj /\ Elements(s2, k, v) = Elements(s, k, v)
                           /\ Way(s2, k) = Way(s, k)
    BY <1>1, NestedGoesOn
  <2> QED BY <2>1, <2>2, <2>3
<1>3. MaxStack \in Nat /\ n + 1 \in 1 .. MaxStack /\ n + 1 \in Nat
  BY <1>2, ConstantsAssumption
<1>4. Parts[o] \in Seq(Object) /\ Inner(o) = ToSet(Parts[o])
  BY <1>2, ObjectsAre
<1>5. f \in Frame /\ f.obj = o /\ f.todo = Parts[o]
  BY <1>2, <1>4 DEF Frame
<1>6. s2 \in Seq(Frame)
  BY <1>2 DEF Nested
<1> HIDE DEF f
<1>7. /\ s3 \in Seq(Frame) /\ Len(s3) = n + 1 /\ s3[n + 1] = f
      /\ \A k \in 1 .. n : s3[k] = s2[k]
  BY <1>2, <1>5, <1>6, AppendProperties
<1> HIDE DEF s3, n
<1>8. \A k \in 1 .. n + 1 : k \in 1 .. n \/ k = n + 1
  BY <1>2
<1>9. /\ \A k \in 1 .. n : Elements(s3, k, v) = Elements(s, k, v)
      /\ Elements(s3, n + 1, v) = ToSet(Parts[o])
  <2>1. n + 1 # 1
    BY <1>2
  <2> QED BY <1>2, <1>4, <1>5, <1>7, <2>1 DEF Elements
<1>10. \A k \in 1 .. n : Way(s3, k) = Way(s, k)
  <2> SUFFICES ASSUME NEW k \in 1 .. n PROVE Way(s3, k) = Way(s, k)
    OBVIOUS
  <2>1. k \in Nat /\ \A j \in 2 .. k : j \in 1 .. n
    BY <1>2
  <2>2. \A j \in 2 .. k : s3[j].obj = s2[j].obj
    BY <1>7, <2>1
  <2> QED BY <1>2, <2>1, <2>2, SameWay
<1>11. o \in Reached[v]
  <2>1. CASE n = 1
    <3>1. o = v
      BY <1>2, <2>1 DEF Elements
    <3> QED BY <3>1, ReachedIs
  <2>2. CASE n # 1
    <3>1. n \in 2 .. n
      BY <1>2, <2>2
    <3>2. s[n].obj \in Reached[v] /\ o \in Inner(s[n].obj)
      BY <1>1, <1>2, <2>2, <3>1 DEF Nested, Elements, n
    <3> QED BY <3>2, ReachedIs
  <2> QED BY <2>1, <2>2
<1>12. \A j \in 2 .. n : \E p \in Inner(s[j].obj) : o \in Reached[p]
  <2> SUFFICES ASSUME NEW j \in 2 .. n PROVE \E p \in Inner(s[j].obj) : o \in Reached[p]
    OBVIOUS
  <2>1. n \in 2 .. n /\ n # 1
    BY <1>2
  <2>2. s[n].obj \in Object /\ s[j].obj \in Object /\ o \in Inner(s[n].obj)
    BY <1>1, <1>2, <2>1, StackIs DEF Elements, n
  <2>3. CASE j = n
    BY <1>2, <2>2, <2>3, ReachedIs
  <2>4. CASE j # n
    <3>1. j < n
      BY <1>2, <2>4
    <3>2. PICK p \in Inner(s[j].obj) : s[n].obj \in Reached[p]
      BY <1>1, <2>1, <3>1 DEF Nested, n
    <3>3. p \in Object
      BY <2>2, ObjectsAre
    <3> QED BY <2>2, <3>2, <3>3, ReachedIs
  <2> QED BY <2>3, <2>4
<1>13. Nested(s3, v)
  <2>1. \A k \in 1 .. n + 1 : ToSet(s3[k].todo) \subseteq Elements(s3, k, v)
    <3> SUFFICES ASSUME NEW k \in 1 .. n + 1 PROVE ToSet(s3[k].todo) \subseteq Elements(s3, k, v)
      OBVIOUS
    <3>1. CASE k \in 1 .. n
      BY <1>2, <1>7, <1>9, <3>1 DEF Nested
    <3>2. CASE k = n + 1
      BY <1>5, <1>7, <1>9, <3>2
    <3> QED BY <1>8, <3>1, <3>2
  <2>2. ASSUME NEW k \in 2 .. n + 1
        PROVE  /\ s3[k].obj \in Elements(s3, k - 1, v) /\ s3[k].obj \in DOMAIN Parts
               /\ ~TooLong(s3[k].obj) /\ s3[k].obj \in Reached[v]
               /\ Fresh(s3[k].obj, Way(s3, k - 1))
    <3>1. CASE k \in 1 .. n
      <4>1. k \in 2 .. n /\ k - 1 \in 1 .. n
        BY <1>2, <3>1
      <4>2. /\ s2[k].obj \in Elements(s2, k - 1, v) /\ s2[k].obj \in DOMAIN Parts
            /\ ~TooLong(s2[k].obj) /\ s2[k].obj \in Reached[v] /\ Fresh(s2[k].obj, Way(s2, k - 1))
        BY <1>2, <4>1 DEF Nested
      <4> QED BY <1>2, <1>7, <1>9, <1>10, <3>1, <4>1, <4>2
    <3>2. CASE k = n + 1
      <4>1. k - 1 = n /\ n \in 1 .. n
        BY <1>2, <3>2
      <4> QED BY <1>2, <1>5, <1>7, <1>9, <1>11, <1>10, <3>2, <4>1 DEF n
    <3>3. k \in 1 .. n + 1
      BY <1>2
    <3> QED BY <1>8, <3>1, <3>2, <3>3
  <2>3. ASSUME NEW k \in 2 .. n + 1, NEW j \in 2 .. n + 1, j < k
        PROVE  \E p \in Inner(s3[j].obj) : s3[k].obj \in Reached[p]
    <3>1. j \in 2 .. n /\ j \in 1 .. n
      BY <1>2, <2>3
    <3>2. s3[j].obj = s[j].obj
      BY <1>2, <1>7, <3>1
    <3>3. CASE k \in 1 .. n
      <4>1. k \in 2 .. n /\ s3[k].obj = s[k].obj
        BY <1>2, <1>7, <3>3
      <4>2. \E p \in Inner(s[j].obj) : s[k].obj \in Reached[p]
        BY <1>1, <2>3, <3>1, <4>1 DEF Nested, n
      <4> QED BY <3>2, <4>1, <4>2
    <3>4. CASE k = n + 1
      BY <1>5, <1>7, <1>12, <3>1, <3>2, <3>4
    <3>5. k \in 1 .. n + 1
      BY <1>2
    <3> QED BY <1>8, <3>3, <3>4, <3>5
  <2> QED BY <1>3, <1>7, <2>1, <2>2, <2>3 DEF Nested
<1>14. ASSUME NEW k \in 1 .. n + 1
       PROVE  Done(s3, v, k, IF k = n + 1 THEN {} ELSE {s3[k + 1].obj})
  <2>1. CASE k = n + 1
    BY <1>5, <1>7, <1>9, <2>1 DEF Done
  <2>2. CASE k \in 1 .. n
    <3>1. k # n + 1
      BY <1>2, <2>2
    <3>2. Done(s, v, k, IF k = n THEN {} ELSE {s[k + 1].obj})
      BY <2>2 DEF Frames, n
    <3>3. CASE k = n
      <4>1. Elements(s, n, v) \subseteq PrintableIn(Way(s, n)) \cup ToSet(s[n].todo)
        BY <3>2, <3>3 DEF Done
      <4>2. /\ s3[k + 1].obj = o /\ s3[k].todo = s2[n].todo /\ Elements(s3, k, v) = Elements(s, n, v)
            /\ Way(s3, k) = Way(s, n)
        BY <1>5, <1>7, <1>9, <1>10, <2>2, <3>3
      <4> QED BY <1>2, <3>1, <4>1, <4>2 DEF Done
    <3>4. CASE k # n
      <4>1. k + 1 \in 1 .. n
        BY <1>2, <2>2, <3>4
      <4>2. s2[k] = s[k]
        BY <2>2, <3>4 DEF GoesOn, n
      <4>3. /\ s3[k].todo = s[k].todo /\ s3[k + 1].obj = s[k + 1].obj
            /\ Elements(s3, k, v) = Elements(s, k, v) /\ Way(s3, k) = Way(s, k)
        BY <1>2, <1>7, <1>9, <1>10, <2>2, <4>1, <4>2
      <4> QED BY <3>1, <3>2, <3>4, <4>3 DEF Done
    <3> QED BY <3>3, <3>4
  <2> QED BY <1>8, <2>1, <2>2
<1>15. Frames(s3, v)
  BY <1>7, <1>13, <1>14 DEF Frames
<1>16. Left(s3, x)
  <2>1. PICK y \in Seq(Object) : Left(s2, y) /\ x = AtomsOf[Level(n)][o] \o y
    BY <1>1, LeftGoesOn DEF n
  <2>2. PICK t \in [0 .. n -> Seq(Object)] : LeftBy(t, s2) /\ t[n] = y
    BY <1>2, <2>1 DEF Left
  <2>3. Level(n) \in 1 .. MaxStack /\ Level(n) \in 0 .. MaxStack /\ Level(n + 1) = Level(n) - 1
    BY <1>2, LevelIs
  <2>4. AtomsOf[Level(n)][o] = AtomsIn(Level(n + 1), Parts[o]) /\ AtomsOf[Level(n)][o] \in Seq(Object)
    BY <1>2, <2>3, AtomsOfParts, AtomsOfIs
  <2>5. x \in Seq(Object)
    <3> DEFINE e == AtomsOf[Level(n)][o]
    <3>1. e \in Seq(Object) /\ x = e \o y
      BY <2>1, <2>4
    <3> HIDE DEF e
    <3> QED BY <3>1, ConcatProperties
  <2> DEFINE u == [k \in 0 .. n + 1 |-> IF k = n + 1 THEN x ELSE t[k]]
  <2>6. /\ u \in [0 .. n + 1 -> Seq(Object)] /\ u[n + 1] = x /\ u[0] = <<>>
        /\ \A k \in 0 .. n : u[k] = t[k]
    <3>1. \A k \in 0 .. n + 1 : k \in 0 .. n \/ k = n + 1
      BY <1>2
    <3>2. \A k \in 0 .. n : k \in 0 .. n + 1 /\ k # n + 1
      BY <1>2
    <3>3. 0 \in 0 .. n /\ n + 1 \in 0 .. n + 1
      BY <1>2
    <3> QED BY <2>2, <2>5, <3>1, <3>2, <3>3 DEF LeftBy
  <2> HIDE DEF u
  <2>7. ASSUME NEW k \in 1 .. n + 1
        PROVE  u[k] = AtomsIn(Level(k), s3[k].todo) \o u[k - 1]
    <3>1. CASE k \in 1 .. n
      <4>1. k \in 0 .. n /\ k - 1 \in 0 .. n
        BY <1>2, <3>1
      <4> QED BY <1>2, <1>7, <2>2, <2>6, <3>1, <4>1 DEF LeftBy
    <3>2. CASE k = n + 1
      <4>1. u[k - 1] = y
        <5>1. k - 1 = n /\ n \in 0 .. n
          BY <1>2, <3>2
        <5> QED BY <2>2, <2>6, <5>1
      <4>2. s3[k].todo = Parts[o] /\ u[k] = x
        BY <1>5, <1>7, <2>6, <3>2
      <4> QED BY <2>1, <2>4, <3>2, <4>1, <4>2
    <3> QED BY <1>8, <3>1, <3>2
  <2>8. LeftBy(u, s3)
    BY <1>7, <2>6, <2>7 DEF LeftBy
  <2> QED BY <1>7, <2>6, <2>8 DEF Left
<1> QED BY <1>15, <1>16 DEF s3, f

(* A frame with nothing left to do is taken off.                           *)
LEMMA PopFrame ==
  ASSUME NEW v, NEW s, Frames(s, v), s[Len(s)].todo = <<>>, NEW x, Left(s, x)
  PROVE  /\ Len(s) = 1 => x = <<>> /\ v \in Printable
         /\ Len(s) # 1 => Frames(Front(s), v) /\ Left(Front(s), x)
<1> DEFINE n  == Len(s)
           s2 == Front(s)
<1>1. Nested(s, v)
  BY DEF Frames
<1>2. /\ s \in Seq(Frame) /\ s # <<>> /\ n \in Nat \ {0} /\ n \in 1 .. MaxStack /\ MaxStack \in Nat
      /\ \A k \in 2 .. n : s[k].obj \in Object
  BY <1>1, StackIs, ConstantsAssumption
<1>3. s2 \in Seq(Frame) /\ Len(s2) = n - 1 /\ \A k \in 1 .. n - 1 : s2[k] = s[k]
  BY <1>2, FrontIs
<1>4. \A k \in 1 .. n - 1 : k \in 1 .. n /\ k # n /\ k + 1 \in 1 .. n /\ k + 1 \in 2 .. n
  BY <1>2
<1> HIDE DEF s2, n
<1>5. Elements(s, n, v) \subseteq PrintableIn(Way(s, n))
  <2>1. Done(s, v, n, {})
    <3>1. n \in 1 .. n
      BY <1>2
    <3> QED BY <3>1 DEF Frames, n
  <2>2. ToSet(<<>>) = {}
    BY DEF ToSet
  <2> QED BY <2>1, <2>2 DEF Done, n
<1>6. PICK t \in [0 .. n -> Seq(Object)] : LeftBy(t, s) /\ t[n] = x
  BY DEF Left, n
<1>7. t[n - 1] = x
  <2>1. n \in 1 .. n /\ n - 1 \in 0 .. n
    BY <1>2
  <2>2. t[n] = AtomsIn(Level(n), <<>>) \o t[n - 1]
    BY <1>6, <2>1 DEF LeftBy, n
  <2>3. t[n - 1] \in Seq(Object)
    BY <2>1
  <2> QED BY <1>6, <2>2, <2>3, AtomsInNone, ConcatEmptySeq
<1>8. CASE n = 1
  <2>1. x = <<>>
    BY <1>6, <1>7, <1>8 DEF LeftBy
  <2>2. v \in Printable
    <3>1. Way(s, n) = {}
      BY <1>1, <1>8, WayIs
    <3> QED BY <1>5, <1>8, <3>1 DEF Elements, Printable
  <2> QED BY <1>8, <2>1, <2>2 DEF n
<1>9. CASE n # 1
  <2>1. n - 1 \in 1 .. n - 1 /\ n - 1 \in 1 .. MaxStack /\ n \in 2 .. n
    BY <1>2, <1>9
  <2>2. \A k \in 1 .. n - 1 : Elements(s2, k, v) = Elements(s, k, v)
    BY <1>3 DEF Elements
  <2>3. \A k \in 2 .. n - 1 : k \in 2 .. n /\ k \in 1 .. n - 1 /\ k - 1 \in 1 .. n - 1 /\ s2[k] = s[k]
    BY <1>2, <1>3
  <2>4. \A k \in 1 .. n - 1 : Way(s2, k) = Way(s, k)
    <3> SUFFICES ASSUME NEW k \in 1 .. n - 1 PROVE Way(s2, k) = Way(s, k)
      OBVIOUS
    <3>1. k \in Nat /\ \A j \in 2 .. k : j \in 1 .. n - 1
      BY <1>2
    <3> QED BY <1>3, <3>1, SameWay
  <2>5. Nested(s2, v)
    <3>1. \A k \in 1 .. n - 1 : ToSet(s2[k].todo) \subseteq Elements(s2, k, v)
      BY <1>1, <1>3, <1>4, <2>2 DEF Nested, n
    <3>2. \A k \in 2 .. n - 1 :
            /\ s2[k].obj \in Elements(s2, k - 1, v) /\ s2[k].obj \in DOMAIN Parts /\ ~TooLong(s2[k].obj)
            /\ s2[k].obj \in Reached[v] /\ Fresh(s2[k].obj, Way(s2, k - 1))
      <4> SUFFICES ASSUME NEW k \in 2 .. n - 1
                   PROVE  /\ s2[k].obj \in Elements(s2, k - 1, v) /\ s2[k].obj \in DOMAIN Parts
                          /\ ~TooLong(s2[k].obj) /\ s2[k].obj \in Reached[v]
                          /\ Fresh(s2[k].obj, Way(s2, k - 1))
        OBVIOUS
      <4>1. /\ s[k].obj \in Elements(s, k - 1, v) /\ s[k].obj \in DOMAIN Parts /\ ~TooLong(s[k].obj)
            /\ s[k].obj \in Reached[v] /\ Fresh(s[k].obj, Way(s, k - 1))
        BY <1>1, <2>3 DEF Nested, n
      <4> QED BY <2>2, <2>3, <2>4, <4>1
    <3>3. \A k \in 2 .. n - 1, j \in 2 .. n - 1 :
            j < k => \E p \in Inner(s2[j].obj) : s2[k].obj \in Reached[p]
      BY <1>1, <2>3 DEF Nested, n
    <3> QED BY <1>3, <2>1, <3>1, <3>2, <3>3 DEF Nested
  <2>6. s[n].obj \in PrintableIn(Way(s, n - 1))
    <3>1. s[n].obj \in Object /\ ~TooLong(s[n].obj) /\ Fresh(s[n].obj, Way(s, n - 1))
      BY <1>1, <1>2, <2>1 DEF Nested, n
    <3>2. Inner(s[n].obj) \subseteq PrintableIn(Way(s, n))
      BY <1>5, <1>9 DEF Elements
    <3>3. Way(s, n - 1) \in SUBSET Addresses /\ Way(s, n) = Around(s[n].obj, Way(s, n - 1))
      BY <1>1, <1>4, <2>1, WayIs DEF n
    <3> QED BY <3>1, <3>2, <3>3, PrintableIf
  <2>7. ASSUME NEW k \in 1 .. n - 1
        PROVE  Done(s2, v, k, IF k = n - 1 THEN {} ELSE {s2[k + 1].obj})
    <3>1. Done(s, v, k, {s[k + 1].obj})
      BY <1>4 DEF Frames, n
    <3>2. k = n - 1 => k + 1 = n
      BY <1>2
    <3>3. k # n - 1 => s2[k + 1] = s[k + 1]
      <4>1. k # n - 1 => k + 1 \in 1 .. n - 1
        BY <1>2
      <4> QED BY <1>3, <4>1
    <3>4. s2[k] = s[k]
      BY <1>3
    <3> QED BY <2>2, <2>6, <2>4, <3>1, <3>2, <3>3, <3>4 DEF Done
  <2>8. Frames(s2, v)
    BY <1>3, <2>5, <2>7 DEF Frames
  <2>9. Left(s2, x)
    <3> DEFINE u == [k \in 0 .. n - 1 |-> t[k]]
    <3>1. /\ u \in [0 .. n - 1 -> Seq(Object)] /\ u[0] = <<>> /\ u[n - 1] = x
          /\ \A k \in 0 .. n - 1 : u[k] = t[k]
      <4>1. \A k \in 0 .. n - 1 : k \in 0 .. n
        BY <1>2
      <4>2. 0 \in 0 .. n - 1 /\ n - 1 \in 0 .. n - 1
        BY <1>2
      <4> QED BY <1>6, <1>7, <4>1, <4>2 DEF LeftBy
    <3> HIDE DEF u
    <3>2. \A k \in 1 .. n - 1 : u[k] = AtomsIn(Level(k), s2[k].todo) \o u[k - 1]
      <4>1. \A k \in 1 .. n - 1 : k \in 0 .. n - 1 /\ k - 1 \in 0 .. n - 1
        BY <1>2
      <4>2. \A k \in 1 .. n - 1 : t[k] = AtomsIn(Level(k), s[k].todo) \o t[k - 1]
        BY <1>4, <1>6 DEF LeftBy, n
      <4> QED BY <1>3, <3>1, <4>1, <4>2
    <3>3. LeftBy(u, s2)
      BY <1>3, <3>1, <3>2 DEF LeftBy
    <3> QED BY <1>3, <3>1, <3>3 DEF Left
  <2> QED BY <1>9, <2>8, <2>9 DEF n, s2
<1> QED BY <1>8, <1>9

(* An address met twice is one of a pointer within one, and what is too    *)
(* long is part of the value.                                              *)
LEMMA CycleIsFound ==
  ASSUME NEW v \in Object, NEW s, Frames(s, v), s[Len(s)].todo # <<>>,
         NEW o, o = Head(s[Len(s)].todo), o \in DOMAIN Parts
  PROVE  /\ o \in Reached[v]
         /\ TooLong(o) => Oversize(v)
         /\ Kind[o] = "pointer" =>
              \A k \in 2 .. Len(s) :
                Kind[s[k].obj] = "pointer" /\ Addr[s[k].obj] = Addr[o] => Found(v)
<1> DEFINE n == Len(s)
<1>1. Nested(s, v)
  BY DEF Frames
<1>2. /\ n \in Nat \ {0} /\ s[n].todo \in Seq(Object)
      /\ \A k \in 2 .. n : s[k].obj \in Object
  <2>1. n \in 1 .. n
    BY <1>1, StackIs
  <2> QED BY <1>1, <2>1, StackIs
<1>3. o \in Object /\ o \in Elements(s, n, v)
  <2>1. n \in 1 .. n /\ ToSet(s[n].todo) \subseteq Elements(s, n, v)
    BY <1>1, <1>2 DEF Nested
  <2> QED BY <1>2, <2>1, ToSetTail
<1> HIDE DEF n
<1>4. o \in Reached[v]
  <2>1. CASE n = 1
    <3>1. o = v
      BY <1>3, <2>1 DEF Elements
    <3> QED BY <3>1, ReachedIs
  <2>2. CASE n # 1
    <3>1. n \in 2 .. n
      BY <1>2, <2>2
    <3>2. s[n].obj \in Reached[v] /\ o \in Inner(s[n].obj)
      BY <1>1, <1>3, <2>2, <3>1 DEF Nested, Elements, n
    <3> QED BY <3>2, ReachedIs
  <2> QED BY <2>1, <2>2
<1>5. TooLong(o) => Oversize(v)
  BY <1>4 DEF Oversize
<1>6. ASSUME Kind[o] = "pointer",
             NEW k \in 2 .. n, Kind[s[k].obj] = "pointer", Addr[s[k].obj] = Addr[o]
      PROVE  Found(v)
  <2>1. n \in 2 .. n /\ n # 1
    BY <1>2
  <2>2. o \in Inner(s[n].obj)
    BY <1>3, <2>1 DEF Elements
  <2>3. \E q \in Inner(s[k].obj) : o \in Reached[q]
    <3>1. CASE k = n
      BY <1>3, <2>2, <3>1, ReachedIs
    <3>2. CASE k # n
      <4>1. k < n
        BY <1>2, <3>2
      <4>2. PICK q \in Inner(s[k].obj) : s[n].obj \in Reached[q]
        BY <1>1, <2>1, <4>1 DEF Nested, n
      <4>3. q \in Object
        BY <1>2, ObjectsAre
      <4> QED BY <2>2, <4>2, <4>3, ReachedIs
    <3> QED BY <3>1, <3>2
  <2>4. Meets(s[k].obj)
    BY <1>6, <2>3 DEF Meets
  <2>5. s[k].obj \in Reached[v]
    BY <1>1 DEF Nested, n
  <2> QED BY <1>6, <2>4, <2>5 DEF Found
<1> QED BY <1>4, <1>5, <1>6 DEF n
-----------------------------------------------------------------------------
(* The invariant of the output.                                            *)
Busy     == {"get", "lock", "look", "fill", "find", "quote", "print", "float", "copy", "write",
             "put", "unquote"}
Printing == {"print", "float", "copy"}

(* The first of two passes over a value that is quoted.                    *)
Quoting(r) == tree[at[r]] = "quote" /\ str[r] = None
Quotes(r)  == IF Quoting(r) THEN 1 ELSE 0

(* How many buffers a rendering has.                                       *)
Needs(r) ==
  IF pc[r] \in {"print", "float", "write", "put"} THEN Quotes(r) + 1
  ELSE IF pc[r] = "copy" THEN Quotes(r) + 2
  ELSE IF pc[r] = "get" THEN Quotes(r)
  ELSE IF pc[r] = "unquote" THEN 1 ELSE 0

Output == Seq(Rendering \X Object)

Types ==
  /\ val \in [Rendering -> Roots]
  /\ pool \in SUBSET Buffers /\ text \in [Buffers -> Output]
  /\ held \in [Rendering -> Seq(Buffers)]
  /\ stack \in [Rendering -> Seq(Frame)]
  /\ str \in [Rendering -> Output \cup {None}]
  /\ out \in [Rendering -> Output]

(* No buffer is held twice, or both held and in the pool.                  *)
Owned ==
  /\ \A r \in Rendering : Len(held[r]) = Needs(r)
  /\ \A r \in Rendering : \A i \in 1 .. Len(held[r]) : held[r][i] \notin pool
  /\ \A r, q \in Rendering : \A i \in 1 .. Len(held[r]), j \in 1 .. Len(held[q]) :
       held[r][i] = held[q][j] => r = q /\ i = j

AtNode(r) ==
  /\ pc[r] \in Busy => at[r] <= Len(tree) /\ tree[at[r]] \in {"show", "call", "quote", "use"}
  /\ pc[r] \in {"quote", "unquote"} => tree[at[r]] = "quote"
  /\ pc[r] \in {"lock", "look", "fill", "find"} => tree[at[r]] # "quote"
  /\ pc[r] \notin {"get", "print", "float", "copy", "write", "put", "ended"} => str[r] = None

(* What a buffer holds and what is left to print make up the value.        *)
Halfway(r) ==
  /\ Frames(stack[r], val[r]) /\ stack[r][1].obj = None
  /\ \E x \in Seq(Object) :
       Left(stack[r], x) /\ text[held[r][Quotes(r) + 1]] \o By(r, x) = InPrint(r)

Content(r) ==
  /\ pc[r] \in {"get", "print", "float", "copy", "write"} /\ Quoting(r) => text[held[r][1]] = <<>>
  /\ str[r] # None /\ pc[r] # "ended" => str[r] = InPrint(r) /\ val[r] \in Printable
  /\ pc[r] \in Printing => Halfway(r)
  /\ pc[r] \in {"float", "copy"} => Top(r).todo # <<>> /\ Kind[Head(Top(r).todo)] = "float"
  /\ pc[r] = "copy" => text[held[r][Quotes(r) + 2]] = Atom(r, Head(Top(r).todo))
  /\ pc[r] = "write" => text[held[r][Quotes(r) + 1]] = InPrint(r)
  /\ pc[r] \in {"write", "put", "unquote"} => val[r] \in Printable
  /\ pc[r] = "unquote" \/ (pc[r] = "put" /\ Quoting(r)) => text[held[r][1]] = InPrint(r)

Written(r) ==
  /\ out[r] = Copies(Shown(r), InPrint(r))
  /\ out[r] # <<>> => val[r] \in Printable
  /\ err[r] # None => /\ err[r].what = "cycle" => Found(val[r])
                      /\ err[r].what = "size" => Oversize(val[r])

Sound(r) == AtNode(r) /\ Content(r) /\ Written(r)

OutputInv == Types /\ Owned /\ \A r \in Rendering : Sound(r)
-----------------------------------------------------------------------------
(* Buffers                                                                 *)

LEMMA SomeLeft ==
  ASSUME Types, NEW r \in Rendering, Len(held[r]) < 3, \A q \in Rendering : Len(held[q]) <= 3
  PROVE  \E b \in Buffers : b \notin InUse
<1> SUFFICES ASSUME Buffers \subseteq InUse PROVE FALSE
  OBVIOUS
<1> DEFINE all == Rendering \X (1 .. 3)
           T == all \ {<<r, 3>>}
           f == [b \in Buffers |-> CHOOSE p \in T : held[p[1]][p[2]] = b]
<1>1. ASSUME NEW b \in Buffers
      PROVE  \E p \in T : held[p[1]][p[2]] = b
  <2>1. PICK q \in Rendering : b \in ToSet(held[q])
    BY DEF InUse
  <2>2. held[q] \in Seq(Buffers)
    BY DEF Types
  <2>3. PICK i \in 1 .. Len(held[q]) : held[q][i] = b
    BY <2>1, <2>2 DEF ToSet
  <2>4. i \in 1 .. 3 /\ ~(q = r /\ i = 3)
    BY <2>2, <2>3
  <2>5. <<q, i>> \in T /\ <<q, i>>[1] = q /\ <<q, i>>[2] = i
    BY <2>4
  <2> QED BY <2>3, <2>5
<1>2. f \in [Buffers -> T] /\ \A b \in Buffers : held[f[b][1]][f[b][2]] = b
  <2> HIDE DEF T
  <2> QED BY <1>1
<1>3. /\ IsFiniteSet(1 .. 3) /\ Cardinality(1 .. 3) = 3
      /\ IsFiniteSet(Rendering) /\ Cardinality(Rendering) \in Nat
      /\ IsFiniteSet(Buffers) /\ Cardinality(Buffers) \in Nat
      /\ Cardinality(Buffers) >= 3 * Cardinality(Rendering)
  <2>1. 1 \in Int /\ 3 \in Int /\ ~(1 > 3) /\ 3 - 1 + 1 = 3
    OBVIOUS
  <2>2. IsFiniteSet(1 .. 3) /\ Cardinality(1 .. 3) = 3
    BY <2>1, FS_Interval
  <2>3. /\ IsFiniteSet(Rendering) /\ IsFiniteSet(Buffers)
        /\ Cardinality(Buffers) >= 3 * Cardinality(Rendering)
    BY ConstantsAssumption
  <2>4. Cardinality(Rendering) \in Nat /\ Cardinality(Buffers) \in Nat
    BY <2>3, FS_CardinalityType
  <2> QED BY <2>2, <2>3, <2>4
<1>4. IsFiniteSet(all) /\ Cardinality(all) = 3 * Cardinality(Rendering)
  <2>1. IsFiniteSet(all) /\ Cardinality(all) = Cardinality(Rendering) * Cardinality(1 .. 3)
    BY <1>3, FS_Product
  <2> QED BY <1>3, <2>1
<1>5. IsFiniteSet(T) /\ Cardinality(T) = Cardinality(all) - 1
  <2>1. <<r, 3>> \in all
    OBVIOUS
  <2> HIDE DEF all
  <2> QED BY <1>4, <2>1, FS_RemoveElement
<1>6. Cardinality(T) < Cardinality(Buffers)
  <2> HIDE DEF T, all
  <2> QED BY <1>3, <1>4, <1>5
<1>7. \E x, y \in Buffers : x # y /\ f[x] = f[y]
  <2> HIDE DEF T, f
  <2> QED BY <1>2, <1>3, <1>5, <1>6, FS_PigeonHole
<1> HIDE DEF f, T
<1> QED BY <1>2, <1>7

LEMMA NeedsIs ==
  ASSUME NEW r \in Rendering
  PROVE  /\ Quotes(r) \in {0, 1} /\ (Quotes(r) = 1 <=> Quoting(r))
         /\ pc[r] \in {"print", "float", "write", "put"} => Needs(r) = Quotes(r) + 1
         /\ pc[r] = "copy" => Needs(r) = Quotes(r) + 2
         /\ pc[r] = "get" => Needs(r) = Quotes(r)
         /\ pc[r] = "unquote" => Needs(r) = 1
         /\ pc[r] \notin Printing \cup {"write", "put", "get", "unquote"} => Needs(r) = 0
         /\ Needs(r) \in 0 .. 3
<1>1. Quotes(r) \in {0, 1} /\ (Quotes(r) = 1 <=> Quoting(r))
  BY DEF Quotes
<1> QED BY <1>1 DEF Needs, Printing

(* A buffer that was got from the pool, or is new.                         *)
LEMMA FreeIs ==
  ASSUME Types, Owned, NEW r \in Rendering, Len(held[r]) < 3, NEW b \in Free
  PROVE  /\ b \in Buffers
         /\ \A q \in Rendering : \A i \in 1 .. Len(held[q]) : held[q][i] # b
<1>1. CASE pool # {}
  <2>1. b \in pool
    BY <1>1 DEF Free
  <2> QED BY <2>1 DEF Types, Owned
<1>2. CASE pool = {}
  <2>1. \A q \in Rendering : Len(held[q]) <= 3
    BY NeedsIs DEF Owned
  <2>2. \E x \in Buffers : x \notin InUse
    BY <2>1, SomeLeft
  <2>3. b = CHOOSE x \in Buffers : x \notin InUse
    BY <1>2 DEF Free
  <2>4. b \in Buffers /\ b \notin InUse
    BY <2>2, <2>3
  <2>5. ASSUME NEW q \in Rendering, NEW i \in 1 .. Len(held[q])
        PROVE  held[q][i] \in InUse
    <3>1. i \in DOMAIN held[q]
      BY DEF Types
    <3>2. held[q][i] \in ToSet(held[q])
      BY <3>1 DEF ToSet
    <3> QED BY <3>2 DEF InUse
  <2> QED BY <2>4, <2>5
<1> QED BY <1>1, <1>2

(* A step of r: what it leaves as it was.                                  *)
Elsewhere(r) ==
  /\ UNCHANGED <<tree, val>>
  /\ \A q \in Rendering \ {r} :
       /\ pc'[q] = pc[q] /\ at'[q] = at[q] /\ stack'[q] = stack[q] /\ held'[q] = held[q]
       /\ str'[q] = str[q] /\ out'[q] = out[q] /\ err'[q] = err[q]

LEMMA NeedsElsewhere ==
  ASSUME NEW r \in Rendering, Elsewhere(r), NEW q \in Rendering \ {r}
  PROVE  Quotes(q)' = Quotes(q) /\ Needs(q)' = Needs(q)
<1>1. Quotes(q)' = Quotes(q)
  BY DEF Elsewhere, Quotes, Quoting
<1> QED BY <1>1 DEF Elsewhere, Needs

(* r gets a buffer.                                                        *)
LEMMA HoldKeeps ==
  ASSUME Types, Owned, NEW r \in Rendering, Elsewhere(r), Len(held[r]) < 3, NEW b \in Free,
         Hold(r, b), Needs(r)' = Needs(r) + 1
  PROVE  /\ Owned' /\ held' \in [Rendering -> Seq(Buffers)] /\ pool' \in SUBSET Buffers
         /\ b \in Buffers /\ held'[r][Needs(r) + 1] = b
         /\ \A i \in 1 .. Needs(r) : held'[r][i] = held[r][i]
         /\ \A q \in Rendering : \A i \in 1 .. Len(held[q]) : held[q][i] # b
<1> DEFINE h == Append(held[r], b)
           n == Needs(r)
<1>1. b \in Buffers /\ \A q \in Rendering : \A i \in 1 .. Len(held[q]) : held[q][i] # b
  BY FreeIs
<1>2. held \in [Rendering -> Seq(Buffers)] /\ pool \in SUBSET Buffers
  BY DEF Types
<1>3. n \in Nat /\ n = Len(held[r]) /\ n + 1 \in 1 .. n + 1
  BY NeedsIs DEF Owned
<1>4. /\ h \in Seq(Buffers) /\ Len(h) = n + 1 /\ h[n + 1] = b
      /\ \A i \in 1 .. n : h[i] = held[r][i]
  <2> HIDE DEF n
  <2> QED BY <1>1, <1>2, <1>3
<1>5. held' = [held EXCEPT ![r] = h] /\ pool' = pool \ {b}
  BY DEF Hold, Set
<1> HIDE DEF h
<1>6. held' \in [Rendering -> Seq(Buffers)] /\ held'[r] = h /\ pool' \in SUBSET Buffers
  BY <1>2, <1>4, <1>5
<1>7. \A q \in Rendering \ {r} : held'[q] = held[q]
  BY DEF Elsewhere
<1>8. \A q \in Rendering : Len(held'[q]) = Needs(q)'
  <2>1. Len(held'[r]) = Needs(r)'
    BY <1>4, <1>6
  <2>2. \A q \in Rendering \ {r} : Len(held'[q]) = Needs(q)'
    BY <1>7, NeedsElsewhere DEF Owned
  <2> QED BY <2>1, <2>2
<1>9. \A i \in 1 .. n + 1 : i \in 1 .. n \/ i = n + 1
  BY <1>3
<1> HIDE DEF n
<1>10. \A q \in Rendering : \A i \in 1 .. Len(held'[q]) : held'[q][i] \notin pool'
  <2> SUFFICES ASSUME NEW q \in Rendering, NEW i \in 1 .. Len(held'[q])
               PROVE  held'[q][i] \notin pool \ {b}
    BY <1>5
  <2>1. CASE q # r
    BY <1>7, <2>1 DEF Owned
  <2>2. CASE q = r
    <3>1. i \in 1 .. n + 1 /\ held'[q][i] = h[i]
      BY <1>4, <1>6, <2>2
    <3>2. CASE i \in 1 .. n
      BY <1>3, <1>4, <2>2, <3>1, <3>2 DEF Owned
    <3>3. CASE i = n + 1
      BY <1>4, <3>1, <3>3
    <3> QED BY <1>9, <3>1, <3>2, <3>3
  <2> QED BY <2>1, <2>2
<1>11. \A p, q \in Rendering : \A i \in 1 .. Len(held'[p]), j \in 1 .. Len(held'[q]) :
         held'[p][i] = held'[q][j] => p = q /\ i = j
  <2> SUFFICES ASSUME NEW p \in Rendering, NEW q \in Rendering,
                      NEW i \in 1 .. Len(held'[p]), NEW j \in 1 .. Len(held'[q]),
                      held'[p][i] = held'[q][j]
               PROVE  p = q /\ i = j
    OBVIOUS
  <2>1. ASSUME NEW u \in Rendering, NEW k \in 1 .. Len(held'[u])
        PROVE  \/ u = r /\ k = n + 1 /\ held'[u][k] = b
               \/ k \in 1 .. Len(held[u]) /\ held'[u][k] = held[u][k]
    <3>1. CASE u # r
      BY <1>7, <2>1, <3>1
    <3>2. CASE u = r
      BY <1>3, <1>4, <1>6, <1>9, <2>1, <3>2
    <3> QED BY <3>1, <3>2
  <2>2. CASE i \in 1 .. Len(held[p]) /\ held'[p][i] = held[p][i]
    <3>1. j \in 1 .. Len(held[q]) /\ held'[q][j] = held[q][j]
      BY <1>1, <2>1, <2>2
    <3>2. held[p][i] = held[q][j]
      BY <2>2, <3>1
    <3>3. /\ p \in Rendering /\ q \in Rendering /\ i \in 1 .. Len(held[p]) /\ j \in 1 .. Len(held[q])
          /\ \A u, w \in Rendering : \A k \in 1 .. Len(held[u]), l \in 1 .. Len(held[w]) :
               held[u][k] = held[w][l] => u = w /\ k = l
      BY <2>2, <3>1 DEF Owned
    <3> QED BY <3>2, <3>3
  <2>3. CASE p = r /\ i = n + 1 /\ held'[p][i] = b
    <3>1. q = r /\ j = n + 1
      BY <1>1, <2>1, <2>3
    <3> QED BY <2>3, <3>1
  <2> QED BY <2>1, <2>2, <2>3
<1>12. Owned'
  BY <1>8, <1>10, <1>11 DEF Owned
<1> QED BY <1>1, <1>4, <1>6, <1>12 DEF n

(* r keeps its first buffers, and the pool may get the others.             *)
LEMMA DropKeeps ==
  ASSUME Types, Owned, NEW r \in Rendering, Elsewhere(r), NEW h \in Seq(Buffers),
         held' = [held EXCEPT ![r] = h], Len(h) = Needs(r)', Len(h) <= Len(held[r]),
         \A i \in 1 .. Len(h) : h[i] = held[r][i],
         \A b \in pool' \ pool : \E i \in 1 .. Len(held[r]) : ~(i <= Len(h)) /\ b = held[r][i]
  PROVE  Owned' /\ held' \in [Rendering -> Seq(Buffers)] /\ pool' \in SUBSET Buffers
<1>1. held \in [Rendering -> Seq(Buffers)] /\ pool \in SUBSET Buffers
  BY DEF Types
<1>2. held' \in [Rendering -> Seq(Buffers)] /\ held'[r] = h /\ \A q \in Rendering \ {r} : held'[q] = held[q]
  BY <1>1
<1>3. \A i \in 1 .. Len(held[r]) : held[r][i] \in Buffers
  BY <1>1
<1>4. pool' \in SUBSET Buffers
  BY <1>1, <1>3
<1>5. \A q \in Rendering : Len(held'[q]) = Needs(q)'
  <2>1. \A q \in Rendering \ {r} : Len(held'[q]) = Needs(q)'
    BY <1>2, NeedsElsewhere DEF Owned
  <2> QED BY <1>2, <2>1
<1>6. ASSUME NEW u \in Rendering, NEW k \in 1 .. Len(held'[u])
      PROVE  /\ k \in 1 .. Len(held[u]) /\ held'[u][k] = held[u][k]
             /\ u = r => k <= Len(h)
  <2>1. CASE u # r
    BY <1>2, <2>1
  <2>2. CASE u = r
    <3>1. k \in 1 .. Len(h) /\ Len(h) \in Nat /\ Len(held[r]) \in Nat
      BY <1>1, <1>2, <2>2
    <3>2. k \in 1 .. Len(held[r]) /\ k <= Len(h)
      BY <3>1
    <3> QED BY <1>2, <2>2, <3>1, <3>2
  <2> QED BY <2>1, <2>2
<1>7. ASSUME NEW q \in Rendering, NEW i \in 1 .. Len(held'[q]), held'[q][i] \in pool'
      PROVE  FALSE
  <2>1. held[q][i] \notin pool
    BY <1>6 DEF Owned
  <2>2. PICK j \in 1 .. Len(held[r]) : ~(j <= Len(h)) /\ held[q][i] = held[r][j]
    BY <1>6, <1>7, <2>1
  <2>3. q = r /\ i = j
    BY <1>6, <2>2 DEF Owned
  <2> QED BY <1>6, <2>2, <2>3
<1>8. \A p, q \in Rendering : \A i \in 1 .. Len(held'[p]), j \in 1 .. Len(held'[q]) :
        held'[p][i] = held'[q][j] => p = q /\ i = j
  BY <1>6 DEF Owned
<1> QED BY <1>2, <1>4, <1>5, <1>7, <1>8 DEF Owned

(* r touches no buffers.                                                   *)
LEMMA SameKeeps ==
  ASSUME Types, Owned, NEW r \in Rendering, Elsewhere(r), UNCHANGED <<held, pool>>,
         Needs(r)' = Needs(r)
  PROVE  Owned' /\ held' \in [Rendering -> Seq(Buffers)] /\ pool' \in SUBSET Buffers
<1>1. \A q \in Rendering : Needs(q)' = Needs(q)
  BY NeedsElsewhere
<1> QED BY <1>1 DEF Owned, Types

(* The others print what they did.                                         *)
LEMMA OthersKeep ==
  ASSUME OutputInv, NEW r \in Rendering, Elsewhere(r),
         \A q \in Rendering \ {r} : \A i \in 1 .. Len(held[q]) : text'[held[q][i]] = text[held[q][i]]
  PROVE  \A q \in Rendering \ {r} : Sound(q)'
<1> SUFFICES ASSUME NEW q \in Rendering \ {r} PROVE Sound(q)'
  OBVIOUS
<1>1. /\ UNCHANGED <<tree, val>>
      /\ pc'[q] = pc[q] /\ at'[q] = at[q] /\ stack'[q] = stack[q] /\ held'[q] = held[q]
      /\ str'[q] = str[q] /\ out'[q] = out[q] /\ err'[q] = err[q]
  BY DEF Elsewhere
<1>2. Sound(q) /\ Len(held[q]) = Needs(q)
  BY DEF OutputInv, Owned
<1>3. AtNode(q)'
  BY <1>1, <1>2 DEF Sound, AtNode
<1>4. InPrint(q)' = InPrint(q)
  BY <1>1 DEF InPrint
<1>5. Shown(q)' = Shown(q)
  BY <1>1 DEF Shown
<1>6. Written(q)'
  BY <1>1, <1>2, <1>4, <1>5 DEF Sound, Written
<1>7. Quotes(q)' = Quotes(q) /\ (Quoting(q)' <=> Quoting(q)) /\ Top(q)' = Top(q)
  BY <1>1 DEF Quotes, Quoting, Top
<1>8. /\ pc[q] \in {"print", "float", "copy", "write", "put"} => Quotes(q) + 1 \in 1 .. Len(held[q])
      /\ pc[q] = "copy" => Quotes(q) + 2 \in 1 .. Len(held[q])
      /\ pc[q] \in {"get", "print", "float", "copy", "write", "put"} /\ Quoting(q) => 1 \in 1 .. Len(held[q])
      /\ pc[q] = "unquote" => 1 \in 1 .. Len(held[q])
  BY <1>2, NeedsIs
<1>9. Halfway(q) /\ pc[q] \in Printing => Halfway(q)'
  <2> SUFFICES ASSUME Halfway(q), pc[q] \in Printing PROVE Halfway(q)'
    OBVIOUS
  <2>1. text'[held'[q][Quotes(q)' + 1]] = text[held[q][Quotes(q) + 1]]
    BY <1>1, <1>7, <1>8 DEF Printing
  <2> QED BY <1>1, <1>4, <2>1 DEF Halfway
<1>10. Content(q)'
  <2>1. pc[q] \in {"get", "print", "float", "copy", "write"} /\ Quoting(q) => text'[held'[q][1]] = <<>>
    BY <1>1, <1>2, <1>8 DEF Sound, Content
  <2>2. pc[q] = "copy" => text'[held'[q][Quotes(q)' + 2]] = Atom(q, Head(Top(q)'.todo))
    BY <1>1, <1>2, <1>7, <1>8 DEF Sound, Content
  <2>3. pc[q] = "write" => text'[held'[q][Quotes(q)' + 1]] = InPrint(q)
    BY <1>1, <1>2, <1>7, <1>8 DEF Sound, Content
  <2>4. pc[q] = "unquote" \/ (pc[q] = "put" /\ Quoting(q)) => text'[held'[q][1]] = InPrint(q)
    BY <1>1, <1>2, <1>8 DEF Sound, Content
  <2>5. /\ str[q] # None /\ pc[q] # "ended" => str[q] = InPrint(q) /\ val[q] \in Printable
        /\ pc[q] \in Printing => Halfway(q)
        /\ pc[q] \in {"float", "copy"} => Top(q).todo # <<>> /\ Kind[Head(Top(q).todo)] = "float"
        /\ pc[q] \in {"write", "put", "unquote"} => val[q] \in Printable
    BY <1>2 DEF Sound, Content
  <2>6. Atom(q, Head(Top(q).todo))' = Atom(q, Head(Top(q)'.todo))
    BY DEF Atom
  <2> QED BY <1>1, <1>4, <1>7, <1>9, <2>1, <2>2, <2>3, <2>4, <2>5, <2>6 DEF Content
<1> QED BY <1>3, <1>6, <1>10 DEF Sound
-----------------------------------------------------------------------------
(* Steps that print nothing                                                *)

(* The nodes of a rendering that have been printed.                        *)
Before(r) == Cardinality({k \in 1 .. at[r] - 1 : tree[k] \in {"show", "call", "quote", "use"}})

LEMMA BeforeIs ==
  ASSUME NEW r \in Rendering, at[r] \in Nat \ {0}
  PROVE  /\ Before(r) \in Nat /\ Shown(r) \in Nat
         /\ pc[r] # "put" \/ Len(held[r]) # 1 => Shown(r) = Before(r)
         /\ pc[r] = "put" /\ Len(held[r]) = 1 => Shown(r) = Before(r) + 1
<1> DEFINE S == {k \in 1 .. at[r] - 1 : tree[k] \in {"show", "call", "quote", "use"}}
<1>1. 1 \in Int /\ at[r] - 1 \in Int /\ S \in SUBSET (1 .. at[r] - 1)
  OBVIOUS
<1>2. IsFiniteSet(1 .. at[r] - 1)
  BY <1>1, FS_Interval
<1>3. IsFiniteSet(S)
  <2> HIDE DEF S
  <2> QED BY <1>1, <1>2, FS_Subset
<1>4. Cardinality(S) \in Nat
  <2> HIDE DEF S
  <2> QED BY <1>3, FS_CardinalityType
<1>5. Before(r) \in Nat /\ Before(r) + 0 = Before(r) /\ Before(r) + 1 \in Nat
  BY <1>4 DEF Before
<1>6. Shown(r) = Before(r) + (IF pc[r] = "put" /\ Len(held[r]) = 1 THEN 1 ELSE 0)
  BY DEF Shown, Before
<1> HIDE DEF S
<1> QED BY <1>5, <1>6

LEMMA BeforeNext ==
  ASSUME NEW r \in Rendering, at[r] \in Nat \ {0}, at'[r] = at[r] + 1, UNCHANGED tree
  PROVE  Before(r)' = Before(r) + (IF tree[at[r]] \in {"show", "call", "quote", "use"} THEN 1 ELSE 0)
<1> DEFINE S == {k \in 1 .. at[r] - 1 : tree[k] \in {"show", "call", "quote", "use"}}
           T == {k \in 1 .. at[r] : tree[k] \in {"show", "call", "quote", "use"}}
<1>1. 1 \in Int /\ at[r] - 1 \in Int /\ S \in SUBSET (1 .. at[r] - 1)
  OBVIOUS
<1>2. IsFiniteSet(1 .. at[r] - 1)
  BY <1>1, FS_Interval
<1>3. IsFiniteSet(S)
  <2> HIDE DEF S
  <2> QED BY <1>1, <1>2, FS_Subset
<1>4. Cardinality(S) \in Nat
  <2> HIDE DEF S
  <2> QED BY <1>3, FS_CardinalityType
<1>5. at[r] \notin S /\ at[r] + 1 - 1 = at[r]
  OBVIOUS
<1>6. Before(r)' = Cardinality(T)
  BY <1>5 DEF Before
<1>7. \A k \in 1 .. at[r] : k \in 1 .. at[r] - 1 \/ k = at[r]
  OBVIOUS
<1>8. CASE tree[at[r]] \in {"show", "call", "quote", "use"}
  <2>1. T = S \cup {at[r]}
    BY <1>7, <1>8
  <2> HIDE DEF S, T
  <2>2. Cardinality(T) = Cardinality(S) + 1
    BY <1>3, <1>5, <2>1, FS_AddElement
  <2> QED BY <1>6, <1>8, <2>2 DEF S, Before
<1>9. CASE tree[at[r]] \notin {"show", "call", "quote", "use"}
  <2>1. T = S
    BY <1>7, <1>9
  <2>2. Before(r)' = Cardinality(S) + 0
    <3> HIDE DEF S, T
    <3> QED BY <1>4, <1>6, <2>1
  <2> QED BY <1>9, <2>2 DEF Before
<1> QED BY <1>8, <1>9

(* A step of one rendering keeps the invariant when what concerns that     *)
(* rendering is as it should be.                                           *)
LEMMA OneSteps ==
  ASSUME OutputInv, NEW r \in Rendering, Elsewhere(r), Types', Owned', Sound(r)',
         \A q \in Rendering \ {r} : \A i \in 1 .. Len(held[q]) : text'[held[q][i]] = text[held[q][i]]
  PROVE  OutputInv'
<1>1. \A q \in Rendering \ {r} : Sound(q)'
  BY OthersKeep
<1>2. \A q \in Rendering : Sound(q)'
  BY <1>1
<1> QED BY <1>2 DEF OutputInv

LEMMA SameWritten ==
  ASSUME OutputInv, NEW r \in Rendering, UNCHANGED <<val, out>>, at[r] \in Nat \ {0}, at'[r] \in Nat \ {0},
         Before(r)' = Before(r), pc[r] # "put", pc'[r] # "put",
         err'[r] = err[r] \/ err'[r].what \notin {"cycle", "size"}
  PROVE  Written(r)'
<1>1. Shown(r)' = Shown(r)
  <2>1. Shown(r) = Before(r)
    BY BeforeIs
  <2>2. Shown(r)' = Before(r)'
    <3>1. at[r]' \in Nat \ {0} /\ pc[r]' # "put"
      OBVIOUS
    <3>2. \/ pc[r]' # "put" \/ Len(held[r])' # 1
      BY <3>1
    <3>3. Shown(r)' = Before(r)' + (IF pc[r]' = "put" /\ Len(held[r])' = 1 THEN 1 ELSE 0)
      BY DEF Shown, Before
    <3>4. Before(r)' \in Nat
      BY BeforeIs
    <3> QED BY <3>1, <3>3, <3>4
  <2> QED BY <2>1, <2>2
<1>2. InPrint(r)' = InPrint(r)
  BY DEF InPrint
<1>3. Written(r)
  BY DEF OutputInv, Sound
<1> QED BY <1>1, <1>2, <1>3 DEF Written

(* Only the place in the template and the error change.                    *)
LEMMA QuietPrints ==
  ASSUME OutputInv, NEW r \in Rendering, Elsewhere(r), at[r] \in Nat \ {0}, at'[r] \in Nat \ {0},
         UNCHANGED <<memory, stack, held, str, out>>,
         pc[r] \in {"new", "node", "check", "define", "find", "lock", "look", "fill"},
         pc'[r] \in {"node", "ended", "check", "define", "find", "fail", "lock", "look", "fill", "quote", "get"},
         pc'[r] = "get" => tree[at'[r]] # "quote",
         AtNode(r)', Before(r)' = Before(r),
         err'[r] = err[r] \/ err'[r].what \notin {"cycle", "size"}
  PROVE  OutputInv'
<1>1. Types /\ Owned /\ Sound(r)
  BY DEF OutputInv
<1>2. str[r] = None /\ str'[r] = None /\ UNCHANGED <<tree, val, pool, text>>
  BY <1>1 DEF Sound, AtNode, Elsewhere, memory
<1>3. Needs(r) = 0
  BY NeedsIs DEF Printing
<1>4. Needs(r)' = 0
  BY <1>2 DEF Needs, Quotes, Quoting
<1>5. Owned' /\ held' \in [Rendering -> Seq(Buffers)]
  BY <1>1, <1>2, <1>3, <1>4, SameKeeps
<1>6. Types'
  BY <1>1, <1>2, <1>5 DEF Types
<1>7. Written(r)'
  BY <1>2, SameWritten
<1>8. Content(r)'
  BY <1>2 DEF Content, Quoting, Printing
<1>9. Sound(r)'
  BY <1>7, <1>8 DEF Sound
<1> QED BY <1>2, <1>5, <1>6, <1>9, OneSteps

(* Nothing of what is printed changes.                                     *)
LEMMA SamePrints ==
  ASSUME OutputInv, UNCHANGED <<tree, val, pool, text, pc, at, stack, held, str, out, err>>
  PROVE  OutputInv'
<1>1. Types'
  BY DEF OutputInv, Types
<1>2. \A r \in Rendering : Needs(r)' = Needs(r)
  BY DEF Needs, Quotes, Quoting
<1>3. Owned'
  BY <1>2 DEF OutputInv, Owned
<1>4. ASSUME NEW r \in Rendering PROVE Sound(r)'
  <2>1. /\ InPrint(r)' = InPrint(r) /\ Shown(r)' = Shown(r) /\ Quotes(r)' = Quotes(r)
        /\ (Quoting(r)' <=> Quoting(r)) /\ Top(r)' = Top(r)
    BY DEF InPrint, Shown, Quotes, Quoting, Top
  <2>2. Sound(r)
    BY DEF OutputInv
  <2>3. AtNode(r)' /\ Written(r)'
    BY <2>1, <2>2 DEF Sound, AtNode, Written
  <2>4. Halfway(r) => Halfway(r)'
    BY <2>1 DEF Halfway
  <2>5. Atom(r, Head(Top(r).todo))' = Atom(r, Head(Top(r).todo))
    BY <2>1 DEF Atom
  <2>6. Content(r)'
    BY <2>1, <2>2, <2>4, <2>5 DEF Sound, Content
  <2> QED BY <2>3, <2>6 DEF Sound
<1> QED BY <1>1, <1>3, <1>4 DEF OutputInv

LEMMA ShapeIs ==
  ASSUME IsolationInv, OutputInv
  PROVE  /\ tree \in Seq({"show", "call", "quote", "macro", "use", "fail"})
         /\ pc \in [Rendering -> Label] /\ at \in [Rendering -> Nat \ {0}]
         /\ DOMAIN err = Rendering /\ DOMAIN line = Rendering
         /\ DOMAIN held = Rendering /\ DOMAIN stack = Rendering
         /\ DOMAIN str = Rendering /\ DOMAIN out = Rendering
         /\ DOMAIN text = Buffers
BY ConstantsAssumption DEF IsolationInv, Shape, OutputInv, Types

LEMMA StartPrints ==
  ASSUME IsolationInv, OutputInv, NEW r \in Rendering, Start(r)
  PROVE  OutputInv'
<1>1. /\ pc[r] = "new" /\ pc'[r] = "node" /\ \A q \in Rendering \ {r} : pc'[q] = pc[q]
      /\ UNCHANGED <<tree, val, memory, at, stack, held, str, out, err>>
  BY ShapeIs DEF Start, Goto, own
<1>2. Elsewhere(r) /\ at[r] \in Nat \ {0} /\ Before(r)' = Before(r)
  BY <1>1, ShapeIs DEF Elsewhere, Before
<1>3. AtNode(r)'
  BY <1>1 DEF AtNode, Busy, OutputInv, Sound
<1> QED BY <1>1, <1>2, <1>3, QuietPrints

LEMMA NodePrints ==
  ASSUME IsolationInv, OutputInv, NEW r \in Rendering, Node(r), UNCHANGED <<tree, val>>
  PROVE  OutputInv'
<1> DEFINE l == First[tree[at[r]]]
<1>1. /\ pc[r] = "node" /\ at[r] <= Len(tree)
      /\ pc'[r] = l /\ \A q \in Rendering \ {r} : pc'[q] = pc[q]
      /\ UNCHANGED <<memory, at, stack, held, str, out, err>>
  BY ShapeIs DEF Node, Goto
<1>2. Elsewhere(r) /\ at[r] \in Nat \ {0} /\ Before(r)' = Before(r)
  BY <1>1, ShapeIs DEF Elsewhere, Before
<1>3. tree[at[r]] \in {"show", "call", "quote", "macro", "use", "fail"}
  <2>1. at[r] \in 1 .. Len(tree)
    BY <1>1, <1>2, ShapeIs
  <2> QED BY <2>1, ShapeIs
<1>4. str[r] = None
  BY <1>1 DEF OutputInv, Sound, AtNode
<1>5. \/ l = "get" /\ tree[at[r]] = "show"
      \/ l = "lock" /\ tree[at[r]] = "call"
      \/ l = "quote" /\ tree[at[r]] = "quote"
      \/ l = "find" /\ tree[at[r]] = "use"
      \/ l \in {"check", "fail"}
  BY <1>3 DEF First
<1> HIDE DEF l
<1>6. AtNode(r)'
  BY <1>1, <1>4, <1>5 DEF AtNode, Busy
<1> QED BY <1>1, <1>2, <1>5, <1>6, QuietPrints

LEMMA EndPrints ==
  ASSUME IsolationInv, OutputInv, NEW r \in Rendering, End(r), UNCHANGED <<tree, val>>
  PROVE  OutputInv'
<1>1. /\ pc[r] = "node" /\ pc'[r] = "ended" /\ \A q \in Rendering \ {r} : pc'[q] = pc[q] /\ err'[q] = err[q]
      /\ err'[r] = [what |-> "ok", line |-> None]
      /\ UNCHANGED <<memory, at, stack, held, str, out>>
  BY ShapeIs DEF End, Goto, Set
<1>2. Elsewhere(r) /\ at[r] \in Nat \ {0} /\ Before(r)' = Before(r)
  BY <1>1, ShapeIs DEF Elsewhere, Before
<1>3. AtNode(r)'
  BY <1>1 DEF AtNode, Busy
<1>4. err'[r].what \notin {"cycle", "size"}
  BY <1>1
<1> QED BY <1>1, <1>2, <1>3, <1>4, QuietPrints

(* A definition is passed.                                                 *)
LEMMA PastMacro ==
  ASSUME IsolationInv, OutputInv, NEW r \in Rendering, UNCHANGED <<tree, val>>,
         pc[r] \in {"check", "define"}, NextNode(r), UNCHANGED <<memory, stack, held, str, out, err>>
  PROVE  OutputInv'
<1>1. /\ pc'[r] = "node" /\ at'[r] = at[r] + 1
      /\ \A q \in Rendering \ {r} : pc'[q] = pc[q] /\ at'[q] = at[q]
  BY ShapeIs DEF NextNode, Goto, Set
<1>2. at[r] \in Nat \ {0} /\ at'[r] \in Nat \ {0} /\ tree[at[r]] = "macro"
  BY <1>1, ShapeIs DEF IsolationInv, Known
<1>3. Before(r)' = Before(r)
  <2>1. Before(r) \in Nat
    BY <1>2, BeforeIs
  <2>2. Before(r)' = Before(r) + 0
    BY <1>1, <1>2, BeforeNext
  <2> QED BY <2>1, <2>2
<1>4. Elsewhere(r)
  BY <1>1 DEF Elsewhere
<1>5. AtNode(r)'
  BY <1>1 DEF AtNode, Busy, OutputInv, Sound
<1> QED BY <1>1, <1>2, <1>3, <1>4, <1>5, QuietPrints

LEMMA MacroPrints ==
  ASSUME IsolationInv, OutputInv, NEW r \in Rendering, Check(r) \/ Define(r) \/ Find(r), UNCHANGED <<tree, val>>
  PROVE  OutputInv'
<1>1. CASE Define(r) \/ (Check(r) /\ "m" \in macros)
  BY <1>1, PastMacro DEF Define, Check
<1>2. CASE Find(r) \/ (Check(r) /\ "m" \notin macros)
  <2>1. /\ pc[r] \in {"check", "find"}
        /\ pc[r] = "check" => pc' = [pc EXCEPT ![r] = "define"]
        /\ pc[r] = "find" => pc' = [pc EXCEPT ![r] = "get"] \/ pc' = [pc EXCEPT ![r] = "fail"]
        /\ UNCHANGED <<memory, at, stack, held, str, out, err>>
    BY <1>2 DEF Find, Check, Goto
  <2>2. /\ pc'[r] \in {"define", "get", "fail"} /\ (pc'[r] = "get" => pc[r] = "find")
        /\ \A q \in Rendering \ {r} : pc'[q] = pc[q]
    BY <2>1, ShapeIs
  <2>3. Elsewhere(r) /\ at[r] \in Nat \ {0} /\ Before(r)' = Before(r)
    BY <2>1, <2>2, ShapeIs DEF Elsewhere, Before
  <2>4. AtNode(r)
    BY DEF OutputInv, Sound
  <2>5. AtNode(r)' /\ (pc'[r] = "get" => tree[at[r]] # "quote")
    BY <2>1, <2>2, <2>4 DEF AtNode, Busy
  <2> QED BY <2>1, <2>2, <2>3, <2>5, QuietPrints
<1> QED BY <1>1, <1>2

LEMMA CachePrints ==
  ASSUME IsolationInv, OutputInv, NEW r \in Rendering, Lock(r) \/ Look(r) \/ Fill(r), UNCHANGED <<tree, val>>
  PROVE  OutputInv'
<1>1. /\ pc[r] \in {"lock", "look", "fill"} /\ UNCHANGED <<memory, at, stack, held, str, out, err>>
      /\ \E l \in {"look", "fill", "get"} : pc' = [pc EXCEPT ![r] = l]
  BY DEF Lock, Look, Fill, Goto, own
<1>2. pc'[r] \in {"look", "fill", "get"} /\ \A q \in Rendering \ {r} : pc'[q] = pc[q]
  BY <1>1, ShapeIs
<1>3. Elsewhere(r) /\ at[r] \in Nat \ {0} /\ Before(r)' = Before(r)
  BY <1>1, <1>2, ShapeIs DEF Elsewhere, Before
<1>4. AtNode(r)
  BY DEF OutputInv, Sound
<1>5. AtNode(r)' /\ tree[at[r]] # "quote"
  BY <1>1, <1>2, <1>4 DEF AtNode, Busy
<1> QED BY <1>1, <1>2, <1>3, <1>5, QuietPrints

(* The rendering ends with an error.                                       *)
LEMMA EndsPrints ==
  ASSUME IsolationInv, OutputInv, NEW r \in Rendering, NEW what \in {"error", "cycle", "size"},
         Ends(r, what), UNCHANGED <<tree, val>>, pc[r] \in {"fail", "print"},
         what = "cycle" => Found(val[r]), what = "size" => Oversize(val[r])
  PROVE  OutputInv'
<1>1. /\ pc'[r] = "ended" /\ stack'[r] = <<>> /\ held' = [held EXCEPT ![r] = <<>>]
      /\ err'[r] = [what |-> what, line |-> pos]
      /\ \A q \in Rendering \ {r} :
           pc'[q] = pc[q] /\ err'[q] = err[q] /\ stack'[q] = stack[q] /\ held'[q] = held[q]
      /\ UNCHANGED <<text, at, str, out>>
      /\ stack' = [stack EXCEPT ![r] = <<>>]
      /\ pool' = IF Len(held[r]) = 2 THEN pool \cup {held[r][1]} ELSE pool
  BY ShapeIs DEF Ends, Goto, Set
<1>2. Elsewhere(r) /\ at[r] \in Nat \ {0} /\ Before(r)' = Before(r)
  BY <1>1, ShapeIs DEF Elsewhere, Before
<1>3. Types /\ Owned /\ Sound(r)
  BY DEF OutputInv
<1>4. Needs(r)' = 0
  BY <1>1 DEF Needs
<1>5. Owned' /\ held' \in [Rendering -> Seq(Buffers)] /\ pool' \in SUBSET Buffers
  <2> DEFINE h == <<>>
  <2>1. h \in Seq(Buffers) /\ Len(h) = 0 /\ Len(held[r]) \in Nat
    BY <1>3 DEF Types
  <2>2. ASSUME NEW b \in pool' \ pool
        PROVE  \E i \in 1 .. Len(held[r]) : ~(i <= 0) /\ b = held[r][i]
    <3>1. Len(held[r]) = 2 /\ b = held[r][1]
      BY <1>1, <2>2
    <3>2. 1 \in 1 .. Len(held[r])
      BY <3>1
    <3> QED BY <3>1, <3>2
  <2>3. held' = [held EXCEPT ![r] = h] /\ Len(h) = Needs(r)' /\ Len(h) <= Len(held[r])
        /\ \A i \in 1 .. Len(h) : h[i] = held[r][i]
    BY <1>1, <1>4, <2>1
  <2>4. \A b \in pool' \ pool : \E i \in 1 .. Len(held[r]) : ~(i <= Len(h)) /\ b = held[r][i]
    BY <2>1, <2>2
  <2> HIDE DEF h
  <2> QED BY <1>2, <1>3, <2>1, <2>3, <2>4, DropKeeps
<1>6. Types'
  BY <1>1, <1>3, <1>5 DEF Types, Elsewhere
<1>7. AtNode(r)' /\ Content(r)'
  BY <1>1 DEF AtNode, Busy, Content, Printing
<1>8. Written(r)'
  <2>1. Written(r)
    BY <1>3 DEF Sound
  <2>2. Shown(r)' = Shown(r)
    <3>1. Shown(r) = Before(r)
      BY <1>2, BeforeIs
    <3>2. Before(r)' \in Nat
      BY <1>2, BeforeIs
    <3>3. Shown(r)' = Before(r)' + (IF pc'[r] = "put" /\ Len(held'[r]) = 1 THEN 1 ELSE 0)
      BY DEF Shown, Before
    <3> QED BY <1>1, <1>2, <3>1, <3>2, <3>3
  <2>3. InPrint(r)' = InPrint(r)
    BY DEF InPrint
  <2>4. err'[r].what = what
    BY <1>1
  <2> QED BY <1>1, <2>1, <2>2, <2>3, <2>4 DEF Written
<1> QED BY <1>1, <1>2, <1>5, <1>6, <1>7, <1>8, OneSteps DEF Sound
-----------------------------------------------------------------------------
(* What is on the way to the output                                        *)

LEMMA InPrintIs ==
  ASSUME Types, NEW r \in Rendering
  PROVE  /\ InPrint(r) = By(r, AtomsOf[MaxStack][val[r]])
         /\ InPrint(r) \in Output /\ val[r] \in Object
<1>1. val[r] \in Object /\ MaxStack \in 0 .. MaxStack
  BY ConstantsAssumption DEF Types
<1>2. AtomsOf[MaxStack][val[r]] \in Seq(Object)
  BY <1>1, AtomsOfIs
<1>3. InPrint(r) = By(r, AtomsOf[MaxStack][val[r]])
  BY DEF InPrint, By
<1>4. By(r, AtomsOf[MaxStack][val[r]]) \in Seq(Rendering \X Object)
  BY <1>2, ByIs
<1> QED BY <1>1, <1>3, <1>4 DEF Output

LEMMA AtomIs ==
  ASSUME NEW r \in Rendering, NEW o \in Object
  PROVE  By(r, <<o>>) = Atom(r, o) /\ Atom(r, o) \in Output
<1>1. DOMAIN <<o>> = 1 .. 1 /\ <<o>>[1] = o
  OBVIOUS
<1>2. By(r, <<o>>) = [k \in 1 .. 1 |-> <<r, <<o>>[k]>>]
  BY <1>1 DEF By
<1>3. <<<<r, o>>>> = [k \in 1 .. 1 |-> <<r, <<o>>[k]>>]
  OBVIOUS
<1> QED BY <1>2, <1>3 DEF Atom, Output

(* The stack as it is at first.                                            *)
LEMMA StackBegins ==
  ASSUME NEW v \in Object, NEW todo, todo = <<v>> \/ (todo = <<>> /\ v \in Printable),
         NEW s, s = <<[obj |-> None, todo |-> todo]>>
  PROVE  /\ Frames(s, v) /\ s[1].obj = None /\ s \in Seq(Frame)
         /\ Left(s, AtomsIn(MaxStack, todo)) /\ AtomsIn(MaxStack, todo) \in Seq(Object)
<1> DEFINE f == [obj |-> None, todo |-> todo]
           x == AtomsIn(MaxStack, todo)
<1>1. todo \in Seq(Object) /\ MaxStack \in Nat \ {0}
  <2>1. <<v>> \in Seq(Object) /\ <<>> \in Seq(Object)
    OBVIOUS
  <2>2. MaxStack \in Nat \ {0}
    BY ConstantsAssumption
  <2> QED BY <2>1, <2>2
<1>2. f \in Frame /\ f.obj = None /\ f.todo = todo
  BY <1>1 DEF Frame
<1>3. s \in Seq(Frame) /\ Len(s) = 1 /\ s[1] = f /\ 1 \in 1 .. MaxStack
  <2> HIDE DEF f
  <2>1. s = <<f>>
    BY DEF f
  <2> QED BY <1>1, <1>2, <2>1
<1>4. ToSet(todo) = {v} \/ (ToSet(todo) = {} /\ v \in Printable)
  <2>1. CASE todo = <<v>>
    <3>1. DOMAIN todo = {1} /\ todo[1] = v
      BY <2>1
    <3> QED BY <3>1 DEF ToSet
  <2>2. CASE todo = <<>> /\ v \in Printable
    BY <2>2 DEF ToSet
  <2> QED BY <2>1, <2>2
<1>5. \A k \in 1 .. Len(s) : k = 1 /\ Elements(s, k, v) = {v}
  BY <1>3 DEF Elements
<1> HIDE DEF f
<1>6. Nested(s, v)
  <2>1. \A k \in 1 .. Len(s) : ToSet(s[k].todo) \subseteq Elements(s, k, v)
    BY <1>2, <1>3, <1>4, <1>5
  <2>2. \A k \in 2 .. Len(s) : FALSE
    BY <1>3
  <2> QED BY <1>3, <2>1, <2>2 DEF Nested
<1>7. ASSUME NEW k \in 1 .. Len(s)
      PROVE  Done(s, v, k, IF k = Len(s) THEN {} ELSE {s[k + 1].obj})
  <2>1. k = 1 /\ Elements(s, k, v) = {v} /\ s[k].todo = todo
    BY <1>2, <1>3, <1>5
  <2>2. Way(s, k) = {}
    BY <1>6, <2>1, WayIs
  <2> QED BY <1>4, <2>1, <2>2 DEF Done, Printable
<1>8. Frames(s, v)
  BY <1>6, <1>7 DEF Frames
<1>9. x \in Seq(Object)
  <2>1. MaxStack \in 0 .. MaxStack
    BY <1>1
  <2> QED BY <1>1, <2>1, AtomsInType
<1>10. Left(s, x)
  <2> DEFINE t == [k \in 0 .. 1 |-> IF k = 0 THEN <<>> ELSE x]
  <2> HIDE DEF x
  <2>1. t \in [0 .. 1 -> Seq(Object)] /\ t[0] = <<>> /\ t[1] = x
    BY <1>9
  <2>2. x \o <<>> = x /\ Level(1) = MaxStack
    BY <1>1, <1>9 DEF Level
  <2>3. t[1] = AtomsIn(Level(1), s[1].todo) \o t[1 - 1]
    BY <1>2, <1>3, <2>1, <2>2 DEF x
  <2> HIDE DEF t
  <2>4. \A k \in 1 .. Len(s) : t[k] = AtomsIn(Level(k), s[k].todo) \o t[k - 1]
    BY <1>5, <2>3
  <2>5. LeftBy(t, s)
    BY <1>3, <2>1, <2>4 DEF LeftBy
  <2>6. t \in [0 .. Len(s) -> Seq(Object)] /\ t[Len(s)] = x
    BY <1>3, <2>1
  <2> QED BY <2>5, <2>6 DEF Left
<1> QED BY <1>2, <1>3, <1>8, <1>9, <1>10

(* The stack of a rendering that prints.                                   *)
LEMMA OnTheWay ==
  ASSUME OutputInv, NEW r \in Rendering, pc[r] \in Printing
  PROVE  /\ Frames(stack[r], val[r]) /\ stack[r][1].obj = None
         /\ stack[r] \in Seq(Frame) /\ Len(stack[r]) \in Nat \ {0} /\ stack[r] # <<>>
         /\ Top(r) = stack[r][Len(stack[r])] /\ Top(r) = Last(stack[r]) /\ Top(r).todo \in Seq(Object)
         /\ Quotes(r) + 1 \in 1 .. Len(held[r]) /\ held[r][Quotes(r) + 1] \in Buffers
         /\ text[held[r][Quotes(r) + 1]] \in Output
<1>1. Halfway(r) /\ Types /\ Len(held[r]) = Needs(r)
  BY DEF OutputInv, Sound, Content, Owned
<1>2. Frames(stack[r], val[r]) /\ stack[r][1].obj = None
  BY <1>1 DEF Halfway
<1>3. Nested(stack[r], val[r])
  BY <1>2 DEF Frames
<1>4. /\ stack[r] \in Seq(Frame) /\ Len(stack[r]) \in Nat \ {0} /\ stack[r] # <<>>
      /\ \A k \in 1 .. Len(stack[r]) : stack[r][k].todo \in Seq(Object)
  BY <1>3, StackIs
<1>5. Top(r) = stack[r][Len(stack[r])] /\ Top(r) = Last(stack[r])
  BY <1>4 DEF Top, Last
<1>6. Len(stack[r]) \in 1 .. Len(stack[r])
  BY <1>4
<1>7. Quotes(r) + 1 \in 1 .. Len(held[r])
  BY <1>1, NeedsIs DEF Printing
<1>8. held[r][Quotes(r) + 1] \in Buffers
  BY <1>1, <1>7 DEF Types
<1> QED BY <1>1, <1>2, <1>4, <1>5, <1>6, <1>7, <1>8 DEF Types

(* r comes to an element without parts.                                    *)
LEMMA LeafIs ==
  ASSUME OutputInv, NEW r \in Rendering, pc[r] \in Printing, Top(r).todo # <<>>,
         NEW o, o = Head(Top(r).todo), Kind[o] \in {"text", "float"}
  PROVE  /\ o \in Object /\ Atom(r, o) \in Output
         /\ Rest(r) \in Seq(Frame) /\ Frames(Rest(r), val[r]) /\ Rest(r)[1].obj = None
         /\ \E x \in Seq(Object) :
              /\ Left(Rest(r), x)
              /\ (text[held[r][Quotes(r) + 1]] \o Atom(r, o)) \o By(r, x) = InPrint(r)
<1> DEFINE s == stack[r]
           b == text[held[r][Quotes(r) + 1]]
<1>1. /\ Frames(s, val[r]) /\ s[1].obj = None /\ s \in Seq(Frame) /\ s # <<>> /\ Len(s) \in Nat \ {0}
      /\ Top(r) = s[Len(s)] /\ Top(r) = Last(s) /\ Top(r).todo \in Seq(Object) /\ b \in Output
  BY OnTheWay
<1>2. GoesOn(s, Rest(r))
  BY <1>1, RestIs DEF Rest
<1>3. Rest(r) \in Seq(Frame) /\ Rest(r)[1].obj = None
  <2>1. 1 \in 1 .. Len(s)
    BY <1>1
  <2>2. Rest(r)[1].obj = s[1].obj
    BY <1>2, <2>1 DEF GoesOn
  <2> QED BY <1>1, <1>2, <2>2 DEF GoesOn
<1>4. o \in Object
  BY <1>1
<1>5. o \notin DOMAIN Parts
  BY <1>4, ObjectsAre
<1>6. PICK x \in Seq(Object) : Left(s, x) /\ b \o By(r, x) = InPrint(r)
  BY DEF OutputInv, Sound, Content, Halfway
<1> HIDE DEF s, b
<1>7. /\ Frames(Rest(r), val[r])
      /\ \E x2 \in Seq(Object) : Left(Rest(r), x2) /\ x = Cons(o, x2)
  <2>1. /\ Frames(s, val[r]) /\ s[Len(s)].todo # <<>> /\ GoesOn(s, Rest(r)) /\ Left(s, x)
        /\ o = Head(s[Len(s)].todo) /\ o \notin DOMAIN Parts
    BY <1>1, <1>2, <1>5, <1>6
  <2> QED BY <2>1, PrintLeaf
<1>8. PICK x2 \in Seq(Object) : Left(Rest(r), x2) /\ x = Cons(o, x2)
  BY <1>7
<1>9. By(r, x) = Atom(r, o) \o By(r, x2)
  <2>1. <<o>> \in Seq(Object)
    BY <1>4
  <2>2. By(r, <<o>> \o x2) = By(r, <<o>>) \o By(r, x2)
    BY <2>1, ByConcat
  <2>3. By(r, <<o>>) = Atom(r, o)
    BY <1>4, AtomIs
  <2> QED BY <1>8, <2>2, <2>3, Zenon DEF Cons
<1>10. Atom(r, o) \in Output /\ By(r, x2) \in Output
  BY <1>4, AtomIs, ByIs DEF Output
<1>11. (b \o Atom(r, o)) \o By(r, x2) = b \o (Atom(r, o) \o By(r, x2))
  <2>1. \A u, v, w \in Output : (u \o v) \o w = u \o (v \o w)
    BY ConcatAssociative DEF Output
  <2> QED BY <1>1, <1>10, <2>1, Zenon
<1>12. (b \o Atom(r, o)) \o By(r, x2) = InPrint(r)
  BY <1>6, <1>9, <1>11, Zenon
<1> QED BY <1>3, <1>4, <1>7, <1>8, <1>10, <1>12 DEF b, s
-----------------------------------------------------------------------------
(* Steps that print                                                        *)

(* r writes to a buffer that no other has.                                 *)
LEMMA TextElsewhere ==
  ASSUME Types, NEW r \in Rendering, NEW b \in Buffers, NEW t \in Output, text' = Set(text, b, t),
         \A q \in Rendering \ {r} : \A i \in 1 .. Len(held[q]) : held[q][i] # b
  PROVE  /\ text'[b] = t /\ \A c \in Buffers \ {b} : text'[c] = text[c]
         /\ \A q \in Rendering \ {r} : \A i \in 1 .. Len(held[q]) : text'[held[q][i]] = text[held[q][i]]
         /\ text' \in [Buffers -> Output]
<1>1. text \in [Buffers -> Output] /\ text' = [text EXCEPT ![b] = t]
  BY DEF Types, Set
<1>2. \A q \in Rendering : \A i \in 1 .. Len(held[q]) : held[q][i] \in Buffers
  BY DEF Types
<1> QED BY <1>1, <1>2

LEMMA OwnIs ==
  ASSUME Types, Owned, NEW r \in Rendering, NEW i \in 1 .. Len(held[r])
  PROVE  /\ held[r][i] \in Buffers
         /\ \A j \in 1 .. Len(held[r]) : j # i => held[r][j] # held[r][i]
         /\ \A q \in Rendering \ {r} : \A j \in 1 .. Len(held[q]) : held[q][j] # held[r][i]
BY DEF Types, Owned

LEMMA QuotePrints ==
  ASSUME IsolationInv, OutputInv, NEW r \in Rendering, Quote(r), UNCHANGED <<tree, val>>
  PROVE  OutputInv'
<1>1. PICK b \in Free : Hold(r, b) /\ text' = Set(text, b, <<>>)
  BY DEF Quote
<1>2. /\ pc[r] = "quote" /\ pc'[r] = "get" /\ UNCHANGED <<at, stack, str, out, err>>
      /\ \A q \in Rendering \ {r} : pc'[q] = pc[q] /\ held'[q] = held[q]
  BY <1>1, ShapeIs DEF Quote, Goto, Hold, Set
<1>3. Types /\ Owned /\ AtNode(r) /\ at[r] \in Nat \ {0}
  BY ShapeIs DEF OutputInv, Sound
<1>4. Elsewhere(r) /\ Before(r)' = Before(r)
  BY <1>2 DEF Elsewhere, Before
<1>5. tree[at[r]] = "quote" /\ str[r] = None
  BY <1>2, <1>3 DEF AtNode
<1>6. Needs(r) = 0 /\ Needs(r)' = 1 /\ Len(held[r]) = 0
  BY <1>2, <1>3, <1>5 DEF Needs, Quotes, Quoting, Owned
<1>7. Needs(r)' = Needs(r) + 1 /\ Len(held[r]) < 3
  BY <1>6
<1>8. /\ Owned' /\ held' \in [Rendering -> Seq(Buffers)] /\ pool' \in SUBSET Buffers
      /\ b \in Buffers /\ held'[r][Needs(r) + 1] = b
      /\ \A q \in Rendering : \A i \in 1 .. Len(held[q]) : held[q][i] # b
  BY <1>1, <1>3, <1>4, <1>7, HoldKeeps
<1>9. <<>> \in Output /\ text' = Set(text, b, <<>>)
  BY <1>1 DEF Output
<1>10. /\ text'[b] = <<>> /\ text' \in [Buffers -> Output]
       /\ \A q \in Rendering \ {r} : \A i \in 1 .. Len(held[q]) : text'[held[q][i]] = text[held[q][i]]
  <2>1. \A q \in Rendering \ {r} : \A i \in 1 .. Len(held[q]) : held[q][i] # b
    BY <1>8
  <2> QED BY <1>3, <1>8, <1>9, <2>1, TextElsewhere
<1>11. Types'
  BY <1>2, <1>3, <1>8, <1>10 DEF Types
<1>12. AtNode(r)'
  BY <1>2, <1>3, <1>5 DEF AtNode, Busy
<1>13. held'[r][1] = b
  BY <1>6, <1>8
<1>14. Content(r)'
  BY <1>2, <1>5, <1>10, <1>13 DEF Content, Printing
<1>15. Written(r)'
  BY <1>2, <1>3, <1>4, SameWritten
<1> QED BY <1>4, <1>8, <1>10, <1>11, <1>12, <1>14, <1>15, OneSteps DEF Sound

LEMMA GetPrints ==
  ASSUME IsolationInv, OutputInv, NEW r \in Rendering, Get(r), UNCHANGED <<tree, val>>
  PROVE  OutputInv'
<1> DEFINE t == IF str[r] = None THEN <<>> ELSE str[r]
           todo == IF str[r] = None THEN <<val[r]>> ELSE <<>>
           s == <<[obj |-> None, todo |-> todo]>>
           n == Quotes(r) + 1
<1>1. PICK b \in Free : Hold(r, b) /\ text' = Set(text, b, t)
  BY DEF Get
<1>2. /\ pc[r] = "get" /\ pc'[r] = "print" /\ UNCHANGED <<at, str, out, err>> /\ stack'[r] = s
      /\ \A q \in Rendering \ {r} : pc'[q] = pc[q] /\ held'[q] = held[q] /\ stack'[q] = stack[q]
      /\ stack' = [stack EXCEPT ![r] = s]
  BY <1>1, ShapeIs DEF Get, Goto, Hold, Set
<1>3. Types /\ Owned /\ AtNode(r) /\ Content(r) /\ at[r] \in Nat \ {0}
  BY ShapeIs DEF OutputInv, Sound
<1>4. Elsewhere(r) /\ Before(r)' = Before(r)
  BY <1>2 DEF Elsewhere, Before
<1>5. val[r] \in Object /\ InPrint(r) = By(r, AtomsOf[MaxStack][val[r]]) /\ InPrint(r) \in Output
  BY <1>3, InPrintIs
<1>6. str[r] # None => str[r] = InPrint(r) /\ val[r] \in Printable
  BY <1>2, <1>3 DEF Content
<1>7. todo = <<val[r]>> \/ (todo = <<>> /\ val[r] \in Printable)
  BY <1>6
<1>8. /\ Frames(s, val[r]) /\ s[1].obj = None /\ s \in Seq(Frame)
      /\ Left(s, AtomsIn(MaxStack, todo)) /\ AtomsIn(MaxStack, todo) \in Seq(Object)
  <2> HIDE DEF todo
  <2> QED BY <1>5, <1>7, StackBegins
<1>9. t \in Output
  BY <1>5, <1>6 DEF Output
<1>10. t \o By(r, AtomsIn(MaxStack, todo)) = InPrint(r)
  <2>1. CASE str[r] = None
    <3>1. MaxStack \in 0 .. MaxStack
      BY ConstantsAssumption
    <3>2. <<val[r]>> \in Seq(Object) /\ <<val[r]>> # <<>> /\ Head(<<val[r]>>) = val[r] /\ Tail(<<val[r]>>) = <<>>
      BY <1>5
    <3>3. AtomsIn(MaxStack, <<val[r]>>) = AtomsOf[MaxStack][val[r]] \o AtomsIn(MaxStack, <<>>)
      BY <3>1, <3>2, AtomsInCons
    <3>4. AtomsOf[MaxStack][val[r]] \in Seq(Object)
      BY <1>5, <3>1, AtomsOfIs
    <3>5. AtomsIn(MaxStack, <<val[r]>>) = AtomsOf[MaxStack][val[r]]
      BY <3>3, <3>4, AtomsInNone, ConcatEmptySeq
    <3>6. t = <<>> /\ todo = <<val[r]>>
      BY <2>1
    <3>7. <<>> \o InPrint(r) = InPrint(r)
      BY <1>5, ConcatEmptySeq DEF Output
    <3> HIDE DEF t, todo
    <3> QED BY <1>5, <3>5, <3>6, <3>7
  <2>2. CASE str[r] # None
    <3>1. t = InPrint(r) /\ todo = <<>>
      BY <1>6, <2>2
    <3>2. By(r, AtomsIn(MaxStack, <<>>)) = <<>>
      BY AtomsInNone DEF By
    <3>3. InPrint(r) \o <<>> = InPrint(r)
      BY <1>5, ConcatEmptySeq DEF Output
    <3> HIDE DEF t, todo
    <3> QED BY <3>1, <3>2, <3>3
  <2> QED BY <2>1, <2>2
<1> HIDE DEF t, todo, s
<1>11. /\ Quotes(r) \in {0, 1} /\ (Quotes(r) = 1 <=> Quoting(r))
       /\ Quotes(r)' = Quotes(r) /\ (Quoting(r)' <=> Quoting(r))
       /\ Needs(r) = Quotes(r) /\ Needs(r)' = Quotes(r) + 1 /\ Len(held[r]) = Quotes(r)
  BY <1>2, <1>3, NeedsIs DEF Needs, Quotes, Quoting, Owned
<1>12. Needs(r)' = Needs(r) + 1 /\ Len(held[r]) < 3
  BY <1>11
<1>13. /\ Owned' /\ held' \in [Rendering -> Seq(Buffers)] /\ pool' \in SUBSET Buffers
       /\ b \in Buffers /\ held'[r][Needs(r) + 1] = b
       /\ \A i \in 1 .. Needs(r) : held'[r][i] = held[r][i]
       /\ \A q \in Rendering : \A i \in 1 .. Len(held[q]) : held[q][i] # b
  BY <1>1, <1>3, <1>4, <1>12, HoldKeeps
<1>14. /\ text'[b] = t /\ text' \in [Buffers -> Output] /\ \A c \in Buffers \ {b} : text'[c] = text[c]
       /\ \A q \in Rendering \ {r} : \A i \in 1 .. Len(held[q]) : text'[held[q][i]] = text[held[q][i]]
  <2>1. text' = Set(text, b, t)
    BY <1>1
  <2>2. \A q \in Rendering \ {r} : \A i \in 1 .. Len(held[q]) : held[q][i] # b
    BY <1>13
  <2> QED BY <1>3, <1>9, <1>13, <2>1, <2>2, TextElsewhere
<1>15. Types'
  <2>1. stack' \in [Rendering -> Seq(Frame)]
    BY <1>2, <1>3, <1>8 DEF Types
  <2> QED BY <1>2, <1>3, <1>13, <1>14, <2>1 DEF Types
<1>16. AtNode(r)'
  BY <1>2, <1>3 DEF AtNode, Busy
<1>17. InPrint(r)' = InPrint(r)
  BY DEF InPrint
<1>18. Halfway(r)'
  <2>1. text'[held'[r][Quotes(r)' + 1]] = t
    BY <1>11, <1>13, <1>14
  <2> QED BY <1>2, <1>8, <1>10, <1>17, <2>1 DEF Halfway
<1>19. Quoting(r) => text'[held'[r][1]] = <<>>
  <2> SUFFICES ASSUME Quoting(r) PROVE text'[held'[r][1]] = <<>>
    OBVIOUS
  <2>1. 1 \in 1 .. Needs(r) /\ 1 \in 1 .. Len(held[r])
    BY <1>11
  <2>2. held'[r][1] = held[r][1] /\ held[r][1] # b /\ held[r][1] \in Buffers
    BY <1>3, <1>13, <2>1 DEF Types
  <2>3. text[held[r][1]] = <<>>
    BY <1>2, <1>3 DEF Content
  <2> QED BY <1>14, <2>2, <2>3
<1>20. Content(r)'
  BY <1>2, <1>6, <1>11, <1>17, <1>18, <1>19 DEF Content
<1>21. Written(r)'
  BY <1>2, <1>3, <1>4, SameWritten
<1> QED BY <1>4, <1>13, <1>14, <1>15, <1>16, <1>20, <1>21, OneSteps DEF Sound

LEMMA StillPrinting ==
  ASSUME IsolationInv, OutputInv, NEW r \in Rendering, Elsewhere(r), UNCHANGED <<at, str, out, err>>,
         pc[r] \in Printing, pc'[r] \in Printing, Types', Owned', Halfway(r)',
         Quoting(r) => text'[held'[r][1]] = text[held[r][1]],
         pc'[r] \in {"float", "copy"} => Top(r)'.todo # <<>> /\ Kind[Head(Top(r)'.todo)] = "float",
         pc'[r] = "copy" => text'[held'[r][Quotes(r) + 2]] = Atom(r, Head(Top(r)'.todo)),
         \A q \in Rendering \ {r} : \A i \in 1 .. Len(held[q]) : text'[held[q][i]] = text[held[q][i]]
  PROVE  OutputInv'
<1>1. UNCHANGED <<tree, val>>
  BY DEF Elsewhere
<1>2. AtNode(r) /\ Content(r) /\ at[r] \in Nat \ {0} /\ Before(r)' = Before(r)
  BY <1>1, ShapeIs DEF OutputInv, Sound, Before
<1>3. (Quoting(r)' <=> Quoting(r)) /\ Quotes(r)' = Quotes(r) /\ InPrint(r)' = InPrint(r)
  BY <1>1 DEF Quoting, Quotes, InPrint
<1>4. AtNode(r)'
  BY <1>1, <1>2 DEF AtNode, Busy, Printing
<1>5. Atom(r, Head(Top(r).todo))' = Atom(r, Head(Top(r)'.todo))
  BY DEF Atom
<1>6. Quoting(r) => text[held[r][1]] = <<>>
  BY <1>2 DEF Content, Printing
<1>7. str[r] # None => str[r] = InPrint(r) /\ val[r] \in Printable
  BY <1>2 DEF Content, Printing
<1>8. Content(r)'
  BY <1>1, <1>3, <1>5, <1>6, <1>7 DEF Content, Printing
<1>9. Written(r)'
  BY <1>1, <1>2, SameWritten DEF Printing
<1> QED BY <1>4, <1>8, <1>9, OneSteps DEF Sound

(* The buffers of a rendering that prints.                                 *)
LEMMA BuffersAre ==
  ASSUME OutputInv, NEW r \in Rendering, pc[r] \in Printing \cup {"write", "put"}
  PROVE  /\ Types /\ Owned /\ Quotes(r) \in {0, 1} /\ (Quotes(r) = 1 <=> Quoting(r))
         /\ pc[r] # "copy" => Len(held[r]) = Quotes(r) + 1 /\ Buf(r) = held[r][Quotes(r) + 1]
         /\ pc[r] = "copy" => /\ Len(held[r]) = Quotes(r) + 2 /\ Buf(r) = held[r][Quotes(r) + 2]
                              /\ Below(r) = held[r][Quotes(r) + 1]
         /\ \A i \in 1 .. Len(held[r]) :
              /\ held[r][i] \in Buffers
              /\ \A q \in Rendering \ {r} : \A j \in 1 .. Len(held[q]) : held[q][j] # held[r][i]
         /\ Quoting(r) => 1 \in 1 .. Len(held[r]) /\ held[r][1] # held[r][Quotes(r) + 1]
<1>1. Types /\ Owned /\ Len(held[r]) = Needs(r)
  BY DEF OutputInv, Owned
<1>2. Quotes(r) \in {0, 1} /\ (Quotes(r) = 1 <=> Quoting(r))
  BY NeedsIs
<1>3. /\ pc[r] # "copy" => Len(held[r]) = Quotes(r) + 1
      /\ pc[r] = "copy" => Len(held[r]) = Quotes(r) + 2
  BY <1>1, NeedsIs DEF Printing
<1>4. /\ pc[r] # "copy" => Buf(r) = held[r][Quotes(r) + 1]
      /\ pc[r] = "copy" => Buf(r) = held[r][Quotes(r) + 2] /\ Below(r) = held[r][Quotes(r) + 1]
  BY <1>2, <1>3 DEF Buf, Below, Last
<1>5. ASSUME NEW i \in 1 .. Len(held[r])
      PROVE  /\ held[r][i] \in Buffers
             /\ \A q \in Rendering \ {r} : \A j \in 1 .. Len(held[q]) : held[q][j] # held[r][i]
  BY <1>1, OwnIs
<1>6. ASSUME Quoting(r)
      PROVE  1 \in 1 .. Len(held[r]) /\ held[r][1] # held[r][Quotes(r) + 1]
  <2>1. Quotes(r) + 1 = 2 /\ 1 \in 1 .. Len(held[r]) /\ 2 \in 1 .. Len(held[r])
    BY <1>2, <1>3, <1>6
  <2>2. held[r][1] # held[r][2]
    BY <1>1, <2>1, OwnIs
  <2> QED BY <2>1, <2>2
<1> QED BY <1>1, <1>2, <1>3, <1>4, <1>5, <1>6

(* Text goes to the buffer at once.                                        *)
LEMMA TextPrints ==
  ASSUME IsolationInv, OutputInv, NEW r \in Rendering, UNCHANGED <<tree, val, pc, pool, at, held, str, out, err>>,
         pc[r] = "print", Top(r).todo # <<>>, NEW o, o = Head(Top(r).todo), Kind[o] = "text",
         text' = Set(text, Buf(r), text[Buf(r)] \o Atom(r, o)), stack' = Set(stack, r, Rest(r))
  PROVE  OutputInv'
<1> DEFINE b == held[r][Quotes(r) + 1]
           t == text[b] \o Atom(r, o)
<1>1. pc[r] \in Printing
  BY DEF Printing
<1>2. /\ o \in Object /\ Atom(r, o) \in Output
      /\ Rest(r) \in Seq(Frame) /\ Frames(Rest(r), val[r]) /\ Rest(r)[1].obj = None
      /\ \E x \in Seq(Object) : Left(Rest(r), x) /\ t \o By(r, x) = InPrint(r)
  BY <1>1, LeafIs
<1>3. Types /\ Owned /\ Len(held[r]) = Quotes(r) + 1 /\ Buf(r) = b /\ (Quoting(r) => held[r][1] # b)
  BY <1>1, BuffersAre
<1>4. b \in Buffers /\ text[b] \in Output /\ Quotes(r) + 1 \in 1 .. Len(held[r])
  BY <1>1, OnTheWay
<1>5. \A q \in Rendering \ {r} : \A j \in 1 .. Len(held[q]) : held[q][j] # b
  BY <1>1, <1>4, BuffersAre
<1>6. t \in Output
  BY <1>2, <1>4, ConcatProperties DEF Output
<1> HIDE DEF b, t
<1>7. /\ text'[b] = t /\ \A c \in Buffers \ {b} : text'[c] = text[c]
      /\ \A q \in Rendering \ {r} : \A i \in 1 .. Len(held[q]) : text'[held[q][i]] = text[held[q][i]]
      /\ text' \in [Buffers -> Output]
  <2>1. text' = Set(text, b, t)
    BY <1>3 DEF t
  <2> QED BY <1>3, <1>4, <1>5, <1>6, <2>1, TextElsewhere
<1>8. /\ stack'[r] = Rest(r) /\ \A q \in Rendering \ {r} : stack'[q] = stack[q]
      /\ stack' \in [Rendering -> Seq(Frame)]
  BY <1>2, <1>3 DEF Set, Types
<1>9. Elsewhere(r)
  BY <1>8 DEF Elsewhere
<1>10. Needs(r)' = Needs(r) /\ Quotes(r)' = Quotes(r) /\ InPrint(r)' = InPrint(r)
  BY DEF Needs, Quotes, Quoting, InPrint
<1>11. Owned' /\ Types'
  <2>1. Owned'
    BY <1>3, <1>9, <1>10, SameKeeps
  <2> QED BY <1>3, <1>7, <1>8, <2>1 DEF Types
<1>12. Halfway(r)'
  <2>1. text'[held'[r][Quotes(r)' + 1]] = t
    BY <1>7, <1>10 DEF b
  <2> QED BY <1>2, <1>8, <1>10, <2>1 DEF Halfway
<1>13. Quoting(r) => text'[held'[r][1]] = text[held[r][1]]
  <2> SUFFICES ASSUME Quoting(r) PROVE text'[held'[r][1]] = text[held[r][1]]
    OBVIOUS
  <2>1. held[r][1] \in Buffers \ {b}
    BY <1>1, <1>3, BuffersAre
  <2> QED BY <1>7, <2>1
<1>14. pc'[r] = "print" /\ pc'[r] \in Printing
  BY <1>1
<1> QED BY <1>1, <1>7, <1>9, <1>11, <1>12, <1>13, <1>14, StillPrinting

LEMMA FloatComes ==
  ASSUME IsolationInv, OutputInv, NEW r \in Rendering, UNCHANGED <<tree, val, memory, own>>,
         pc[r] = "print", Top(r).todo # <<>>, Kind[Head(Top(r).todo)] = "float", Goto(r, "float")
  PROVE  OutputInv'
<1>1. /\ pc'[r] = "float" /\ \A q \in Rendering \ {r} : pc'[q] = pc[q]
      /\ UNCHANGED <<tree, val, pool, text, at, stack, held, str, out, err>>
  BY ShapeIs DEF Goto, memory, own
<1>2. Elsewhere(r) /\ Types /\ Owned
  BY <1>1 DEF Elsewhere, OutputInv
<1>3. Quotes(r)' = Quotes(r) /\ InPrint(r)' = InPrint(r) /\ Top(r)' = Top(r)
  BY <1>1 DEF Quotes, Quoting, InPrint, Top
<1>4. Needs(r)' = Needs(r)
  BY <1>1, <1>3 DEF Needs
<1>5. Owned' /\ Types'
  <2>1. Owned'
    BY <1>1, <1>2, <1>4, SameKeeps
  <2> QED BY <1>1, <1>2, <2>1 DEF Types
<1>6. Halfway(r)'
  <2>1. Halfway(r)
    BY DEF OutputInv, Sound, Content, Printing
  <2> QED BY <1>1, <1>3, <2>1 DEF Halfway
<1>7. pc[r] \in Printing /\ pc'[r] \in Printing /\ pc'[r] # "copy"
  BY <1>1 DEF Printing
<1>8. Quoting(r) => text'[held'[r][1]] = text[held[r][1]]
  BY <1>1
<1> QED BY <1>1, <1>2, <1>3, <1>5, <1>6, <1>7, <1>8, StillPrinting

(* checkCycle compares a pointer with those on the way.                    *)
LEMMA FreshIs ==
  ASSUME OutputInv, NEW r \in Rendering, pc[r] \in Printing, NEW o, ~Cycle(r, o)
  PROVE  Fresh(o, Way(stack[r], Len(stack[r])))
<1> DEFINE s == stack[r]
<1>1. s \in Seq(Frame) /\ Len(s) \in Nat \ {0} /\ Nested(s, val[r])
  BY OnTheWay DEF Frames
<1>2. ASSUME NEW k \in 2 .. Len(s)
      PROVE  s[k].obj \in Path(r)
  <2>1. s[k].obj \in Object /\ k \in DOMAIN s
    BY <1>1, StackIs
  <2>2. s[k].obj # None
    BY <2>1, ConstantsAssumption
  <2> QED BY <2>1, <2>2 DEF Path
<1> QED BY <1>2 DEF Cycle, Fresh, Way

LEMMA PartsCome ==
  ASSUME IsolationInv, OutputInv, NEW r \in Rendering, UNCHANGED <<tree, val, memory, pc, at, held, str, out, err>>,
         pc[r] = "print", Top(r).todo # <<>>, NEW o, o = Head(Top(r).todo), o \in DOMAIN Parts,
         ~TooLong(o), ~Cycle(r, o), Len(stack[r]) # MaxStack,
         stack' = Set(stack, r, Append(Rest(r), [obj |-> o, todo |-> Parts[o]]))
  PROVE  OutputInv'
<1> DEFINE s == stack[r]
           s3 == Append(Rest(r), [obj |-> o, todo |-> Parts[o]])
           b == text[held[r][Quotes(r) + 1]]
<1>1. pc[r] \in Printing /\ Types /\ Owned /\ UNCHANGED <<pool, text>>
  BY DEF Printing, OutputInv, memory
<1>2. /\ Frames(s, val[r]) /\ s[1].obj = None /\ s \in Seq(Frame) /\ s # <<>> /\ Len(s) \in Nat \ {0}
      /\ Top(r) = s[Len(s)] /\ Top(r) = Last(s) /\ val[r] \in Object
  BY <1>1, OnTheWay, InPrintIs
<1>3. GoesOn(s, Rest(r))
  BY <1>2, RestIs DEF Rest
<1>4. PICK x \in Seq(Object) : Left(s, x) /\ b \o By(r, x) = InPrint(r)
  BY <1>1 DEF OutputInv, Sound, Content, Halfway
<1> HIDE DEF s, b
<1>5. Frames(s3, val[r]) /\ Left(s3, x)
  <2>1. s[Len(s)].todo # <<>> /\ o = Head(s[Len(s)].todo) /\ Len(s) # MaxStack
    BY <1>2 DEF s
  <2>2. Fresh(o, Way(s, Len(s)))
    BY <1>1, FreshIs DEF s
  <2> QED BY <1>2, <1>3, <1>4, <2>1, <2>2, PrintParts
<1>6. s3 \in Seq(Frame) /\ s3[1].obj = None
  <2>1. s3 \in Seq(Frame)
    BY <1>5 DEF Frames, Nested
  <2>2. Rest(r) \in Seq(Frame) /\ Len(Rest(r)) = Len(s) /\ 1 \in 1 .. Len(s)
    BY <1>2, <1>3 DEF GoesOn
  <2>3. s3[1] = Rest(r)[1]
    BY <1>2, <2>2
  <2>4. Rest(r)[1].obj = s[1].obj
    BY <1>3, <2>2 DEF GoesOn
  <2> QED BY <1>2, <2>1, <2>3, <2>4
<1> HIDE DEF s3
<1>7. /\ stack'[r] = s3 /\ \A q \in Rendering \ {r} : stack'[q] = stack[q]
      /\ stack' \in [Rendering -> Seq(Frame)]
  BY <1>1, <1>6 DEF Set, Types, s3
<1>8. Elsewhere(r)
  BY <1>7 DEF Elsewhere
<1>9. Needs(r)' = Needs(r) /\ Quotes(r)' = Quotes(r) /\ InPrint(r)' = InPrint(r)
  BY DEF Needs, Quotes, Quoting, InPrint
<1>10. Owned' /\ Types'
  <2>1. Owned'
    BY <1>1, <1>8, <1>9, SameKeeps
  <2> QED BY <1>1, <1>7, <2>1 DEF Types
<1>11. Halfway(r)'
  <2>1. text'[held'[r][Quotes(r)' + 1]] = b
    BY <1>1, <1>9 DEF b
  <2> QED BY <1>4, <1>5, <1>6, <1>7, <1>9, <2>1 DEF Halfway
<1>12. pc'[r] = "print" /\ (Quoting(r) => text'[held'[r][1]] = text[held[r][1]])
  BY <1>1
<1> QED BY <1>1, <1>8, <1>10, <1>11, <1>12, StillPrinting

(* A cycle is one, and what is too large is part of the value.             *)
LEMMA ErrorIsFound ==
  ASSUME OutputInv, NEW r \in Rendering, pc[r] = "print", Top(r).todo # <<>>,
         NEW o, o = Head(Top(r).todo), o \in DOMAIN Parts
  PROVE  (Cycle(r, o) => Found(val[r])) /\ (TooLong(o) => Oversize(val[r]))
<1> DEFINE s == stack[r]
<1>1. pc[r] \in Printing /\ Types
  BY DEF Printing, OutputInv
<1>2. /\ Frames(s, val[r]) /\ s[1].obj = None /\ s \in Seq(Frame) /\ Len(s) \in Nat \ {0}
      /\ Top(r) = s[Len(s)] /\ val[r] \in Object
  BY <1>1, OnTheWay, InPrintIs
<1>3. /\ TooLong(o) => Oversize(val[r])
      /\ Kind[o] = "pointer" =>
           \A k \in 2 .. Len(s) :
             Kind[s[k].obj] = "pointer" /\ Addr[s[k].obj] = Addr[o] => Found(val[r])
  <2>1. s[Len(s)].todo # <<>> /\ o = Head(s[Len(s)].todo)
    BY <1>2
  <2> HIDE DEF s
  <2> QED BY <1>2, <2>1, CycleIsFound
<1>4. ASSUME Cycle(r, o) PROVE Found(val[r])
  <2>1. PICK p \in Path(r) : Kind[o] = "pointer" /\ Kind[p] = "pointer" /\ Addr[p] = Addr[o]
    BY <1>4 DEF Cycle
  <2>2. PICK k \in DOMAIN s : s[k].obj # None /\ s[k].obj = p
    BY <2>1 DEF Path
  <2>3. DOMAIN s = 1 .. Len(s) /\ k # 1
    BY <1>2, <2>2
  <2>4. k \in 2 .. Len(s)
    BY <1>2, <2>3
  <2> QED BY <1>3, <2>1, <2>2, <2>4
<1> QED BY <1>3, <1>4

LEMMA VtlPrintPrints ==
  ASSUME IsolationInv, OutputInv, NEW r \in Rendering, vtlPrint(r), UNCHANGED <<tree, val>>
  PROVE  OutputInv'
<1> DEFINE o == Head(Top(r).todo)
<1>1. pc[r] = "print" /\ Top(r).todo # <<>>
  BY DEF vtlPrint
<1>2. o \in Object
  <2>1. pc[r] \in Printing
    BY <1>1 DEF Printing
  <2>2. Top(r).todo \in Seq(Object)
    BY <2>1, OnTheWay
  <2> QED BY <1>1, <2>2
<1>3. o \in DOMAIN Parts <=> Kind[o] \in {"pointer", "raw"}
  BY <1>2, ObjectsAre
<1>4. \/ /\ Kind[o] = "text"
         /\ text' = Set(text, Buf(r), text[Buf(r)] \o Atom(r, o)) /\ stack' = Set(stack, r, Rest(r))
         /\ UNCHANGED <<pc, pool, at, held, str, out, err>>
      \/ Kind[o] = "float" /\ Goto(r, "float") /\ UNCHANGED <<memory, own>>
      \/ o \in DOMAIN Parts /\ Cycle(r, o) /\ Ends(r, "cycle")
      \/ o \in DOMAIN Parts /\ TooLong(o) /\ Ends(r, "size")
      \/ UNCHANGED <<memory, pc, own>>
      \/ /\ o \in DOMAIN Parts /\ ~TooLong(o) /\ ~Cycle(r, o) /\ Len(stack[r]) # MaxStack
         /\ stack' = Set(stack, r, Append(Rest(r), [obj |-> o, todo |-> Parts[o]]))
         /\ UNCHANGED <<memory, pc, at, held, str, out, err>>
  BY <1>3 DEF vtlPrint
<1> HIDE DEF o
<1>5. CASE /\ Kind[o] = "text"
           /\ text' = Set(text, Buf(r), text[Buf(r)] \o Atom(r, o)) /\ stack' = Set(stack, r, Rest(r))
           /\ UNCHANGED <<pc, pool, at, held, str, out, err>>
  <2>1. o = Head(Top(r).todo)
    BY DEF o
  <2> QED BY <1>1, <1>5, <2>1, TextPrints
<1>6. CASE Kind[o] = "float" /\ Goto(r, "float") /\ UNCHANGED <<memory, own>>
  BY <1>1, <1>6, FloatComes DEF o
<1>7. CASE o \in DOMAIN Parts /\ Cycle(r, o) /\ Ends(r, "cycle")
  <2>1. Found(val[r])
    BY <1>1, <1>7, ErrorIsFound DEF o
  <2> QED BY <1>1, <1>7, <2>1, EndsPrints
<1>8. CASE o \in DOMAIN Parts /\ TooLong(o) /\ Ends(r, "size")
  <2>1. Oversize(val[r])
    BY <1>1, <1>8, ErrorIsFound DEF o
  <2> QED BY <1>1, <1>8, <2>1, EndsPrints
<1>9. CASE UNCHANGED <<memory, pc, own>>
  BY <1>9, SamePrints DEF memory, own
<1>10. CASE /\ o \in DOMAIN Parts /\ ~TooLong(o) /\ ~Cycle(r, o) /\ Len(stack[r]) # MaxStack
            /\ stack' = Set(stack, r, Append(Rest(r), [obj |-> o, todo |-> Parts[o]]))
            /\ UNCHANGED <<memory, pc, at, held, str, out, err>>
  <2>1. o = Head(Top(r).todo)
    BY DEF o
  <2> QED BY <1>1, <1>10, <2>1, PartsCome
<1> QED BY <1>4, <1>5, <1>6, <1>7, <1>8, <1>9, <1>10

LEMMA PrintedPrints ==
  ASSUME IsolationInv, OutputInv, NEW r \in Rendering, Printed(r), UNCHANGED <<tree, val>>
  PROVE  OutputInv'
<1> DEFINE s == stack[r]
           b == text[held[r][Quotes(r) + 1]]
<1>1. /\ pc[r] = "print" /\ Top(r).todo = <<>> /\ stack'[r] = Front(s)
      /\ \A q \in Rendering \ {r} : stack'[q] = stack[q] /\ pc'[q] = pc[q]
      /\ Len(s) = 1 => pc'[r] = "write"
      /\ Len(s) # 1 => pc'[r] = "print"
      /\ UNCHANGED <<pool, text, at, held, str, out, err>>
      /\ stack' = [stack EXCEPT ![r] = Front(s)]
  BY ShapeIs DEF Printed, Goto, Set, memory
<1>2. pc[r] \in Printing /\ Types /\ Owned /\ AtNode(r) /\ Content(r) /\ at[r] \in Nat \ {0}
  BY <1>1, ShapeIs DEF Printing, OutputInv, Sound
<1>3. Elsewhere(r) /\ Before(r)' = Before(r)
  BY <1>1 DEF Elsewhere, Before
<1>4. /\ Frames(s, val[r]) /\ s[1].obj = None /\ s \in Seq(Frame) /\ s # <<>> /\ Len(s) \in Nat \ {0}
      /\ Top(r) = s[Len(s)] /\ b \in Output
  BY <1>2, OnTheWay
<1>5. PICK x \in Seq(Object) : Left(s, x) /\ b \o By(r, x) = InPrint(r)
  BY <1>2 DEF Content, Halfway
<1> HIDE DEF s, b
<1>6. /\ Len(s) = 1 => x = <<>> /\ val[r] \in Printable
      /\ Len(s) # 1 => Frames(Front(s), val[r]) /\ Left(Front(s), x)
  BY <1>1, <1>4, <1>5, PopFrame
<1>7. Front(s) \in Seq(Frame) /\ Len(Front(s)) = Len(s) - 1 /\ \A k \in 1 .. Len(s) - 1 : Front(s)[k] = s[k]
  BY <1>4, FrontIs
<1>8. (Quoting(r)' <=> Quoting(r)) /\ Quotes(r)' = Quotes(r) /\ InPrint(r)' = InPrint(r)
  BY <1>1 DEF Quotes, Quoting, InPrint
<1>9. Needs(r)' = Needs(r)
  BY <1>1, <1>8 DEF Needs
<1>10. Owned' /\ Types'
  <2>1. Owned'
    BY <1>1, <1>2, <1>3, <1>9, SameKeeps
  <2>2. stack' \in [Rendering -> Seq(Frame)]
    BY <1>1, <1>2, <1>7 DEF Types
  <2> QED BY <1>1, <1>2, <2>1, <2>2 DEF Types
<1>11. text'[held'[r][Quotes(r)' + 1]] = b
  BY <1>1, <1>8 DEF b
<1>12. CASE Len(s) = 1
  <2>1. pc'[r] = "write" /\ val[r] \in Printable
    BY <1>1, <1>6, <1>12
  <2>2. b = InPrint(r)
    <3>1. By(r, <<>>) = <<>> /\ b \o <<>> = b
      BY <1>4, ConcatEmptySeq DEF By, Output
    <3> QED BY <1>5, <1>6, <1>12, <3>1
  <2>3. AtNode(r)'
    BY <1>1, <1>2, <2>1 DEF AtNode, Busy, Printing
  <2>4. Content(r)'
    BY <1>1, <1>2, <1>8, <1>11, <2>1, <2>2 DEF Content, Printing
  <2>5. Written(r)'
    BY <1>1, <1>2, <1>3, <2>1, SameWritten
  <2>6. \A q \in Rendering \ {r} : \A i \in 1 .. Len(held[q]) : text'[held[q][i]] = text[held[q][i]]
    BY <1>1
  <2> QED BY <1>3, <1>10, <2>3, <2>4, <2>5, <2>6, OneSteps DEF Sound
<1>13. CASE Len(s) # 1
  <2>1. pc'[r] = "print" /\ pc'[r] \in Printing
    BY <1>1, <1>13 DEF Printing
  <2>2. Front(s)[1].obj = None
    <3>1. 1 \in 1 .. Len(s) - 1
      <4>1. Len(s) \in Nat \ {0}
        BY <1>4
      <4>2. \A n \in Nat \ {0} : n # 1 => 1 \in 1 .. n - 1
        OBVIOUS
      <4> QED BY <1>13, <4>1, <4>2
    <3> QED BY <1>4, <1>7, <3>1
  <2>3. Halfway(r)'
    BY <1>1, <1>5, <1>6, <1>8, <1>11, <1>13, <2>2 DEF Halfway
  <2>4. Quoting(r) => text'[held'[r][1]] = text[held[r][1]]
    BY <1>1
  <2>5. \A q \in Rendering \ {r} : \A i \in 1 .. Len(held[q]) : text'[held[q][i]] = text[held[q][i]]
    BY <1>1
  <2> QED BY <1>1, <1>2, <1>3, <1>10, <2>1, <2>3, <2>4, <2>5, StillPrinting
<1> QED BY <1>12, <1>13

LEMMA FloatPrints ==
  ASSUME IsolationInv, OutputInv, NEW r \in Rendering, Float(r), UNCHANGED <<tree, val>>
  PROVE  OutputInv'
<1> DEFINE o == Head(Top(r).todo)
           n == Quotes(r) + 1
<1>1. PICK b \in Free : Hold(r, b) /\ text' = Set(text, b, Atom(r, o))
  BY DEF Float
<1>2. /\ pc[r] = "float" /\ pc'[r] = "copy" /\ UNCHANGED <<at, stack, str, out, err>>
      /\ \A q \in Rendering \ {r} : pc'[q] = pc[q] /\ held'[q] = held[q]
  BY <1>1, ShapeIs DEF Float, Goto, Hold, Set
<1>3. Types /\ Owned /\ Content(r) /\ pc[r] \in Printing
  BY <1>2 DEF OutputInv, Sound, Printing
<1>4. Elsewhere(r)
  BY <1>2 DEF Elsewhere
<1>5. Top(r).todo # <<>> /\ Kind[o] = "float"
  BY <1>2, <1>3 DEF Content
<1>6. Atom(r, o) \in Output
  BY <1>3, <1>5, LeafIs
<1>7. /\ Quotes(r) \in {0, 1} /\ (Quotes(r) = 1 <=> Quoting(r))
      /\ Quotes(r)' = Quotes(r) /\ InPrint(r)' = InPrint(r) /\ Top(r)' = Top(r)
      /\ Needs(r) = n /\ Needs(r)' = n + 1 /\ Len(held[r]) = n
  <2>1. Quotes(r)' = Quotes(r) /\ InPrint(r)' = InPrint(r) /\ Top(r)' = Top(r)
    BY <1>2 DEF Quotes, Quoting, InPrint, Top
  <2>2. Quotes(r) \in {0, 1} /\ (Quotes(r) = 1 <=> Quoting(r)) /\ Needs(r) = n
    BY <1>2, NeedsIs
  <2>3. Needs(r)' = Quotes(r) + 2
    BY <1>2, <2>1 DEF Needs
  <2> QED BY <1>3, <2>1, <2>2, <2>3 DEF Owned
<1> HIDE DEF o
<1>8. Needs(r)' = Needs(r) + 1 /\ Len(held[r]) < 3 /\ n \in 1 .. n /\ n + 1 = Quotes(r) + 2
  BY <1>7
<1>9. /\ Owned' /\ held' \in [Rendering -> Seq(Buffers)] /\ pool' \in SUBSET Buffers
      /\ b \in Buffers /\ held'[r][n + 1] = b
      /\ \A i \in 1 .. n : held'[r][i] = held[r][i]
      /\ \A q \in Rendering : \A i \in 1 .. Len(held[q]) : held[q][i] # b
  <2> HIDE DEF n
  <2> QED BY <1>1, <1>3, <1>4, <1>7, <1>8, HoldKeeps
<1>10. \A q \in Rendering \ {r} : \A i \in 1 .. Len(held[q]) : held[q][i] # b
  BY <1>9
<1>11. /\ text'[b] = Atom(r, o) /\ text' \in [Buffers -> Output] /\ \A c \in Buffers \ {b} : text'[c] = text[c]
       /\ \A q \in Rendering \ {r} : \A i \in 1 .. Len(held[q]) : text'[held[q][i]] = text[held[q][i]]
  BY <1>1, <1>3, <1>6, <1>9, <1>10, TextElsewhere
<1>12. Types'
  BY <1>2, <1>3, <1>9, <1>11 DEF Types
<1>13. \A i \in 1 .. n : text'[held'[r][i]] = text[held[r][i]]
  <2>1. \A i \in 1 .. n : held[r][i] \in Buffers
    BY <1>3, <1>7, OwnIs
  <2> HIDE DEF n
  <2> QED BY <1>7, <1>9, <1>11, <2>1
<1>14. Halfway(r)'
  <2>1. Halfway(r)
    BY <1>3 DEF Content
  <2>2. text'[held'[r][Quotes(r)' + 1]] = text[held[r][Quotes(r) + 1]]
    BY <1>7, <1>8, <1>13
  <2> QED BY <1>2, <1>4, <1>7, <2>1, <2>2 DEF Halfway, Elsewhere
<1>15. Quoting(r) => text'[held'[r][1]] = text[held[r][1]]
  BY <1>7, <1>13
<1>16. text'[held'[r][Quotes(r) + 2]] = Atom(r, Head(Top(r)'.todo))
  BY <1>7, <1>8, <1>9, <1>11 DEF o
<1>17. Top(r)'.todo # <<>> /\ Kind[Head(Top(r)'.todo)] = "float" /\ pc'[r] \in Printing
  BY <1>2, <1>5, <1>7 DEF o, Printing
<1> QED BY <1>2, <1>3, <1>4, <1>9, <1>11, <1>12, <1>14, <1>15, <1>16, <1>17, StillPrinting

(* The last buffer goes back to the pool.                                  *)
LEMMA LastDropped ==
  ASSUME Types, Owned, NEW r \in Rendering, Elsewhere(r), Len(held[r]) # 0,
         pool' = pool \cup {Buf(r)}, held' = [held EXCEPT ![r] = Front(held[r])],
         Needs(r)' = Needs(r) - 1
  PROVE  /\ Owned' /\ held' \in [Rendering -> Seq(Buffers)] /\ pool' \in SUBSET Buffers
         /\ held'[r] = Front(held[r]) /\ Len(held'[r]) = Len(held[r]) - 1
         /\ \A i \in 1 .. Len(held[r]) - 1 : held'[r][i] = held[r][i]
<1> DEFINE n == Len(held[r])
           h == Front(held[r])
<1>1. held \in [Rendering -> Seq(Buffers)] /\ held[r] \in Seq(Buffers) /\ n = Needs(r)
  BY DEF Types, Owned
<1>2. n \in Nat \ {0} /\ n \in 1 .. n /\ held[r] # <<>> /\ Buf(r) = held[r][n]
  BY <1>1 DEF Buf, Last
<1>3. h \in Seq(Buffers) /\ Len(h) = n - 1 /\ \A k \in 1 .. n - 1 : h[k] = held[r][k]
  BY <1>1, <1>2, FrontIs
<1> HIDE DEF h, n
<1>4. Len(h) = Needs(r)' /\ Len(h) <= n /\ ~(n <= Len(h))
  BY <1>1, <1>2, <1>3
<1>5. \A b \in pool' \ pool : \E i \in 1 .. n : ~(i <= Len(h)) /\ b = held[r][i]
  <2>1. \A b \in pool' \ pool : b = held[r][n]
    BY <1>2
  <2> QED BY <1>2, <1>4, <2>1
<1>6. \A i \in 1 .. Len(h) : h[i] = held[r][i]
  BY <1>3
<1>7. held' = [held EXCEPT ![r] = h] /\ Len(h) <= Len(held[r])
      /\ \A b \in pool' \ pool : \E i \in 1 .. Len(held[r]) : ~(i <= Len(h)) /\ b = held[r][i]
  BY <1>4, <1>5 DEF h, n
<1>8. Owned' /\ held' \in [Rendering -> Seq(Buffers)] /\ pool' \in SUBSET Buffers
  BY <1>3, <1>4, <1>6, <1>7, DropKeeps
<1>9. held'[r] = h
  BY <1>1, <1>7
<1> QED BY <1>3, <1>8, <1>9 DEF h, n

LEMMA CopyPrints ==
  ASSUME IsolationInv, OutputInv, NEW r \in Rendering, Copy(r), UNCHANGED <<tree, val>>
  PROVE  OutputInv'
<1> DEFINE o == Head(Top(r).todo)
           b == held[r][Quotes(r) + 1]
           t == text[b] \o Atom(r, o)
<1>1. /\ pc[r] = "copy" /\ pc'[r] = "print" /\ UNCHANGED <<at, str, out, err>> /\ stack'[r] = Rest(r)
      /\ \A q \in Rendering \ {r} : pc'[q] = pc[q] /\ held'[q] = held[q] /\ stack'[q] = stack[q]
      /\ pool' = pool \cup {Buf(r)} /\ held' = [held EXCEPT ![r] = Front(held[r])]
      /\ stack' = [stack EXCEPT ![r] = Rest(r)]
      /\ text' = Set(text, Below(r), text[Below(r)] \o text[Buf(r)])
  BY ShapeIs DEF Copy, Goto, Set
<1>2. Types /\ Owned /\ Content(r) /\ pc[r] \in Printing
  BY <1>1 DEF OutputInv, Sound, Printing
<1>3. Elsewhere(r)
  BY <1>1 DEF Elsewhere
<1>4. Top(r).todo # <<>> /\ Kind[o] = "float" /\ text[held[r][Quotes(r) + 2]] = Atom(r, o)
  BY <1>1, <1>2 DEF Content
<1>5. /\ o \in Object /\ Atom(r, o) \in Output
      /\ Rest(r) \in Seq(Frame) /\ Frames(Rest(r), val[r]) /\ Rest(r)[1].obj = None
      /\ \E x \in Seq(Object) : Left(Rest(r), x) /\ t \o By(r, x) = InPrint(r)
  BY <1>2, <1>4, LeafIs
<1>6. /\ Quotes(r) \in {0, 1} /\ Len(held[r]) = Quotes(r) + 2 /\ Buf(r) = held[r][Quotes(r) + 2]
      /\ Below(r) = b /\ (Quoting(r) => held[r][1] # b) /\ (Quoting(r) => 1 \in 1 .. Len(held[r]))
      /\ (Quotes(r) = 1 <=> Quoting(r))
  BY <1>1, <1>2, BuffersAre
<1>7. b \in Buffers /\ text[b] \in Output /\ Quotes(r) + 1 \in 1 .. Len(held[r])
  BY <1>2, OnTheWay
<1>8. \A q \in Rendering \ {r} : \A j \in 1 .. Len(held[q]) : held[q][j] # b
  BY <1>2, <1>7, BuffersAre
<1>9. t \in Output
  BY <1>5, <1>7, ConcatProperties DEF Output
<1>10. text' = Set(text, b, t)
  BY <1>1, <1>4, <1>6
<1> HIDE DEF b, t, o
<1>11. /\ text'[b] = t /\ \A c \in Buffers \ {b} : text'[c] = text[c]
       /\ \A q \in Rendering \ {r} : \A i \in 1 .. Len(held[q]) : text'[held[q][i]] = text[held[q][i]]
       /\ text' \in [Buffers -> Output]
  BY <1>2, <1>7, <1>8, <1>9, <1>10, TextElsewhere
<1>12. Quotes(r)' = Quotes(r) /\ InPrint(r)' = InPrint(r)
  BY <1>1 DEF Quotes, Quoting, InPrint
<1>13. Needs(r) = Quotes(r) + 2 /\ Needs(r)' = Quotes(r) + 1
  BY <1>1, <1>12 DEF Needs
<1>14. Needs(r)' = Needs(r) - 1 /\ Len(held[r]) # 0
  BY <1>6, <1>13
<1>15. /\ Owned' /\ held' \in [Rendering -> Seq(Buffers)] /\ pool' \in SUBSET Buffers
       /\ \A i \in 1 .. Len(held[r]) - 1 : held'[r][i] = held[r][i]
  BY <1>1, <1>2, <1>3, <1>14, LastDropped
<1>16. Types'
  <2>1. stack' \in [Rendering -> Seq(Frame)]
    BY <1>1, <1>2, <1>5 DEF Types
  <2> QED BY <1>1, <1>2, <1>11, <1>15, <2>1 DEF Types
<1>17. Quotes(r) + 1 \in 1 .. Len(held[r]) - 1 /\ 1 \in 1 .. Len(held[r]) - 1
  BY <1>6
<1>18. Halfway(r)'
  <2>1. held'[r][Quotes(r) + 1] = b
    BY <1>15, <1>17 DEF b
  <2>2. text'[held'[r][Quotes(r)' + 1]] = t
    BY <1>11, <1>12, <2>1
  <2> QED BY <1>1, <1>5, <1>12, <2>2 DEF Halfway
<1>19. Quoting(r) => text'[held'[r][1]] = text[held[r][1]]
  <2> SUFFICES ASSUME Quoting(r) PROVE text'[held'[r][1]] = text[held[r][1]]
    OBVIOUS
  <2>1. held[r][1] \in Buffers \ {b}
    BY <1>2, <1>6, OwnIs
  <2> QED BY <1>11, <1>15, <1>17, <2>1
<1>20. pc'[r] \in Printing /\ pc'[r] = "print"
  BY <1>1 DEF Printing
<1> QED BY <1>1, <1>2, <1>3, <1>11, <1>15, <1>16, <1>18, <1>19, <1>20, StillPrinting

(* The value is written, to the output or to the string.                   *)
LEMMA WritePrints ==
  ASSUME IsolationInv, OutputInv, NEW r \in Rendering, Write(r), UNCHANGED <<tree, val>>
  PROVE  OutputInv'
<1> DEFINE p == InPrint(r)
<1>1. /\ pc[r] = "write" /\ pc'[r] = "put" /\ UNCHANGED <<pool, at, stack, held, str, err>>
      /\ \A q \in Rendering \ {r} : pc'[q] = pc[q]
  BY ShapeIs DEF Write, Goto
<1>2. Types /\ Owned /\ AtNode(r) /\ Content(r) /\ Written(r) /\ at[r] \in Nat \ {0}
  BY ShapeIs DEF OutputInv, Sound
<1>3. /\ Quotes(r) \in {0, 1} /\ (Quotes(r) = 1 <=> Quoting(r))
      /\ Len(held[r]) = Quotes(r) + 1 /\ Buf(r) = held[r][Quotes(r) + 1]
      /\ \A i \in 1 .. Len(held[r]) :
           /\ held[r][i] \in Buffers
           /\ \A q \in Rendering \ {r} : \A j \in 1 .. Len(held[q]) : held[q][j] # held[r][i]
      /\ Quoting(r) => 1 \in 1 .. Len(held[r]) /\ held[r][1] # held[r][Quotes(r) + 1]
  BY <1>1, BuffersAre
<1>4. Buf(r) \in Buffers /\ \A q \in Rendering \ {r} : \A j \in 1 .. Len(held[q]) : held[q][j] # Buf(r)
  <2>1. Quotes(r) + 1 \in 1 .. Len(held[r])
    BY <1>3
  <2> QED BY <1>3, <2>1
<1>5. text[Buf(r)] = p /\ val[r] \in Printable /\ p \in Output
  BY <1>1, <1>2, <1>3, InPrintIs DEF Content
<1>6. /\ Quotes(r)' = Quotes(r) /\ (Quoting(r)' <=> Quoting(r))
      /\ InPrint(r)' = InPrint(r) /\ Before(r)' = Before(r)
  BY <1>1 DEF Quotes, Quoting, InPrint, Before
<1>7. Needs(r)' = Needs(r)
  BY <1>1, <1>6 DEF Needs
<1>8. AtNode(r)'
  BY <1>1, <1>2 DEF AtNode, Busy
<1>9. /\ out[r] = Copies(Shown(r), p) /\ Shown(r) = Before(r) /\ Before(r) \in Nat
  BY <1>1, <1>2, BeforeIs DEF Written
<1>10. /\ Shown(r)' = Before(r) + (IF Len(held[r]) = 1 THEN 1 ELSE 0)
  <2>1. Shown(r)' = Before(r)' + (IF pc'[r] = "put" /\ Len(held'[r]) = 1 THEN 1 ELSE 0)
    BY DEF Shown, Before
  <2> QED BY <1>1, <1>6, <2>1
<1>11. str[r] # None => str[r] = p
  BY <1>1, <1>2 DEF Content
<1>12. \A q \in Rendering \ {r} : out'[q] = out[q]
  BY ShapeIs DEF Write, Set
<1>13. Elsewhere(r)
  BY <1>1, <1>12 DEF Elsewhere
<1>14. Owned'
  BY <1>1, <1>2, <1>7, <1>13, SameKeeps
<1> HIDE DEF p
<1>15. CASE Len(held[r]) = 1
  <2>1. out' = Set(out, r, out[r] \o p) /\ text' = Set(text, Buf(r), <<>>)
    BY <1>5, <1>15 DEF Write
  <2>2. <<>> \in Output /\ out[r] \in Output
    BY <1>2 DEF Output, Types
  <2>3. /\ text' \in [Buffers -> Output]
        /\ \A q \in Rendering \ {r} : \A i \in 1 .. Len(held[q]) : text'[held[q][i]] = text[held[q][i]]
    BY <1>2, <1>4, <2>1, <2>2, TextElsewhere
  <2>4. out[r] \o p \in Output
    BY <1>5, <2>2, ConcatProperties DEF Output
  <2>5. out' \in [Rendering -> Output] /\ out'[r] = out[r] \o p
    BY <1>2, <2>1, <2>4 DEF Types, Set
  <2>6. Types'
    BY <1>1, <1>2, <2>3, <2>5 DEF Types
  <2>7. ~Quoting(r)
    BY <1>3, <1>15
  <2>8. Content(r)'
    BY <1>1, <1>5, <1>6, <1>11, <2>7 DEF Content, Printing, p
  <2>9. out'[r] = Copies(Shown(r)', p)
    <3>1. Copies(Before(r) + 1, p) = Copies(Before(r), p) \o p
      BY <1>5, <1>9, CopiesGrow DEF Output
    <3>2. Shown(r)' = Before(r) + 1
      BY <1>10, <1>15
    <3> QED BY <1>9, <2>5, <3>1, <3>2
  <2>10. Written(r)'
    BY <1>1, <1>2, <1>5, <1>6, <2>9 DEF Written, p
  <2> QED BY <1>8, <1>13, <1>14, <2>3, <2>6, <2>8, <2>10, OneSteps DEF Sound
<1>16. CASE Len(held[r]) # 1
  <2> DEFINE b == held[r][1]
  <2>1. Len(held[r]) = 2 /\ Quoting(r) /\ Below(r) = b /\ b # Buf(r) /\ b \in Buffers
    <3>1. Quotes(r) = 1 /\ Len(held[r]) = 2 /\ Quoting(r)
      BY <1>3, <1>16
    <3>2. 1 \in 1 .. Len(held[r]) /\ b # held[r][Quotes(r) + 1] /\ Buf(r) = held[r][Quotes(r) + 1]
      BY <1>3, <3>1
    <3>3. Below(r) = held[r][2 - 1] /\ 2 - 1 = 1
      BY <3>1 DEF Below
    <3>4. b \in Buffers
      BY <1>3, <3>2
    <3> QED BY <3>1, <3>2, <3>3, <3>4
  <2>2. /\ text' = [text EXCEPT ![Below(r)] = @ \o text[Buf(r)], ![Buf(r)] = <<>>]
        /\ UNCHANGED out
    BY <1>16 DEF Write
  <2>3. text[b] = <<>> /\ <<>> \o p = p
    BY <1>1, <1>2, <1>5, <2>1, ConcatEmptySeq DEF Content, Output
  <2>4. \A q \in Rendering \ {r} : \A j \in 1 .. Len(held[q]) : held[q][j] # b
    BY <1>3, <2>1
  <2>5. <<>> \in Output /\ text \in [Buffers -> Output]
    BY <1>2 DEF Output, Types
  <2> HIDE DEF b
  <2>6. text' = [text EXCEPT ![b] = p, ![Buf(r)] = <<>>]
    BY <1>5, <2>1, <2>2, <2>3
  <2>7. text' \in [Buffers -> Output] /\ text'[b] = p
        /\ \A c \in Buffers : c # b /\ c # Buf(r) => text'[c] = text[c]
    BY <1>4, <1>5, <2>1, <2>5, <2>6
  <2>8. \A q \in Rendering \ {r} : \A i \in 1 .. Len(held[q]) : text'[held[q][i]] = text[held[q][i]]
    <3>1. \A q \in Rendering : \A i \in 1 .. Len(held[q]) : held[q][i] \in Buffers
      BY <1>2 DEF Types
    <3> QED BY <1>4, <2>4, <2>7, <3>1
  <2>9. Types'
    BY <1>1, <1>2, <2>2, <2>7 DEF Types
  <2>10. Content(r)'
    BY <1>1, <1>5, <1>6, <1>11, <2>7 DEF Content, Printing, p, b
  <2>11. Shown(r)' = Shown(r)
    BY <1>9, <1>10, <1>16
  <2>12. Written(r)'
    BY <1>1, <1>2, <1>6, <2>2, <2>11 DEF Written
  <2> QED BY <1>8, <1>13, <1>14, <2>8, <2>9, <2>10, <2>12, OneSteps DEF Sound
<1> QED BY <1>15, <1>16

LEMMA PutPrints ==
  ASSUME IsolationInv, OutputInv, NEW r \in Rendering, Put(r), UNCHANGED <<tree, val>>
  PROVE  OutputInv'
<1>1. /\ pc[r] = "put" /\ UNCHANGED <<text, stack, out, err>>
      /\ pool' = pool \cup {Buf(r)} /\ held' = [held EXCEPT ![r] = Front(held[r])]
      /\ \A q \in Rendering \ {r} : held'[q] = held[q]
  BY ShapeIs DEF Put, Set
<1>2. \/ Len(held[r]) = 2 /\ pc' = [pc EXCEPT ![r] = "unquote"] /\ UNCHANGED <<at, str>>
      \/ /\ Len(held[r]) # 2 /\ pc' = [pc EXCEPT ![r] = "node"]
         /\ at' = [at EXCEPT ![r] = at[r] + 1] /\ str' = [str EXCEPT ![r] = None]
  BY DEF Put, Goto, NextNode, Set
<1>3. \A q \in Rendering \ {r} : pc'[q] = pc[q] /\ at'[q] = at[q] /\ str'[q] = str[q]
  BY <1>2, ShapeIs
<1>4. Elsewhere(r)
  BY <1>1, <1>3 DEF Elsewhere
<1>5. Types /\ Owned /\ AtNode(r) /\ Content(r) /\ Written(r) /\ at[r] \in Nat \ {0}
  BY ShapeIs DEF OutputInv, Sound
<1>6. /\ Quotes(r) \in {0, 1} /\ (Quotes(r) = 1 <=> Quoting(r)) /\ Len(held[r]) = Quotes(r) + 1
      /\ Needs(r) = Quotes(r) + 1
  <2>1. pc[r] \in {"print", "float", "write", "put"}
    BY <1>1
  <2> QED BY <1>5, <2>1, NeedsIs DEF Owned
<1>7. /\ val[r] \in Printable /\ tree[at[r]] \in {"show", "call", "quote", "use"} /\ at[r] <= Len(tree)
      /\ Quoting(r) => text[held[r][1]] = InPrint(r)
  BY <1>1, <1>5 DEF Content, AtNode, Busy
<1>8. InPrint(r)' = InPrint(r) /\ out[r] = Copies(Shown(r), InPrint(r)) /\ Before(r) \in Nat
      /\ (Len(held[r]) # 1 => Shown(r) = Before(r)) /\ (Len(held[r]) = 1 => Shown(r) = Before(r) + 1)
  BY <1>1, <1>5, BeforeIs DEF Written, InPrint
<1>9. \A q \in Rendering \ {r} : \A i \in 1 .. Len(held[q]) : text'[held[q][i]] = text[held[q][i]]
  BY <1>1
<1>10. str' \in [Rendering -> Output \cup {None}]
  BY <1>2, <1>5 DEF Types
<1>11. pc'[r] \in {"unquote", "node"}
  BY <1>2, ShapeIs
<1>12. Shown(r)' = Before(r)' + (IF pc'[r] = "put" /\ Len(held'[r]) = 1 THEN 1 ELSE 0)
  BY DEF Shown, Before
<1>13. CASE Len(held[r]) = 2
  <2>1. pc'[r] = "unquote" /\ UNCHANGED <<at, str>>
    BY <1>2, <1>13, ShapeIs
  <2>2. Quotes(r) = 1 /\ Quoting(r)
    BY <1>6, <1>13
  <2>3. tree[at[r]] = "quote" /\ str[r] = None
    BY <2>2 DEF Quoting
  <2>4. Needs(r)' = Needs(r) - 1 /\ Len(held[r]) # 0
    BY <1>6, <1>13, <2>1, <2>2 DEF Needs
  <2>5. /\ Owned' /\ held' \in [Rendering -> Seq(Buffers)] /\ pool' \in SUBSET Buffers
        /\ \A i \in 1 .. Len(held[r]) - 1 : held'[r][i] = held[r][i]
    BY <1>1, <1>4, <1>5, <2>4, LastDropped
  <2>6. Types'
    BY <1>1, <1>5, <1>10, <2>5 DEF Types
  <2>7. AtNode(r)'
    BY <1>7, <2>1, <2>3 DEF AtNode, Busy
  <2>8. held'[r][1] = held[r][1]
    BY <1>13, <2>5
  <2>9. Content(r)'
    BY <1>1, <1>7, <1>8, <2>1, <2>2, <2>3, <2>8 DEF Content, Printing
  <2>10. Shown(r)' = Shown(r)
    <3>1. Before(r)' = Before(r)
      BY <2>1 DEF Before
    <3> QED BY <1>8, <1>12, <1>13, <2>1, <3>1
  <2>11. Written(r)'
    BY <1>1, <1>5, <1>8, <2>10 DEF Written
  <2> QED BY <1>4, <1>9, <2>5, <2>6, <2>7, <2>9, <2>11, OneSteps DEF Sound
<1>14. CASE Len(held[r]) # 2
  <2>1. pc'[r] = "node" /\ at'[r] = at[r] + 1 /\ str'[r] = None
    BY <1>2, <1>5, <1>14, ShapeIs
  <2>2. Len(held[r]) = 1 /\ Needs(r) = 1
    BY <1>6, <1>14
  <2>3. Needs(r)' = Needs(r) - 1 /\ Len(held[r]) # 0
    <3>1. Needs(r)' = 0
      BY <2>1 DEF Needs
    <3> QED BY <2>2, <3>1
  <2>4. /\ Owned' /\ held' \in [Rendering -> Seq(Buffers)] /\ pool' \in SUBSET Buffers
    BY <1>1, <1>4, <1>5, <2>3, LastDropped
  <2>5. Types'
    BY <1>1, <1>5, <1>10, <2>4 DEF Types
  <2>6. AtNode(r)'
    BY <2>1 DEF AtNode, Busy
  <2>7. Content(r)'
    BY <2>1 DEF Content, Printing, Quoting
  <2>8. Shown(r)' = Shown(r)
    <3>1. Before(r)' = Before(r) + 1
      BY <1>5, <1>7, <2>1, BeforeNext
    <3>2. Before(r)' \in Nat /\ Shown(r)' = Before(r)' + 0
      BY <1>8, <1>12, <2>1, <3>1
    <3> QED BY <1>8, <2>2, <3>1, <3>2
  <2>9. Written(r)'
    BY <1>1, <1>5, <1>8, <2>8 DEF Written
  <2> QED BY <1>4, <1>9, <2>4, <2>5, <2>6, <2>7, <2>9, OneSteps DEF Sound
<1> QED BY <1>13, <1>14

LEMMA UnquotePrints ==
  ASSUME IsolationInv, OutputInv, NEW r \in Rendering, Unquote(r), UNCHANGED <<tree, val>>
  PROVE  OutputInv'
<1>1. /\ pc[r] = "unquote" /\ pc'[r] = "get" /\ UNCHANGED <<text, at, stack, out, err>>
      /\ pool' = pool \cup {Buf(r)} /\ held' = [held EXCEPT ![r] = <<>>]
      /\ str' = [str EXCEPT ![r] = text[Buf(r)]]
      /\ \A q \in Rendering \ {r} : pc'[q] = pc[q] /\ held'[q] = held[q] /\ str'[q] = str[q]
  BY ShapeIs DEF Unquote, Goto, Set
<1>2. Elsewhere(r)
  BY <1>1 DEF Elsewhere
<1>3. Types /\ Owned /\ AtNode(r) /\ Content(r) /\ at[r] \in Nat \ {0}
  BY ShapeIs DEF OutputInv, Sound
<1>4. Needs(r) = 1 /\ Len(held[r]) = 1 /\ held[r] \in Seq(Buffers)
  BY <1>1, <1>3, NeedsIs DEF Owned, Types
<1>5. Buf(r) = held[r][1] /\ text[held[r][1]] = InPrint(r) /\ val[r] \in Printable
  BY <1>1, <1>3, <1>4 DEF Buf, Last, Content
<1>6. InPrint(r) \in Output /\ InPrint(r) # None
  BY <1>3, InPrintIs, ConstantsAssumption DEF Output
<1>7. str'[r] = InPrint(r) /\ str' \in [Rendering -> Output \cup {None}]
  BY <1>1, <1>3, <1>5, <1>6 DEF Types
<1>8. InPrint(r)' = InPrint(r) /\ Before(r)' = Before(r)
  BY <1>1 DEF InPrint, Before
<1>9. ~Quoting(r)' /\ Needs(r)' = 0
  BY <1>1, <1>6, <1>7 DEF Quoting, Needs, Quotes
<1>10. Owned' /\ held' \in [Rendering -> Seq(Buffers)] /\ pool' \in SUBSET Buffers
  <2>1. Front(held[r]) = <<>>
    <3>1. held[r] # <<>>
      BY <1>4
    <3>2. Front(held[r]) \in Seq(Buffers) /\ Len(Front(held[r])) = 0
      BY <1>4, <3>1, FrontIs
    <3> QED BY <3>2
  <2>2. Needs(r)' = Needs(r) - 1 /\ Len(held[r]) # 0 /\ held' = [held EXCEPT ![r] = Front(held[r])]
    BY <1>1, <1>4, <1>9, <2>1
  <2> QED BY <1>1, <1>2, <1>3, <2>2, LastDropped
<1>11. Types'
  BY <1>1, <1>3, <1>7, <1>10 DEF Types
<1>12. AtNode(r)'
  BY <1>1, <1>3 DEF AtNode, Busy
<1>13. Content(r)'
  BY <1>1, <1>5, <1>7, <1>8, <1>9 DEF Content, Printing
<1>14. Written(r)'
  BY <1>1, <1>3, <1>8, SameWritten
<1>15. \A q \in Rendering \ {r} : \A i \in 1 .. Len(held[q]) : text'[held[q][i]] = text[held[q][i]]
  BY <1>1
<1> QED BY <1>2, <1>10, <1>11, <1>12, <1>13, <1>14, <1>15, OneSteps DEF Sound

LEMMA InitPrints == Init => OutputInv
<1> SUFFICES ASSUME Init PROVE OutputInv
  OBVIOUS
<1>1. /\ val \in [Rendering -> Roots] /\ pool = {} /\ text = [b \in Buffers |-> <<>>]
      /\ \A r \in Rendering : /\ pc[r] = "new" /\ at[r] = 1 /\ stack[r] = <<>> /\ held[r] = <<>>
                              /\ out[r] = <<>> /\ str[r] = None /\ err[r] = None
      /\ stack = [r \in Rendering |-> <<>>] /\ held = stack /\ out = stack
      /\ str = [r \in Rendering |-> None]
  BY DEF Init
<1>2. Types
  <2>1. <<>> \in Output /\ <<>> \in Seq(Buffers) /\ <<>> \in Seq(Frame)
    BY DEF Output
  <2>2. text \in [Buffers -> Output] /\ held \in [Rendering -> Seq(Buffers)]
        /\ stack \in [Rendering -> Seq(Frame)] /\ out \in [Rendering -> Output]
    BY <1>1, <2>1
  <2>3. str \in [Rendering -> Output \cup {None}]
    BY <1>1
  <2> QED BY <1>1, <2>2, <2>3 DEF Types
<1>3. Owned
  <2>1. \A r \in Rendering : Needs(r) = 0
    BY <1>1 DEF Needs
  <2>2. \A r \in Rendering : Len(held[r]) = 0 /\ 1 .. Len(held[r]) = {}
    BY <1>1
  <2> QED BY <2>1, <2>2 DEF Owned
<1>4. ASSUME NEW r \in Rendering PROVE Sound(r)
  <2>1. AtNode(r) /\ Content(r)
    BY <1>1 DEF AtNode, Content, Busy, Printing
  <2>2. Shown(r) = 0
    <3>1. 1 .. at[r] - 1 = {}
      BY <1>1
    <3>2. {k \in 1 .. at[r] - 1 : tree[k] \in {"show", "call", "quote", "use"}} = {}
      BY <3>1
    <3>3. Before(r) = 0
      BY <3>2, FS_EmptySet DEF Before
    <3>4. at[r] \in Nat \ {0} /\ pc[r] # "put"
      BY <1>1
    <3> QED BY <3>3, <3>4, BeforeIs
  <2>3. Copies(0, InPrint(r)) = <<>>
    <3>1. InPrint(r) \in Seq(Rendering \X Object) /\ 0 \in Nat
      BY <1>2, InPrintIs DEF Output
    <3> QED BY <3>1, CopiesGrow
  <2>4. Written(r)
    BY <1>1, <2>2, <2>3 DEF Written
  <2> QED BY <2>1, <2>4 DEF Sound
<1> QED BY <1>2, <1>3, <1>4 DEF OutputInv

LEMMA NextPrints == IsolationInv /\ OutputInv /\ [Next]_vars => OutputInv'
<1> SUFFICES ASSUME IsolationInv, OutputInv, [Next]_vars PROVE OutputInv'
  OBVIOUS
<1>1. CASE MapFatal \/ UNCHANGED vars
  BY <1>1, SamePrints DEF MapFatal, vars, own, memory
<1>2. ASSUME NEW r \in Rendering, Start(r) PROVE OutputInv'
  BY <1>2, StartPrints
<1>3. ASSUME NEW r \in Rendering, Step(r) PROVE OutputInv'
  <2>1. UNCHANGED <<tree, val>>
    BY <1>3 DEF Step
  <2>2. CASE Fails(r)
    <3>1. Ends(r, "error") /\ pc[r] = "fail"
      BY <2>2 DEF Fails
    <3> QED BY <2>1, <3>1, EndsPrints
  <2>3. CASE Node(r) \/ End(r)
    BY <2>1, <2>3, NodePrints, EndPrints
  <2>4. CASE Check(r) \/ Define(r) \/ Find(r)
    BY <2>1, <2>4, MacroPrints
  <2>5. CASE Lock(r) \/ Look(r) \/ Fill(r)
    BY <2>1, <2>5, CachePrints
  <2>6. CASE vtlPrint(r)
    BY <2>1, <2>6, VtlPrintPrints
  <2>7. CASE Quote(r) \/ Get(r) \/ Printed(r) \/ Float(r)
    BY <2>1, <2>7, QuotePrints, GetPrints, PrintedPrints, FloatPrints
  <2>8. CASE Copy(r) \/ Write(r) \/ Put(r) \/ Unquote(r)
    BY <2>1, <2>8, CopyPrints, WritePrints, PutPrints, UnquotePrints
  <2> QED BY <1>3, <2>2, <2>3, <2>4, <2>5, <2>6, <2>7, <2>8 DEF Step
<1> QED BY <1>1, <1>2, <1>3 DEF Next

LEMMA OutputInvIs == OutputInv => OutputExact
<1> SUFFICES ASSUME OutputInv, NEW r \in Rendering
             PROVE  /\ out[r] = FlattenSeq([k \in 1 .. Shown(r) |-> InPrint(r)])
                    /\ err[r] # None =>
                         /\ err[r].what = "cycle" => Found(val[r])
                         /\ err[r].what = "size" => Oversize(val[r])
                         /\ err[r].what = "ok" /\ out[r] # <<>> =>
                              ~(Found(val[r]) \/ Oversize(val[r]) \/ Endless(val[r]))
  BY DEF OutputExact
<1>1. Written(r)
  BY DEF OutputInv, Sound
<1>2. out[r] = FlattenSeq([k \in 1 .. Shown(r) |-> InPrint(r)])
  BY <1>1 DEF Written, Copies
<1>3. out[r] # <<>> => ~Found(val[r]) /\ ~Oversize(val[r]) /\ ~Endless(val[r])
  BY <1>1, PrintableIs DEF Written
<1> QED BY <1>1, <1>2, <1>3 DEF Written

(* Whatever the others do, a rendering writes the values it shows, each    *)
(* whole and once, in its order; it reports a size only where a list is    *)
(* too long, and a cycle only where a pointer has another with its address *)
(* within; and it shows no value that has either.  That is so for any pool *)
(* of buffers with three for each rendering, and for objects of any shape  *)
(* and pointers of any addresses: those that contain themselves, and those *)
(* to a struct and to its first field, which are reported as a cycle.      *)
THEOREM OutputIsExact == Spec => []OutputExact
<1>1. Init => IsolationInv /\ OutputInv
  BY InitIsolation, InitPrints
<1>2. IsolationInv /\ OutputInv /\ [Next]_vars => IsolationInv' /\ OutputInv'
  BY NextIsolation, NextPrints
<1>3. IsolationInv /\ OutputInv => OutputExact
  BY OutputInvIs
<1>4. QED
  BY <1>1, <1>2, <1>3, PTL DEF Spec
=============================================================================
