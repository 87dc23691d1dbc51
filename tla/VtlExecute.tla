----------------------------- MODULE VtlExecute -----------------------------
(***************************************************************************)
(* Template.Execute and the tree walk _execute of execute.go.              *)
(*                                                                         *)
(* A template is a tree of node lists.  _execute runs one list; #if,       *)
(* #foreach, a macro call and #parse run the lists nested in them by       *)
(* calling _execute again.  The calls in progress are the frames of        *)
(* "stack".  _execute returns a pair (stop, err), and what a pair means    *)
(* depends on the directive that receives it: an actual (true, err) ends   *)
(* the rendering, (true, nil) is a #stop on its way up, and (false, err)   *)
(* is an error that #if and #parse drop.                                   *)
(*                                                                         *)
(* All lists share one context.  #set and a macro argument push a value    *)
(* and pop it in a defer, that is when the list that pushed it returns; a  *)
(* loop pushes $foreach and its variable and pops them at its normal end   *)
(* only.  Every pop names the slot its push returned, so it is right only  *)
(* as long as nothing below moves.                                         *)
(***************************************************************************)
EXTENDS VtlCtx

CONSTANTS
  Scalar,               \* values that are no collection
  TrueScalar,           \* those an #if takes for true
  Nil,                  \* the invalid reflect.Value
  Coll,                 \* the *Slice the templates may iterate and change
  MacroName,
  List,                 \* the node lists: a template, Items and Else bodies
  None,                 \* no list, no condition, no macro
  Main,                 \* the list of the template Execute is called on
  Trees,                \* the contents of the lists that are considered
  Bindings,             \* the contexts Execute may start with
  Contents,             \* the contents the collection may start with
  Library,              \* the macros Parse takes from the library template
  MaxCallDepth,         \* WithMaxCallDepth, WithMaxIterations
  MaxIterations,
  DefaultMaxCallDepth,  \* the call depth of a template read by #parse
  MaxItems,             \* bound: the elements templates may give Coll
  MaxRuns               \* calls of Execute considered, one after another

Foreach == "foreach"

EvalErr == {"undefined", "nil", "other"}
Err     == EvalErr \cup {"ok", "depth", "iterations"}

Loop    == Nat          \* a *foreach, named by the frame it runs in
Literal == Scalar \cup {Nil, Coll}
Value   == Literal \cup Loop

Limit == Nat \cup {-1}  \* -1: no limit

(* The loops of a template read by #parse have no limit. *)
DefaultMaxIterations == -1
-----------------------------------------------------------------------------
(***************************************************************************)
(* Nodes.  An expression is known by what evaluating it comes to: a        *)
(* literal, the value of a variable or an error.  A double-quoted string   *)
(* is the list of its references; val is what it reads when all of them    *)
(* can be printed.                                                         *)
(***************************************************************************)
Simple == [op : {"lit"}, val : Literal]
            \cup [op : {"ref"}, name : Name]
            \cup [op : {"err"}, err : {"nil", "other"}]

Reference == [expr : Simple, silent : BOOLEAN, printable : BOOLEAN]

Expr == Simple \cup [op : {"string"}, parts : Seq(Reference), val : Scalar]

Macro == [params : Seq(Name), items : List]

Node ==
       [type : {"text", "clear", "stop", "break", "eval"}]
  \cup [type : {"if"}, cond : Expr \cup {None}, items : List, else : List \cup {None}]
  \cup [type : {"set"}, var : Name, expr : Expr]
  \cup [type : {"setprop"}, target : Simple, expr : Expr]
  \cup [type : {"var"}, expr : Simple, silent : BOOLEAN, printable : BOOLEAN]
  \cup [type : {"add"}, val : Scalar]
  \cup [type : {"macro"}, name : MacroName, def : Macro]
  \cup [type : {"call"}, name : MacroName, vals : Seq(Expr)]
  \cup [type : {"foreach"}, var : Name, iter : Expr, items : List, else : List \cup {None}]
  \cup [type : {"include"}, name : Expr, readable : BOOLEAN]
  \cup [type : {"parse"}, name : Expr, file : List \cup {None}]

ASSUME ConstantsAssumption ==
  /\ Foreach \in Name
  /\ Main \in List /\ None \notin List
  /\ TrueScalar \subseteq Scalar
  /\ Trees \subseteq [List -> Seq(Node)]
  /\ Bindings \subseteq Contexts(Literal)
  /\ Contents \subseteq Seq(Scalar)
  /\ Library \in [MacroName -> Macro \cup {None}]
  /\ MaxCallDepth \in Limit /\ MaxIterations \in Limit
  /\ DefaultMaxCallDepth \in Limit
  /\ MaxItems \in Nat /\ MaxRuns \in Nat
-----------------------------------------------------------------------------
VARIABLES
  tree,     \* Template.tree and the lists nested in it
  phase,    \* "run": the top frame runs, "unwind": it returns ret, "done"
  ret,      \* the pair the top frame returns, at the end the one of Execute
  stack,    \* the calls of _execute in progress
  held,     \* the slots still to be popped, in the order they were pushed
  ctx,      \* the context all frames share
  macros,   \* Template.macros of the template and of those #parse runs
  coll,     \* the contents of Coll
  out,      \* the number of writes to w so far
  issued,   \* history: "undefined" after such an error
  runs      \* the calls of Execute so far

vars == <<tree, phase, ret, stack, held, ctx, macros, coll, out, issued, runs>>

Slot == [name : Name, idx : Nat \ {0}]

(***************************************************************************)
(* A call of _execute: t is the template it is called on, 1 for the one of *)
(* Execute; list is its argument and pc the node it is at; depth is        *)
(* ctx.callDepth, which it has of its own.  It owns the slots of held      *)
(* above mark.  args counts the macro arguments bound so far.  loop,  *)
(* i and v belong to the #foreach at pc: whether the loop goes on or is at *)
(* its end, f.i and the element.  entry, a history, is the context at the  *)
(* call.                                                                   *)
(***************************************************************************)
Frame == [t : Nat \ {0}, list : List, pc : Nat \ {0}, depth : Nat, mark : Nat, args : Nat,
          loop : {"no", "next", "end"}, i : Nat, v : Value,
          entry : Contexts(Value)]

NewFrame(t, list, depth, mark, entry) ==
  [t |-> t, list |-> list, pc |-> 1, depth |-> depth, mark |-> mark, args |-> 0,
   loop |-> "no", i |-> 0, v |-> Nil, entry |-> entry]

Top       == Last(stack)
NodeAt(f) == tree[f.list][f.pc]
Current   == NodeAt(Top)

AtNode(type) ==
  phase = "run" /\ Top.pc <= Len(tree[Top.list]) /\ Current.type = type
-----------------------------------------------------------------------------
(* Evaluation *)

SimpleErr(e) == CASE e.op = "lit" -> "ok"
                  [] e.op = "ref" -> IF IsDefined(ctx, e.name) THEN "ok" ELSE "undefined"
                  [] e.op = "err" -> e.err

SimpleVal(e) == CASE e.op = "lit" -> e.val
                  [] e.op = "ref" -> IF IsDefined(ctx, e.name) THEN Get(ctx, e.name) ELSE Nil
                  [] e.op = "err" -> Nil

(* A reference that has no value, or one vtlPrint gives an error for: a     *)
(* cycle, or a list or range that is too long.                              *)
Unreadable(r)  == SimpleErr(r.expr) # "ok" /\ ~(r.silent /\ SimpleErr(r.expr) = "nil")
Unprintable(r) == SimpleVal(r.expr) # Nil /\ ~ r.printable

(* The parts of a string are run by _execute, whose stop eval throws away;  *)
(* t.error has wrapped the error, so no caller takes it for undefined or    *)
(* nil any more.                                                            *)
ErrOf(e) == IF e.op # "string" THEN SimpleErr(e)
            ELSE IF \E k \in DOMAIN e.parts : Unreadable(e.parts[k]) \/ Unprintable(e.parts[k])
            THEN "other" ELSE "ok"

ValOf(e) == IF e.op # "string" THEN SimpleVal(e)
            ELSE IF ErrOf(e) = "ok" THEN e.val ELSE Nil

IsTrue(v) == \/ v \in TrueScalar
             \/ v = Coll /\ coll # <<>>
             \/ v \in Loop

Exceeds(n, limit) == limit >= 0 /\ n > limit

CallLimit(t)      == IF t = 1 THEN MaxCallDepth ELSE DefaultMaxCallDepth
IterationLimit(t) == IF t = 1 THEN MaxIterations ELSE DefaultMaxIterations

SlotOf(c, n) == [name |-> n, idx |-> NewSlot(c, n)]

(* The slots held without those of the loop that pushed last. *)
WithoutLoop(h) == Front(Front(h))
-----------------------------------------------------------------------------
(* Control *)

Return(stop, err) ==
  /\ phase' = "unwind"
  /\ ret' = [stop |-> stop, err |-> err]
  /\ issued' = issued \cup (IF err = "undefined" THEN {"undefined"} ELSE {})

Fail(stop, err) == Return(stop, err) /\ UNCHANGED stack

ReplaceTop(s, f) == [s EXCEPT ![Len(s)] = f]

Advanced(f) ==
  [NewFrame(f.t, f.list, f.depth, f.mark, f.entry) EXCEPT !.pc = f.pc + 1]

Continue == /\ stack' = ReplaceTop(stack, Advanced(Top))
            /\ UNCHANGED <<phase, ret, issued>>

Write == out' = out + 1

(* A nested call of _execute: its first act is to check its depth. *)
EnterFrom(below, f) ==
  /\ stack' = Append(below, f)
  /\ IF Exceeds(f.depth, CallLimit(f.t))
     THEN Return(TRUE, "depth")
     ELSE phase' = "run" /\ UNCHANGED <<ret, issued>>

Enter(t, list, depth) == EnterFrom(stack, NewFrame(t, list, depth, Len(held), ctx))
-----------------------------------------------------------------------------
(* The nodes that run no nested list *)

Text == /\ AtNode("text")
        /\ Continue /\ Write
        /\ UNCHANGED <<tree, held, ctx, macros, coll, runs>>

SetVar ==
  /\ AtNode("set")
  /\ LET err == ErrOf(Current.expr) IN
     IF err \in {"ok", "nil"}
     THEN /\ Continue
          /\ ctx' = Push(ctx, Current.var, ValOf(Current.expr))
          /\ held' = Append(held, SlotOf(ctx, Current.var))
     ELSE Fail(FALSE, err) /\ UNCHANGED <<ctx, held>>
  /\ UNCHANGED <<tree, macros, coll, out, runs>>

SetProperty ==
  /\ AtNode("setprop")
  /\ LET err    == ErrOf(Current.expr)
         target == SimpleErr(Current.target) IN
     CASE err \notin {"ok", "nil"} -> Fail(FALSE, err)
       [] ValOf(Current.expr) # Nil /\ target # "ok" -> Fail(FALSE, target)
       [] OTHER -> Continue
  /\ UNCHANGED <<tree, held, ctx, macros, coll, out, runs>>

Var ==
  /\ AtNode("var")
  /\ CASE Unreadable(Current) ->
            Fail(FALSE, SimpleErr(Current.expr)) /\ UNCHANGED out
       [] Unprintable(Current) -> Fail(TRUE, "other") /\ UNCHANGED out
       [] SimpleVal(Current.expr) # Nil /\ Current.printable -> Continue /\ Write
       [] OTHER -> Continue /\ UNCHANGED out
  /\ UNCHANGED <<tree, held, ctx, macros, coll, runs>>

(* Method calls that change the collection a loop may be iterating. *)
Add ==
  /\ AtNode("add") /\ Len(coll) < MaxItems
  /\ coll' = Append(coll, Current.val)
  /\ Continue /\ Write
  /\ UNCHANGED <<tree, held, ctx, macros, runs>>

Clear ==
  /\ AtNode("clear")
  /\ coll' = <<>>
  /\ Continue
  /\ UNCHANGED <<tree, held, ctx, macros, out, runs>>

(* Mutant: the last definition wins. *)
DefineAgain ==
  /\ AtNode("macro")
  /\ macros' = [macros EXCEPT ![Top.t][Current.name] = Current.def]
  /\ Continue
  /\ UNCHANGED <<tree, held, ctx, coll, out, runs>>

Define ==
  /\ AtNode("macro")
  /\ macros' = IF macros[Top.t][Current.name] = None
               THEN [macros EXCEPT ![Top.t][Current.name] = Current.def]
               ELSE macros
  /\ Continue
  /\ UNCHANGED <<tree, held, ctx, coll, out, runs>>

Include ==
  /\ AtNode("include")
  /\ LET err == ErrOf(Current.name) IN
     CASE err # "ok" -> Fail(TRUE, err) /\ UNCHANGED out
       [] err = "ok" /\ ValOf(Current.name) \notin Scalar ->
            Fail(FALSE, "other") /\ UNCHANGED out
       [] err = "ok" /\ ValOf(Current.name) \in Scalar /\ ~ Current.readable ->
            Fail(TRUE, "other") /\ UNCHANGED out
       [] OTHER -> Continue /\ Write
  /\ UNCHANGED <<tree, held, ctx, macros, coll, runs>>

Eval == /\ AtNode("eval")
        /\ Fail(TRUE, "other")
        /\ UNCHANGED <<tree, held, ctx, macros, coll, out, runs>>

Break == /\ AtNode("break")
         /\ Fail(FALSE, "ok")
         /\ UNCHANGED <<tree, held, ctx, macros, coll, out, runs>>

Stop == /\ AtNode("stop")
        /\ Fail(TRUE, "ok")
        /\ UNCHANGED <<tree, held, ctx, macros, coll, out, runs>>

EndOfList ==
  /\ phase = "run" /\ Top.pc > Len(tree[Top.list])
  /\ Fail(FALSE, "ok")
  /\ UNCHANGED <<tree, held, ctx, macros, coll, out, runs>>
-----------------------------------------------------------------------------
(* #if *)

If ==
  /\ AtNode("if")
  /\ LET cond == Current.cond
         err  == IF cond = None THEN "ok" ELSE ErrOf(cond)
         holds == cond = None \/ IsTrue(ValOf(cond)) IN
     CASE err \notin {"ok", "undefined", "nil"} -> Fail(TRUE, err)
       [] err \in {"ok", "undefined", "nil"} /\ holds ->
            Enter(Top.t, Current.items, Top.depth)
       [] err \in {"ok", "undefined", "nil"} /\ ~ holds /\ Current.else # None ->
            Enter(Top.t, Current.else, Top.depth)
       [] OTHER -> Continue
  /\ UNCHANGED <<tree, held, ctx, macros, coll, out, runs>>
-----------------------------------------------------------------------------
(* Macro calls *)

Called == macros[Top.t][Current.name]

CallUnknown ==
  /\ AtNode("call")
  /\ \/ Called = None
     \/ Called # None /\ Len(Current.vals) < Len(Called.params)
  /\ Fail(FALSE, "other")
  /\ UNCHANGED <<tree, held, ctx, macros, coll, out, runs>>

MayBind == /\ AtNode("call")
           /\ Called # None
           /\ Len(Called.params) <= Len(Current.vals)

(* Binds one argument: the next one is evaluated in a context that has it. *)
BindArg ==
  /\ MayBind /\ Top.args < Len(Called.params)
  /\ LET n   == Called.params[Top.args + 1]
         e   == Current.vals[Top.args + 1] IN
     IF ErrOf(e) # "ok"
     THEN Fail(TRUE, ErrOf(e)) /\ UNCHANGED <<held, ctx>>
     ELSE /\ ctx' = Push(ctx, n, ValOf(e))
          /\ held' = Append(held, SlotOf(ctx, n))
          /\ stack' = ReplaceTop(stack, [Top EXCEPT !.args = @ + 1])
          /\ UNCHANGED <<phase, ret, issued>>
  /\ UNCHANGED <<tree, macros, coll, out, runs>>

(* Mutant: callDepth is not counted up. *)
CallFlat ==
  /\ MayBind /\ Top.args >= Len(Called.params)
  /\ Enter(Top.t, Called.items, Top.depth)
  /\ UNCHANGED <<tree, held, ctx, macros, coll, out, runs>>

Call ==
  /\ MayBind /\ Top.args >= Len(Called.params)
  /\ Enter(Top.t, Called.items, Top.depth + 1)
  /\ UNCHANGED <<tree, held, ctx, macros, coll, out, runs>>
-----------------------------------------------------------------------------
(* #foreach.  A loop that ends in an error leaves its two slots behind. *)

ForeachStart ==
  /\ AtNode("foreach") /\ Top.loop = "no"
  /\ LET err  == ErrOf(Current.iter)
         iter == ValOf(Current.iter)
         outer  == Push(ctx, Foreach, Len(stack))
         pushed == Push(outer, Current.var, Nil) IN
     CASE err # "ok" -> Fail(TRUE, err) /\ UNCHANGED <<held, ctx>>
       [] err = "ok" /\ iter = Nil -> Continue /\ UNCHANGED <<held, ctx>>
       [] err = "ok" /\ iter \notin {Nil, Coll} ->
            Fail(TRUE, "other") /\ ctx' = pushed /\ UNCHANGED held
       [] OTHER ->
            /\ ctx' = pushed
            /\ held' = Append(Append(held, SlotOf(ctx, Foreach)),
                              SlotOf(outer, Current.var))
            /\ stack' = ReplaceTop(stack, [Top EXCEPT !.loop = "next"])
            /\ UNCHANGED <<phase, ret, issued>>
  /\ UNCHANGED <<tree, macros, coll, out, runs>>

InLoop(state) == AtNode("foreach") /\ Top.loop = state

HasNext == Top.i < Len(coll)

(* Mutant: the iterator does not move. *)
LoopNextStuck ==
  /\ InLoop("next") /\ HasNext
  /\ ctx' = Set(ctx, Last(held).idx, Current.var, coll[Top.i + 1])
  /\ EnterFrom(stack, NewFrame(Top.t, Current.items, Top.depth, Len(held), ctx'))
  /\ UNCHANGED <<tree, held, macros, coll, out, runs>>

LoopNext ==
  /\ InLoop("next") /\ HasNext
  /\ LET i   == Top.i + 1
         set == Set(ctx, Last(held).idx, Current.var, coll[i]) IN
     IF Exceeds(i, IterationLimit(Top.t))
     THEN /\ Return(TRUE, "iterations")
          /\ stack' = ReplaceTop(stack, [Top EXCEPT !.loop = "no"])
          /\ held' = WithoutLoop(held)
          /\ UNCHANGED ctx
     ELSE /\ ctx' = set
          /\ EnterFrom(ReplaceTop(stack, [Top EXCEPT !.i = i, !.v = coll[i]]),
                       NewFrame(Top.t, Current.items, Top.depth, Len(held), set))
          /\ UNCHANGED held
  /\ UNCHANGED <<tree, macros, coll, out, runs>>

LoopElse ==
  /\ InLoop("next") /\ ~ HasNext
  /\ Top.i = 0 /\ Current.else # None
  /\ EnterFrom(ReplaceTop(stack, [Top EXCEPT !.loop = "end"]),
               NewFrame(Top.t, Current.else, Top.depth, Len(held), ctx))
  /\ UNCHANGED <<tree, held, ctx, macros, coll, out, runs>>

(* Mutant: $foreach is left behind. *)
LoopEndHalf ==
  /\ \/ InLoop("next") /\ ~ HasNext /\ ~(Top.i = 0 /\ Current.else # None)
     \/ InLoop("end")
  /\ ctx' = Pop(ctx, Last(held).idx, Last(held).name)
  /\ held' = WithoutLoop(held)
  /\ Continue
  /\ UNCHANGED <<tree, macros, coll, out, runs>>

LoopEnd ==
  /\ \/ InLoop("next") /\ ~ HasNext /\ ~(Top.i = 0 /\ Current.else # None)
     \/ InLoop("end")
  /\ LET var == Last(held)
         fe  == Last(Front(held)) IN
     ctx' = Pop(Pop(ctx, var.idx, var.name), fe.idx, fe.name)
  /\ held' = WithoutLoop(held)
  /\ Continue
  /\ UNCHANGED <<tree, macros, coll, out, runs>>
-----------------------------------------------------------------------------
(* #parse: a template of its own, with the macros of the library and the   *)
(* default limits, rendered in the same context.                           *)

Parse ==
  /\ AtNode("parse")
  /\ LET err == ErrOf(Current.name) IN
     CASE err # "ok" -> Fail(TRUE, err) /\ UNCHANGED macros
       [] err = "ok" /\ Current.file = None -> Fail(TRUE, "other") /\ UNCHANGED macros
       [] OTHER ->
            /\ macros' = Append(macros, Library)
            /\ Enter(Top.t + 1, Current.file, Top.depth + 1)
  /\ UNCHANGED <<tree, held, ctx, coll, out, runs>>
-----------------------------------------------------------------------------
(* Returns.  The deferred pops run first, the last one deferred first. *)

(* Mutant: the first deferred pop runs first. *)
RunDeferFirst ==
  /\ phase = "unwind" /\ Len(held) > Top.mark
  /\ LET slot == held[Top.mark + 1] IN ctx' = Pop(ctx, slot.idx, slot.name)
  /\ held' = RemoveAt(held, Top.mark + 1)
  /\ UNCHANGED <<tree, phase, ret, stack, macros, coll, out, issued, runs>>

RunDefer ==
  /\ phase = "unwind" /\ Len(held) > Top.mark
  /\ ctx' = Pop(ctx, Last(held).idx, Last(held).name)
  /\ held' = Front(held)
  /\ UNCHANGED <<tree, phase, ret, stack, macros, coll, out, issued, runs>>

Caller == stack[Len(stack) - 1]

Returned(type) == /\ phase = "unwind" /\ Len(held) = Top.mark
                  /\ Len(stack) > 1 /\ NodeAt(Caller).type = type

PassOn(stop, err) ==
  /\ ret' = [stop |-> stop, err |-> err]
  /\ stack' = Front(stack)
  /\ UNCHANGED phase

Resume(f) ==
  /\ phase' = "run"
  /\ stack' = ReplaceTop(Front(stack), f)
  /\ UNCHANGED ret

ReturnToIf ==
  /\ Returned("if")
  /\ IF ret.stop THEN PassOn(TRUE, ret.err) ELSE Resume(Advanced(Caller))
  /\ UNCHANGED <<tree, held, ctx, macros, coll, out, issued, runs>>

(* Mutant: an error in a macro is passed on as one that #if drops. *)
ReturnToCallMild ==
  /\ Returned("call")
  /\ CASE ret.err # "ok" -> PassOn(FALSE, ret.err)
       [] ret.err = "ok" /\ ret.stop -> PassOn(FALSE, "ok")
       [] OTHER -> Resume(Advanced(Caller))
  /\ UNCHANGED <<tree, held, ctx, macros, coll, out, issued, runs>>

ReturnToCall ==
  /\ Returned("call")
  /\ CASE ret.err # "ok" -> PassOn(TRUE, ret.err)
       [] ret.err = "ok" /\ ret.stop -> PassOn(FALSE, "ok")
       [] OTHER -> Resume(Advanced(Caller))
  /\ UNCHANGED <<tree, held, ctx, macros, coll, out, issued, runs>>

ReturnToLoop ==
  /\ Returned("foreach")
  /\ IF ret.err # "ok"
     THEN /\ ret' = [stop |-> TRUE, err |-> ret.err]
          /\ stack' = ReplaceTop(Front(stack), [Caller EXCEPT !.loop = "no"])
          /\ held' = WithoutLoop(held)
          /\ UNCHANGED phase
     ELSE Resume(Caller) /\ UNCHANGED held
  /\ UNCHANGED <<tree, ctx, macros, coll, out, issued, runs>>

ReturnToParse ==
  /\ Returned("parse")
  /\ IF ret.stop THEN PassOn(TRUE, ret.err) ELSE Resume(Advanced(Caller))
  /\ macros' = Front(macros)
  /\ UNCHANGED <<tree, held, ctx, coll, out, issued, runs>>

ReturnToExecute ==
  /\ phase = "unwind" /\ Len(held) = Top.mark /\ Len(stack) = 1
  /\ phase' = "done"
  /\ UNCHANGED <<tree, ret, stack, held, ctx, macros, coll, out, issued, runs>>
-----------------------------------------------------------------------------
(* Execute: a fresh context; the macros are those of the Template. *)

Execute ==
  /\ phase = "done" /\ runs < MaxRuns
  /\ runs' = runs + 1
  /\ \E c \in Bindings, s \in Contents :
       /\ ctx' = c /\ coll' = s
       /\ stack' = <<NewFrame(1, Main, 0, 0, c)>>
  /\ phase' = "run"
  /\ ret' = [stop |-> FALSE, err |-> "ok"]
  /\ held' = <<>> /\ out' = 0 /\ issued' = {}
  /\ UNCHANGED <<tree, macros>>

(* Execute will not be called again, or the bound on Coll is reached. *)
Finished == /\ \/ phase = "done" /\ runs = MaxRuns
               \/ AtNode("add") /\ Len(coll) >= MaxItems
            /\ UNCHANGED vars

Init ==
  /\ tree \in Trees
  /\ phase = "done" /\ ret = [stop |-> FALSE, err |-> "ok"]
  /\ stack = <<>> /\ held = <<>>
  /\ ctx = [n \in Name |-> <<>>]
  /\ macros = <<Library>>
  /\ coll = <<>> /\ out = 0 /\ issued = {} /\ runs = 0

Step == \/ Text \/ SetVar \/ SetProperty \/ Var \/ Add \/ Clear
        \/ Define \/ Include \/ Eval \/ Break \/ Stop \/ EndOfList
        \/ If \/ CallUnknown \/ BindArg \/ Call
        \/ ForeachStart \/ LoopNext \/ LoopElse \/ LoopEnd \/ Parse
        \/ RunDefer \/ ReturnToIf \/ ReturnToCall \/ ReturnToLoop
        \/ ReturnToParse \/ ReturnToExecute

Next == Step \/ Execute \/ Finished

Spec == Init /\ [][Next]_vars

(* A rendering that was started runs on until it returns. *)
FairSpec == Spec /\ WF_vars(Step)
-----------------------------------------------------------------------------
(* Properties *)

(* Every variable has its type. *)
TypeOK ==
  /\ tree \in [List -> Seq(Node)]
  /\ phase \in {"run", "unwind", "done"}
  /\ ret \in [stop : BOOLEAN, err : Err]
  /\ stack \in Seq(Frame) /\ (phase # "done" => stack # <<>>)
  /\ held \in Seq(Slot)
  /\ ctx \in Contexts(Value)
  /\ macros \in Seq([MacroName -> Macro \cup {None}]) /\ macros # <<>>
  /\ coll \in Seq(Scalar)
  /\ out \in Nat /\ issued \subseteq {"undefined"} /\ runs \in 0..MaxRuns

(* The pair of an error that ends the rendering. *)
Fatal == phase # "run" /\ ret.stop /\ ret.err # "ok"

(* Where the slots of frame k end: the next frame's begin there. *)
HeldEnd(k) == IF k = Len(stack) THEN Len(held) ELSE stack[k + 1].mark

(* Ctx.Pop slices without a check and Ctx.Set drops a value silently: every *)
(* slot a list or a loop still has to pop or set exists, also while lists   *)
(* return after a loop ended in an error and left its values behind.        *)
SlotsInBounds ==
  \A j \in DOMAIN held : held[j].idx <= Len(ctx[held[j].name])

(* A list that returns, by its end, #stop, #break or a recoverable error,   *)
(* leaves the context exactly as its caller had it: no variable, argument,  *)
(* loop variable or $foreach outlives the list, none is lost.               *)
ScopeRestored ==
  phase = "unwind" /\ ~ Fatal /\ Len(held) = Top.mark => ctx = Top.entry

(* However lists below it set, shadow and unwind variables, a running loop  *)
(* finds in its two slots its own *foreach and the element it put there.    *)
LoopVariables ==
  phase # "done" =>
    \A k \in DOMAIN stack :
      stack[k].loop # "no" =>
        LET end == HeldEnd(k) IN
        /\ ctx[Foreach][held[end - 1].idx] = k
        /\ ctx[NodeAt(stack[k]).var][held[end].idx] = stack[k].v

(* The context with its slots implements block-structured scoping: the      *)
(* bindings are the values in the slots held, the blocks the lists that run. *)
Shown(c) == [n \in Name |-> IF IsDefined(c, n) THEN Get(c, n) ELSE None]

Scopes == INSTANCE Scoping WITH
  Undefined <- None,
  globals   <- IF stack = <<>> THEN [n \in Name |-> None] ELSE Shown(stack[1].entry),
  env       <- [j \in DOMAIN held |->
                  [name |-> held[j].name, val |-> ctx[held[j].name][held[j].idx]]],
  blocks    <- [k \in DOMAIN stack |-> stack[k].mark],
  view      <- Shown(ctx),
  failed    <- Fatal

IsScoped == Scopes!Spec

(* Each frame's callDepth counts the macro calls and #parse below it, and   *)
(* only a frame that is returning is beyond the limit of its template, so a *)
(* recursive macro or template cannot run away.                             *)
DepthBounded ==
  phase # "done" =>
    /\ \A k \in 1..(Len(stack) - 1) :
         stack[k + 1].depth = stack[k].depth
            + (IF NodeAt(stack[k]).type \in {"call", "parse"} THEN 1 ELSE 0)
    /\ \A k \in DOMAIN stack :
         (k < Len(stack) \/ phase = "run") =>
           ~ Exceeds(stack[k].depth, CallLimit(stack[k].t))

(* The pair (true, err) of a list of a template, a macro, a loop, an #if or *)
(* a #parse reaches the caller of Execute as it is, through whatever lists  *)
(* are in progress, and nothing is written after it.  The parts of a string *)
(* are no such list: eval keeps the error of a cycle or of a size in one    *)
(* and drops its stop, so that #if and #parse may drop the error too and    *)
(* the rendering goes on.                                                   *)
FatalIsFinal ==
  [][Fatal /\ phase = "unwind" => Fatal' /\ ret' = ret /\ out' = out]_vars

(* The first definition of a macro stays, over redefinitions, nested        *)
(* templates and further calls of Execute; the library's are the first.     *)
FirstMacroWins ==
  [][\A k \in DOMAIN macros \cap DOMAIN macros', m \in MacroName :
       macros[k][m] # None => macros'[k][m] = macros[k][m]]_vars

(* A loop without a limit that feeds itself: it is past the one that        *)
(* WithMaxIterations gave, and Coll has grown to its bound.                 *)
Endless ==
  /\ Len(coll) >= MaxItems
  /\ \E k \in DOMAIN stack : /\ stack[k].loop = "next"
                             /\ IterationLimit(stack[k].t) = -1
                             /\ Exceeds(stack[k].i, MaxIterations)

(* With both limits set a call of Execute returns, whatever recursion the   *)
(* macros have and though loops extend what they iterate over, unless a     *)
(* loop in a template read by #parse, to which WithMaxIterations does not   *)
(* apply, feeds itself for ever.                                            *)
Termination == phase = "run" ~> (phase = "done" \/ Endless)

(* An undefined variable triggers a run-time error (README.md, item 2).     *)
UndefinedIsReported ==
  phase = "done" /\ "undefined" \in issued => ret.err # "ok"
=============================================================================
