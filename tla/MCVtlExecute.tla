---------------------------- MODULE MCVtlExecute ----------------------------
(* Values, directives and small trees over five lists of them, for TLC.    *)
EXTENDS VtlExecute

CONSTANTS T, F, m, q

MCName    == {"x", "foreach"}
MCList    == {"main", "a", "b", "file"}
MCScalar  == {T, F}
MCTrue    == {T}

NoLibrary == [n \in MacroName |-> None]
QLibrary  == [n \in MacroName |->
                IF n = q THEN [params |-> <<"x">>, items |-> "a"] ELSE None]

LitE(v)   == [op |-> "lit", val |-> v]
RefE(n)   == [op |-> "ref", name |-> n]
ErrE(e)   == [op |-> "err", err |-> e]
StrE(e, ok) == [op |-> "string", val |-> T,
                parts |-> <<[expr |-> e, silent |-> FALSE, printable |-> ok]>>]

SetN(e)          == [type |-> "set", var |-> "x", expr |-> e]
VarN(e)          == [type |-> "var", expr |-> e, silent |-> FALSE, printable |-> TRUE]
IfN(c, l, else)  == [type |-> "if", cond |-> c, items |-> l, else |-> else]
MacroN(ps, l)    == [type |-> "macro", name |-> m, def |-> [params |-> ps, items |-> l]]
CallN(es)        == [type |-> "call", name |-> m, vals |-> es]
ForN(n, e, l, else) ==
  [type |-> "foreach", var |-> n, iter |-> e, items |-> l, else |-> else]
StopN  == [type |-> "stop"]
BreakN == [type |-> "break"]
TextN  == [type |-> "text"]
EvalN  == [type |-> "eval"]
ClearN == [type |-> "clear"]
AddN   == [type |-> "add", val |-> F]
SetPropN(t, e) == [type |-> "setprop", target |-> t, expr |-> e]
IncludeN(e, ok) == [type |-> "include", name |-> e, readable |-> ok]
ParseN(l) == [type |-> "parse", name |-> LitE(T), file |-> l]

TreesOf(prefix, mains, i, as, j, bs, k, files) ==
  [main : {prefix \o main : main \in SeqOf(mains, i)},
   a : SeqOf(as, j), b : SeqOf(bs, k), file : files]

MCBindings == {[n \in MCName |-> IF n = "x" THEN v ELSE <<>>] : v \in {<<>>, <<T>>}}
MCContents == {<<>>, <<T, F>>}
=============================================================================
