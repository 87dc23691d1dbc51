------------------------------ MODULE MCVtlWalk -----------------------------
(* Templates with every directive.                                         *)
EXTENDS MCVtlExecute

(* Sets, arguments and loops over one variable, in lists within lists; and *)
(* every way a list can end, under every directive that runs a list.       *)
WalkTrees ==
  LET sets  == {SetN(LitE(F)), VarN(RefE("x")), BreakN}
      inner == sets \cup {ForN("x", LitE(Coll), "b", None),
                          IfN(RefE("x"), "b", None), CallN(<<RefE("x")>>)}
      outer == {SetN(LitE(F)), SetN(ErrE("nil")), SetN(RefE("x")),
                ForN("x", LitE(Coll), "a", "b"), ForN("foreach", LitE(Coll), "a", None),
                ForN("x", RefE("x"), "a", None),
                IfN(RefE("x"), "a", None), CallN(<<RefE("x")>>), ParseN("a")}
      leaf == {TextN, StopN, BreakN, EvalN, VarN(RefE("x")), ClearN, CallN(<<>>),
               VarN(LitE(Nil)), [VarN(ErrE("nil")) EXCEPT !.silent = TRUE],
               [VarN(LitE(T)) EXCEPT !.printable = FALSE],
               IncludeN(LitE(T), TRUE), IncludeN(LitE(T), FALSE),
               IncludeN(LitE(Nil), TRUE), IncludeN(ErrE("other"), TRUE),
               SetPropN(LitE(T), LitE(T)), SetPropN(RefE("x"), LitE(T)),
               SetPropN(ErrE("nil"), ErrE("nil")), SetPropN(LitE(T), ErrE("other")),
               ParseN(None), SetN(ErrE("other")), SetN(StrE(LitE(T), FALSE)),
               SetN(StrE(RefE("x"), TRUE)),
               IfN(StrE(LitE(T), FALSE), "b", None)}
      main == {IfN(LitE(T), "a", None), IfN(LitE(F), "b", "a"), IfN(None, "a", None),
               IfN(LitE(F), "a", None), IfN(ErrE("other"), "a", None),
               IfN(ErrE("nil"), "b", "a"), MacroN(<<>>, "a"), MacroN(<<"x">>, "a"),
               CallN(<<>>), CallN(<<ErrE("nil")>>), ParseN("file"),
               [ParseN("file") EXCEPT !.name = ErrE("nil")],
               ForN("x", LitE(Coll), "a", None), ForN("x", LitE(Coll), "b", "a"),
               ForN("x", LitE(Nil), "a", None), ForN("x", ErrE("other"), "a", None),
               [CallN(<<LitE(F)>>) EXCEPT !.name = q],
               [MacroN(<<>>, "file") EXCEPT !.name = q], TextN}
      files == {<<MacroN(<<>>, "a"), CallN(<<>>)>>, <<IfN(RefE("x"), "b", "a")>>}
  IN TreesOf(<<MacroN(<<"x">>, "b")>>, outer, 2, inner, 2, sets, 1, {<<>>})
       \cup TreesOf(<<>>, main, 1, leaf, 2, {}, 0, files)
       \cup TreesOf(<<>>, main, 2, leaf, 1, {}, 0, files)
=============================================================================
