----------------------------- MODULE MCVtlLimits ----------------------------
(* Templates that call themselves and loops that feed themselves.          *)
EXTENDS MCVtlExecute

(* Macros that call themselves, once or twice, from lists and from loops,  *)
(* a template that parses itself, and loops that feed themselves.          *)
LimitTrees ==
  LET grow == ForN("x", LitE(Coll), "b", None)
      as   == {CallN(<<>>), ParseN("file"), grow, TextN, AddN}
      main == {CallN(<<>>), ParseN("file"), grow}
  IN TreesOf(<<MacroN(<<>>, "a")>>, main, 2, as, 2, {AddN, ClearN, CallN(<<>>)}, 1,
             {<<ParseN("file")>>, <<IfN(LitE(T), "a", None), ParseN("main")>>})
=============================================================================
