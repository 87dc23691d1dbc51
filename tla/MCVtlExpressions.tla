-------------------------- MODULE MCVtlExpressions --------------------------
(* The expressions of a template: an operator on any two operands, or a    *)
(* reference to a member of an object of any type the host may have.       *)
EXTENDS VtlEval, VtlReference

\* Types of methods, and of objects that have them or not.
M(in, out, fails) == [in |-> in, variadic |-> FALSE, out |-> out, fails |-> fails]

V(in) == [in |-> in, variadic |-> TRUE, out |-> "any", fails |-> FALSE]

Setter(t) == M(<<t>>, "none", TRUE)
GetterOf(t) == M(<<>>, t, FALSE)
Putter    == M(<<"string", "any">>, "any", TRUE)
AtKey     == M(<<"string">>, "any", TRUE)

Some(c) == LET names == {m \in DOMAIN c : c[m] # Absent} IN [m \in names |-> c[m]]

(* Accessors and getters, beside entries or not.                           *)
Beans(t) ==
  [SetFoo : {Absent, Setter(t), M(<<>>, "none", FALSE)},
   GetFoo : {Absent, GetterOf(t), M(<<"any">>, t, FALSE), M(<<>>, "pointer", TRUE)},
   IsFoo : {Absent, GetterOf(t)},
   Put : {Absent, Putter}, Get : {Absent, AtKey}]

(* Entries with keys of both kinds, beside a setter or not.                *)
Maps ==
  [SetFoo : {Absent, Setter("string")},
   Put : {Absent, Putter, M(<<"any", "string">>, "none", FALSE), M(<<"string">>, "none", FALSE),
          V(<<"string">>)},
   Set : {Absent, M(<<"string", "string">>, "none", FALSE), M(<<"any", "any">>, "none", FALSE)},
   Get : {Absent, AtKey, M(<<"any">>, "any", FALSE), M(<<>>, "any", FALSE)}]

(* Methods with arguments of their own.                                    *)
Tools ==
  [Foo : {Absent, M(<<>>, "any", TRUE), M(<<"string">>, "none", FALSE), V(<<"any">>),
          V(<<"string">>), V(<<"string", "any">>), V(<<"any", "string">>)},
   GetFoo : {Absent, GetterOf("string")}]

(* Objects whose methods keep what they are given apart from a field, or   *)
(* in a field of the type they take.                                       *)
Objects(shapes, fields, methods, wraps) ==
  [shape : shapes, field : fields, methods : methods, wraps : wraps]

NoObject == [shape |-> "nil", field |-> Absent, methods |-> <<>>, wraps |-> {}]
Fields   == {Absent, "string", "any"}

MCTypes ==
  LET all == {Some(c) : c \in Beans("string") \cup Beans("any") \cup Maps \cup Tools}
  IN Objects({"pointer", "value"}, Fields, all, {{}})
       \cup Objects({"other"}, {Absent}, all, {{}})
       \cup Objects({"pointers"}, Fields, {<<>>}, {{}})
       \cup Objects({"pointer"}, {"string"}, {Some(c) : c \in Beans("string")}, {{"accessor"}})
       \cup Objects({"pointer"}, {"any"}, {Some(c) : c \in Beans("any")},
                    {{"accessor"}, {"entry"}, {"accessor", "entry"}})
       \cup Objects({"pointer"}, {"any"}, {Some(c) : c \in Maps}, {{"entry"}})
       \cup {NoObject}

NoOperator == /\ op = "not" /\ undefOk = FALSE /\ left = NoValue /\ right = NoValue
              /\ l = None /\ r = None /\ result = None
NoReference == obj = NoObject /\ step = "none"

ExpressionInit == (NoReference /\ ReferenceInit /\ Init) \/ (NoOperator /\ ReferenceInit)
ExpressionNext == \/ NoReference /\ Next /\ UNCHANGED refVars
                  \/ NoOperator /\ ReferenceNext /\ UNCHANGED vars
ExpressionSpec == ExpressionInit /\ [][ExpressionNext]_<<vars, refVars>>
=============================================================================
