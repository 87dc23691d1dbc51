---------------------------- MODULE VtlReference ----------------------------
(***************************************************************************)
(* References to a member of an object of the host: how a template reads,  *)
(* calls and sets it by reflection (evalStep, setVar, property and call of *)
(* execute.go).  The member is called foo in the template, "foo" is also   *)
(* the only index; a longer reference takes such a step after another.     *)
(*                                                                         *)
(* The object's type has a shape, may have an exported field Foo, and has  *)
(* methods, each with the types of its parameters, variadic or not, a type *)
(* it returns, and an error it may return too.  The host's methods may     *)
(* keep what they are given in that field or in a place of their own:      *)
(* "wraps" names those that keep it in the field.                          *)
(***************************************************************************)
EXTENDS SequencesExt

CONSTANTS
  Types,    \* the types of objects: [shape, field, methods, wraps]
  MaxArgs,  \* arguments in a call
  Absent

VARIABLES
  obj,      \* the type of the object
  store,    \* what the host keeps: in the field, behind the accessors, and
            \* for a key of each type a string can have
  step,     \* the last access
  outcome,  \* and what came of it
  wrote     \* history: the last value that was set, and in which notation

refVars == <<obj, store, step, outcome, wrote>>

(* Only a struct has fields, a variadic method has a last parameter, and a *)
(* method that writes a field is one of a pointer to the struct.           *)
MethodType == [in : Seq(STRING), variadic : BOOLEAN, out : STRING, fails : BOOLEAN]
ASSUME TypesAssumption ==
  /\ Absent \notin {"field", "accessor", "entry"}
  /\ \A t \in Types :
       /\ t.shape \in {"nil", "pointer", "value", "pointers", "other"}
       /\ t.field \in STRING \cup {Absent}
       /\ t.wraps \subseteq {"accessor", "entry"}
       /\ t.wraps # {} => t.shape = "pointer" /\ t.field # Absent
       /\ \A m \in DOMAIN t.methods :
            /\ t.methods[m] \in MethodType
            /\ t.methods[m].variadic => t.methods[m].in # <<>>

(* reflect.Value: a dynamic type and what it holds.                        *)
Of(t, v) == [type |-> t, v |-> v]
Invalid  == Of("none", "")
NilPtr   == Of("pointer", "nil")
Old      == Of("string", "old")
Arg      == {Of("Str", "x"), Of("int64", "1"), Of("bool", "true")}
ArgLists == UNION {[1 .. n -> Arg \cup {Invalid}] : n \in 0 .. MaxArgs}
Name     == Of("string", "foo")    \* of a property
Key      == Of("Str", "foo")       \* an index

Assignable(v, t)  == t \in {"any", v.type}
Convertible(v, t) == v # Invalid /\ (Assignable(v, t) \/ (t = "string" /\ v.type \in {"Str", "int64"}))

(* Go makes of an integer the character with this code.                    *)
Converted(v, t) ==
  IF Assignable(v, t) THEN v ELSE Of(t, IF v.type = "int64" THEN "rune" ELSE v.v)

wrapTypes(v) == IF v.type = "string" THEN Of("Str", v.v) ELSE v

(* The object behind all pointers is a struct.                             *)
Struct     == obj.shape \in {"pointer", "value", "pointers"}
HasField   == Struct /\ obj.field # Absent
Has(m)     == m \in DOMAIN obj.methods
Method(m)  == obj.methods[m]

Fail       == [is |-> "error"]
Crash      == [is |-> "panic"]
Done       == [is |-> "done"]
Nothing    == [is |-> "nothing"]    \* no error, and an invalid Value
Got(v, t)  == [is |-> "value", v |-> v, as |-> t]

ReferenceInit ==
  /\ obj \in Types
  /\ store = [p \in {"field", "accessor", "string", "Str"} |-> Old]
  /\ step = "none" /\ outcome = Nothing /\ wrote = Absent
-----------------------------------------------------------------------------
(* A call comes to pairs of a result and what the host then keeps.         *)
Just(res) == {<<res, store>>}

(* The host's methods do what they are called: setters keep their last     *)
(* argument, for a key if they have one, or return an error and do not.    *)
Accessor    == IF "accessor" \in obj.wraps THEN "field" ELSE "accessor"
Entry(key)  == IF "entry" \in obj.wraps THEN "field" ELSE key
At(m, args) == IF m \in {"Put", "Set", "Get"} THEN Entry(args[1].type) ELSE Accessor

Reading(m, v) ==
  CASE Method(m).out = "none" -> Nothing
    [] Method(m).out = "pointer" -> Got(NilPtr, "pointer")
    [] OTHER -> Got(v, Method(m).out)

Host(m, args) ==
  (IF Method(m).fails THEN Just(Fail) ELSE {}) \cup
  (IF m \in {"SetFoo", "Put", "Set"}
   THEN {<<Reading(m, Old), [store EXCEPT ![At(m, args)] = Last(args)]>>}
   ELSE Just(Reading(m, store[At(m, args)])))

(* Every argument of a variadic method is looked at as one of the last     *)
(* parameter's; the parameter is named in the error by its own number.     *)
ArgType(m, i) == IF Method(m).variadic THEN Last(Method(m).in) ELSE Method(m).in[i]

\* Mutant: too few arguments are let through.
FitsAtMost(m, args) == Method(m).variadic \/ Len(args) <= Len(Method(m).in)

Fits(m, args) ==
  /\ Len(args) >= Len(Method(m).in)
  /\ Method(m).variadic \/ Len(args) = Len(Method(m).in)

Least(S) == CHOOSE i \in S : \A j \in S : i <= j

compatible(m, args) ==
  LET bad == {i \in DOMAIN args : ~Convertible(args[i], ArgType(m, i))}
      i   == Least(bad)
  IN IF ~Fits(m, args) THEN Fail
     ELSE IF bad = {} THEN Done
     ELSE IF args[i] # Invalid /\ i > Len(Method(m).in) THEN Crash ELSE Fail

(* reflect panics when it is not given what the method takes.              *)
reflectCall(m, args) ==
  LET in    == Method(m).in
      fixed == IF Method(m).variadic THEN 1 .. Len(in) - 1 ELSE DOMAIN in
      count == IF Method(m).variadic THEN Len(args) >= Len(in) - 1 ELSE Len(args) = Len(in)
  IN IF count /\ \A i \in fixed : Assignable(args[i], in[i])
     THEN Host(m, args) ELSE Just(Crash)

(* The methods tried for a name, and whether it stands for the field too.  *)
Candidates(meth) ==
  CASE meth = "foo" -> <<"Foo", "GetFoo", "IsFoo">>
    [] meth = "getFoo" -> <<"GetFoo", "IsFoo">>
    [] meth = "get" -> <<"Get">>
    [] OTHER -> <<meth>>
IsField(meth) == meth \in {"foo", "getFoo"}

call(meth, args) ==
  LET found == {i \in DOMAIN Candidates(meth) : Has(Candidates(meth)[i])}
      m     == Candidates(meth)[Least(found)]
      fits  == compatible(m, args)
  IN IF found # {}
     THEN IF fits # Done THEN Just(fits)
          ELSE reflectCall(m, [i \in DOMAIN args |-> Converted(args[i], ArgType(m, i))])
     ELSE IF ~Struct THEN Just(Fail)
     ELSE IF HasField /\ IsField(meth) THEN Just(Got(store["field"], obj.field))
     ELSE Just(Nothing)

(* A property is read from its getter, or from Get with its name.          *)
Getters == {g \in {"GetFoo", "IsFoo"} : Has(g) /\ Method(g).in = <<>>}
Getter  == IF "GetFoo" \in Getters THEN "GetFoo" ELSE "IsFoo"
Getable == Has("Get") /\ Len(Method("Get").in) = 1

\* Mutant: methods before fields.
propertyOfMethod ==
  IF Getters # {} THEN reflectCall(Getter, <<>>)
  ELSE IF Getable THEN call("Get", <<Name>>)
  ELSE IF HasField THEN Just(Got(store["field"], obj.field))
  ELSE Just(Fail)

property ==
  IF HasField THEN Just(Got(store["field"], obj.field))
  ELSE IF Getters # {} THEN reflectCall(Getter, <<>>)
  ELSE IF Getable THEN call("Get", <<Name>>)
  ELSE Just(Fail)
-----------------------------------------------------------------------------
(* A value assigned by a method: its result does not matter.               *)
Assigned(outs) == {<<IF o[1] \in {Fail, Crash} THEN o[1] ELSE Done, o[2]>> : o \in outs}

(* Only a field found through one pointer can be set.                      *)
SetField(val, read) ==
  IF read = Crash THEN Just(Crash)
  ELSE IF read.is # "value" \/ ~Struct \/ ~Convertible(val, read.as) THEN Just(Fail)
  ELSE IF obj.shape # "pointer" THEN Just(Crash)
  ELSE IF ~HasField THEN Just(Fail)
  ELSE {<<Done, [store EXCEPT !["field"] = Converted(val, obj.field)]>>}

SetFoo(val) ==
  IF obj.shape = "nil" THEN Just(Fail)
  ELSE IF Has("SetFoo") THEN Assigned(call("SetFoo", <<val>>))
  ELSE IF Has("Put") THEN Assigned(call("Put", <<Name, val>>))
  ELSE UNION {SetField(val, o[1]) : o \in property}

(* An element that a method returned cannot be set.                        *)
SetElement(read) == Just(IF read.is \in {"value", "panic"} THEN Crash ELSE Fail)

SetAt(key, val) ==
  IF obj.shape = "nil" THEN Just(Fail)
  ELSE IF Has("Set") THEN Assigned(call("Set", <<key, val>>))
  ELSE IF Has("Put") THEN Assigned(call("Put", <<key, val>>))
  ELSE UNION {SetElement(o[1]) : o \in call("get", <<key>>)}

(* What the template gets: its own types, and an error for a nil pointer.  *)
Seen(res) ==
  IF res.is # "value" THEN res
  ELSE IF res.v = NilPtr THEN [is |-> "nil"] ELSE [is |-> "value", v |-> wrapTypes(res.v)]

Access(how, outs) ==
  /\ step' = how /\ UNCHANGED obj
  /\ \E o \in outs : outcome' = Seen(o[1]) /\ store' = o[2]

Read == Access("read", property) /\ UNCHANGED wrote
Call(meth, args) == Access("call", call(meth, args)) /\ UNCHANGED wrote
Index(key) == Access("index", call("get", <<key>>)) /\ UNCHANGED wrote

Written(by, val) == wrote' = IF outcome' = Done THEN [by |-> by, v |-> val] ELSE wrote
SetProperty(val)   == Access("set", SetFoo(val)) /\ Written("read", val)
SetIndex(key, val) == Access("setIndex", SetAt(key, val)) /\ Written("index", val)
SetCall            == Access("setCall", Just(Fail)) /\ UNCHANGED wrote

ReferenceNext ==
  \/ Read \/ SetCall
  \/ \E meth \in {"foo", "getFoo"}, args \in ArgLists : Call(meth, args)
  \/ \E key \in {Key, Invalid} : Index(key) \/ \E val \in Arg : SetIndex(key, val)
  \/ \E val \in Arg : SetProperty(val)

ReferenceSpec == ReferenceInit /\ [][ReferenceNext]_refVars
-----------------------------------------------------------------------------
(* README.md:9 has every undefined method and property as an error.  An    *)
(* undefined property is one, whatever the object; an undefined method of  *)
(* a struct gives nothing and no error (execute.go:955).  And an access    *)
(* panics in three cases only: setting a field of a struct that is not     *)
(* behind exactly one pointer (359), setting an element of what has        *)
(* neither Set nor Put (382, what a method returned cannot be set), and    *)
(* calling a variadic method with more than one argument (1050-1064), Put  *)
(* and Set included.                                                       *)
AccessReported ==
  LET variadic == {m \in DOMAIN obj.methods : Method(m).variadic}
      gives    == \E m \in DOMAIN obj.methods : Method(m).out = "none"
  IN /\ step = "read" /\ ~HasField /\ Getters = {} /\ ~Getable => outcome = Fail
     /\ outcome = Nothing /\ step \in {"read", "call"} => gives \/ (step = "call" /\ Struct)
     /\ outcome = Crash =>
          \/ step = "set" /\ obj.shape \in {"value", "pointers"} /\ ~Has("SetFoo") /\ ~Has("Put")
          \/ step = "setIndex" /\ ~Has("Set") /\ ~Has("Put") /\ Has("Get")
          \/ step = "call" /\ variadic # {}
          \/ step = "set" /\ "Put" \in variadic
          \/ step = "setIndex" /\ variadic \cap {"Put", "Set"} # {}

(* Where a notation sets foo and where it reads it, as far as it succeeds, *)
(* and the type it is then converted to.                                   *)
SetPlace(by) ==
  CASE by = "read" /\ Has("SetFoo") -> Accessor
    [] by = "read" /\ ~Has("SetFoo") /\ ~Has("Put") -> "field"
    [] OTHER -> Entry("entry")
ReadPlace(how) ==
  CASE how = "read" /\ HasField -> "field"
    [] how = "read" /\ ~HasField /\ Getters # {} -> Accessor
    [] OTHER -> Entry("entry")
TypeOf(by) ==
  CASE by = "index" -> Last(Method(IF Has("Set") THEN "Set" ELSE "Put").in)
    [] by = "read" /\ Has("SetFoo") -> Last(Method("SetFoo").in)
    [] by = "read" /\ ~Has("SetFoo") /\ Has("Put") -> Last(Method("Put").in)
    [] OTHER -> obj.field

(* The name of a property and an index are the same key.                   *)
StringKeys ==
  \A m \in {"Put", "Set", "Get"} : Has(m) => Method(m).in # <<>> /\ Head(Method(m).in) = "string"

(* What a template set without an error it reads back wherever it looks    *)
(* for it in the place it was set in, in either notation where keys are    *)
(* strings (execute.go:312-391, 855-884): values that did not convert, or  *)
(* that a setter turned down, leave no trace, and what was set before does *)
(* not come back.  An integer set in a string's place comes back as a      *)
(* character.  But setVar looks for methods and then the field, property   *)
(* for the field and then methods: an exported field is all that is read,  *)
(* and where no notation sets it, because SetFoo, or else Put, takes the   *)
(* value and keeps it elsewhere, it reads for ever what the host put in    *)
(* it.  A SetFoo that writes the field, as in vtl_test.go:128, is well.    *)
SetIsRead ==
  /\ /\ outcome.is = "value" /\ wrote # Absent /\ step \in {"read", "index"}
     /\ SetPlace(wrote.by) = ReadPlace(step)
     /\ SetPlace(wrote.by) = "entry" => StringKeys \/ (wrote.by = "read" /\ step = "read")
     => outcome.v = wrapTypes(Converted(wrote.v, TypeOf(wrote.by)))
  /\ step = "read" /\ HasField /\ "field" \notin {SetPlace("read"), SetPlace("index")} =>
       outcome = [is |-> "value", v |-> wrapTypes(Old)]
=============================================================================
