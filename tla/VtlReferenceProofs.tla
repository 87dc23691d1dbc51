------------------------- MODULE VtlReferenceProofs -------------------------
(***************************************************************************)
(* What comes of reading, calling and setting a member of an object,       *)
(* proved for all types of objects: an undefined member is an error, an    *)
(* access panics in the cases AccessReported names and in no other, and    *)
(* what a template set it reads back.                                      *)
(*                                                                         *)
(* The last is not inductive: the host keeps what was set where it will be *)
(* looked for, whatever is accessed in between and in whichever notation   *)
(* (Kept).                                                                 *)
(***************************************************************************)
EXTENDS VtlReference, TLAPS, WellFoundedInduction

Members == {"field", "accessor", "string", "Str"}

TypeOK ==
  /\ obj \in Types
  /\ store = [p \in Members |-> store[p]]
  /\ wrote \in [by : {"read", "index"}, v : Arg] \cup {Absent}

(* A value set in a notation is found in the place the notation sets, for  *)
(* an entry under a string; and a field that none sets keeps its value.    *)
Doubtless(by) == by = "index" /\ SetPlace(by) = "entry" => StringKeys
KeptAt(by)    == IF SetPlace(by) = "entry" THEN "string" ELSE SetPlace(by)
FieldApart    == "field" \notin {SetPlace("read"), SetPlace("index")}

Kept ==
  /\ FieldApart => store["field"] = Old
  /\ wrote # Absent /\ Doubtless(wrote.by) =>
       store[KeptAt(wrote.by)] = Converted(wrote.v, TypeOf(wrote.by))

Inv == TypeOK /\ Kept /\ AccessReported /\ SetIsRead

(* What the lemmas need of the object and of what the host keeps.          *)
HostOK == obj \in Types /\ store = [p \in Members |-> store[p]]
-----------------------------------------------------------------------------
LEMMA LeastExists ==
  ASSUME NEW S \in SUBSET Nat, S # {}
  PROVE  Least(S) \in S /\ \A y \in S : Least(S) <= y
<1>1. \E x \in S : \A y \in S : ~(<<y, x>> \in OpToRel(<, Nat))
  BY WFMin, NatLessThanWellFounded
<1>2. PICK x \in S : \A y \in S : ~(<<y, x>> \in OpToRel(<, Nat))
  BY <1>1
<1>3. ASSUME NEW y \in S PROVE x <= y
  <2>1. ~(y < x)
    BY <1>2, <1>3 DEF OpToRel
  <2> QED BY <2>1
<1> QED BY <1>3 DEF Least

(* What a conversion gives can be assigned, and to a string it is one.     *)
LEMMA ConvertedIs ==
  ASSUME NEW v, NEW t
  PROVE  /\ Assignable(Converted(v, t), t)
         /\ Converted(v, "string").type = "string"
BY DEF Converted, Assignable, Of

LEMMA MethodIs ==
  ASSUME HostOK, NEW m, Has(m)
  PROVE  /\ Method(m).in \in Seq(STRING) /\ Method(m).variadic \in BOOLEAN
         /\ Method(m).out \in STRING /\ Method(m).fails \in BOOLEAN
         /\ Method(m).variadic => Method(m).in # <<>>
<1>1. /\ Method(m) \in MethodType
      /\ Method(m).variadic => Method(m).in # <<>>
  BY TypesAssumption DEF HostOK, Has, Method
<1> QED BY <1>1 DEF MethodType

(* What a method of the host returns, and what it leaves alone.            *)
LEMMA ReadingIs ==
  ASSUME NEW m, NEW v
  PROVE  /\ Reading(m, v) \in {Nothing, Got(NilPtr, "pointer"), Got(v, Method(m).out)}
         /\ Reading(m, v) = Nothing => Method(m).out = "none"
         /\ Reading(m, v) \notin {Fail, Crash}
BY DEF Reading, Nothing, Got, Fail, Crash

LEMMA HostReads ==
  ASSUME NEW m, m \notin {"SetFoo", "Put", "Set"}, NEW args, NEW o \in Host(m, args)
  PROVE  /\ o[2] = store
         /\ o[1] \in {Fail, Reading(m, store[IF m = "Get" THEN Entry(args[1].type) ELSE Accessor])}
BY DEF Host, Just, At

LEMMA HostSets ==
  ASSUME NEW m \in {"SetFoo", "Put", "Set"}, NEW args, NEW o \in Host(m, args)
  PROVE  \/ o = <<Fail, store>>
         \/ o = <<Reading(m, Old),
                  [store EXCEPT ![IF m = "SetFoo" THEN Accessor ELSE Entry(args[1].type)] = Last(args)]>>
BY DEF Host, Just, At
-----------------------------------------------------------------------------
(* A single argument never makes a call panic.                             *)
LEMMA OneArgument ==
  ASSUME HostOK, NEW m, Has(m), NEW a
  PROVE  /\ compatible(m, <<a>>) \in {Fail, Done}
         /\ compatible(m, <<a>>) = Done =>
              /\ ArgType(m, 1) = Head(Method(m).in) /\ ArgType(m, 1) = Last(Method(m).in)
              /\ Convertible(a, ArgType(m, 1))
              /\ reflectCall(m, <<Converted(a, ArgType(m, 1))>>) =
                   Host(m, <<Converted(a, ArgType(m, 1))>>)
<1> DEFINE in   == Method(m).in
           args == <<a>>
           bad  == {i \in DOMAIN args : ~Convertible(args[i], ArgType(m, i))}
           c    == Converted(a, ArgType(m, 1))
<1>1. /\ in \in Seq(STRING) /\ Method(m).variadic \in BOOLEAN
      /\ Method(m).variadic => in # <<>>
  BY MethodIs
<1>2. DOMAIN args = {1} /\ Len(args) = 1
  OBVIOUS
<1>3. Len(in) \in Nat /\ (Len(in) = 0 => in = <<>>)
  BY <1>1
<1>4. Fits(m, args) => Len(in) = 1
  <2> SUFFICES ASSUME Fits(m, args) PROVE Len(in) = 1
    OBVIOUS
  <2>1. Len(in) <= 1 /\ (Method(m).variadic \/ Len(in) = 1)
    <3>1. Len(args) = 1
      OBVIOUS
    <3> HIDE DEF args
    <3> QED BY <1>3, <3>1 DEF Fits
  <2>2. Method(m).variadic => Len(in) # 0
    BY <1>1, <1>3
  <2>3. Len(in) \in Nat
    BY <1>1
  <2> HIDE DEF args, in
  <2> QED BY <2>1, <2>2, <2>3
<1>5. bad # {} => Least(bad) = 1
  BY <1>2 DEF Least
<1>6. compatible(m, args) \in {Fail, Done}
  <2> HIDE DEF args, bad
  <2>1. compatible(m, args) = IF ~Fits(m, args) THEN Fail
          ELSE IF bad = {} THEN Done
          ELSE IF args[Least(bad)] # Invalid /\ Least(bad) > Len(in) THEN Crash ELSE Fail
    BY DEF compatible, bad
  <2>2. ~(1 > 1)
    OBVIOUS
  <2> HIDE DEF in
  <2> QED BY <2>1, <2>2, <1>4, <1>5
<1>7. ASSUME compatible(m, args) = Done
      PROVE  /\ ArgType(m, 1) = Head(in) /\ ArgType(m, 1) = Last(in)
             /\ Convertible(a, ArgType(m, 1))
             /\ reflectCall(m, <<c>>) = Host(m, <<c>>)
  <2>1. Fits(m, args) /\ bad = {}
    BY <1>7 DEF compatible, Done, Fail, Crash
  <2>2. Len(in) = 1 /\ DOMAIN in = {1}
    BY <1>1, <1>4, <2>1
  <2>3. Assignable(c, ArgType(m, 1))
    BY ConvertedIs
  <2>4. <<c>>[1] = c /\ Len(<<c>>) = 1
    OBVIOUS
  <2>5. reflectCall(m, <<c>>) = Host(m, <<c>>)
    <3>1. CASE Method(m).variadic
      <4>1. 1 .. Len(in) - 1 = {}
        BY <2>2
      <4> QED BY <2>2, <2>4, <3>1, <4>1 DEF reflectCall
    <3>2. CASE ~Method(m).variadic
      <4>1. ArgType(m, 1) = in[1]
        BY <3>2 DEF ArgType
      <4> QED BY <2>2, <2>3, <2>4, <3>2, <4>1 DEF reflectCall
    <3> QED BY <3>1, <3>2
  <2>6. ArgType(m, 1) = Head(in) /\ ArgType(m, 1) = Last(in)
    BY <1>1, <2>2 DEF ArgType, Last
  <2>7. Convertible(a, ArgType(m, 1))
    BY <1>2, <2>1
  <2> QED BY <2>5, <2>6, <2>7
<1> QED BY <1>6, <1>7

(* A name that only a method of that name answers to.                      *)
LEMMA CallOf ==
  ASSUME NEW meth \in {"SetFoo", "Put", "Set", "get"}, NEW m, Candidates(meth) = <<m>>, Has(m), NEW args
  PROVE  call(meth, args) =
           IF compatible(m, args) # Done THEN Just(compatible(m, args))
           ELSE reflectCall(m, [i \in DOMAIN args |-> Converted(args[i], ArgType(m, i))])
<1> DEFINE found == {i \in DOMAIN Candidates(meth) : Has(Candidates(meth)[i])}
<1>1. found = {1} /\ Candidates(meth)[1] = m
  OBVIOUS
<1>2. Least(found) = 1
  BY <1>1 DEF Least
<1> QED BY <1>1, <1>2 DEF call

LEMMA CallOne ==
  ASSUME HostOK, NEW meth \in {"SetFoo", "Put", "Set", "get"}, NEW m, Candidates(meth) = <<m>>,
         Has(m), NEW a, NEW o \in call(meth, <<a>>)
  PROVE  \/ o = <<Fail, store>>
         \/ /\ compatible(m, <<a>>) = Done
            /\ o \in Host(m, <<Converted(a, ArgType(m, 1))>>)
<1> DEFINE c == Converted(a, ArgType(m, 1))
<1>1. [i \in DOMAIN <<a>> |-> Converted(<<a>>[i], ArgType(m, i))] = <<c>>
  OBVIOUS
<1>2. CASE compatible(m, <<a>>) # Done
  <2>1. compatible(m, <<a>>) = Fail
    BY <1>2, OneArgument
  <2> QED BY <1>2, <2>1, CallOf DEF Just
<1>3. CASE compatible(m, <<a>>) = Done
  <2>1. o \in reflectCall(m, <<c>>)
    BY <1>1, <1>3, CallOf
  <2> QED BY <1>3, <2>1, OneArgument
<1> QED BY <1>2, <1>3

(* A key and a value; a method that takes string keys gets one.            *)
LEMMA CallTwo ==
  ASSUME HostOK, NEW m \in {"Put", "Set"}, Has(m), NEW k, NEW v, NEW o \in call(m, <<k, v>>)
  PROVE  \/ o = <<Fail, store>>
         \/ o = <<Crash, store>> /\ Method(m).variadic
         \/ \E c : /\ o \in Host(m, <<c, Converted(v, Last(Method(m).in))>>)
                   /\ c.type \in {k.type, "string"}
                   /\ Head(Method(m).in) = "string" => c.type = "string"
<1> DEFINE in   == Method(m).in
           args == <<k, v>>
           bad  == {i \in DOMAIN args : ~Convertible(args[i], ArgType(m, i))}
           c    == Converted(k, ArgType(m, 1))
           d    == Converted(v, ArgType(m, 2))
           fixed == IF Method(m).variadic THEN 1 .. Len(in) - 1 ELSE DOMAIN in
<1>1. /\ in \in Seq(STRING) /\ Method(m).variadic \in BOOLEAN
      /\ Method(m).variadic => in # <<>>
  BY MethodIs
<1>2. DOMAIN args = {1, 2} /\ Len(args) = 2 /\ args[1] = k /\ args[2] = v
  OBVIOUS
<1>3. Len(in) \in Nat /\ (Len(in) = 0 => in = <<>>) /\ DOMAIN in = 1 .. Len(in) /\ Last(in) = in[Len(in)]
  BY <1>1 DEF Last
<1>4. Candidates(m) = <<m>>
  BY DEF Candidates
<1>5. [i \in DOMAIN args |-> Converted(args[i], ArgType(m, i))] = <<c, d>>
  BY <1>2
<1>6. Fits(m, args) => Len(in) <= 2 /\ (~Method(m).variadic => Len(in) = 2)
  BY <1>1, <1>2, <1>3 DEF Fits
<1>7. CASE compatible(m, args) # Done
  <2>1. o = <<compatible(m, args), store>>
    BY <1>4, <1>7, CallOf DEF Just
  <2>2. compatible(m, args) = Fail \/ (compatible(m, args) = Crash /\ Method(m).variadic)
    <3>1. bad \subseteq {1, 2}
      BY <1>2
    <3>2. bad # {} => Least(bad) \in {1, 2}
      <4>1. bad \in SUBSET Nat
        BY <3>1
      <4> HIDE DEF bad
      <4> QED BY <3>1, <4>1, LeastExists
    <3>3. compatible(m, args) = IF ~Fits(m, args) THEN Fail
            ELSE IF bad = {} THEN Done
            ELSE IF args[Least(bad)] # Invalid /\ Least(bad) > Len(in) THEN Crash ELSE Fail
      BY DEF compatible
    <3> HIDE DEF args, bad, in
    <3>4. Fits(m, args) /\ ~Method(m).variadic => Len(in) = 2
      BY <1>6
    <3>5. ~(1 > 2) /\ ~(2 > 2)
      OBVIOUS
    <3> QED BY <1>7, <3>2, <3>3, <3>4, <3>5
  <2> QED BY <2>1, <2>2
<1>8. CASE compatible(m, args) = Done
  <2>1. Fits(m, args) /\ bad = {}
    BY <1>8 DEF compatible, Done, Fail, Crash
  <2>2. o \in reflectCall(m, <<c, d>>)
    BY <1>4, <1>5, <1>8, CallOf
  <2>3. ArgType(m, 2) = Last(in)
    BY <1>3, <1>6, <2>1 DEF ArgType
  <2>4. \/ o = <<Crash, store>>
        \/ o \in Host(m, <<c, d>>) /\ \A i \in fixed : Assignable(<<c, d>>[i], in[i])
    BY <2>2 DEF reflectCall, Just
  <2>5. ~Method(m).variadic => \A i \in fixed : Assignable(<<c, d>>[i], in[i])
    <3>1. Assignable(c, ArgType(m, 1)) /\ Assignable(d, ArgType(m, 2))
      BY ConvertedIs
    <3> HIDE DEF c, d
    <3> QED BY <1>3, <1>6, <2>1, <3>1 DEF ArgType
  <2>6. ~Method(m).variadic => Len(<<c, d>>) = Len(in)
    BY <1>6, <2>1
  <2>7. o = <<Crash, store>> /\ ~Method(m).variadic => o \in Host(m, <<c, d>>)
    <3> HIDE DEF c, d
    <3> QED BY <2>2, <2>5, <2>6 DEF reflectCall
  <2>8. c.type \in {k.type, "string"}
    <3>1. Convertible(k, ArgType(m, 1))
      BY <1>2, <2>1
    <3> QED BY <3>1 DEF Convertible, Converted, Assignable, Of
  <2>9. ASSUME o \in Host(m, <<c, d>>), \A i \in fixed : Assignable(<<c, d>>[i], in[i]),
               Head(in) = "string"
        PROVE  c.type = "string"
    <3>1. CASE 1 \in fixed
      <4>1. Assignable(c, "string")
        <5>1. in[1] = "string" /\ <<c, d>>[1] = c
          BY <2>9, <3>1
        <5> QED BY <2>9, <3>1, <5>1
      <4> HIDE DEF c
      <4> QED BY <4>1 DEF Assignable
    <3>2. CASE 1 \notin fixed
      <4>1. Len(in) = 1 /\ Method(m).variadic
        <5>1. Len(in) # 0
          BY <1>1, <1>3, <1>6, <2>1
        <5>2. ~Method(m).variadic => Len(in) = 2 /\ fixed = 1 .. Len(in)
          BY <1>3, <1>6, <2>1
        <5>3. Method(m).variadic => fixed = 1 .. Len(in) - 1
          OBVIOUS
        <5> HIDE DEF in, fixed
        <5> QED BY <1>1, <1>3, <1>6, <2>1, <3>2, <5>1, <5>2, <5>3
      <4>2. ArgType(m, 1) = "string"
        BY <1>3, <2>9, <4>1 DEF ArgType
      <4> QED BY <4>2, ConvertedIs
    <3> QED BY <3>1, <3>2
  <2> QED BY <2>3, <2>4, <2>5, <2>7, <2>8, <2>9
<1> QED BY <1>7, <1>8
-----------------------------------------------------------------------------
(* What a read gives when it looks where v is.                             *)
Gives(res, v) == res \in {Fail, Nothing, Got(NilPtr, "pointer")} \/ \E t : res = Got(v, t)

NothingGiven == \E m \in DOMAIN obj.methods : Method(m).out = "none"

LEMMA ReadOf ==
  ASSUME NEW m, m \notin {"SetFoo", "Put", "Set"}, Has(m), NEW args, NEW o \in Host(m, args)
  PROVE  /\ o[2] = store /\ o[1].is # "panic"
         /\ o[1] = Nothing => NothingGiven
         /\ Gives(o[1], store[IF m = "Get" THEN Entry(args[1].type) ELSE Accessor])
<1> DEFINE v == store[IF m = "Get" THEN Entry(args[1].type) ELSE Accessor]
<1>1. o[2] = store /\ o[1] \in {Fail, Reading(m, v)}
  BY HostReads
<1> HIDE DEF v
<1>2. Fail # Nothing /\ Fail.is # "panic"
  BY DEF Fail, Nothing
<1>3. Reading(m, v).is # "panic"
  BY DEF Reading, Nothing, Got
<1>4. Gives(o[1], v)
  BY <1>1, ReadingIs DEF Gives
<1>5. o[1] = Nothing => NothingGiven
  BY <1>1, <1>2, ReadingIs DEF NothingGiven, Has
<1> QED BY <1>1, <1>2, <1>3, <1>4, <1>5 DEF v

LEMMA IndexIs ==
  ASSUME HostOK, NEW key, NEW o \in call("get", <<key>>)
  PROVE  /\ o[2] = store /\ o[1].is # "panic"
         /\ Has("Get") /\ o[1] = Nothing => NothingGiven
         /\ o[1].is = "value" => Has("Get")
         /\ /\ Has("Get")
            /\ \/ Head(Method("Get").in) = "string"
               \/ key = Name
               \/ Entry("entry") # "entry"
            => Gives(o[1], store[Entry("string")])
<1>1. Candidates("get") = <<"Get">>
  BY DEF Candidates
<1>2. Fail # Nothing /\ Fail.is = "error" /\ Nothing.is = "nothing"
  BY DEF Fail, Nothing
<1>3. CASE ~Has("Get")
  <2>1. {i \in DOMAIN Candidates("get") : Has(Candidates("get")[i])} = {}
    BY <1>1, <1>3
  <2>2. ~IsField("get")
    BY DEF IsField
  <2>3. o \in {<<Fail, store>>, <<Nothing, store>>}
    BY <2>1, <2>2 DEF call, Just
  <2> QED BY <1>2, <1>3, <2>3
<1>4. CASE Has("Get")
  <2> DEFINE c == Converted(key, ArgType("Get", 1))
  <2>1. \/ o = <<Fail, store>>
        \/ compatible("Get", <<key>>) = Done /\ o \in Host("Get", <<c>>)
    BY <1>1, <1>4, CallOne
  <2>2. CASE o = <<Fail, store>>
    BY <1>2, <1>4, <2>2 DEF Gives
  <2>3. CASE compatible("Get", <<key>>) = Done /\ o \in Host("Get", <<c>>)
    <3>1. /\ ArgType("Get", 1) = Head(Method("Get").in)
          /\ Convertible(key, ArgType("Get", 1))
      BY <1>4, <2>3, OneArgument
    <3>2. Head(Method("Get").in) = "string" \/ key = Name => c.type = "string"
      <4>1. Head(Method("Get").in) = "string" => c.type = "string"
        BY <3>1, ConvertedIs
      <4>2. key = Name => c.type = "string"
        BY <3>1 DEF Convertible, Converted, Assignable, Name, Of
      <4> QED BY <4>1, <4>2
    <3> HIDE DEF c
    <3>3. <<c>>[1] = c
      OBVIOUS
    <3>4. /\ o[2] = store /\ o[1].is # "panic" /\ (o[1] = Nothing => NothingGiven)
          /\ Gives(o[1], store[Entry(c.type)])
      BY <1>4, <2>3, <3>3, ReadOf
    <3>5. Entry("entry") # "entry" => Entry(c.type) = Entry("string")
      BY DEF Entry
    <3> QED BY <1>4, <3>2, <3>4, <3>5
  <2> QED BY <2>1, <2>2, <2>3
<1> QED BY <1>3, <1>4

LEMMA PropertyIs ==
  ASSUME HostOK, NEW o \in property
  PROVE  /\ o[2] = store /\ o[1].is # "panic"
         /\ o[1] = Nothing => NothingGiven
         /\ HasField => o[1] = Got(store["field"], obj.field)
         /\ ~HasField /\ Getters # {} => Gives(o[1], store[Accessor])
         /\ ~HasField /\ Getters = {} /\ Getable => Gives(o[1], store[Entry("string")])
         /\ ~HasField /\ Getters = {} /\ ~Getable => o[1] = Fail
<1>1. CASE HasField
  BY <1>1 DEF property, Just, Got, Nothing
<1>2. CASE ~HasField /\ Getters # {}
  <2>1. Has(Getter) /\ Method(Getter).in = <<>> /\ Getter \in {"GetFoo", "IsFoo"}
    BY <1>2 DEF Getters, Getter
  <2>2. Method(Getter).variadic = FALSE
    BY <2>1, MethodIs
  <2>3. o \in reflectCall(Getter, <<>>)
    BY <1>2 DEF property
  <2>4. reflectCall(Getter, <<>>) = Host(Getter, <<>>)
    BY <2>1, <2>2 DEF reflectCall
  <2> QED BY <1>2, <2>1, <2>3, <2>4, ReadOf
<1>3. CASE ~HasField /\ Getters = {} /\ Getable
  <2>1. o \in call("get", <<Name>>)
    <3>1. Candidates("get") = <<"Get">> /\ Candidates("Get") = <<"Get">> /\ Has("Get")
      BY <1>3 DEF Candidates, Getable
    <3>2. {i \in DOMAIN <<"Get">> : Has(<<"Get">>[i])} # {}
      BY <3>1
    <3>3. call("get", <<Name>>) = call("Get", <<Name>>)
      BY <3>1, <3>2 DEF call
    <3> QED BY <1>3, <3>3 DEF property
  <2> QED BY <1>3, <2>1, IndexIs DEF Getable
<1>4. CASE ~HasField /\ Getters = {} /\ ~Getable
  BY <1>4 DEF property, Just, Fail, Nothing
<1> QED BY <1>1, <1>2, <1>3, <1>4

LEMMA CallIs ==
  ASSUME HostOK, NEW meth \in {"foo", "getFoo"}, NEW args \in ArgLists, NEW o \in call(meth, args)
  PROVE  /\ o[2] = store
         /\ o[1] = Nothing => NothingGiven \/ Struct
         /\ o[1] = Crash => \E m \in DOMAIN obj.methods : Method(m).variadic
<1> DEFINE names == Candidates(meth)
           found == {i \in DOMAIN names : Has(names[i])}
           m     == names[Least(found)]
           conv  == [i \in DOMAIN args |-> Converted(args[i], ArgType(m, i))]
<1>1. DOMAIN names \subseteq {1, 2, 3} /\ \A i \in DOMAIN names : names[i] \in {"Foo", "GetFoo", "IsFoo"}
  BY DEF Candidates
<1>2. CASE found = {}
  <2>1. o \in Just(Fail) \/ o \in Just(Got(store["field"], obj.field)) \/ (Struct /\ o \in Just(Nothing))
    BY <1>2 DEF call
  <2> QED BY <2>1 DEF Just, Fail, Got, Nothing, Crash
<1>3. CASE found # {}
  <2>1. Has(m) /\ m \in {"Foo", "GetFoo", "IsFoo"}
    <3>1. found \in SUBSET Nat
      BY <1>1
    <3>2. Least(found) \in found
      <4> HIDE DEF found
      <4> QED BY <1>3, <3>1, LeastExists
    <3> QED BY <1>1, <3>2
  <2>2. call(meth, args) = IF compatible(m, args) # Done THEN Just(compatible(m, args))
                           ELSE reflectCall(m, conv)
    BY <1>3 DEF call
  <2>3. PICK n \in Nat : args \in [1 .. n -> Arg \cup {Invalid}]
    BY DEF ArgLists
  <2>4. args \in Seq(Arg \cup {Invalid}) /\ DOMAIN args = 1 .. n /\ Len(args) = n
    BY <2>3
  <2> HIDE DEF names, found, m
  <2>5. CASE compatible(m, args) # Done
    <3> DEFINE bad == {i \in DOMAIN args : ~Convertible(args[i], ArgType(m, i))}
    <3>1. o = <<compatible(m, args), store>>
      BY <2>2, <2>5 DEF Just
    <3>2. compatible(m, args) = IF ~Fits(m, args) THEN Fail
            ELSE IF bad = {} THEN Done
            ELSE IF args[Least(bad)] # Invalid /\ Least(bad) > Len(Method(m).in) THEN Crash ELSE Fail
      BY DEF compatible
    <3>3. bad # {} => Least(bad) \in 1 .. n
      <4>1. bad \in SUBSET Nat /\ bad \subseteq 1 .. n
        BY <2>4
      <4> HIDE DEF bad
      <4> QED BY <4>1, LeastExists
    <3> HIDE DEF bad
    <3>4. ~Method(m).variadic /\ Fits(m, args) /\ bad # {} => ~(Least(bad) > Len(Method(m).in))
      BY <2>4, <3>3 DEF Fits
    <3>5. compatible(m, args) # Nothing
      BY <3>2 DEF Fail, Done, Crash, Nothing
    <3>6. compatible(m, args) = Crash => Method(m).variadic
      BY <3>2, <3>4, <2>5 DEF Fail, Crash
    <3> QED BY <2>1, <3>1, <3>5, <3>6 DEF Has
  <2>6. CASE compatible(m, args) = Done
    <3>1. o \in reflectCall(m, conv)
      BY <2>2, <2>6
    <3>2. o \in Host(m, conv) \/ o = <<Crash, store>>
      BY <3>1 DEF reflectCall, Just
    <3>3. CASE o \in Host(m, conv)
      <4> HIDE DEF conv
      <4> QED BY <2>1, <3>3, ReadOf DEF Crash
    <3>4. CASE o = <<Crash, store>> /\ Method(m).variadic
      BY <2>1, <3>4 DEF Has, Crash, Nothing
    <3>5. CASE ~Method(m).variadic
      <4>1. Fits(m, args)
        BY <2>6 DEF compatible, Done, Fail
      <4>2. Method(m).in \in Seq(STRING)
        BY <2>1, MethodIs
      <4>3. n = Len(Method(m).in) /\ DOMAIN Method(m).in = 1 .. n
        BY <2>4, <3>5, <4>1, <4>2 DEF Fits
      <4>4. Len(conv) = Len(Method(m).in)
        BY <2>4, <4>3
      <4>5. \A i \in DOMAIN Method(m).in : Assignable(conv[i], Method(m).in[i])
        <5>1. TAKE i \in DOMAIN Method(m).in
        <5>2. conv[i] = Converted(args[i], Method(m).in[i])
          BY <2>4, <3>5, <4>3 DEF ArgType
        <5> HIDE DEF conv
        <5> QED BY <5>2, ConvertedIs
      <4>6. o \in Host(m, conv)
        <5> HIDE DEF conv
        <5> QED BY <3>1, <3>5, <4>4, <4>5 DEF reflectCall
      <4> HIDE DEF conv
      <4> QED BY <2>1, <4>6, ReadOf DEF Crash
    <3> QED BY <3>2, <3>3, <3>4, <3>5
  <2> QED BY <2>5, <2>6
<1> QED BY <1>2, <1>3
-----------------------------------------------------------------------------
(* An access that does not set the member leaves the host as it was.       *)
LEMMA AssignedIs ==
  ASSUME NEW outs, NEW o \in Assigned(outs)
  PROVE  \E r \in outs : o = <<IF r[1] \in {Fail, Crash} THEN r[1] ELSE Done, r[2]>>
BY DEF Assigned

LEMMA SetFooIs ==
  ASSUME HostOK, NEW val, NEW o \in SetFoo(val)
  PROVE  /\ o[1] # Done => o[2] = store
         /\ o[1] \in {Fail, Crash, Done}
         /\ o[1] = Crash => \/ obj.shape \in {"value", "pointers"} /\ ~Has("SetFoo") /\ ~Has("Put")
                            \/ Has("Put") /\ Method("Put").variadic
         /\ o[1] = Done =>
              \/ /\ Has("SetFoo")
                 /\ o[2] = [store EXCEPT ![Accessor] = Converted(val, Last(Method("SetFoo").in))]
              \/ /\ ~Has("SetFoo") /\ Has("Put")
                 /\ o[2] = [store EXCEPT ![Entry("string")] = Converted(val, Last(Method("Put").in))]
              \/ /\ ~Has("SetFoo") /\ ~Has("Put") /\ HasField
                 /\ o[2] = [store EXCEPT !["field"] = Converted(val, obj.field)]
<1>0. Fail # Done /\ Crash # Done /\ Fail # Crash
  BY DEF Fail, Crash, Done
<1>1. CASE obj.shape = "nil"
  BY <1>0, <1>1 DEF SetFoo, Just
<1>2. CASE obj.shape # "nil" /\ Has("SetFoo")
  <2> DEFINE c == Converted(val, ArgType("SetFoo", 1))
  <2>1. PICK r \in call("SetFoo", <<val>>) : o = <<IF r[1] \in {Fail, Crash} THEN r[1] ELSE Done, r[2]>>
    BY <1>2, AssignedIs DEF SetFoo
  <2>2. Candidates("SetFoo") = <<"SetFoo">>
    BY DEF Candidates
  <2>3. \/ r = <<Fail, store>>
        \/ compatible("SetFoo", <<val>>) = Done /\ r \in Host("SetFoo", <<c>>)
    BY <1>2, <2>2, CallOne
  <2>4. CASE r = <<Fail, store>>
    BY <1>0, <2>1, <2>4
  <2>5. CASE compatible("SetFoo", <<val>>) = Done /\ r \in Host("SetFoo", <<c>>)
    <3>1. ArgType("SetFoo", 1) = Last(Method("SetFoo").in)
      BY <1>2, <2>5, OneArgument
    <3>2. Last(<<c>>) = c
      BY DEF Last
    <3> HIDE DEF c
    <3>3. \/ r = <<Fail, store>>
          \/ r[1] \notin {Fail, Crash} /\ r[2] = [store EXCEPT ![Accessor] = c]
      BY <2>5, <3>2, HostSets, ReadingIs
    <3>4. CASE r = <<Fail, store>>
      BY <1>0, <2>1, <3>4
    <3>5. CASE r[1] \notin {Fail, Crash} /\ r[2] = [store EXCEPT ![Accessor] = c]
      <4>1. o[1] = Done /\ o[2] = r[2]
        BY <2>1, <3>5
      <4> QED BY <1>0, <1>2, <3>1, <3>5, <4>1 DEF c
    <3> QED BY <3>3, <3>4, <3>5
  <2> QED BY <2>3, <2>4, <2>5
<1>3. CASE obj.shape # "nil" /\ ~Has("SetFoo") /\ Has("Put")
  <2> DEFINE d == Converted(val, Last(Method("Put").in))
  <2>1. PICK r \in call("Put", <<Name, val>>) : o = <<IF r[1] \in {Fail, Crash} THEN r[1] ELSE Done, r[2]>>
    BY <1>3, AssignedIs DEF SetFoo
  <2>2. \/ r = <<Fail, store>>
        \/ r = <<Crash, store>> /\ Method("Put").variadic
        \/ \E c : r \in Host("Put", <<c, d>>) /\ c.type \in {Name.type, "string"}
    BY <1>3, <2>1, CallTwo
  <2>3. CASE r = <<Fail, store>> \/ (r = <<Crash, store>> /\ Method("Put").variadic)
    <3>1. o = r
      BY <2>1, <2>3
    <3> QED BY <1>0, <1>3, <2>3, <3>1
  <2>4. ASSUME NEW c, r \in Host("Put", <<c, d>>), c.type \in {Name.type, "string"},
               r # <<Fail, store>>
        PROVE  o[1] = Done /\ o[2] = [store EXCEPT ![Entry("string")] = d]
    <3>1. c.type = "string"
      BY <2>4 DEF Name, Of
    <3>2. Last(<<c, d>>) = d /\ <<c, d>>[1] = c
      BY DEF Last
    <3> HIDE DEF d
    <3>3. r[1] \notin {Fail, Crash} /\ r[2] = [store EXCEPT ![Entry("string")] = d]
      BY <2>4, <3>1, <3>2, HostSets, ReadingIs
    <3> QED BY <2>1, <3>3
  <2> HIDE DEF d
  <2> QED BY <1>0, <1>3, <2>2, <2>3, <2>4 DEF d
<1>4. CASE obj.shape # "nil" /\ ~Has("SetFoo") /\ ~Has("Put")
  <2>1. PICK p \in property : o \in SetField(val, p[1])
    BY <1>4 DEF SetFoo
  <2>2. p[1] # Crash
    BY PropertyIs DEF Crash
  <2>3. \/ o = <<Fail, store>>
        \/ o = <<Crash, store>> /\ Struct /\ obj.shape # "pointer"
        \/ HasField /\ o = <<Done, [store EXCEPT !["field"] = Converted(val, obj.field)]>>
    BY <2>1, <2>2 DEF SetField, Just
  <2> QED BY <1>0, <1>4, <2>3 DEF Struct
<1> QED BY <1>1, <1>2, <1>3, <1>4

LEMMA SetAtIs ==
  ASSUME HostOK, NEW key \in {Key, Invalid}, NEW val, NEW o \in SetAt(key, val)
  PROVE  /\ o[1] # Done => o[2] = store
         /\ o[1] \in {Fail, Crash, Done}
         /\ o[1] = Crash => \/ ~Has("Set") /\ ~Has("Put") /\ Has("Get")
                            \/ \E m \in {"Put", "Set"} : Has(m) /\ Method(m).variadic
         /\ o[1] = Done =>
              \E m \in {"Put", "Set"} :
                /\ Has(m) /\ (m = "Put" => ~Has("Set"))
                /\ \E t \in {"Str", "none", "string"} :
                     /\ o[2] = [store EXCEPT ![Entry(t)] = Converted(val, Last(Method(m).in))]
                     /\ Head(Method(m).in) = "string" => t = "string"
<1>0. Fail # Done /\ Crash # Done /\ Fail # Crash
  BY DEF Fail, Crash, Done
<1>1. CASE obj.shape = "nil"
  BY <1>0, <1>1 DEF SetAt, Just
<1>2. ASSUME obj.shape # "nil", NEW m \in {"Put", "Set"}, Has(m), m = "Put" => ~Has("Set")
      PROVE  /\ o[1] # Done => o[2] = store
             /\ o[1] \in {Fail, Crash, Done}
             /\ o[1] = Crash => Method(m).variadic
             /\ o[1] = Done =>
                  \E t \in {"Str", "none", "string"} :
                     /\ o[2] = [store EXCEPT ![Entry(t)] = Converted(val, Last(Method(m).in))]
                     /\ Head(Method(m).in) = "string" => t = "string"
  <2> DEFINE d == Converted(val, Last(Method(m).in))
  <2>1. PICK r \in call(m, <<key, val>>) : o = <<IF r[1] \in {Fail, Crash} THEN r[1] ELSE Done, r[2]>>
    BY <1>2, AssignedIs DEF SetAt
  <2>2. \/ r = <<Fail, store>>
        \/ r = <<Crash, store>> /\ Method(m).variadic
        \/ \E c : /\ r \in Host(m, <<c, d>>) /\ c.type \in {key.type, "string"}
                  /\ Head(Method(m).in) = "string" => c.type = "string"
    BY <1>2, CallTwo
  <2>3. CASE r = <<Fail, store>>
    <3>1. o = r
      BY <2>1, <2>3
    <3> QED BY <1>0, <2>3, <3>1
  <2>4. CASE r = <<Crash, store>> /\ Method(m).variadic
    <3>1. o = r
      BY <2>1, <2>4
    <3> QED BY <1>0, <2>4, <3>1
  <2>5. ASSUME NEW c, r \in Host(m, <<c, d>>), c.type \in {key.type, "string"},
               Head(Method(m).in) = "string" => c.type = "string", r # <<Fail, store>>
        PROVE  /\ o[1] = Done /\ o[2] = [store EXCEPT ![Entry(c.type)] = d]
               /\ c.type \in {"Str", "none", "string"}
    <3>1. c.type \in {"Str", "none", "string"}
      <4>1. key.type \in {"Str", "none"}
        <5>1. Key.type = "Str" /\ Invalid.type = "none"
          BY DEF Key, Invalid, Of
        <5> QED BY <5>1
      <4> QED BY <2>5, <4>1
    <3>2. Last(<<c, d>>) = d /\ <<c, d>>[1] = c
      BY DEF Last
    <3> HIDE DEF d
    <3>3. r[1] \notin {Fail, Crash} /\ r[2] = [store EXCEPT ![Entry(c.type)] = d]
      BY <1>2, <2>5, <3>2, HostSets, ReadingIs
    <3> QED BY <2>1, <3>1, <3>3
  <2> HIDE DEF d
  <2> QED BY <1>0, <2>2, <2>3, <2>4, <2>5 DEF d
<1>3. CASE obj.shape # "nil" /\ ~Has("Set") /\ ~Has("Put")
  <2>1. PICK p \in call("get", <<key>>) : o \in SetElement(p[1])
    BY <1>3 DEF SetAt
  <2>2. p[1].is # "panic" /\ (p[1].is = "value" => Has("Get"))
    BY IndexIs
  <2>3. o = <<Fail, store>> \/ (o = <<Crash, store>> /\ p[1].is \in {"value", "panic"})
    BY <2>1 DEF SetElement, Just
  <2> QED BY <1>0, <1>3, <2>2, <2>3
<1>4. (obj.shape # "nil" /\ Has("Set")) \/ (obj.shape # "nil" /\ ~Has("Set") /\ Has("Put"))
         \/ obj.shape = "nil" \/ (obj.shape # "nil" /\ ~Has("Set") /\ ~Has("Put"))
  OBVIOUS
<1> QED BY <1>1, <1>2, <1>3, <1>4
-----------------------------------------------------------------------------
LEMMA SeenIs ==
  ASSUME NEW res
  PROVE  /\ Seen(res) = Crash => res = Crash
         /\ Seen(res) = Nothing => res = Nothing
         /\ Seen(res) = Done => res = Done
         /\ res \in {Fail, Crash, Done} => Seen(res) = res
BY DEF Seen, Fail, Crash, Nothing, Done

LEMMA SeenGives ==
  ASSUME NEW res, NEW v, Gives(res, v), Seen(res).is = "value"
  PROVE  Seen(res) = [is |-> "value", v |-> wrapTypes(v)]
<1>1. PICK t : res = Got(v, t) \/ res \in {Fail, Nothing, Got(NilPtr, "pointer")}
  BY DEF Gives
<1>2. res \notin {Fail, Nothing, Got(NilPtr, "pointer")}
  BY DEF Seen, Fail, Nothing, Got
<1> QED BY <1>1, <1>2 DEF Seen, Got

(* Where a member is found, by its name and by a key.                      *)
LEMMA EntryIs ==
  /\ Entry("entry") \in {"entry", "field"} /\ Accessor \in {"accessor", "field"}
  /\ Entry("entry") = "entry" => \A t : Entry(t) = t
  /\ Entry("entry") = "field" => \A t : Entry(t) = "field"
BY DEF Entry, Accessor

LEMMA ReadFinds ==
  ASSUME HostOK, NEW o \in property, Seen(o[1]).is = "value"
  PROVE  Seen(o[1]).v =
           wrapTypes(store[IF ReadPlace("read") = "entry" THEN "string" ELSE ReadPlace("read")])
<1> DEFINE at == IF ReadPlace("read") = "entry" THEN "string" ELSE ReadPlace("read")
<1>1. Gives(o[1], store[at])
  <2>1. CASE HasField
    <3>1. o[1] = Got(store["field"], obj.field) /\ at = "field"
      BY <2>1, PropertyIs DEF ReadPlace
    <3> QED BY <3>1 DEF Gives
  <2>2. CASE ~HasField /\ Getters # {}
    <3>1. at = Accessor
      BY <2>2, EntryIs DEF ReadPlace
    <3> QED BY <2>2, <3>1, PropertyIs
  <2>3. CASE ~HasField /\ Getters = {} /\ Getable
    <3>1. ReadPlace("read") = Entry("entry")
      BY <2>3 DEF ReadPlace
    <3>2. at = Entry("string")
      BY <3>1, EntryIs
    <3> QED BY <2>3, <3>2, PropertyIs
  <2>4. CASE ~HasField /\ Getters = {} /\ ~Getable
    BY <2>4, PropertyIs DEF Gives
  <2> QED BY <2>1, <2>2, <2>3, <2>4
<1> HIDE DEF at
<1>2. Seen(o[1]).v = wrapTypes(store[at])
  BY <1>1, SeenGives
<1> QED BY <1>2 DEF at

LEMMA IndexFinds ==
  ASSUME HostOK, NEW key, NEW o \in call("get", <<key>>), Seen(o[1]).is = "value",
         Entry("entry") = "entry" => StringKeys
  PROVE  Seen(o[1]).v = wrapTypes(store[Entry("string")])
<1>1. o[1].is = "value"
  BY DEF Seen
<1>2. Has("Get")
  BY <1>1, IndexIs
<1>3. Entry("entry") = "entry" => Head(Method("Get").in) = "string"
  BY <1>2 DEF StringKeys
<1> QED BY <1>2, <1>3, IndexIs, SeenGives

LEMMA SameObject ==
  ASSUME obj' = obj
  PROVE  /\ HasField' = HasField /\ Struct' = Struct /\ Getters' = Getters /\ Getable' = Getable
         /\ StringKeys' = StringKeys /\ NothingGiven' = NothingGiven /\ FieldApart' = FieldApart
         /\ \A m : Has(m)' = Has(m) /\ Method(m)' = Method(m)
         /\ \A by : /\ TypeOf(by)' = TypeOf(by) /\ Doubtless(by)' = Doubtless(by)
                   /\ KeptAt(by)' = KeptAt(by) /\ SetPlace(by)' = SetPlace(by)
                   /\ ReadPlace(by)' = ReadPlace(by)
<1>1. /\ HasField' = HasField /\ Struct' = Struct
      /\ \A m : Has(m)' = Has(m) /\ Method(m)' = Method(m)
  BY DEF HasField, Struct, Has, Method
<1>2. Getters' = Getters /\ Getable' = Getable /\ StringKeys' = StringKeys /\ NothingGiven' = NothingGiven
  BY DEF Getters, Getable, StringKeys, NothingGiven, Has, Method
<1>3. Accessor' = Accessor /\ Entry("entry")' = Entry("entry")
  BY DEF Accessor, Entry
<1>4. \A by : SetPlace(by)' = SetPlace(by) /\ ReadPlace(by)' = ReadPlace(by) /\ TypeOf(by)' = TypeOf(by)
  <2> TAKE by
  <2>1. SetPlace(by)' = SetPlace(by)
    BY <1>3 DEF SetPlace, Has
  <2>2. ReadPlace(by)' = ReadPlace(by)
    BY <1>1, <1>2, <1>3 DEF ReadPlace
  <2>3. TypeOf(by)' = TypeOf(by)
    BY DEF TypeOf, Has, Method
  <2> QED BY <2>1, <2>2, <2>3
<1>5. \A by : Doubtless(by)' = Doubtless(by) /\ KeptAt(by)' = KeptAt(by)
  BY <1>2, <1>4 DEF Doubtless, KeptAt
<1>6. FieldApart' = FieldApart
  BY <1>4 DEF FieldApart
<1> QED BY <1>1, <1>2, <1>4, <1>5, <1>6
-----------------------------------------------------------------------------
LEMMA InvHost ==
  ASSUME Inv
  PROVE  HostOK
BY DEF Inv, TypeOK, HostOK

(* An access that leaves the host and the last write alone leaves what the *)
(* host keeps.                                                             *)
LEMMA StoreKept ==
  ASSUME Inv, obj' = obj, store' = store, wrote' = wrote
  PROVE  TypeOK' /\ Kept'
<1>1. TypeOK'
  BY DEF Inv, TypeOK
<1>2. Kept'
  BY SameObject DEF Inv, Kept
<1> QED BY <1>1, <1>2

LEMMA ReadStep ==
  ASSUME Inv, Read
  PROVE  Inv'
<1>1. PICK o \in property : outcome' = Seen(o[1]) /\ store' = o[2]
  BY DEF Read, Access
<1>2. step' = "read" /\ obj' = obj /\ wrote' = wrote
  BY DEF Read, Access
<1>3. HostOK
  BY InvHost
<1>4. store' = store
  BY <1>1, <1>3, PropertyIs
<1>5. TypeOK' /\ Kept'
  BY <1>2, <1>4, StoreKept
<1>6. AccessReported'
  <2>1. ~HasField /\ Getters = {} /\ ~Getable => outcome' = Fail
    BY <1>1, <1>3, PropertyIs, SeenIs
  <2>2. outcome' = Nothing => NothingGiven
    BY <1>1, <1>3, PropertyIs, SeenIs
  <2>3. outcome' # Crash
    BY <1>1, <1>3, PropertyIs, SeenIs DEF Crash
  <2>4. /\ ~HasField' /\ Getters' = {} /\ ~Getable' => outcome' = Fail
        /\ outcome' = Nothing => NothingGiven'
    BY <1>2, <2>1, <2>2, SameObject
  <2> QED BY <1>2, <2>3, <2>4 DEF AccessReported, NothingGiven
<1>7. SetIsRead'
  <2>1. ASSUME outcome'.is = "value", wrote # Absent, SetPlace(wrote.by) = ReadPlace("read"),
               SetPlace(wrote.by) = "entry" => StringKeys \/ wrote.by = "read"
        PROVE  outcome'.v = wrapTypes(Converted(wrote.v, TypeOf(wrote.by)))
    <3>1. outcome'.v = wrapTypes(store[KeptAt(wrote.by)])
      BY <1>1, <1>3, <2>1, ReadFinds DEF KeptAt
    <3>2. Doubtless(wrote.by)
      BY <2>1 DEF Doubtless
    <3> QED BY <2>1, <3>1, <3>2 DEF Inv, Kept
  <2>2. ASSUME HasField, FieldApart
        PROVE  outcome' = [is |-> "value", v |-> wrapTypes(Old)]
    <3>1. o[1] = Got(Old, obj.field)
      BY <1>3, <2>2, PropertyIs DEF Inv, Kept
    <3>2. Old # NilPtr
      BY DEF Old, NilPtr, Of
    <3> QED BY <1>1, <3>1, <3>2 DEF Seen, Got
  <2>3. /\ HasField' = HasField /\ StringKeys' = StringKeys /\ FieldApart' = FieldApart
        /\ TypeOf(wrote.by)' = TypeOf(wrote.by) /\ SetPlace(wrote.by)' = SetPlace(wrote.by)
        /\ ReadPlace("read")' = ReadPlace("read")
    BY <1>2, SameObject
  <2> QED BY <1>2, <2>1, <2>2, <2>3 DEF SetIsRead, FieldApart
<1> QED BY <1>5, <1>6, <1>7 DEF Inv

LEMMA IndexStep ==
  ASSUME Inv, NEW key \in {Key, Invalid}, Index(key)
  PROVE  Inv'
<1>1. PICK o \in call("get", <<key>>) : outcome' = Seen(o[1]) /\ store' = o[2]
  BY DEF Index, Access
<1>2. step' = "index" /\ obj' = obj /\ wrote' = wrote
  BY DEF Index, Access
<1>3. HostOK
  BY InvHost
<1>4. store' = store
  BY <1>1, <1>3, IndexIs
<1>5. TypeOK' /\ Kept'
  BY <1>2, <1>4, StoreKept
<1>6. AccessReported'
  <2>1. outcome' # Crash
    BY <1>1, <1>3, IndexIs, SeenIs DEF Crash
  <2> QED BY <1>2, <2>1 DEF AccessReported
<1>7. SetIsRead'
  <2>1. ASSUME outcome'.is = "value", wrote # Absent, SetPlace(wrote.by) = ReadPlace("index"),
               SetPlace(wrote.by) = "entry" => StringKeys
        PROVE  outcome'.v = wrapTypes(Converted(wrote.v, TypeOf(wrote.by)))
    <3>1. SetPlace(wrote.by) = Entry("entry")
      BY <2>1 DEF ReadPlace
    <3>2. outcome'.v = wrapTypes(store[Entry("string")])
      BY <1>1, <1>3, <2>1, <3>1, IndexFinds
    <3>3. Doubtless(wrote.by) /\ KeptAt(wrote.by) = Entry("string")
      BY <2>1, <3>1, EntryIs DEF Doubtless, KeptAt
    <3> QED BY <2>1, <3>2, <3>3 DEF Inv, Kept
  <2>2. /\ StringKeys' = StringKeys /\ SetPlace(wrote.by)' = SetPlace(wrote.by)
        /\ ReadPlace("index")' = ReadPlace("index") /\ TypeOf(wrote.by)' = TypeOf(wrote.by)
    BY <1>2, SameObject
  <2> QED BY <1>2, <2>1, <2>2 DEF SetIsRead
<1> QED BY <1>5, <1>6, <1>7 DEF Inv

LEMMA CallStep ==
  ASSUME Inv, NEW meth \in {"foo", "getFoo"}, NEW args \in ArgLists, Call(meth, args)
  PROVE  Inv'
<1>1. PICK o \in call(meth, args) : outcome' = Seen(o[1]) /\ store' = o[2]
  BY DEF Call, Access
<1>2. step' = "call" /\ obj' = obj /\ wrote' = wrote
  BY DEF Call, Access
<1>3. HostOK
  BY InvHost
<1>4. store' = store
  BY <1>1, <1>3, CallIs
<1>5. TypeOK' /\ Kept'
  BY <1>2, <1>4, StoreKept
<1>6. AccessReported'
  <2>1. outcome' = Nothing => NothingGiven \/ Struct
    BY <1>1, <1>3, CallIs, SeenIs
  <2>2. outcome' = Crash => \E m \in DOMAIN obj.methods : Method(m).variadic
    BY <1>1, <1>3, CallIs, SeenIs
  <2>3. outcome' = Nothing => NothingGiven' \/ Struct'
    BY <1>2, <2>1, SameObject
  <2>4. outcome' = Crash => \E m \in DOMAIN obj'.methods : Method(m)'.variadic
    BY <1>2, <2>2, SameObject
  <2> QED BY <1>2, <2>3, <2>4 DEF AccessReported, NothingGiven
<1>7. SetIsRead'
  BY <1>2 DEF SetIsRead
<1> QED BY <1>5, <1>6, <1>7 DEF Inv

LEMMA SetCallStep ==
  ASSUME Inv, SetCall
  PROVE  Inv'
<1>1. step' = "setCall" /\ obj' = obj /\ wrote' = wrote /\ store' = store /\ outcome' = Fail
  BY SeenIs DEF SetCall, Access, Just
<1>2. TypeOK' /\ Kept'
  BY <1>1, StoreKept
<1>3. AccessReported'
  BY <1>1 DEF AccessReported, Fail, Crash
<1>4. SetIsRead'
  BY <1>1 DEF SetIsRead
<1> QED BY <1>2, <1>3, <1>4 DEF Inv

LEMMA SetPropertyStep ==
  ASSUME Inv, NEW val \in Arg, SetProperty(val)
  PROVE  Inv'
<1>1. PICK o \in SetFoo(val) : outcome' = Seen(o[1]) /\ store' = o[2]
  BY DEF SetProperty, Access
<1>2. /\ step' = "set" /\ obj' = obj
      /\ wrote' = IF outcome' = Done THEN [by |-> "read", v |-> val] ELSE wrote
  BY DEF SetProperty, Access, Written
<1>3. HostOK
  BY InvHost
<1>4. outcome' = o[1] /\ o[1] \in {Fail, Crash, Done}
  BY <1>1, <1>3, SetFooIs, SeenIs
<1>5. TypeOK' /\ Kept'
  <2>1. CASE outcome' # Done
    <3>1. store' = store /\ wrote' = wrote
      BY <1>1, <1>2, <1>3, <1>4, <2>1, SetFooIs
    <3> QED BY <1>2, <3>1, StoreKept
  <2>2. CASE outcome' = Done
    <3>1. wrote' = [by |-> "read", v |-> val]
      BY <1>2, <2>2
    <3>2. store = [p \in Members |-> store[p]]
      BY <1>3 DEF HostOK
    <3>3. \/ /\ Has("SetFoo")
             /\ store' = [store EXCEPT ![Accessor] = Converted(val, Last(Method("SetFoo").in))]
          \/ /\ ~Has("SetFoo") /\ Has("Put")
             /\ store' = [store EXCEPT ![Entry("string")] = Converted(val, Last(Method("Put").in))]
          \/ /\ ~Has("SetFoo") /\ ~Has("Put") /\ HasField
             /\ store' = [store EXCEPT !["field"] = Converted(val, obj.field)]
      <4>1. o[1] = Done
        BY <1>4, <2>2
      <4> QED BY <1>1, <1>3, <4>1, SetFooIs
    <3>4. TypeOK'
      <4>1. store' = [p \in Members |-> store'[p]]
        BY <3>2, <3>3
      <4> QED BY <1>2, <3>1, <4>1 DEF Inv, TypeOK
    <3>5. /\ store'[KeptAt("read")] = Converted(val, TypeOf("read"))
          /\ KeptAt("read") = "field" \/ store'["field"] = store["field"]
      <4>1. CASE Has("SetFoo")
        <5>1. SetPlace("read") = Accessor /\ TypeOf("read") = Last(Method("SetFoo").in)
          BY <4>1 DEF SetPlace, TypeOf
        <5>2. KeptAt("read") = Accessor
          BY <5>1, EntryIs DEF KeptAt
        <5> QED BY <3>2, <3>3, <4>1, <5>1, <5>2, EntryIs DEF Members
      <4>2. CASE ~Has("SetFoo") /\ Has("Put")
        <5>1. SetPlace("read") = Entry("entry") /\ TypeOf("read") = Last(Method("Put").in)
          BY <4>2 DEF SetPlace, TypeOf
        <5>2. KeptAt("read") = Entry("string") /\ Entry("string") \in {"string", "field"}
          BY <5>1, EntryIs DEF KeptAt
        <5> QED BY <3>2, <3>3, <4>2, <5>1, <5>2, EntryIs DEF Members
      <4>3. CASE ~Has("SetFoo") /\ ~Has("Put")
        <5>1. SetPlace("read") = "field" /\ TypeOf("read") = obj.field
          BY <4>3 DEF SetPlace, TypeOf
        <5>2. KeptAt("read") = "field"
          BY <5>1 DEF KeptAt
        <5> QED BY <3>2, <3>3, <4>3, <5>1, <5>2 DEF Members
      <4> QED BY <4>1, <4>2, <4>3
    <3>6. FieldApart => store'["field"] = Old
      <4>1. FieldApart => KeptAt("read") # "field"
        BY DEF FieldApart, KeptAt
      <4> QED BY <3>5, <4>1 DEF Inv, Kept
    <3>7. /\ FieldApart' = FieldApart /\ KeptAt("read")' = KeptAt("read")
          /\ TypeOf("read")' = TypeOf("read")
      BY <1>2, SameObject
    <3> QED BY <3>1, <3>4, <3>5, <3>6, <3>7 DEF Kept
  <2> QED BY <2>1, <2>2
<1>6. AccessReported'
  <2>1. outcome' # Nothing
    BY <1>4 DEF Fail, Crash, Done, Nothing
  <2>2. outcome' = Crash => \/ obj.shape \in {"value", "pointers"} /\ ~Has("SetFoo") /\ ~Has("Put")
                            \/ Has("Put") /\ Method("Put").variadic
    BY <1>1, <1>3, <1>4, SetFooIs
  <2>3. /\ Has("SetFoo")' = Has("SetFoo") /\ Has("Put")' = Has("Put")
        /\ Method("Put")' = Method("Put")
    BY <1>2, SameObject
  <2>4. outcome' = Crash => \/ obj'.shape \in {"value", "pointers"} /\ ~Has("SetFoo")' /\ ~Has("Put")'
                            \/ Has("Put")' /\ Method("Put")'.variadic
    BY <1>2, <2>2, <2>3
  <2> QED BY <1>2, <2>1, <2>4 DEF AccessReported, Has
<1>7. SetIsRead'
  BY <1>2 DEF SetIsRead
<1> QED BY <1>5, <1>6, <1>7 DEF Inv

LEMMA SetIndexStep ==
  ASSUME Inv, NEW key \in {Key, Invalid}, NEW val \in Arg, SetIndex(key, val)
  PROVE  Inv'
<1>1. PICK o \in SetAt(key, val) : outcome' = Seen(o[1]) /\ store' = o[2]
  BY DEF SetIndex, Access
<1>2. /\ step' = "setIndex" /\ obj' = obj
      /\ wrote' = IF outcome' = Done THEN [by |-> "index", v |-> val] ELSE wrote
  BY DEF SetIndex, Access, Written
<1>3. HostOK
  BY InvHost
<1>4. outcome' = o[1] /\ o[1] \in {Fail, Crash, Done}
  BY <1>1, <1>3, SetAtIs, SeenIs
<1>5. TypeOK' /\ Kept'
  <2>1. CASE outcome' # Done
    <3>1. store' = store /\ wrote' = wrote
      BY <1>1, <1>2, <1>3, <1>4, <2>1, SetAtIs
    <3> QED BY <1>2, <3>1, StoreKept
  <2>2. CASE outcome' = Done
    <3>1. wrote' = [by |-> "index", v |-> val]
      BY <1>2, <2>2
    <3>2. store = [p \in Members |-> store[p]]
      BY <1>3 DEF HostOK
    <3>3. PICK m \in {"Put", "Set"}, t \in {"Str", "none", "string"} :
            /\ Has(m) /\ (m = "Put" => ~Has("Set"))
            /\ store' = [store EXCEPT ![Entry(t)] = Converted(val, Last(Method(m).in))]
            /\ Head(Method(m).in) = "string" => t = "string"
      <4>1. o[1] = Done
        BY <1>4, <2>2
      <4>2. \E m \in {"Put", "Set"} :
              /\ Has(m) /\ (m = "Put" => ~Has("Set"))
              /\ \E t \in {"Str", "none", "string"} :
                   /\ o[2] = [store EXCEPT ![Entry(t)] = Converted(val, Last(Method(m).in))]
                   /\ Head(Method(m).in) = "string" => t = "string"
        BY <1>3, <4>1, SetAtIs
      <4>3. store' = o[2]
        BY <1>1
      <4> QED BY <4>2, <4>3
    <3>4. TypeOK'
      <4>1. store' = [p \in Members |-> store'[p]]
        BY <3>2, <3>3
      <4> QED BY <1>2, <3>1, <4>1 DEF Inv, TypeOK
    <3>5. FieldApart => store'["field"] = Old
      <4>1. FieldApart => Entry(t) = t
        BY EntryIs DEF FieldApart, SetPlace
      <4> QED BY <3>2, <3>3, <4>1 DEF Inv, Kept, Members
    <3>6. Doubtless("index") => store'[KeptAt("index")] = Converted(val, TypeOf("index"))
      <4>1. SetPlace("index") = Entry("entry") /\ TypeOf("index") = Last(Method(m).in)
        BY <3>3 DEF SetPlace, TypeOf
      <4>2. StringKeys => t = "string"
        BY <3>3 DEF StringKeys
      <4>3. Doubtless("index") => KeptAt("index") = Entry(t) /\ Entry(t) \in {"string", "field"}
        BY <4>1, <4>2, EntryIs DEF Doubtless, KeptAt
      <4> QED BY <3>2, <3>3, <4>1, <4>3 DEF Members
    <3>7. /\ FieldApart' = FieldApart /\ Doubtless("index")' = Doubtless("index")
          /\ KeptAt("index")' = KeptAt("index") /\ TypeOf("index")' = TypeOf("index")
      BY <1>2, SameObject
    <3> QED BY <3>1, <3>4, <3>5, <3>6, <3>7 DEF Kept
  <2> QED BY <2>1, <2>2
<1>6. AccessReported'
  <2>1. outcome' # Nothing
    BY <1>4 DEF Fail, Crash, Done, Nothing
  <2>2. outcome' = Crash => \/ ~Has("Set") /\ ~Has("Put") /\ Has("Get")
                            \/ \E m \in {"Put", "Set"} : Has(m) /\ Method(m).variadic
    BY <1>1, <1>3, <1>4, SetAtIs
  <2>3. \A m : Has(m)' = Has(m) /\ Method(m)' = Method(m)
    BY <1>2, SameObject
  <2>4. outcome' = Crash => \/ ~Has("Set")' /\ ~Has("Put")' /\ Has("Get")'
                            \/ \E m \in {"Put", "Set"} : Has(m)' /\ Method(m)'.variadic
    BY <2>2, <2>3
  <2> QED BY <1>2, <2>1, <2>4 DEF AccessReported, Has
<1>7. SetIsRead'
  BY <1>2 DEF SetIsRead
<1> QED BY <1>5, <1>6, <1>7 DEF Inv

LEMMA NextKeepsInv ==
  ASSUME Inv, [ReferenceNext]_refVars
  PROVE  Inv'
<1>1. ASSUME NEW meth \in {"foo", "getFoo"}, NEW args \in ArgLists, Call(meth, args)
      PROVE  Inv'
  BY <1>1, CallStep
<1>2. ASSUME NEW key \in {Key, Invalid}, Index(key)
      PROVE  Inv'
  BY <1>2, IndexStep
<1>3. ASSUME NEW key \in {Key, Invalid}, NEW val \in Arg, SetIndex(key, val)
      PROVE  Inv'
  BY <1>3, SetIndexStep
<1>4. ASSUME NEW val \in Arg, SetProperty(val)
      PROVE  Inv'
  BY <1>4, SetPropertyStep
<1>5. CASE UNCHANGED refVars
  <2>1. obj' = obj /\ store' = store /\ step' = step /\ outcome' = outcome /\ wrote' = wrote
    BY <1>5 DEF refVars
  <2>2. TypeOK' /\ Kept'
    BY <2>1, StoreKept
  <2>3. AccessReported'
    BY <2>1 DEF Inv, AccessReported, HasField, Struct, Getters, Getable, Has, Method
  <2>4. SetIsRead'
    <3>1. /\ HasField' = HasField /\ StringKeys' = StringKeys
          /\ TypeOf(wrote.by)' = TypeOf(wrote.by) /\ ReadPlace(step)' = ReadPlace(step)
          /\ \A by : SetPlace(by)' = SetPlace(by)
      <4>1. \A by : /\ SetPlace(by)' = SetPlace(by) /\ TypeOf(by)' = TypeOf(by)
                   /\ ReadPlace(by)' = ReadPlace(by)
        BY <2>1, SameObject
      <4> QED BY <2>1, <4>1, SameObject
    <3> QED BY <2>1, <3>1 DEF Inv, SetIsRead
  <2> QED BY <2>2, <2>3, <2>4 DEF Inv
<1> QED BY <1>1, <1>2, <1>3, <1>4, <1>5, ReadStep, SetCallStep DEF ReferenceNext

LEMMA InitIsInv ==
  ASSUME ReferenceInit
  PROVE  Inv
<1>1. TypeOK
  BY DEF ReferenceInit, TypeOK, Members
<1>2. store["field"] = Old
  BY DEF ReferenceInit
<1>3. AccessReported /\ SetIsRead /\ Kept
  BY <1>2 DEF ReferenceInit, AccessReported, SetIsRead, Kept, Nothing, Crash
<1> QED BY <1>1, <1>3 DEF Inv

(* What a template set is kept, whatever it accesses in between, in the    *)
(* place its notation sets, which may be a field or behind methods, and a  *)
(* field that no notation sets keeps what the host put in it (Kept), for   *)
(* all types of objects, methods that write the field among them.          *)
THEOREM ReferenceInvariant == ReferenceSpec => []Inv
<1>1. ReferenceInit => Inv
  BY InitIsInv
<1>2. Inv /\ [ReferenceNext]_refVars => Inv'
  BY NextKeepsInv
<1> QED BY <1>1, <1>2, PTL DEF ReferenceSpec

(* Every access of an object of any type is reported: an undefined         *)
(* property is an error, an undefined method of a struct and a method      *)
(* without results alone give nothing, and setting what cannot be set and  *)
(* a variadic method are all that panics.                                  *)
THEOREM AccessesAreReported == ReferenceSpec => []AccessReported
<1>1. Inv => AccessReported
  BY DEF Inv
<1> QED BY <1>1, ReferenceInvariant, PTL

(* What a template set without an error it reads back, converted to the    *)
(* type of its place, wherever it looks for it in that place; and a field  *)
(* that no notation sets, because a method takes the value and keeps it    *)
(* elsewhere, reads for ever what the host put in it.                      *)
THEOREM WhatIsSetIsRead == ReferenceSpec => []SetIsRead
<1>1. Inv => SetIsRead
  BY DEF Inv
<1> QED BY <1>1, ReferenceInvariant, PTL
=============================================================================
