------------------------------ MODULE VtlRender -----------------------------
(***************************************************************************)
(* Concurrent renderings of one Template (execute.go).  Execute takes no   *)
(* lock: the renderings share the position of the node under way, the      *)
(* macros and the cache of methods, which has a mutex, and all of them     *)
(* print into buffers from one pool.                                       *)
(*                                                                         *)
(* A template is a row of nodes, each on its own line: "show" prints a     *)
(* value, "call" prints what a method of it returns, "quote" puts it in a  *)
(* string first, "macro" defines the macro, "use" calls it to show the     *)
(* value, "fail" is any node with an error.  What a value looks like in    *)
(* print is left out, but for its parts and their order.                   *)
(***************************************************************************)
EXTENDS Integers, SequencesExt

CONSTANTS
  Rendering,     \* the goroutines that call Execute
  Trees,         \* the templates considered
  Object, Kind,  \* what there is to print: "text", "float", "pointer" (to a wrapper
                 \* or a struct, always the same) or "raw" (a slice or map of the
                 \* host, wrapped anew each time)
  Parts,         \* the elements of the objects that have some
  Lists,         \* those of them that are slices or ranges
  Addr,          \* the addresses of pointers: one to a struct and one to its
                 \* first field have the same
  Roots,         \* the values that are shown
  Buffers,       \* names of buffers: enough for all renderings
  MaxArraySize,  \* Template.maxArraySize
  MaxStack,      \* calls of vtlPrint a stack has room for
  None

ASSUME ConstantsAssumption ==
  /\ Trees \subseteq Seq({"show", "call", "quote", "macro", "use", "fail"})
  /\ None \notin Object \cup Rendering \cup Seq(Rendering \X Object)
  /\ Kind \in [Object -> {"text", "float", "pointer", "raw"}]
  /\ DOMAIN Parts = {o \in Object : Kind[o] \in {"pointer", "raw"}}
  /\ \A o \in DOMAIN Parts : Parts[o] \in Seq(Object)
  /\ Lists \subseteq DOMAIN Parts /\ DOMAIN Addr = {o \in Object : Kind[o] = "pointer"}
  /\ Roots \subseteq Object
  /\ MaxArraySize \in Nat /\ MaxStack \in Nat \ {0}
  /\ IsFiniteSet(Rendering) /\ IsFiniteSet(Buffers)
  /\ Cardinality(Buffers) >= 3 * Cardinality(Rendering)

VARIABLES
  tree, macros, cache, mutex, pos,  \* fields of the Template
  pool, text,                       \* bufPool, and what each buffer holds
  val,                              \* what each rendering shows
  pc, at, stack, held, str,         \* where it is, what it prints, its buffers
  out, err,                         \* what it has written and how it ended
  fatal,                            \* why the program was stopped
  line, knew, met   \* history: the line it is on, whether it began with all
                    \* macros defined, the renderings that overlapped another

shared == <<macros, cache, mutex, pos>>
memory == <<pool, text>>
own    == <<at, stack, held, str, out, err, line>>
vars   == <<tree, val, shared, memory, pc, own, fatal, knew, met>>

Body  == 0    \* the line of the macro's body
Names == IF "macro" \in ToSet(tree) THEN {"m"} ELSE {}
Init ==
  /\ tree \in Trees /\ val \in [Rendering -> Roots]
  /\ macros \in SUBSET Names  \* a library may define it
  /\ cache = {} /\ mutex = None /\ pos = 0
  /\ pool = {} /\ text = [b \in Buffers |-> <<>>]
  /\ pc = [r \in Rendering |-> "new"] /\ at = [r \in Rendering |-> 1]
  /\ stack = [r \in Rendering |-> <<>>] /\ held = stack /\ out = stack
  /\ str = [r \in Rendering |-> None] /\ err = str /\ line = at
  /\ fatal = "no" /\ knew = [r \in Rendering |-> FALSE] /\ met = {}

Goto(r, l) == pc' = [pc EXCEPT ![r] = l]
Set(f, r, v) == [f EXCEPT ![r] = v]
Under(r) == {r2 \in Rendering \ {r} : pc[r2] \notin {"new", "ended"}}

Start(r) ==
  /\ pc[r] = "new"
  /\ Goto(r, "node")
  /\ knew' = Set(knew, r, Names \subseteq macros)
  /\ met' = IF Under(r) = {} THEN met ELSE met \cup Under(r) \cup {r}
  /\ UNCHANGED <<tree, val, shared, memory, own, fatal>>
-----------------------------------------------------------------------------
(* Execute: the next node, and what its error carries.                     *)
OnLine(r, l) == pos' = l /\ line' = Set(line, r, l)

First == [show |-> "get", call |-> "lock", quote |-> "quote", macro |-> "check",
          use |-> "find", fail |-> "fail"]

Node(r) ==
  /\ pc[r] = "node" /\ at[r] <= Len(tree)
  /\ OnLine(r, at[r]) /\ Goto(r, First[tree[at[r]]])
  /\ UNCHANGED <<macros, cache, mutex, memory, at, stack, held, str, out, err>>

End(r) ==
  /\ pc[r] = "node" /\ at[r] > Len(tree)
  /\ Goto(r, "ended") /\ err' = Set(err, r, [what |-> "ok", line |-> None])
  /\ UNCHANGED <<shared, memory, at, stack, held, str, out, line>>

(* The buffer of a quoted string is put back by its defer, the one that    *)
(* was printed to is not.                                                  *)
Ends(r, what) ==
  /\ Goto(r, "ended") /\ err' = Set(err, r, [what |-> what, line |-> pos])
  /\ pool' = IF Len(held[r]) = 2 THEN pool \cup {held[r][1]} ELSE pool
  /\ held' = Set(held, r, <<>>) /\ stack' = Set(stack, r, <<>>)
  /\ UNCHANGED <<text, at, str, out, line>>

Fails(r) == pc[r] = "fail" /\ Ends(r, "error") /\ UNCHANGED shared

NextNode(r) == at' = Set(at, r, at[r] + 1) /\ Goto(r, "node")

(* Mutant: a definition replaces the one there is. *)
DefinesAgain(r) ==
  /\ pc[r] = "check"
  /\ Goto(r, "define")
  /\ UNCHANGED <<shared, memory, own>>

(* #macro reads the map, and writes to it only when the name is new.       *)
Check(r) ==
  /\ pc[r] = "check"
  /\ IF "m" \in macros THEN NextNode(r) ELSE UNCHANGED at /\ Goto(r, "define")
  /\ UNCHANGED <<shared, memory, stack, held, str, out, err, line>>

Define(r) ==
  /\ pc[r] = "define"
  /\ macros' = macros \cup {"m"} /\ NextNode(r)
  /\ UNCHANGED <<cache, mutex, pos, memory, stack, held, str, out, err, line>>

Find(r) ==
  /\ pc[r] = "find"
  /\ IF "m" \in macros THEN OnLine(r, Body) /\ Goto(r, "get")
                       ELSE UNCHANGED <<pos, line>> /\ Goto(r, "fail")
  /\ UNCHANGED <<macros, cache, mutex, memory, at, stack, held, str, out, err>>

(* Go stops the program when it sees a map written to while it is used.    *)
Uses(r, map)   == pc[r] \in (IF map = "macros" THEN {"check", "define", "find"} ELSE {"look", "fill"})
Writes(r, map) == pc[r] = (IF map = "macros" THEN "define" ELSE "fill")
Races(r1, r2, map) == r1 # r2 /\ Writes(r1, map) /\ Uses(r2, map)

MapFatal ==
  /\ \E r1, r2 \in Rendering, map \in {"macros", "cache"} : Races(r1, r2, map)
  /\ fatal' = "map"
  /\ UNCHANGED <<tree, val, shared, memory, pc, own, knew, met>>
-----------------------------------------------------------------------------
(* cacheType, under its mutex.                                             *)
Type(r) == Kind[val[r]]

Lock(r) ==
  /\ pc[r] = "lock" /\ mutex = None
  /\ mutex' = r /\ Goto(r, "look")
  /\ UNCHANGED <<macros, cache, pos, memory, own>>

(* Mutant: types that are cached are returned at once. *)
LookHolding(r) ==
  /\ pc[r] = "look"
  /\ Goto(r, IF Type(r) \in cache THEN "get" ELSE "fill")
  /\ UNCHANGED <<shared, memory, own>>

Look(r) ==
  /\ pc[r] = "look"
  /\ IF Type(r) \in cache THEN mutex' = None /\ Goto(r, "get")
                          ELSE UNCHANGED mutex /\ Goto(r, "fill")
  /\ UNCHANGED <<macros, cache, pos, memory, own>>

Fill(r) ==
  /\ pc[r] = "fill"
  /\ cache' = cache \cup {Type(r)} /\ mutex' = None /\ Goto(r, "get")
  /\ UNCHANGED <<macros, pos, memory, own>>
-----------------------------------------------------------------------------
(* Buffers: one from the pool, and when it has none a new one, which is    *)
(* empty.  That sync.Pool may also drop a buffer it has makes no           *)
(* difference but for a buffer with less in it.                            *)
InUse == UNION {ToSet(held[r]) : r \in Rendering}
Free  == IF pool # {} THEN pool ELSE {CHOOSE b \in Buffers : b \notin InUse}

Hold(r, b) == held' = Set(held, r, Append(held[r], b)) /\ pool' = pool \ {b}
Buf(r)     == Last(held[r])
Below(r)   == held[r][Len(held[r]) - 1]

Quote(r) ==
  /\ pc[r] = "quote"
  /\ \E b \in Free : Hold(r, b) /\ text' = Set(text, b, <<>>)
  /\ Goto(r, "get")
  /\ UNCHANGED <<shared, at, stack, str, out, err, line>>

Get(r) ==
  /\ pc[r] = "get"
  /\ \E b \in Free : Hold(r, b) /\ text' = Set(text, b, IF str[r] = None THEN <<>> ELSE str[r])
  /\ stack' = Set(stack, r, <<[obj |-> None, todo |-> IF str[r] = None THEN <<val[r]>> ELSE <<>>]>>)
  /\ Goto(r, "print")
  /\ UNCHANGED <<shared, at, str, out, err, line>>

(* vtlPrint.  checkCycle compares addresses: those of the pointers on the  *)
(* way here.  Only slices and ranges are looked at for their size, and not *)
(* maps, entries, views, iterators and structs.                            *)
Top(r)    == Last(stack[r])
Path(r)   == {stack[r][k].obj : k \in {j \in DOMAIN stack[r] : stack[r][j].obj # None}}
Cycle(r, o) == Kind[o] = "pointer" /\ \E p \in Path(r) : Kind[p] = "pointer" /\ Addr[p] = Addr[o]
TooLong(o)  == o \in Lists /\ Len(Parts[o]) > MaxArraySize
Rest(r)   == Front(stack[r]) \o <<[Top(r) EXCEPT !.todo = Tail(@)]>>
Atom(r, o) == <<<<r, o>>>>

vtlPrint(r) ==
  /\ pc[r] = "print" /\ Top(r).todo # <<>>
  /\ UNCHANGED shared
  /\ LET o == Head(Top(r).todo) IN
     \/ /\ Kind[o] = "text"
        /\ text' = Set(text, Buf(r), text[Buf(r)] \o Atom(r, o))
        /\ stack' = Set(stack, r, Rest(r))
        /\ UNCHANGED <<pc, pool, at, held, str, out, err, line, fatal>>
     \/ Kind[o] = "float" /\ Goto(r, "float") /\ UNCHANGED <<memory, own, fatal>>
     \/ /\ Kind[o] \in {"pointer", "raw"} /\ Cycle(r, o)
        /\ Ends(r, "cycle") /\ UNCHANGED fatal
     \/ /\ Kind[o] \in {"pointer", "raw"} /\ ~Cycle(r, o)
        /\ IF TooLong(o) THEN Ends(r, "size") /\ UNCHANGED fatal
           ELSE IF Len(stack[r]) = MaxStack THEN fatal' = "stack" /\ UNCHANGED <<memory, pc, own>>
           ELSE /\ stack' = Set(stack, r, Append(Rest(r), [obj |-> o, todo |-> Parts[o]]))
                /\ UNCHANGED <<memory, pc, at, held, str, out, err, line, fatal>>

Printed(r) ==
  /\ pc[r] = "print" /\ Top(r).todo = <<>>
  /\ stack' = Set(stack, r, Front(stack[r]))
  /\ IF Len(stack[r]) = 1 THEN Goto(r, "write") ELSE UNCHANGED pc
  /\ UNCHANGED <<shared, memory, at, held, str, out, err, line>>

(* Mutant: the second buffer is back in the pool before its text is copied. *)
FloatReturned(r) ==
  /\ pc[r] = "float"
  /\ \E b \in Free :
       /\ held' = Set(held, r, Append(held[r], b)) /\ pool' = pool \cup {b}
       /\ text' = Set(text, b, Atom(r, Head(Top(r).todo)))
  /\ Goto(r, "copy")
  /\ UNCHANGED <<shared, at, stack, str, out, err, line>>

(* A float is printed in a buffer of its own and copied.                   *)
Float(r) ==
  /\ pc[r] = "float"
  /\ \E b \in Free : Hold(r, b) /\ text' = Set(text, b, Atom(r, Head(Top(r).todo)))
  /\ Goto(r, "copy")
  /\ UNCHANGED <<shared, at, stack, str, out, err, line>>

Copy(r) ==
  /\ pc[r] = "copy"
  /\ text' = Set(text, Below(r), text[Below(r)] \o text[Buf(r)])
  /\ pool' = pool \cup {Buf(r)} /\ held' = Set(held, r, Front(held[r]))
  /\ stack' = Set(stack, r, Rest(r)) /\ Goto(r, "print")
  /\ UNCHANGED <<shared, at, str, out, err, line>>

(* WriteTo empties the buffer, into the output or the quoted string.       *)
Write(r) ==
  /\ pc[r] = "write"
  /\ IF Len(held[r]) = 1
     THEN out' = Set(out, r, out[r] \o text[Buf(r)]) /\ text' = Set(text, Buf(r), <<>>)
     ELSE /\ text' = [text EXCEPT ![Below(r)] = @ \o text[Buf(r)], ![Buf(r)] = <<>>]
          /\ UNCHANGED out
  /\ Goto(r, "put")
  /\ UNCHANGED <<shared, pool, at, stack, held, str, err, line>>

Put(r) ==
  /\ pc[r] = "put"
  /\ pool' = pool \cup {Buf(r)} /\ held' = Set(held, r, Front(held[r]))
  /\ IF Len(held[r]) = 2 THEN Goto(r, "unquote") /\ UNCHANGED <<at, str>>
                         ELSE NextNode(r) /\ str' = Set(str, r, None)
  /\ UNCHANGED <<shared, text, stack, out, err, line>>

(* The string is copied from its buffer, and shown.                        *)
Unquote(r) ==
  /\ pc[r] = "unquote"
  /\ str' = Set(str, r, text[Buf(r)])
  /\ pool' = pool \cup {Buf(r)} /\ held' = Set(held, r, <<>>)
  /\ Goto(r, "get")
  /\ UNCHANGED <<shared, text, at, stack, out, err, line>>
-----------------------------------------------------------------------------
Step(r) ==
  /\ fatal = "no" /\ UNCHANGED <<tree, val, knew, met>>
  /\ \/ vtlPrint(r)
     \/ /\ UNCHANGED fatal
        /\ \/ Node(r) \/ End(r) \/ Fails(r) \/ Check(r) \/ Define(r) \/ Find(r)
           \/ Lock(r) \/ Look(r) \/ Fill(r) \/ Quote(r) \/ Get(r) \/ Printed(r)
           \/ Float(r) \/ Copy(r) \/ Write(r) \/ Put(r) \/ Unquote(r)

Next == fatal = "no" /\ (MapFatal \/ \E r \in Rendering : Start(r) \/ Step(r))

(* A goroutine that has started is scheduled until its rendering ends.     *)
Spec == Init /\ [][Next]_vars /\ \A r \in Rendering : WF_vars(Step(r))
-----------------------------------------------------------------------------
(* The parts of the objects, of these, and so on, and the ways in which    *)
(* an object can be part of itself.  Meets(p): within the pointer p there  *)
(* is p or another pointer with its address.                               *)
Inner(o) == IF o \in DOMAIN Parts THEN ToSet(Parts[o]) ELSE {}
Closed  == {S \in SUBSET Object : \A o \in S : Inner(o) \subseteq S}
Reached == [o \in Object |-> {p \in Object : \A S \in Closed : o \in S => p \in S}]
Circular(o) == \E p \in Inner(o) : o \in Reached[p]
Meets(p)    == \E q \in Inner(p) : \E s \in Reached[q] : Kind[s] = "pointer" /\ Addr[s] = Addr[p]
Found(o)    == \E p \in Reached[o] : Kind[p] = "pointer" /\ Meets(p)
Oversize(o) == \E p \in Reached[o] : TooLong(p)
Endless(o)  == \E p \in Reached[o] : Kind[p] = "raw" /\ Circular(p)

(* The atoms of a value in the order they are printed, n levels deep.      *)
AtomsOf[n \in 0 .. MaxStack] ==
  [o \in Object |->
     IF Kind[o] \in {"text", "float"} THEN <<o>>
     ELSE IF n = 0 THEN <<>>
     ELSE FlattenSeq([k \in DOMAIN Parts[o] |-> AtomsOf[n - 1][Parts[o][k]]])]
InPrint(r) == LET atoms == AtomsOf[MaxStack][val[r]] IN [k \in DOMAIN atoms |-> <<r, atoms[k]>>]

Shown(r) ==
  Cardinality({k \in 1 .. at[r] - 1 : tree[k] \in {"show", "call", "quote", "use"}})
    + (IF pc[r] = "put" /\ Len(held[r]) = 1 THEN 1 ELSE 0)

(* A rendering writes its own values, each of them whole and once, however *)
(* the pool hands the buffers around (execute.go:136-143, 434-441,         *)
(* 732-751): nothing of another rendering, nothing left in a buffer by an  *)
(* earlier error, nothing of a value that could not be printed to its end. *)
(* A list that is too long is reported, and so is a cycle through a        *)
(* pointer.  A value that merely occurs in several places of another is    *)
(* printed in each; but a pointer to the first field of a struct, within   *)
(* that struct, is reported as a cycle though it is none, for it has the   *)
(* struct's address (712-730).                                             *)
OutputExact ==
  \A r \in Rendering :
    /\ out[r] = FlattenSeq([k \in 1 .. Shown(r) |-> InPrint(r)])
    /\ err[r] # None =>
         /\ err[r].what = "cycle" => Found(val[r])
         /\ err[r].what = "size" => Oversize(val[r])
         /\ err[r].what = "ok" /\ out[r] # <<>> =>
              ~(Found(val[r]) \/ Oversize(val[r]) \/ Endless(val[r]))

(* What renderings do to one another is limited: of the maps they share,   *)
(* the cache of methods is never written to while another uses it, and the *)
(* macros only by a rendering that began before all of them were defined,  *)
(* so that a template can be rendered by many once all its macros are      *)
(* defined.  And only an error of a rendering that overlaps another carries *)
(* the line of a node other than its own (execute.go:76, 85): there are no *)
(* nodes in nodes here that move the position as well.                     *)
Isolation ==
  \A r1, r2 \in Rendering :
    /\ ~Races(r1, r2, "cache")
    /\ Races(r1, r2, "macros") => ~knew[r1]
    /\ err[r1] # None /\ err[r1].what # "ok" => err[r1].line = line[r1] \/ r1 \in met

(* Every rendering that begins comes to an end: no one keeps the mutex,    *)
(* and cycles are found.  All of them are stopped by a race for the macros *)
(* when these are not defined yet, or by a value which contains itself     *)
(* through slices and maps of the host alone: each pass wraps these anew,  *)
(* checkCycle never meets an address twice, and the stack runs out.        *)
RenderingsEnd ==
  \A r \in Rendering : pc[r] = "node" ~>
    \/ pc[r] = "ended"
    \/ fatal = "map" /\ \E r2 \in Rendering : ~knew[r2]
    \/ fatal = "stack" /\ \E r2 \in Rendering : Endless(val[r2])
=============================================================================
