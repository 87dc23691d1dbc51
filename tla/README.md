# Specifications of go-vtl

TLA+ specifications of go-vtl, an engine for templates in Velocity's language,
with the configurations that check them with TLC and the proofs that TLAPS
checks. Paths and line numbers are those of the repository.

## The system

A host program gives `Parse` the text of a template and, once or often, calls
`Execute` on the result with its data. Parsing is sequential, and so is one
rendering; several goroutines may render one Template at once. Nothing is
persisted and nothing is sent. What is hard is elsewhere: one context shared by
lists nested in lists, five ways in which a list may end, Go values of the host
that the template changes in place through wrappers and iterators, reflection,
numbers of limited width, a lexer with modes, and what renderings share.

| Component | State | Operations | Interacts with |
|---|---|---|---|
| Context, `ctx.go` | for each name the slots pushed for it, a call depth | `Push`, `Pop`, `Get`, `Set` | one `Ctx` passed by value down the tree walk, its map shared by all lists |
| Tree walk, `execute.go:38-264` | `Template.macros`, `t.pos`, the Go stack with its defers | `Execute`, `_execute`: one branch per directive | runs itself on nested lists; `Ctx`; values; `#parse` makes another `Template` |
| Template and limits, `parse.go:11-85` | tree, macros, root directory, three limits | `Parse`, `ParseFile`, `WithMaxCallDepth`, `WithMaxIterations`, `WithMaxArrayRenderSize` | lexer, parser, gobbling; runs the library once to collect its macros |
| Expressions, `execute.go:266-678`, `comparison.go` | none | `eval`, `evalVar`, `isTrue`, arithmetic, comparison, literals, ranges | `Ctx`, the values |
| Properties and calls, `execute.go:312-391, 855-1069` | `typeCache` of the Template, with a mutex | `setVar`, `property`, `call` | the host's Go values, by reflection |
| Slice and its iterator, `types.go:407-643` | a Go slice: array, length, capacity; index of the iterator | `Add`, `AddAll`, `Clear`, `Set`, `Remove`, `RemoveAll`, `RetainAll`, `ToArray`; `Next`, `HasNext`, `Remove` | shares arrays with the host's data |
| Map, views, entries, their iterator, `types.go:22-403, 645-691` | a reference to a Go map; the keys of an iterator; an entry's value | `Put`, `PutAll`, `PutIfAbsent`, `Replace`, `Remove`, `Clear`; the views' removals; `SetValue` | shares Go maps with the host's data |
| Range, `types.go:896-1001` | two ends and a direction | `NewRange`, `Size`, `Get`, `IndexOf`, `Contains`, `ToArray` | iterated by `CollectionIterator`, printed up to a size |
| Str, `types.go:779-894` | none | string methods | |
| Printing, `execute.go:713-853` | buffers from `bufPool`, for the whole process | `vtlPrint`, `checkCycle` | all values |
| Lexer, `lexer.go` | position, stack of modes, line | `Lex` and a function per mode | parser, which tells it the macros |
| Parser, `parser.go.y` | goyacc's stacks | grammar actions, the chain of `#elseif` among them | lexer, `ast.go` |
| Gobbling, `parse.go:87-269` | the tree | `gobble`: takes whitespace around directives from texts | after the parser |

What makes each right, and what is hard about it:

- **Context and tree walk.** Variables are set by pushing a slot and unset by
  popping it by number, partly in defers, partly at the end of a loop. It must
  come out as block structure: each list leaves the context as it found it,
  each pop finds its slot, a loop finds its variable wherever its body has
  been. Pairs `(stop, err)` travel up through lists, and each directive reads
  them in its own way: an error that ends the rendering must not be lost on the
  way. Recursion and loops over collections that grow must be stopped by the
  limits.
- **Slice and Map.** A wrapper is a window on memory that other wrappers and
  the host may look at, and an operand may be the collection itself. Without
  the host, a slice must be a list of its own and a map a map of its own;
  with it, only wrappers of the host's data may share. Iterators keep an index,
  or the keys, of what they saw.
- **Range.** Nothing is stored but two ints, so sizes, elements and indices
  are computed, and must not wrap for whatever range is let through.
- **Expressions.** Integers of two kinds and floats are compared across their
  ranges; undefined and nil operands mean something in a condition and are
  errors elsewhere.
- **Properties and calls.** The types of the host are open: any mixture of
  fields, setters, getters, `Put` and `Get` must do what the template says or
  report an error.
- **Lexer, parser, gobbling.** The modes of the lexer must nest as the source
  does and each must be left; the tree must have all the source has; gobbling
  must take whitespace only, and only at directives.
- **Printing, and one Template rendered by several goroutines.** Nothing says
  the latter may not be; `macros`, `pos`, `typeCache` and the buffers are then
  shared. Each rendering must write its own output whole, values that contain
  themselves included.

## The plan

In order of what matters most:

1. `VtlCtx`, `VtlExecute`: context and tree walk; `Scoping` is what they
   promise about variables. Theorems: type correctness, slots in bounds, depth
   bounded, first macro, fatal errors. *Done.*
2. `VtlRange`: arithmetic of ranges and the walk over one. Theorems for every
   width of the integers. *Done.*
3. `VtlSlice` with `Lists`, `VtlMap` with `Maps`: the collections of a template
   and what they promise. Theorems: every invariant, and both refinements.
   *Done.*
4. `VtlRender`: several renderings of one Template and what they share, with
   printing and its search for cycles. Theorems: isolation, and what each
   rendering writes. *Done.*
5. `VtlInt`, `VtlEval`: operators, with the widths of their operands, and
   `VtlReference`: members of the host's objects. Theorems: all of the
   operators, for every width; what comes of an access, for all types of
   objects. *Done.*
6. `VtlGobble`, `VtlParser`: directives, the chain of `#elseif`, whitespace.
   `VtlLexer`: modes, lines, escapes. Theorems: every invariant of the lexer.
   *Done; the parser for TLC.*
7. Models still to extend: nodes within nodes in `VtlRender`; references and
   expressions in `VtlParser`.

## The modules

### VtlCtx, VtlExecute, Scoping

`VtlCtx` has the operations of `ctx.go` as operators on a function from names
to sequences of slots. `VtlExecute` is the tree walk. Its `stack` holds a frame
for every call of `_execute` in progress: list and position, call depth, how
many macro arguments have been bound, the state of the loop it is in. `held`
are the slots still to be popped, in the order pushed; those above a frame's
`mark` are its own. `phase` says whether the top frame runs, returns
(`"unwind"`, while its defers run one by one and then its caller takes `ret`)
or whether `Execute` has returned.

There is an action for every directive (`Text`, `SetVar`, `SetProperty`,
`Var`, `Define`, `Include`, `Eval`, `Break`, `Stop`, `If`, `CallUnknown`,
`BindArg`, `Call`, `ForeachStart`, `LoopNext`, `LoopElse`, `LoopEnd`,
`Parse`), one for the end of a list, one for a deferred pop (`RunDefer`), and
one for each directive that gets a nested list's result back (`ReturnToIf`,
`ReturnToCall`, `ReturnToLoop`, `ReturnToParse`, `ReturnToExecute`), since each
reads the pair differently. A nested call that exceeds the depth returns before
it does anything, as in the code.

Templates are data: `Trees` is the set of trees considered, one list per name;
`MCVtlExecute` has the constructors of nodes, `MCVtlWalk` and `MCVtlLimits` the
trees of the runs. An expression is known by what its evaluation comes to, a
value, a variable's value, or one of the errors the walk tells apart; a
double-quoted string by its references, which `eval` runs with `_execute`
before it throws their `stop` away (`ErrOf`, `ValOf`). `Add` and
`Clear` stand for method calls that change a collection while a loop may be
iterating over it.

`Scoping` is the abstract specification: bindings in blocks, a name means the
last binding or what the host gave. `VtlExecute` maps its held slots to
bindings and its frames to blocks.

### VtlInt, VtlRange

`VtlInt` has the width of Go's integers, `Half` being 2^63 in the program, and
what a sum or difference leaves of its result. `VtlRange` is the operator
`[a..b]`, `NewRange` and all methods of `Range` that compute, with every
operation wrapped to the width of `int` or `uint64`. The operands are numbers
of any kind; a float that an int cannot hold becomes what the processors Go
runs on make of it. The iterator is `CollectionIterator`.

### VtlSlice and Lists

Backing arrays with their capacity (`heap`), windows on them (`obj`), and the
iterator. Removing moves elements within the array, adding writes behind the
window while there is room and otherwise moves to a new array with up to
`Spare` more. `AddAll`, `RemoveAll` and `RetainAll` are recursive functions of
the turns their loops in the code have had, each turn reading the operand from
memory as it is then, so that an operand that is the slice itself or shares its
array is treated as the code does. The host's slices are windows of their own that no
operation changes, on arrays that operations do change. `Lists` is the abstract
specification: a list of its own for each slice.

### VtlMap and Maps

Go maps (`mem`), what each `*Map` refers to (`map`), one `MapIterator`, the
entry it returned last. Views have no state: their operations are actions on
their map. Keys are strings; a number given for a key becomes one of two
strings (`Rune`, `Printed`), according to the operation. `Clear` makes the
wrapper refer to a new Go map. `Maps` is the abstract specification.

### VtlEval

An operator and the outcomes of its operands: `EvalLeft` evaluates the left
one and may be done (a decided `and` or `or`, a unary operator, an error),
`EvalRight` does the rest. `l`, `r` and `result` are values: integers with
their width and sign, floats that hold `Bits` binary digits, NaN, strings,
booleans, complex numbers and everything else. `Nearest` rounds to a float as
a conversion in Go does. Comparison and integer arithmetic are exact
translations; of float arithmetic only the kind of the result is known.

### VtlReference

One access of a template to a member of an object of the host: reading a
property (`Read`), an index (`Index`), calling a method (`Call`) and setting
either (`SetProperty`, `SetIndex`; `SetCall` is the attempt to set what a
method returned). A type has a shape (value, pointer, two pointers, nil, not a
struct), perhaps an exported field, and any methods of the ones the code looks
for, each with its parameters, perhaps variadic, its result and its error. The
order in which they are looked for, the conversion of arguments and every panic
of reflection are as in the code. What the host's methods do is open: a setter
keeps its argument, in the field beside it, as the provider of
vtl_test.go:111-130 does, or elsewhere (`wraps` says which methods of a type
use the field), a getter gives back what is in that place, or they return an
error.
`MCVtlExpressions` extends both this and `VtlEval`: an expression is an operator
or a reference.

### VtlGobble, VtlParser

`VtlGobble` has the functions of `parse.go:87-269` as operators on lists of
nodes, texts being sequences of characters that know their place in the source.
`VtlParser` reads a source character by character and tag by tag: an action for
each production of the grammar that has to do with lists of nodes, directives
and their branches, on a stack of open directives; it fails on a tag the
grammar does not allow. A macro becomes known to the lexer with its header, before
its body is read; until then a call of it is text. `EndOfSource` gobbles
what was parsed, as `Parse` does.

### VtlLexer

The fields of `Lexer`, and an action for what `Lex` does in each mode. Where
`Lex` changes the mode and calls itself, that is a step which returns no token
and raises `depth`, the number of calls whose deferred function is yet to count
lines. A character of the source stands for a class of characters or for a
whole word.

### VtlRender

Several renderings of one Template, each at some step of its own (`pc`), from
node to node: setting `t.pos`, looking up and defining macros, the cache of
methods with its mutex, getting a buffer, the walk of `vtlPrint` over the value
with its stack and the addresses on it, copying, writing, giving the buffer
back. Objects are not addresses: `Addr` gives pointers theirs, which a pointer
to a struct and one to its first field share, and `Cycle` compares addresses,
as `checkCycle` does. The size of slices and ranges is looked at (`Lists`), and
of nothing else. What `vtlPrint` prints is the sequence of atoms in the value. A write to
a Go map while another rendering is about to use it ends the process
(`MapFatal`), or does not: the runtime's detection is best effort. So does a
stack that is full. `held` are the buffers of a rendering; the pool gives any
buffer that is in it, and a new one when it has none.

## The runs

| Run | Checks | Bounds |
|---|---|---|
| `MCWalk` | `TypeOK`, `SlotsInBounds`, `ScopeRestored`, `LoopVariables`, that `VtlExecute` implements `Scoping` (`IsScoped`), `FatalIsFinal`, `FirstMacroWins` | two directives in the main list, two in `a`, one in `b`; names `x` and `foreach`; a collection of two elements that `Add` extends no further (`MaxItems`); every kind of leaf, strings that cannot be printed among them, under every directive with a nested list; two calls of `Execute`; a library with one macro |
| `MCLimits` | `DepthBounded`, `Termination` | depth 1, and 2 in templates read by `#parse`; 2 iterations, and no limit in templates read by `#parse`, as in the code; recursive macros and templates, loops that add to what they iterate, up to eight elements (`MaxItems`) |
| `MCRange` | `TypeOK`, `EndsExact`, `SizeExact`, `IndexExact`, `ContainsExact`, `WalkExact`, `WalkEnds` | ints of four bits, all pairs of ends of all kinds |
| `MCSlice` | `TypeOK`, and that `VtlSlice` implements `Lists` (`Implements`) | two slices, two element types, two values, three elements |
| `MCSliceHost` | `SharedOnlyByHosts`, `WalkExact` | two slices, two windows on an array of the host, iterators over both, two elements |
| `MCMap` | `TypeOK`, and that `VtlMap` implements `Maps` (`Implements`) | two maps, two element types, two values, one key, an iterator |
| `MCMapHost` | `SharedOnlyByHosts`, `RemovesOnlyWalked` | two maps, a map of the host, two keys, a number that becomes one or the other, an iterator |
| `MCExpressions` | `OrderExact`, `DivisionExact`, `OperatorsTotal`, `UndefinedIsNil`; `AccessReported`, `SetIsRead` | ints of three bits, floats of one digit, all operators on all pairs of operands; types with up to five of the methods, which keep their values in the field or apart from it, up to two arguments |
| `MCParser` | `TreeExact`, `GobbledOnlyAtTags`, `LinesGobbled` | every source of up to 5 characters and tags; up to 7 with directives that do not nest, 7 with `#if`, 9 of tags for branches alone |
| `MCLexer` | `ModesNest`, `EscapedStaysText`, `LinesNotBehind`, `SourceIsRead` | any three characters after an opening that leads into each of the modes |
| `MCRender` | `OutputExact`, `Isolation`, `RenderingsEnd` | two renderings, templates of two nodes, six buffers, lists of one element at most and one of two, a stack of five |
| `MCUndefinedIsReported` | `UndefinedIsReported` is violated | the trees of `MCWalk` |

Why these bounds are enough to be interesting. In `MCWalk` the two lists below
the main one and `#parse` give every pair of a directive that pushes and one
that nests, twice over, with the same name shadowed up to five times; the depth
limit of 2 lets a macro call itself and be cut off. In `MCLimits` the limits
are reached on every path, by calls, by `#parse` and by loops; eight elements
let a loop without a limit go on long after one with a limit of 2 has ended.
With four bits
an int has a least value, a largest one, and all the wrapping between them,
since no operation in `Range` goes further than twice the width; with three
bits and one digit there are ints next to each other that are the same float,
and floats beyond all ints. A slice of three elements on an array with room to
spare is shifted, extended in place, moved and extended with itself. In the
runs of maps one value more or one key more only repeats what happens; what
matters is which Go map is meant, and there are as many as there can be
references. Nine tags make an `#if` with four branches, or one in a branch of
another; seven characters a directive with a full line on each side. Three
characters after an opening are enough to leave each mode in each way and enter
another, with two pushed or popped at once. Each rendering of `MCRender` can
hold three buffers, one for the string, one for a value and one for a float in
it, so six are as many as are ever held; one list is longer than the limit and
so is a struct, one value occurs twice in another, one contains itself through
a pointer, one through slices alone, one is a struct with a pointer to its
first field, and all fit a stack of five but the one without a pointer. `MaxCalls` of
`MCLexer`, the calls of `Lex` counted, is never reached.

Symmetry is used only between the two slices, or the two maps, that a template
can name. `CHECK_DEADLOCK FALSE` is set where the system may stop: in
`MCRange`, `MCExpressions`, `MCParser`, `MCLexer` and `MCRender` when all is
computed, read or rendered, and in the runs of maps when a call has panicked or
no call is left within the bounds.

### What the violated property shows

**An undefined variable may go unnoticed** (`UndefinedIsReported`). Within an
`#if` or a template read by `#parse` the error has `stop` false and is dropped
(execute.go:96-113, 252-256), whether the variable was to be shown, or set, or
a member of it; README.md:9 says a run-time error.

### Met while modelling

The models do what the code does; the properties above hold with all of this,
and say so where they have exceptions for it.

In the tree walk:
- `#stop` does not stop. A loop drops the stop of its body (execute.go:203), a
  macro call turns it into the end of the caller's list (170-171); text that
  follows is still rendered, contrary to templates/stop1.vm and stop3.vm.
- The error of a cycle or of a size ends the rendering, but not in a
  double-quoted string: `eval` drops the stop of `_execute` (execute.go:437),
  `#set` returns the error without one, and an `#if` or `#parse` around it drops
  that too, so that the text after it is written. `FatalIsFinal` speaks of the
  errors that directives return with `stop`.
- `WithMaxIterations` does not reach templates read by `#parse`, whose loops
  have the default of no limit (parse.go:12, 69): one that adds to what it
  iterates never ends. `Termination` has this exception (`Endless`).
- `ParseNode` has no position, so an error of a `#parse` carries the line of
  the node before.

In collections:
- `Put` converts a number to the character of that code, `Get` prints it
  (types.go:120); README.md:26 says `1` and `"1"` are one key.
- An iterator over entries panics after its next key was removed by other means
  (types.go:366); README.md:32 speaks of weird results.
- A range that goes down contains nothing; one from or to the least int is
  refused as too long when no end is positive, whatever its length, because
  `NewRange` negates the ends first; `overflowsInt64` looks at float64 values
  only and lets 2^63 itself pass, so that such an end, and a uint64 above the
  largest int, becomes another number (`EndsExact` speaks only of ends an int
  can hold).
- `Contains` and `Remove` of a slice compare with `reflect.DeepEqual` in spite
  of the comment at types.go:1045, so that the int64 of a template never equals
  the int of a host's slice it was converted to.

In expressions:
- NaN is greater than every number, because `gt` is what `le` is not; an
  integer is rounded before it is compared with a float.
- Arithmetic with a uint64 of the host panics when all operands are integers.
- "If any evaluated arith expression contains nil, NaN or division by zero error
  is returned" (README.md:28-30): a `+` with an operand that is no number
  concatenates, nil included (execute.go:558-559), and all but `%` compute with
  a float that is NaN. `OperatorsTotal` says where there is an error and where,
  against this line, there is none.
- A nil result of a call under `not` or `or` makes the whole condition false.

In properties and calls:
- An undefined method of a struct gives nothing and no error
  (execute.go:955); README.md:9 says a run-time error.
- Setting a field of a struct held by value, or behind two pointers, panics
  (359), and so does setting an element of an object with `Get` but neither
  `Set` nor `Put` (382).
- Variadic methods with other parameters before panic (1050-1064).
- An int set into a string becomes the character of that code.
- With a field and `SetFoo` or `Put` besides, the methods set and the field is
  read: what is set is never read, unless these methods keep it in that field.

In lexer and parser:
- From the third `#elseif` on, each takes the place of the one before it
  (parser.go.y:122).
- A name with no directive or macro is text, although README.md:9 has a
  parsing error; an operator word in capitals (`EQ`) reads as the end of the
  template.
- Newlines are counted twice where `Lex` calls itself and missed in a comment
  `#* *#`.
- `##` takes the newline with it; `#stop` and `#break` the whitespace after.
- Gobbling keeps the newline at the start of the last text unless that text
  ends in one, and trims its spaces; takes the first newline of a nested list
  even where the tag is not alone on its line; and judges the text before a
  nested directive by what follows its `#end`.

In rendering:
- Two renderings race for the map of macros only until all are defined.
- A value that contains itself through slices or maps of the host alone is not
  found by `checkCycle` and overflows the stack.
- A struct that holds a pointer to its own first field is reported as a cycle,
  though it is none: the two have one address (execute.go:713-730).
- `WithMaxArrayRenderSize` limits slices and ranges, and not maps, views,
  iterators and structs (808-812).

## Fairness

`VtlExecute`: weak fairness of `Step`, all the actions within one call of
`Execute`; a Go function that has been called runs on until it returns. Whether
the host calls `Execute` again is its own affair. `VtlRange`: weak fairness of
making the range and of `NextElement`, that is a `#foreach` over the range
asks until there is no more. `VtlLexer`: weak fairness of `Next`; the parser
asks for tokens until there are no more. `VtlRender`: weak fairness of the
steps of each rendering that has begun, which is what Go's scheduler and the
fair `sync.Mutex` give; none of beginning one. The other specifications have
safety properties only, and no fairness.

## The proofs

TLAPS checks eight modules. All proofs are for every value of the constants
that the assumptions named below allow; these give the constants their types
and say what the model takes for granted of them, and TLC evaluates them on the
instances.

| Module | Theorems |
|---|---|
| `VtlExecuteProofs` | `TypeCorrect`, `SlotsStayInBounds`, `DepthStaysBounded`, `FirstMacroStays`, `FatalErrorIsFinal`, `ScopeIsRestored`, `LoopVariablesStay`; `ScopesAreBlocks`: `VtlExecute` implements `Scoping` |
| `VtlRangeProofs` | `TypeCorrect`, `EndsAreExact`, `SizeIsExact`, `IndexIsExact`, `ContainsIsExact`, `WalkIsExact` |
| `VtlSliceProofs` | `SliceTypes`, `SlicesShareOnlyHosts`, `WalksAreExact`; `SlicesAreLists`: `VtlSlice` implements `Lists` |
| `VtlMapProofs` | `MapTypes`, `MapsShareOnlyHosts`, `IteratorRemovesFromItsMap`; `MapsAreMaps`: `VtlMap` implements `Maps` |
| `VtlEvalProofs` | `OperatorsAreTotal`, `ComparisonsFollowTheNumbers`, `QuotientAndRemainder`, `UndefinedCountsAsNil` |
| `VtlReferenceProofs` | `AccessesAreReported`, `WhatIsSetIsRead` |
| `VtlRenderProofs` | `RenderingsAreIsolated`, `OutputIsExact` |
| `VtlLexerProofs` | `LexInvHolds`, `ModesNestHolds`, `EscapedStaysTextHolds`, `LinesNotBehindHolds` |

**Tree walk.** For every set of trees, every context, every library and every
pair of limits (`ConstantsAssumption`). The inductive invariant `Inv` is
`TypeOK /\ StackOK /\ SlotsOK`. `TypeOK` is not inductive: an action takes the
last slots of `held` for its loop's, or the frame below the top for the one
that called, and only `StackOK` says that they are: neighbouring frames are a
directive that runs a list and that list, one call deeper or not, in the same
template or the next, and a looping frame has two slots of its own. A slot in
bounds is not enough either, for a pop in the middle would move those above:
`SlotsOK` says that the slots held for one name are held in the order of their
numbers, so that the last one held can be popped with no effect on the others,
also when a loop that failed has left values behind. `FatalErrorIsFinal` is an
action property and follows from the pair each way of returning hands on; the
error of a string is no such pair, for `ErrOf` turns it into the plain error
that `eval` returns. There is a lemma for each action and, below, one for each way the actions handle the stack.

**Scopes.** That a list leaves the context as it found it is not inductive
either: at a return it has to be known that the values above the caller's are
exactly those with a slot. `ScopeInv` adds, for each frame, that the context at
its call is still at the bottom of the present one (`Based`), that its `mark`
parts the slots held into those of values in that context and those above it
(`Parted`), that every value the rendering has pushed has a slot (`Owned`), and
that a running loop finds its own two values (`Loops`). A fatal error gives up
`Owned`, since a loop that fails returns without popping its two values, and
nothing else. The lemmas say what pushing, popping the slot held last, setting
a held slot, calling and returning do to each part.

**Scoping.** The refinement needs the same invariant. In a state, a name means
in `Ctx` its last value; that this is the binding made last in `Scoping`'s
environment follows from `Owned` and the order of the slots. A step is then
described by what it does to slots, frames and `Fatal`; there is a lemma for
each action that says which step of `Scoping` that is, or that it is none.

**Ranges.** For every width of the integers (`Half > 1`) and every limit on
arrays: the distance `NewRange` computes is the exact one unless the least int
is negated, and then it is never too small (`DistanceExact`,
`DistanceOfEnds`). So the ends of an accepted range are less than `MaxInt`
apart, and size, elements and indices follow by linear arithmetic. The
invariant adds to `TypeOK` that the range is an accepted one, that nothing is
walked before there is a range, and `WalkExact`, which is inductive together
with these.

**Slices.** For any finite set of slices, any values and element types, and any
arrays of the host; `SliceAssumption` says that a conversion to a type is the
identity on what it has given, that the host's windows lie within its arrays,
and that what it shares is of one type. `SliceInv` is that memory is in order
(`InOrder`: windows lie within their arrays and show elements of their type,
windows on one array agree on the type, only the host's arrays have several)
and that the iterator is where its record says. An operation rewrites elements
of its own type in its own array (`Rewrites`) or takes an array nobody refers
to, and there always is one, as there are more arrays than slices
(`FreeArrIsFree`). The loops of `AddAll`, `RemoveAll` and `RetainAll` read what
they may have just written, so there it is said where a loop may be after each
number of turns (`Extending`, `Straining`) and that a turn leads from one such
place to the next; `TurnsStay` and `TurnsExist` turn this into a statement about
the whole loop.

**Slices are lists.** Without the host's arrays (`Host = {}`) each operation is
one of `Lists`. `Others` is that what an operation leaves in memory shows every
other slice as before, which `InOrder` gives. What it shows the slice it is made
on is said exactly: `Appending`, that after k elements the slice is its old
elements and the conversions of k others, or a conversion has failed;
`Sifting`, that after k elements the array begins with those of them that are
kept, followed by the elements not yet looked at. The second also covers
`$x.removeAll($x)` and `$x.retainAll($x)`, where the operand shrinks as the
loop goes on: the element asked about is itself still there, so that each is
judged as if the operand had not changed.

**Maps.** `MapAssumption` has the same of conversions, and that one type fits
another only if its values convert (`PutAll` converts every value).
`MapInv` adds to the types that iterators and entries are of a map that was
made, and `SharedOnlyByHosts`. There are more Go maps than references
(`FreeIdIsFree`). Without the host's maps a change of a Go map is a change of
the one `*Map` that refers to it, or, after `Clear`, of none, so that an
operation through whatever view or iterator is one of `Maps`.

**Operators.** For every width of the integers and every precision of the floats
(`BitsAssumption`; `NoneAssumption`: the mark for what is not there yet is no
value). `EvalInv` ties a result to the operands it was computed from. The proof
of `OrderExact` rests on `NearestKeepsOrder`: rounding an integer to a float
never reverses an order, because where the spacing of floats doubles there is a
float. `DivisionExact` is nonlinear, so that the facts on products are lemmas.
`ArithmeticIsStrict` goes through the arithmetic operators for `OperatorsTotal`.

**References.** For objects of any shape, with any methods of any types that
keep what they are given in the field or apart from it (`TypesAssumption`: a
variadic method has a last parameter, a method that writes a field has a pointer
to the struct), and calls with any number of arguments. `AccessReported` speaks
of one access, `SetIsRead` of two that others may come between, and is not
inductive. `Kept` says what lasts from one to the other: the place the last
notation sets (`SetPlace`) still holds what was set, converted to the type of
that place, and a field that no notation sets (`FieldApart`) holds what the host
put there. There is a lemma for what each method of the host returns and keeps,
one for a call with each number of arguments, and one for each kind of access.

**Renderings.** For any number of renderings, any template, any objects, those
included that contain themselves, any addresses of pointers, and any number of
buffers that is enough
(`ConstantsAssumption`: three for each rendering). `Isolation` says
three things, each with a part of the invariant of its own: who uses the cache
holds the mutex (`Guarded`); macros are never taken away, so a rendering that
began with all of them never defines one (`Known`); and a rendering that no
other has overlapped so far set the position last (`Alone`).

**Output.** `OutputExact` speaks of what is written, so the invariant has to
say what is on the way there. How many buffers a rendering holds follows from
where it is (`Needs`), and no buffer is held twice or both held and in the pool
(`Owned`); so the new one that an empty pool gives is nobody's
(`Cardinality`), and a step leaves the buffers and the stack of all others
as they were (`OthersKeep`). While a value is printed (`Halfway`), the buffer
holds a beginning of the value's atoms, and what the frames have left to print,
innermost first, is the rest (`Left`). That is a statement about the value as
it is unfolded to the depth of the stack, which an object within itself has
no end to: `Frames` says that each object under way is an element of the one
below it and that each element of it is left, under way, or `Printable`: in the
least set of objects, each below pointers of some addresses, that has every
object of the size allowed which has none of these addresses and whose parts it
has below one address more (`PrintableIn`). What is in it has no list above the
limit within, nothing that contains itself, and no pointer within another of the
same address. At the end of a value the last frame is empty, the value is
`Printable` and the buffer has all of it; where `checkCycle` finds an address
again, the objects in between lead from a pointer with it to another, so that
`Found` is true. Errors, which drop the stack and the buffer in use, and `WriteTo`, which
empties it, leave nothing behind that a later owner would read, because a
buffer that is taken is reset.

**Lexer.** For sources of any length, over all of the characters, that begin in
any way (`SourceAssumption`), and for any bound on the calls that are counted.
There is a lemma for each mode that says what a call of `Lex` does: it returns a
token and opens or closes what the token opens or closes (`Speaks`), or it
changes the mode and goes on where it is, or behind a comment (`Changes`).
`ModesNest` follows by counting. That `EscapedStaysText` holds rests on where
scans of text begin: `Escapes` counts the backslashes from there on, which is
right only if those before it escape nothing (`RunsOn`). So `LexInv` says that, in every mode but inside brackets and
braces, the characters read end in an even number of backslashes (`Settled`),
and each lemma shows that its token or comment ends at such a place.
`LinesNotBehind` needs that without comments nothing is read while calls wait,
so that the calls which still wait have something left to read (`LinesInv`).

**Only model-checked.** Out of the prover's reach are liveness (`Termination`,
`WalkEnds`, `SourceIsRead`, `RenderingsEnd`), `ENABLED`, and RECURSIVE
operators, with which whole trees are defined in `VtlGobble` and `VtlParser`: so
`TreeExact`, `GobbledOnlyAtTags` and `LinesGobbled` are for TLC. A proof would
need trees by their depth, as sets defined by a recursive function, in place of
these operators. All other properties of the runs that pass are theorems. The library's induction theorems
take an operator and cannot be used; where an induction over natural numbers is
needed, it is done with a set of counterexamples and its least element
(`LeastExists`), over recursive functions. For that, loops that the models once
had as folds are now recursive functions, and `CASE`s whose guards overlap,
of which nothing can be concluded, are disjuncts or nested conditions.

## What is not modelled

- `Str`: wrappers around the libraries for strings, without state.
- Expressions in the tree walk are known by their outcome, double-quoted strings
  by their references, whose texts in between make no difference.
- Printing an iterator uses it up (execute.go:791-804): a value is printed alike
  each time in `VtlRender`. Host types that print themselves (`Stringer`) are
  text.
- References and expressions in the grammar, and goyacc's tables and driver;
  square brackets, which the lexer nests as it does round ones, exponents, and
  which word an operator is.
- What float arithmetic computes, and the format of what is printed.
- Accesses of more than one step: `$a.b.c` is two of `VtlReference`. Nil
  pointers that have methods.
- Nodes within nodes in `VtlRender`, whose nesting is in `VtlExecute`; data of
  the host that renderings share; buffers the pool drops.
- Nil among the elements of a slice, a range as the operand of `AddAll`, nil
  maps of the host (`Put` on one panics, types.go:131) and maps whose keys are
  not strings (types.go:96).
- `#include` with several names stands for several directives in a row. Files
  that `#parse` and `#include` read exist or do not; reading them has no other
  outcome. Running the library (its output and its error are thrown away,
  parse.go:55) has no outcome but its macros.
