------------------------------ MODULE Scoping ------------------------------
(***************************************************************************)
(* What a rendering promises about variables: block structure.  Bindings   *)
(* are made in the innermost block, a name means the binding made last, or *)
(* else what the caller of Execute gave it, and a block ends with its own  *)
(* bindings undone and nothing else.  Only a rendering that has failed     *)
(* owes nothing any more, except that it binds nothing new.                *)
(***************************************************************************)
EXTENDS Integers, SequencesExt

CONSTANTS Name, Undefined

VARIABLES
  globals,  \* what the caller gave each name
  env,      \* the bindings in force, in the order they were made
  blocks,   \* of each open block, how many bindings there were before it
  view,     \* what each name means
  failed

vars == <<globals, env, blocks, view, failed>>

Meaning(g, e, n) ==
  LET own == {j \in DOMAIN e : e[j].name = n}
  IN IF own = {} THEN g[n] ELSE e[Max(own)].val

Extends(s, t) == Len(s) < Len(t) /\ SubSeq(t, 1, Len(s)) = s

Init == /\ globals = [n \in Name |-> Undefined]
        /\ view = globals
        /\ env = <<>> /\ blocks = <<>> /\ failed = FALSE

Start == env' = <<>> /\ blocks' = <<0>> /\ failed' = FALSE

Bind == Extends(env, env') /\ UNCHANGED <<globals, blocks, failed>>

\* The last bindings of the innermost block are undone.
Unbind == /\ Extends(env', env) /\ Len(env') >= Last(blocks)
          /\ UNCHANGED <<globals, blocks, failed>>

Open == /\ blocks' = Append(blocks, Len(env))
        /\ UNCHANGED <<globals, env, failed>>

\* A loop gives its variable, bound last in its block, the next element.
Iterate == /\ Len(env) > Last(blocks)
           /\ Len(env') = Len(env) /\ Front(env') = Front(env)
           /\ Last(env').name = Last(env).name
           /\ blocks' = Append(blocks, Len(env))
           /\ UNCHANGED <<globals, failed>>

Close == /\ blocks # <<>> /\ Len(env) = Last(blocks)
         /\ blocks' = Front(blocks)
         /\ UNCHANGED <<globals, env, failed>>

Fail == /\ failed' = TRUE
        /\ env' = env \/ Extends(env', env)
        /\ UNCHANGED globals

Consistent == failed \/ view = [n \in Name |-> Meaning(globals, env, n)]

Next == /\ Start \/ Bind \/ Unbind \/ Open \/ Iterate \/ Close \/ Fail
        /\ Consistent'

Spec == Init /\ [][Next]_vars
=============================================================================
