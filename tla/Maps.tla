-------------------------------- MODULE Maps --------------------------------
(***************************************************************************)
(* What a template may think a *Map is: a map of its own from strings to   *)
(* values, which only the calls made on it, or on its views, iterators and *)
(* entries, change, and each of them in one go.                            *)
(***************************************************************************)
CONSTANTS
  Map,      \* the maps
  Key,      \* the strings
  None,     \* no map yet
  Absent,   \* no value
  Value,
  Type,     \* element types
  Conv,     \* what a value becomes, by type
  Fits,     \* the types whose values are converted, by type
  Made      \* the maps a template starts with: type and values by key

VARIABLE store

Init == store = [m \in Map |-> None]

Is(m) == store[m] # None
Change(m, val) == store' = [store EXCEPT ![m].val = val]
Drop(m, keys) == Change(m, [k \in Key |-> IF k \in keys THEN Absent ELSE store[m].val[k]])

New(m) == \E t \in Made : store' = [store EXCEPT ![m] = t]

Update(m) ==
  \/ \E k \in Key, v \in Value : Change(m, [store[m].val EXCEPT ![k] = v])
  \/ \E keys \in SUBSET Key : Drop(m, keys)
  \/ \E n \in Map :
       /\ Is(n) /\ store[n].type \in Fits[store[m].type]
       /\ Change(m, [k \in Key |-> IF store[n].val[k] # Absent
                                   THEN Conv[store[m].type][store[n].val[k]]
                                   ELSE store[m].val[k]])

Next == \E m \in Map : IF Is(m) THEN Update(m) ELSE New(m)

Spec == Init /\ [][Next]_store
=============================================================================
