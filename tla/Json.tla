-------------------------------- MODULE Json --------------------------------
(* JSON values and the places inside them that overlays read and write       *)
(* (src/project.rs, and get_path of src/surface/results.rs).                 *)
(*                                                                           *)
(* A value is a record with one field, named for its kind: an object maps    *)
(* keys to values, an array is a sequence, a text is a string that itself    *)
(* holds the JSON of a value, and everything else is an atom.  A path is the *)
(* sequence of its segments, parse_path having split the dots.               *)
EXTENDS Naturals, Sequences, SequencesExt, FiniteSets

Atom(a) == [is |-> a]
Text(v) == [text |-> v]
Obj(f) == [object |-> f]
Arr(s) == [array |-> s]
Null == Atom("null")
Empty == Obj(<<>>)

(* What Option::None is here; no value has this field.                       *)
Nothing == [nothing |-> TRUE]

IsObj(v) == "object" \in DOMAIN v
IsArr(v) == "array" \in DOMAIN v
IsText(v) == "text" \in DOMAIN v

Keys(v) == IF IsObj(v) THEN DOMAIN v.object ELSE {}
Has(v, key) == key \in Keys(v)
Get(v, key) == IF Has(v, key) THEN v.object[key] ELSE Nothing

With(v, key, w) == Obj([k \in Keys(v) \union {key} |-> IF k = key THEN w ELSE v.object[k]])
Without(v, key) == Obj([k \in Keys(v) \ {key} |-> v.object[k]])

-----------------------------------------------------------------------------
(* Positions of an array are numbered texts, so that a place is a sequence   *)
(* of strings.  The walk to a place is the values on the way there, from the *)
(* whole one at 0 on; Nothing once there is none.                            *)
Digit == <<"0", "1", "2", "3", "4", "5", "6", "7", "8", "9">>

Child(v, key) ==
  CASE Has(v, key) -> v.object[key]
    [] ~Has(v, key) /\ IsArr(v) /\ \E n \in DOMAIN v.array : Digit[n] = key ->
         v.array[CHOOSE n \in DOMAIN v.array : Digit[n] = key]
    [] OTHER -> Nothing

Walk(v, place) ==
  LET node[n \in 0..Len(place)] == IF n = 0 THEN v ELSE Child(node[n - 1], place[n])
  IN node

(* get_path: the value at a place, Nothing where there is none.              *)
At(v, place) == Walk(v, place)[Len(place)]

-----------------------------------------------------------------------------
(* set_at and default_at.  `node` is what the edit finds on its way down, an *)
(* intermediate object that is absent being created; `put` is what becomes   *)
(* of each node: one that is something else than an object stops the edit.   *)
PutAt(v, path, w, over) ==
  LET node[n \in 0..Len(path)] ==
        IF n = 0 THEN v
        ELSE LET above == node[n - 1] IN IF Has(above, path[n]) THEN above.object[path[n]] ELSE Empty
      put[up \in 0..Len(path)] ==
        LET n == Len(path) - up
            keeps == n = Len(path) - 1 /\ ~over /\ Has(node[n], path[n + 1])
        IN IF up = 0 THEN w
           ELSE IF ~IsObj(node[n]) \/ keeps THEN node[n]
           ELSE With(node[n], path[n + 1], put[up - 1])
  IN IF path = <<>> THEN v ELSE put[Len(path)]

SetAt(v, path, w) == PutAt(v, path, w, TRUE)
DefaultAt(v, path, w) == PutAt(v, path, w, FALSE)
=============================================================================
