------------------------------- MODULE Paths --------------------------------
(* What `fields`, `keep`, `remove` and `rename` do along a path              *)
(* (src/project.rs); the segment "[]" maps over an array.                    *)
EXTENDS Json

Each == "[]"

Mapped(v, F(_)) == Arr([i \in DOMAIN v.array |-> F(v.array[i])])

-----------------------------------------------------------------------------
(* Selection.  An element the path misses becomes null, so that two          *)
(* selections of one array still line up when they are merged.               *)

RECURSIVE Select(_, _)
Select(v, path) ==
  IF path = <<>> THEN v
  ELSE LET rest == Tail(path)
           Kept(e) == LET s == Select(e, rest) IN IF s = Nothing THEN Null ELSE s
           sub == Select(Get(v, Head(path)), rest)
       IN IF v = Nothing THEN Nothing
          ELSE IF Head(path) = Each THEN IF IsArr(v) THEN Mapped(v, Kept) ELSE Nothing
          ELSE IF ~Has(v, Head(path)) \/ sub = Nothing THEN Nothing
          ELSE With(Empty, Head(path), sub)

RECURSIVE DeepMerge(_, _)
DeepMerge(a, b) ==
  CASE IsObj(a) /\ IsObj(b) ->
         Obj([k \in Keys(a) \union Keys(b) |->
                IF Has(a, k) /\ Has(b, k) THEN DeepMerge(a.object[k], b.object[k])
                ELSE IF Has(a, k) THEN a.object[k] ELSE b.object[k]])
    [] IsArr(a) /\ IsArr(b) ->
         LET both == DOMAIN a.array \intersect DOMAIN b.array
         IN Arr([i \in DOMAIN a.array \union DOMAIN b.array |->
                   IF i \in both THEN DeepMerge(a.array[i], b.array[i])
                   ELSE IF i \in DOMAIN a.array THEN a.array[i] ELSE b.array[i]])
    [] a = Null -> b
    [] OTHER -> a

(* A faulty Project: it merges the top level alone.                          *)
ProjectShallow(v, paths) ==
  FoldLeft(LAMBDA acc, p : LET s == Select(v, p)
                           IN IF s = Nothing THEN acc
                              ELSE IF IsObj(acc) /\ IsObj(s)
                              THEN Obj([k \in Keys(acc) \union Keys(s) |-> IF Has(acc, k) THEN acc.object[k] ELSE s.object[k]])
                              ELSE s,
           Null, paths)

(* The union of the paths that match; null when none does.                   *)
Project(v, paths) ==
  FoldLeft(LAMBDA acc, p: LET s == Select(v, p)
                          IN IF s = Nothing THEN acc ELSE DeepMerge(acc, s),
           Null, paths)

-----------------------------------------------------------------------------
(* Edits in place.  Each descends through what is there and does nothing     *)
(* where the path leads nowhere.                                             *)

RECURSIVE PruneAt(_, _)
PruneAt(v, path) ==
  LET rest == Tail(path)
      Below(e) == PruneAt(e, rest)
  IN CASE path = <<>> -> v
       [] path # <<>> /\ Head(path) = Each ->
            IF ~IsArr(v) THEN v ELSE IF rest = <<>> THEN Arr(<<>>) ELSE Mapped(v, Below)
       [] OTHER ->
            IF ~Has(v, Head(path)) THEN v
            ELSE IF rest = <<>> THEN Without(v, Head(path))
            ELSE With(v, Head(path), Below(Get(v, Head(path))))

Prune(v, paths) == FoldLeft(PruneAt, v, paths)

RECURSIVE RenameAt(_, _, _)
RenameAt(v, path, new) ==
  LET Below(e) == RenameAt(e, Tail(path), new)
  IN CASE path = <<>> -> v
       [] path # <<>> /\ Head(path) = Each -> IF IsArr(v) THEN Mapped(v, Below) ELSE v
       [] OTHER ->
            IF ~Has(v, Head(path)) THEN v
            ELSE IF Len(path) = 1
            THEN With(Without(v, Head(path)), new, Get(v, Head(path)))
            ELSE With(v, Head(path), Below(Get(v, Head(path))))

-----------------------------------------------------------------------------
(* Every place of a value: the keys and the array positions that lead to it. *)

RECURSIVE Places(_)
Places(v) ==
  {<<>>} \union
    CASE IsObj(v) -> UNION {{<<k>> \o p : p \in Places(v.object[k])} : k \in Keys(v)}
      [] IsArr(v) -> UNION {{<<Digit[i]>> \o p : p \in Places(v.array[i])} : i \in DOMAIN v.array}
      [] OTHER -> {}

(* Whether a path, wildcards and all, leads to a place or through it.        *)
Leads(path, place) ==
  \A i \in 1..(IF Len(path) < Len(place) THEN Len(path) ELSE Len(place)) :
    path[i] = place[i] \/ (path[i] = Each /\ place[i] \in Range(Digit))
=============================================================================
