------------------------------- MODULE Schema -------------------------------
(* Tool input schemas: the overlay's field patches (src/surface/patch.rs),   *)
(* the local check of a call against them (src/surface/preflight.rs) and the *)
(* stages in which they are shown within a budget (src/surface/minify.rs and *)
(* details_text of src/surface.rs).                                          *)
(*                                                                           *)
(* A schema node is a record of the keywords the code reads: `type` (one     *)
(* string, or "any" when it declares none), `nullable` (by any of the three  *)
(* ways null_allowed knows), `enum` ({} when absent), `props`, `required`,   *)
(* `branches` (anyOf and oneOf), `items` (at most one) and `docs`, the       *)
(* number of words its prose takes when displayed.                           *)
EXTENDS Paths

Node(type) ==
  [type |-> type, nullable |-> FALSE, enum |-> {}, props |-> <<>>, required |-> {},
   branches |-> <<>>, items |-> <<>>, docs |-> 0, elided |-> FALSE]

Object(props, required) == [Node("object") EXCEPT !.props = props, !.required = required]

(* Whatever holds child schemas besides `props` is walked the same way.      *)
Children(s) == s.branches \o s.items

-----------------------------------------------------------------------------
(* Numbers that JSON writes in two ways are one number.                      *)
SameNumber == {{"2", "2.0"}, {"3", "3.0"}}
EnumValueMatches(allowed, got) ==
  \/ allowed = got
  \/ "is" \in DOMAIN allowed /\ "is" \in DOMAIN got /\ {allowed.is, got.is} \in SameNumber

(* A faulty NullAllowed: it reads only the enum.                             *)
NullAllowedByEnum(s) == Null \in s.enum

NullAllowed(s) == s.nullable \/ Null \in s.enum

(* preflight_walk: the violations of required and enum, as the dotted path   *)
(* and the reason of the error; it returns one of them, whichever property   *)
(* the map yields first, and lets the call through when there is none.       *)
IfSo(holds, violation) == IF holds THEN {violation} ELSE {}

RECURSIVE PreflightWalk(_, _, _)
PreflightWalk(s, args, prefix) ==
  UNION {LET p == s.props[name]
             path == Append(prefix, name)
             v == Get(args, name)
             missing == name \in s.required /\ (v = Nothing \/ (v = Null /\ ~NullAllowed(p)))
             outside == p.enum # {} /\ ~\E e \in p.enum : EnumValueMatches(e, v)
         IN IfSo(missing, <<path, "missing_required_field">>)
            \union IF v \in {Nothing, Null} \/ p.branches # <<>> THEN {}
                   ELSE IfSo(outside, <<path, "invalid_enum_value">>)
                        \union IF p.type = "object" THEN PreflightWalk(p, v, path) ELSE {}
         : name \in DOMAIN s.props}

PreflightError(s, args) == PreflightWalk(s, args, <<>>)

(* decode_stringified: a text where the schema declares an object or an      *)
(* array, and that parses to one, is replaced by what it holds.              *)
RECURSIVE DecodeStringified(_, _)
DecodeStringified(s, args) ==
  IF ~IsObj(args) THEN args
  ELSE Obj([name \in Keys(args) |->
         IF name \notin DOMAIN s.props THEN args.object[name]
         ELSE LET p == s.props[name]
                  v == args.object[name]
                  w == IF /\ IsText(v)
                          /\ \/ p.type = "object" /\ IsObj(v.text)
                             \/ p.type = "array" /\ IsArr(v.text)
                       THEN v.text ELSE v
              IN IF p.type = "object" THEN DecodeStringified(p, w) ELSE w])

-----------------------------------------------------------------------------
(* What JSON Schema itself says of a value, as an upstream validates it.     *)
RECURSIVE Accepts(_, _)
Accepts(s, v) ==
  /\ \/ v = Null /\ (s.nullable \/ s.type = "any")
     \/ v # Null /\ CASE s.type = "object" -> IsObj(v)
                      [] s.type = "array" -> IsArr(v)
                      [] s.type = "any" -> TRUE
                      [] OTHER -> ~IsObj(v) /\ ~IsArr(v)
  /\ s.enum = {} \/ \E e \in s.enum : EnumValueMatches(e, v)
  /\ IsObj(v) => /\ s.required \subseteq Keys(v)
                 /\ \A k \in Keys(v) \intersect DOMAIN s.props : Accepts(s.props[k], v.object[k])
  /\ IsArr(v) /\ s.items # <<>> => \A i \in DOMAIN v.array : Accepts(s.items[1], v.array[i])
  /\ s.branches = <<>> \/ \E i \in DOMAIN s.branches : Accepts(s.branches[i], v)

-----------------------------------------------------------------------------
(* A field patch: `path` leads through `props`; `hide` drops the field,      *)
(* `source` takes it from the agent to inject it, the rest amends it.        *)
NoPatch == [path |-> <<>>, hide |-> FALSE, source |-> "none", required |-> "keep",
            enum |-> {}, type |-> "keep"]

Strips(patch) == patch.hide \/ patch.source # "none"

SetRequired(s, field, required) ==
  [s EXCEPT !.required = IF required THEN @ \union {field} ELSE @ \ {field}]

Amended(p, patch) ==
  [p EXCEPT !.enum = IF patch.enum = {} THEN @ ELSE patch.enum,
            !.type = IF patch.type = "keep" THEN @ ELSE patch.type]

(* nav_to_container and the body of the loop, one level of `props` at a      *)
(* time: a path that leads nowhere patches nothing.                          *)
RECURSIVE Patched(_, _, _)
Patched(s, path, patch) ==
  LET field == Head(path)
      amended == [s EXCEPT !.props[field] = Amended(@, patch)]
  IN CASE path = <<>> -> s
       [] path # <<>> /\ field \notin DOMAIN s.props -> s
       [] path # <<>> /\ field \in DOMAIN s.props /\ Len(path) > 1 ->
            [s EXCEPT !.props[field] = Patched(@, Tail(path), patch)]
       [] OTHER ->
            IF Strips(patch)
            THEN SetRequired([s EXCEPT !.props = [k \in DOMAIN @ \ {field} |-> @[k]]], field, FALSE)
            ELSE IF patch.required = "keep" THEN amended
            ELSE SetRequired(amended, field, patch.required = "yes")

(* The patches are a map: their order is any.                                *)
ApplyFieldPatches(s, patches) == FoldLeft(LAMBDA acc, p : Patched(acc, p.path, p), s, patches)

RECURSIVE FieldPathExists(_, _)
FieldPathExists(s, path) ==
  /\ path # <<>>
  /\ Head(path) \in DOMAIN s.props
  /\ Len(path) = 1 \/ FieldPathExists(s.props[Head(path)], Tail(path))

(* binding_status: what became of the contract an overlay was written for.   *)
BindingStatus(patches, target, authored, live) ==
  IF target = Nothing THEN "broken"
  ELSE IF \E i \in DOMAIN patches : ~FieldPathExists(target, patches[i].path) THEN "broken"
  ELSE IF authored # "none" /\ authored # live THEN "changed"
  ELSE "ok"

-----------------------------------------------------------------------------
(* Display.  A node takes a word for each property name and for its prose    *)
(* and enum.                                                                 *)
RECURSIVE Words(_)
Words(s) ==
  s.docs + Cardinality(s.enum)
  + FoldSet(LAMBDA name, n : n + 1 + Words(s.props[name]), 0, DOMAIN s.props)
  + FoldLeft(LAMBDA n, c : n + Words(c), 0, Children(s))

Inside(s, F(_)) ==
  [s EXCEPT !.props = [name \in DOMAIN s.props |-> F(s.props[name])],
            !.branches = [i \in DOMAIN s.branches |-> F(s.branches[i])],
            !.items = [i \in DOMAIN s.items |-> F(s.items[i])]]

(* Stage one caps prose and enums, stage two drops them; neither touches a   *)
(* name, a type or a required list.                                          *)
RECURSIVE Minify(_, _, _)
Minify(s, words, values) ==
  LET Below(c) == Minify(c, words, values)
      capped == IF Cardinality(s.enum) <= values THEN s.enum
                ELSE CHOOSE e \in SUBSET s.enum : Cardinality(e) = values
  IN Inside([s EXCEPT !.docs = IF @ <= words THEN @ ELSE words, !.enum = capped], Below)

(* A faulty MinifyHard: the required flags go with the prose.                *)
MinifyHardAll(s) == [Minify(s, 0, 0) EXCEPT !.required = {}]

MinifyHard(s) == Minify(s, 0, 0)

(* Depth is spent by `props` alone: what wraps a schema is transparent.      *)
RECURSIVE PruneBelowDepth(_, _)
PruneBelowDepth(s, depth) ==
  LET wrapped(c) == PruneBelowDepth(c, depth)
      here == [s EXCEPT !.branches = [i \in DOMAIN @ |-> wrapped(@[i])],
                        !.items = [i \in DOMAIN @ |-> wrapped(@[i])]]
  IN IF DOMAIN s.props = {} THEN here
     ELSE IF depth = 0 THEN [here EXCEPT !.props = <<>>, !.elided = TRUE]
     ELSE [here EXCEPT !.props = [name \in DOMAIN @ |-> PruneBelowDepth(@[name], depth - 1)]]

(* details_text: the first stage that fits, and what its note says of it.    *)
Shown(note, s, cut) == [note |-> note, schema |-> s, cut |-> cut]

DetailsText(s, budget, docWords, enumValues) ==
  LET minified == Minify(s, docWords, enumValues)
      hard == MinifyHard(minified)
      Fits(t) == Words(t) <= budget
      deepest == {d \in 2..5 : Fits(PruneBelowDepth(hard, d))}
      shallow == PruneBelowDepth(hard, 1)
  IN CASE Fits(s) -> Shown("full", s, FALSE)
       [] ~Fits(s) /\ Fits(minified) -> Shown("minified", minified, FALSE)
       [] ~Fits(minified) /\ Fits(hard) -> Shown("hard", hard, FALSE)
       [] ~Fits(hard) /\ deepest # {} -> Shown("depth", PruneBelowDepth(hard, Max(deepest)), FALSE)
       [] OTHER -> Shown("depth", shallow, ~Fits(shallow))
=============================================================================
