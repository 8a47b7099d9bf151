------------------------------ MODULE SpecCall ------------------------------
(* Tools made from an OpenAPI document: the document's references resolved   *)
(* within a budget, an operation's input schema (src/spec.rs), the HTTP      *)
(* request a call of it becomes and the result its answer becomes            *)
(* (src/exec.rs, SpecBackend of src/backend.rs).                             *)
EXTENDS Schema

CONSTANTS MaxRefChain,  \* MAX_REF_CHAIN
          MaxNodes,     \* MAX_RESOLVED_NODES
          MaxBody       \* MAX_RESPONSE_CHARS, in leaves of the body

(* A tree of a document: an inner node, or a reference to a definition.      *)
Tree(kids) == [kids |-> kids]
Ref(name) == [ref |-> name]
IsRef(t) == "ref" \in DOMAIN t
Circular(name) == [circular |-> name]
Omitted(name) == [omitted |-> name]

(* One pass of resolve: the tree it made and what is left of the budget,     *)
(* which is negative once the pass has run out.                              *)
Pass(tree, left, cut) == [tree |-> tree, left |-> left, cut |-> cut]

RECURSIVE Expand(_, _, _, _, _, _), ExpandAll(_, _, _, _, _, _)
Expand(defs, t, depth, seen, limit, left) ==
  LET budget == left - 1
  IN IF left <= 0 THEN Pass(t, -1, FALSE)
     ELSE IF ~IsRef(t)
     THEN LET below == ExpandAll(defs, t.kids, depth, seen, limit, budget)
          IN Pass(Tree(below.tree), below.left, below.cut)
     ELSE IF t.ref \in seen THEN Pass(Circular(t.ref), budget, FALSE)
     ELSE IF depth >= limit
     THEN Pass(IF limit = MaxRefChain THEN t ELSE Omitted(t.ref), budget, TRUE)
     ELSE IF t.ref \notin DOMAIN defs THEN Pass(t, budget, FALSE)
     ELSE Expand(defs, defs[t.ref], depth + 1, seen \union {t.ref}, limit, budget)
ExpandAll(defs, kids, depth, seen, limit, left) ==
  IF kids = <<>> THEN Pass(<<>>, left, FALSE)
  ELSE LET first == Expand(defs, Head(kids), depth, seen, limit, left)
           others == ExpandAll(defs, Tail(kids), depth, seen, limit, first.left)
       IN IF first.left < 0 THEN Pass(kids, -1, FALSE)
          ELSE Pass(<<first.tree>> \o others.tree, others.left, first.cut \/ others.cut)

(* The deepest pass that fits the budget; the raw node when none does.       *)
RECURSIVE Deepen(_, _, _, _)
Deepen(defs, t, limit, best) ==
  LET pass == Expand(defs, t, 0, {}, limit, MaxNodes)
  IN IF pass.left < 0 THEN best
     ELSE IF ~pass.cut \/ limit = MaxRefChain THEN pass.tree
     ELSE Deepen(defs, t, limit + 1, pass.tree)

Resolve(defs, t) == Deepen(defs, t, 0, t)

-----------------------------------------------------------------------------
(* An operation: its path as literals and holes, its parameters, and its     *)
(* request body as the media types it declares, in order, each with its      *)
(* schema; `byRef` when requestBody is a $ref to a shared one.               *)
JsonMedia == "application/json"
NoContent == [byRef |-> FALSE, media |-> <<>>]

PickMedia(content) ==
  LET json == {i \in DOMAIN content : content[i].type = JsonMedia}
  IN IF content = <<>> THEN Nothing
     ELSE IF json # {} THEN content[Min(json)] ELSE content[1]

(* The agent fills the schema behind the reference, for `resolve` is on      *)
(* wherever a schema is shown or checked.                                    *)
BodySchema(op) ==
  IF op.body.media = <<>> THEN Node("any") ELSE PickMedia(op.body.media).schema

(* body_media_type reads the document as it stands.                          *)
BodyMediaType(op) ==
  IF op.body.byRef \/ op.body.media = <<>> THEN "none" ELSE PickMedia(op.body.media).type

ParamObject(params) ==
  Object([n \in {p.name : p \in params} |-> (CHOOSE p \in params : p.name = n).schema],
         {p.name : p \in {q \in params : q.required}})

InputSchema(op) ==
  Object([path_params |-> ParamObject({p \in op.params : p.in = "path"}),
          query_params |-> ParamObject({p \in op.params : p.in = "query"}),
          body |-> BodySchema(op)], {})

(* A query array is repeated, joined, or bracketed as in a form; an array    *)
(* of anything else than scalars has no flat form and is bracketed.          *)
QueryStyle(p, default) ==
  CASE p.style = "deepObject" -> "deep"
    [] p.style \in {"spaceDelimited", "pipeDelimited"} -> IF p.explode = "yes" THEN "repeated" ELSE "joined"
    [] p.style = "form" -> IF p.explode = "no" THEN "joined" ELSE "repeated"
    [] OTHER -> default

StyleOf(op, key) ==
  LET declared == {p \in op.params : p.in = "query" /\ p.name = key}
  IN IF declared = {} THEN op.style ELSE QueryStyle(CHOOSE p \in declared : TRUE, op.style)

Scalar(v) == ~IsObj(v) /\ ~IsArr(v) /\ v # Null

(* flatten_form: a pair for every scalar, named by the place it is at; null  *)
(* and whatever is empty leaves no pair.                                     *)
FlattenForm(v) == {<<p, At(v, p)>> : p \in {q \in Places(v) : Scalar(At(v, q))}}

(* A faulty SerializeQuery: it repeats or joins whatever the array holds.    *)
SerializeFlat(key, v, style) ==
  IF ~IsArr(v) \/ style = "deep" THEN {<<<<key>> \o pair[1], pair[2]>> : pair \in FlattenForm(v)}
  ELSE IF style = "repeated" THEN {<<<<key>>, v.array[i]>> : i \in DOMAIN v.array}
  ELSE {<<<<key>>, v>>}

SerializeQuery(key, v, style) ==
  LET under == {<<<<key>> \o pair[1], pair[2]>> : pair \in FlattenForm(v)}
  IN IF ~IsArr(v) \/ style = "deep" \/ \E i \in DOMAIN v.array : ~Scalar(v.array[i]) THEN under
     ELSE IF style = "repeated" THEN {<<<<key>>, v.array[i]>> : i \in DOMAIN v.array}
     ELSE {<<<<key>>, v>>}

-----------------------------------------------------------------------------
(* The request.  A value in the path is encoded as one segment.              *)
Hole(name) == [hole |-> name]
IsHole(segment) == "hole" \in DOMAIN segment

Fill(op, params) ==
  [i \in DOMAIN op.path |->
     IF IsHole(op.path[i]) /\ Has(params, op.path[i].hole)
     THEN [segment |-> Get(params, op.path[i].hole)] ELSE op.path[i]]

(* Later headers replace earlier ones of the same name: the overlay's win.   *)
MergedHeaders(base, overlay) ==
  [h \in DOMAIN base \union DOMAIN overlay |-> IF h \in DOMAIN overlay THEN overlay[h] ELSE base[h]]

Encoded(op, body) ==
  CASE body = Null \/ body = Empty -> Nothing
    [] ~(body = Null \/ body = Empty) /\ BodyMediaType(op) = JsonMedia -> [json |-> body]
    [] OTHER -> [form |-> FlattenForm(body)]

Part(args, name) == IF Has(args, name) THEN Get(args, name) ELSE Empty

(* Nothing when the path has a hole left: exec refuses to build it.          *)
Request(op, args, base, overlay) ==
  LET path == Fill(op, Part(args, "path_params"))
      query == Part(args, "query_params")
  IN IF \E i \in DOMAIN path : IsHole(path[i]) THEN Nothing
     ELSE [op |-> op.id, path |-> path, headers |-> MergedHeaders(base, overlay),
           query |-> UNION {SerializeQuery(k, query.object[k], StyleOf(op, k)) : k \in Keys(query)},
           body |-> Encoded(op, Part(args, "body"))]

-----------------------------------------------------------------------------
(* The answer.  A JSON body is embedded in the envelope unless it is over    *)
(* the safety cap or the upstream is configured raw; then it is a string.    *)
Leaves(v) == Cardinality({p \in Places(v) : ~IsObj(At(v, p)) /\ ~IsArr(At(v, p))})

FormatBody(body, raw) ==
  IF body = Nothing THEN Atom("not json")
  ELSE IF Leaves(body) > MaxBody THEN Atom("cut")
  ELSE IF raw THEN Text(body) ELSE body

Envelope(status, body, raw) ==
  Obj([status |-> Atom(status), body |-> FormatBody(body, raw),
       truncated |-> Atom(IF body # Nothing /\ Leaves(body) > MaxBody THEN "true" ELSE "false")])

Answered(status, body, raw) ==
  [text |-> Envelope(status, body, raw), isError |-> status = "4xx", reach |-> "answered"]

(* A request never built, one that got no answer, and a body that broke off. *)
Unbuilt == [text |-> With(Empty, "error", Atom("missing path parameter")), isError |-> TRUE, reach |-> "no answer"]
Unanswered == [text |-> With(Empty, "error", Atom("transport error")), isError |-> TRUE, reach |-> "no answer"]
Unreadable(status) ==
  [text |-> Obj([error |-> Atom("upstream response unreadable"), status |-> Atom(status)]),
   isError |-> TRUE, reach |-> "answered"]
=============================================================================
