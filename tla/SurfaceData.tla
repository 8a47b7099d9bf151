---------------------------- MODULE SurfaceData -----------------------------
(* The surface with what the code does to a call's data: the operators that  *)
(* Surface takes as constants, and the properties about the data.            *)
EXTENDS Surface, Shape

CONSTANTS DetailBudget,  \* MAX_DETAIL_CHARS, in words
          DocWords,      \* what minify_schema leaves of a description
          EnumValues     \* and of an enum

ToolDetails(tool) ==
  LET schema == ToolSchema(tool)
  IN [schema |-> schema, shown |-> DetailsText(schema, DetailBudget, DocWords, EnumValues)]

(* A tool's arguments before its secrets are put in, and after.              *)
Filled(tool, args) == Decoded(tool, WithDefaults(tool, args))
Refusals(tool, args) == PreflightError(ToolSchema(tool), args)

(* What a spec backend makes of an HTTP answer, or of none.                  *)
FromHttp(w, tool, args, answer) ==
  LET Result(out) == [isError |-> out.isError, structured |-> Nothing, content |-> <<out.text>>]
  IN Result(IF Request(tool.op, args, w.headers.base, w.headers.overlay) = Nothing THEN Unbuilt
            ELSE CASE answer.status \in {"2xx", "4xx"} -> Answered(answer.status, answer.body, w.raw)
                   [] answer.status = "lost" -> Unanswered
                   [] OTHER -> Unreadable("2xx"))

Outcome(w, sent, answer) ==
  LET three == w.conf.mode = "three"
      raw == IF sent.tool.fromSpec THEN FromHttp(w, sent.tool, sent.sent, answer) ELSE answer
  IN [raw |-> raw, shown |-> Bounded(sent.tool, Shaped(sent.tool, raw, sent.input.fields, three), three)]

-----------------------------------------------------------------------------
(* A required null that the schema admits only through a branch or by        *)
(* declaring no type is the one value preflight refuses against the schema.  *)
RECURSIVE NullsUnread(_, _)
NullsUnread(s, args) ==
  \E name \in DOMAIN s.props :
    LET p == s.props[name]
        v == Get(args, name)
    IN \/ name \in s.required /\ v = Null /\ ~NullAllowed(p) /\ (p.branches # <<>> \/ p.type = "any")
       \/ p.type = "object" /\ NullsUnread(p, v)

(* Preflight refuses no call the upstream's own validation would accept.     *)
NeverTooStrict ==
  reply.kind = "refused" /\ reply.why = "PREFLIGHT_ERROR" =>
    LET tool == reply.tool
        filled == Injected(tool.patches, Filled(tool, reply.input.args), world.secrets)
    IN ~Accepts(ToolSchema(tool), filled) \/ NullsUnread(ToolSchema(tool), filled)

(* The query of a request carries every scalar of query_params, and its body *)
(* the encoding the operation declares where it declares it inline.          *)
RequestFaithful ==
  call # Nothing /\ call.tool.fromSpec =>
    LET op == call.tool.op
        request == Request(op, call.sent, world.headers.base, world.headers.overlay)
        query == Part(call.sent, "query_params")
        Carries(pair, p) ==
          /\ Head(pair[1]) = Head(p)
          /\ pair[2] = At(query, p) \/ (IsArr(pair[2]) /\ At(query, p) \in Range(pair[2].array))
        json == \E i \in DOMAIN op.body.media : op.body.media[i].type = JsonMedia
    IN request # Nothing =>
         /\ \A p \in Places(query) :
              p # <<>> /\ Scalar(At(query, p)) => \E pair \in request.query : Carries(pair, p)
         /\ request.body = Nothing \/ op.body.byRef \/ ("json" \in DOMAIN request.body) = json

-----------------------------------------------------------------------------
(* The JSON values a caller can read in a result.                            *)
Payloads(tool, result) ==
  LET Inner(b) == IF tool.fromSpec /\ IsEnvelope(b)
                  THEN LET body == Get(b, "body") IN IF IsText(body) THEN body.text ELSE body
                  ELSE b
      texts == {Inner(result.content[i]) : i \in {n \in DOMAIN result.content : ~IsProse(result.content[n])}}
  IN texts \union IF result.structured = Nothing THEN {} ELSE {result.structured}

(* A path an overlay removes is in no copy of the payload a caller sees, the *)
(* text, the structured one, or the body inside a spec backend's envelope,   *)
(* unless the same overlay renames or sets something onto it.                *)
StrippedNeverShown ==
  reply.kind = "result" =>
    LET rt == reply.tool.response
    IN Applies(rt, reply.raw.isError) /\ rt.rename = <<>> /\ rt.set = <<>> /\ rt.jq = "none" =>
         \A v \in Payloads(reply.tool, reply.shown), i \in DOMAIN rt.remove : \A p \in Places(v) :
           ~(Len(p) = Len(rt.remove[i]) /\ Leads(rt.remove[i], p))

(* A projection changes what is shown, never what it says: at every path     *)
(* asked for, the caller reads what the transformed payload has there, array *)
(* elements in their places.                                                 *)
ProjectionFaithful ==
  reply.kind = "result" /\ ~reply.raw.isError /\ reply.input.fields # <<>> =>
    LET tool == reply.tool
        rt == tool.response
        wanted == reply.input.fields
        Before(v) == IF Applies(rt, FALSE) THEN ApplyResponseTransform(v, rt, FALSE) ELSE v
        Same(v, w) == \A i \in DOMAIN wanted : Select(w, wanted[i]) = Select(Before(v), wanted[i])
    IN \A i \in DOMAIN reply.raw.content :
         LET v == reply.raw.content[i]
             w == reply.shown.content[i]
         IN ~IsProse(v) /\ ~IsProse(w) /\ ~(tool.fromSpec /\ IsEnvelope(v)) => Same(v, w)

(* Where tools/list shows an output schema, a successful result carries the  *)
(* structured content the upstream gave for it, unchanged and uncut.         *)
OutputsConform ==
  reply.kind = "result" /\ conf.mode = "passthrough" /\ ~reply.raw.isError =>
    ~(reply.tool.declares /\ ~ReshapesResult(reply.tool)) \/
      reply.shown.structured = reply.raw.structured

(* A successful result is the upstream's, narrowed.                          *)
ResultsFaithful == ProjectionFaithful /\ OutputsConform

-----------------------------------------------------------------------------
(* Every name, type and required list of s is in t, or under a node of t     *)
(* that says it was elided.                                                  *)
RECURSIVE KeepsNames(_, _)
KeepsNames(s, t) ==
  /\ t.type = s.type /\ t.required = s.required
  /\ t.elided \/ /\ DOMAIN t.props = DOMAIN s.props
                 /\ \A name \in DOMAIN s.props : KeepsNames(s.props[name], t.props[name])
  /\ \A i \in DOMAIN Children(s) : KeepsNames(Children(s)[i], Children(t)[i])

RECURSIVE Elides(_)
Elides(t) ==
  \/ t.elided
  \/ \E name \in DOMAIN t.props : Elides(t.props[name])
  \/ \E i \in DOMAIN Children(t) : Elides(Children(t)[i])

(* A tree with every reference replaced, a cycle cut where it closes.        *)
RECURSIVE Whole(_, _, _)
Whole(defs, t, seen) ==
  IF ~IsRef(t) THEN Tree([i \in DOMAIN t.kids |-> Whole(defs, t.kids[i], seen)])
  ELSE IF t.ref \in seen THEN Circular(t.ref)
  ELSE IF t.ref \notin DOMAIN defs THEN t
  ELSE Whole(defs, defs[t.ref], seen \union {t.ref})

(* The nodes a walk of it visits, the references on the way included.        *)
RECURSIVE Visits(_, _, _)
Visits(defs, t, seen) ==
  IF ~IsRef(t) THEN 1 + FoldLeft(LAMBDA n, kid : n + Visits(defs, kid, seen), 0, t.kids)
  ELSE IF t.ref \in seen \/ t.ref \notin DOMAIN defs THEN 1
  ELSE 1 + Visits(defs, defs[t.ref], seen \union {t.ref})

(* get_tool_details drops no field unsaid: within the budget a schema keeps  *)
(* every name, what is elided for depth is marked where it was, prose goes   *)
(* before names and names before the budget; and a schema whose references   *)
(* fit their budget comes with all of them replaced.                         *)
DetailsComplete ==
  /\ reply.kind = "details" =>
       LET shown == reply.shown
       IN /\ KeepsNames(reply.schema, shown.schema)
          /\ Elides(shown.schema) => shown.note = "depth"
          /\ Words(shown.schema) <= DetailBudget \/ shown.cut
          /\ Words(reply.schema) <= DetailBudget => shown.schema = reply.schema
  /\ reply.kind = "resolved" /\ Visits(reply.doc.defs, reply.doc.root, {}) <= MaxNodes =>
       reply.tree = Whole(reply.doc.defs, reply.doc.root, {})
=============================================================================
