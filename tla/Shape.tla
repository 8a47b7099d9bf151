------------------------------- MODULE Shape --------------------------------
(* What dispatch does to the data of one call: the arguments before they are *)
(* sent (src/surface/dispatch.rs 67-91) and the result before the caller     *)
(* sees it (dispatch.rs 301-330, 516-570, src/surface/results.rs, the last   *)
(* arm of Surface::call in src/surface.rs).                                  *)
(*                                                                           *)
(* A tool is a record: `schema` as the upstream declares it, `fromSpec`,     *)
(* `declares` (an outputSchema), and its overlay: `patches`, `defaults` (a   *)
(* sequence of <<path, value>>), `preflight`, `paginates`, `response` and    *)
(* `hints`.                                                                  *)
EXTENDS SpecCall, Config

CONSTANT Budget,       \* AGENT_RESULT_BUDGET, in leaves
         LooseBudget,  \* PASSTHROUGH_RESULT_BUDGET
         NudgeOver     \* PROJECTION_NUDGE_CHARS

ToolSchema(tool) == ApplyFieldPatches(tool.schema, tool.patches)

WithDefaults(tool, args) == FoldLeft(LAMBDA a, d : DefaultAt(a, d[1], d[2]), args, tool.defaults)
Decoded(tool, args) == IF tool.preflight THEN DecodeStringified(ToolSchema(tool), args) ELSE args

-----------------------------------------------------------------------------
(* A jq program that fails leaves the payload as it is; of those that work,  *)
(* one that takes the value out of its object is enough.                     *)
Jq(rt, v) == IF rt.jq = "unwrap" /\ IsObj(v) /\ Has(v, "data") THEN Get(v, "data") ELSE v

(* A faulty ApplyResponseTransform: errors are left as they came.            *)
TransformSuccesses(v, rt, isError) ==
  IF isError THEN v ELSE Jq(rt, Prune(IF rt.keep = <<>> THEN v ELSE Project(v, rt.keep), rt.remove))

(* `keep` was written for the shape of a success: an error meets it only     *)
(* where the overlay asks for errors.                                        *)
ApplyResponseTransform(v, rt, isError) ==
  LET kept == IF rt.keep # <<>> /\ (~isError \/ rt.when = "error") THEN Project(v, rt.keep) ELSE v
      renamed == FoldLeft(LAMBDA w, r : RenameAt(w, r[1], r[2]), Prune(kept, rt.remove), rt.rename)
  IN Jq(rt, FoldLeft(LAMBDA w, s : SetAt(w, s[1], s[2]), renamed, rt.set))

IsEnvelope(v) == Has(v, "status") /\ Has(v, "body")

(* A result is its text blocks, each the JSON of a value or prose, and       *)
(* perhaps the payload again in `structured`.                                *)
Prose(words) == [prose |-> words]
IsProse(block) == "prose" \in DOMAIN block

(* The overlay's transform, then the caller's projection.                    *)
Narrowed(v, keep) == IF keep = <<>> THEN v ELSE Project(v, keep)
Reshaped(tool, isError, keep, v) ==
  Narrowed(IF Applies(tool.response, isError)
           THEN ApplyResponseTransform(v, tool.response, isError) ELSE v, keep)

(* What a block holds of the payload: all of it, or of an envelope the body, *)
(* parsed where it is text, unless that is no JSON.                          *)
Wraps(tool, block) == tool.fromSpec /\ IsEnvelope(block)
Untouched(tool, block) ==
  IsProse(block) \/ (Wraps(tool, block) /\ LET body == Get(block, "body")
                                          IN ~IsObj(body) /\ ~IsArr(body) /\ ~IsText(body))
Payload(tool, block) ==
  IF ~Wraps(tool, block) THEN block
  ELSE LET body == Get(block, "body") IN IF IsText(body) THEN body.text ELSE body
Resealed(tool, block, w) ==
  IF ~Wraps(tool, block) THEN w
  ELSE With(block, "body", IF IsText(Get(block, "body")) THEN Text(w) ELSE w)

ReshapedBlock(tool, isError, keep, block) ==
  IF Untouched(tool, block) THEN block
  ELSE Resealed(tool, block, Reshaped(tool, isError, keep, Payload(tool, block)))

(* A structured copy that is no longer an object goes.                       *)
IfObject(v) == IF IsObj(v) THEN v ELSE Nothing
TransformResult(tool, result, keep) ==
  [result EXCEPT
     !.structured = IF @ = Nothing THEN @
                    ELSE IfObject(Reshaped(tool, result.isError, keep, @)),
     !.content = [i \in DOMAIN @ |-> ReshapedBlock(tool, result.isError, keep, @[i])]]

(* The error hints match the text as it now stands; a field pointer renders  *)
(* the field's own schema.                                                   *)
Hinted(tool, result) ==
  LET Matches(h) == \E i \in DOMAIN result.content :
                      \E p \in Places(result.content[i]) : At(result.content[i], p) = h.contains
      Points(h) == h.field # <<>> /\ FieldPathExists(ToolSchema(tool), h.field)
      Block(h) == Prose(IF Points(h) THEN <<"ERROR_DETAIL">> \o h.field ELSE <<"HINT">>)
      Blocks(hints) == [i \in DOMAIN hints |-> Block(hints[i])]
  IN [result EXCEPT !.content = @ \o Blocks(SelectSeq(tool.hints, Matches))]

BlockSize(block) == IF IsProse(block) THEN 1 ELSE Leaves(block)
ContentSize(result) == FoldLeft(LAMBDA n, b : n + BlockSize(b), 0, result.content)

Nudged(result) ==
  IF ContentSize(result) <= NudgeOver THEN result
  ELSE [result EXCEPT !.content = Append(@, Prose(<<"HINT", "fields">>))]

(* From an upstream's result to what dispatch returns.                       *)
Shaped(tool, result, fields, threeTool) ==
  LET keep == IF result.isError THEN <<>> ELSE fields
      changes == keep # <<>> \/ (Applies(tool.response, result.isError) /\ ~IsNoop(tool.response))
      Nudge(r) == IF threeTool /\ fields = <<>> /\ ~result.isError THEN Nudged(r) ELSE r
  IN Nudge(Hinted(tool, IF changes THEN TransformResult(tool, result, keep) ELSE result))

-----------------------------------------------------------------------------
(* The bound at the agent's boundary: text is cut with a notice, a           *)
(* structured copy cannot be cut and is dropped.                             *)
Truncated(result, budget) ==
  [result EXCEPT
     !.structured = IF @ # Nothing /\ Leaves(@) > budget THEN Nothing ELSE @,
     !.content = [i \in DOMAIN @ |-> IF BlockSize(@[i]) > budget THEN Prose(<<"truncated">>) ELSE @[i]]]

ReshapesResult(tool) ==
  tool.paginates \/ (Applies(tool.response, FALSE) /\ ~IsNoop(tool.response))

(* What a tool declares an outputSchema for must come, whatever its size.    *)
Bounded(tool, result, threeTool) ==
  IF threeTool THEN Truncated(result, Budget)
  ELSE IF tool.declares /\ ~ReshapesResult(tool)
  THEN [Truncated(result, LooseBudget) EXCEPT !.structured = result.structured]
  ELSE Truncated(result, LooseBudget)
=============================================================================
