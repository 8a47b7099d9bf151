------------------------------- MODULE Config -------------------------------
(* What the configuration decides before and while anything is served        *)
(* (src/config.rs): whether it is accepted, which upstreams are started,     *)
(* which tools pass the filters, which a caller's scopes show it, and how    *)
(* strong an overlay's binding is.                                           *)
(*                                                                           *)
(* A name is a sequence of pieces, "." among them, so that prefixes are as   *)
(* in the code; a pattern is its stem and whether a `*` ends it.             *)
EXTENDS Naturals, Sequences, SequencesExt, FiniteSets

CONSTANT MaxPermits  \* tokio's Semaphore::MAX_PERMITS

(* What each section is when the file says nothing.                          *)
NoTransform == [when |-> "always", keep |-> <<>>, remove |-> <<>>, rename |-> <<>>, set |-> <<>>, jq |-> "none"]

NewUpstream(name) ==
  [name |-> name, kinds |-> {"command"}, baseUrl |-> FALSE, credentials |-> {}, optional |-> FALSE]

NewOverlay(tool) ==
  [tool |-> tool, binding |-> "unset", authored |-> "none", patches |-> <<>>, defaults |-> <<>>,
   preflight |-> "unset", paginates |-> FALSE, response |-> NoTransform, hints |-> <<>>]

NewConfig ==
  [mode |-> "three", upstreams |-> <<>>, include |-> {}, exclude |-> {}, rules |-> {}, reportOnly |-> FALSE,
   overlays |-> <<>>, workflows |-> <<>>, bindingPolicy |-> "warn", poisoning |-> "warn", preflight |-> TRUE,
   vaultAuth |-> {}, verifier |-> FALSE, gateway |-> "none", allowAnonymous |-> FALSE, metadata |-> "none",
   maxConcurrent |-> 2, maxBody |-> 1, maxInFlight |-> 2]

(* A response is transformed for successes, errors or both.                  *)
Applies(rt, isError) == rt.when = "always" \/ (rt.when = "error") = isError
IsNoop(rt) == rt = [NoTransform EXCEPT !.when = rt.when]

-----------------------------------------------------------------------------
Pattern(stem) == [stem |-> stem, star |-> FALSE]
Wild(stem) == [stem |-> stem, star |-> TRUE]
Under(upstream, name) == upstream \o <<".">> \o name

PatternMatch(p, value) == IF p.star THEN IsPrefix(p.stem, value) ELSE p.stem = value

(* A bare word names a whole API, anything else is matched against the id.   *)
FilterMatch(p, upstream, id) ==
  IF ~p.star /\ "." \notin Range(p.stem) THEN p.stem = upstream ELSE PatternMatch(p, id)

PassesFilter(c, upstream, id) ==
  /\ c.include # {} => \E p \in c.include : FilterMatch(p, upstream, id)
  /\ ~\E p \in c.exclude : FilterMatch(p, upstream, id)

ReferencesUpstream(p, upstream) == p.stem = upstream \/ IsPrefix(Under(upstream, <<>>), p.stem)
CoversWholeUpstream(p, upstream) == p \in {Pattern(upstream), Wild(Under(upstream, <<>>))}

(* Whether the upstream is started at all.                                   *)
UpstreamEnabled(c, upstream) ==
  /\ c.include # {} => \E p \in c.include : ReferencesUpstream(p, upstream)
  /\ ~\E p \in c.exclude : CoversWholeUpstream(p, upstream)

(* Without rules everything is visible; with any, only what a rule grants.   *)
Granted(c, id, scopes) ==
  c.rules = {} \/ \E r \in c.rules : r.scope \in scopes /\ \E p \in r.tools : PatternMatch(p, id)

(* Report-only evaluates the rules and enforces none.                        *)
Allowed(c, scopes, id) == c.reportOnly \/ Granted(c, id, scopes)

Distinct(seq, Key(_)) == \A i, j \in DOMAIN seq : i # j => Key(seq[i]) # Key(seq[j])

KindsOk(up) ==
  /\ Cardinality(up.kinds) = 1
  /\ up.kinds = {"spec"} => up.baseUrl
  /\ Cardinality(up.credentials) <= 1

(* The checks across fields; each stands for a deployment that would start   *)
(* and then misroute, or wait for ever, without a word.                      *)
Valid(c) ==
  /\ Distinct(c.upstreams, LAMBDA up : up.name)
  /\ \A i \in DOMAIN c.upstreams : KindsOk(c.upstreams[i])
  /\ Cardinality(c.vaultAuth) <= 1
  /\ c.gateway # "scopes unnamed"
  /\ c.maxConcurrent <= MaxPermits
  /\ c.maxBody > 0
  /\ c.maxInFlight \in 1..MaxPermits
  /\ c.allowAnonymous => c.verifier \/ c.gateway # "none"
  /\ c.metadata # "none" => c.verifier /\ c.metadata = "complete"
  /\ Distinct(c.overlays, LAMBDA o : o.tool)
  /\ Distinct(c.workflows, LAMBDA w : w.id)

Strength(c, o) ==
  IF o.binding # "unset" THEN o.binding ELSE IF c.bindingPolicy = "strict" THEN "strong" ELSE "weak"
=============================================================================
