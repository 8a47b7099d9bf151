------------------------------ MODULE Surface -------------------------------
(* The surface a caller meets (src/surface.rs, src/surface/catalog.rs,       *)
(* resources.rs, ids.rs, audit.rs): startup connects the upstreams and vets  *)
(* their tools; then callers list, search, look up and call tools, read      *)
(* resources and get prompts, each through the scopes it holds, while an     *)
(* upstream may change its listing.  Limits, breakers, the cache and the     *)
(* transports are modules of their own; here a call carries its data.  What  *)
(* is done to the data is left to operators given as constants (SurfaceData  *)
(* has the code's own); what is a secret's, or a scope's, is done here.      *)
(*                                                                           *)
(* A deployment is a configuration and the world behind it: `grants` is each *)
(* caller's scopes, `offers` the listings an upstream may give, `fails`      *)
(* whether it may fail to start, `resources` and `prompts` what it lists     *)
(* (`flaky` when a listing may fail), `secrets` the values of user-supplied  *)
(* fields, `inputs` the calls made and `answers` what the upstream may       *)
(* answer.                                                                   *)
EXTENDS Json, Config

CONSTANTS Deployments,   \* a sequence of them
          Callers,
          NameCap,       \* MAX_NAME_LEN, in pieces
          Numerals,      \* the numbers that fit the room left for them, from 2 on
          DefaultK       \* DEFAULT_SEARCH_K

CONSTANTS OpSchema(_),           \* the input schema of an operation
          StatusOf(_, _, _, _),  \* an overlay's binding against a tool's schema
          DetailsOf(_),          \* a tool's schema, and as it is displayed
          Resolved(_, _),        \* a schema with its references replaced
          Prefilled(_, _),       \* a tool's arguments with defaults, decoded
          Violations(_, _),      \* what preflight has against them
          Returned(_, _, _)      \* an upstream's answer to a call, and as it is shown

(* What a deployment is made of, as the configuration file and the upstreams *)
(* give it: names and paths are sequences, secrets texts.                    *)
IsSeq(s) == s \in Seq(Range(s))

Deployable(w) ==
  /\ w.searches \subseteq Nat
  /\ IsSeq(w.conf.upstreams) /\ IsSeq(w.conf.overlays) /\ IsSeq(w.conf.workflows)
  /\ \A u \in DOMAIN w.conf.upstreams :
       /\ IsSeq(w.conf.upstreams[u].name)
       /\ \A listed \in w.offers[u] :
            IsSeq(listed) /\ \A n \in DOMAIN listed : IsSeq(listed[n].name)
       /\ \A name \in w.prompts[u] : IsSeq(name)
  /\ \A i \in DOMAIN w.conf.overlays :
       LET patches == w.conf.overlays[i].patches
       IN IsSeq(patches) /\ \A n \in DOMAIN patches : IsSeq(patches[n].path)
  /\ \A i \in DOMAIN w.conf.workflows : IsSeq(w.conf.workflows[i].steps)
  /\ \A source \in DOMAIN w.secrets : ~IsObj(w.secrets[source])

ASSUME SurfaceAssumption ==
  /\ NameCap \in Nat /\ NameCap >= 2 /\ DefaultK \in Nat \ {0}
  /\ IsSeq(Numerals) /\ IsInjective(Numerals)
  /\ \A i \in DOMAIN Deployments : Deployable(Deployments[i])

VARIABLES world,     \* the deployment this is; never changes
          phase,     \* "starting", "serving" or "refused"
          next,      \* the configured upstream build looks at next
          ups,       \* Surface::upstreams, as positions in the configuration
          listings,  \* Catalog::listings, one for each of ups
          cat,       \* Catalog::tools
          origin,    \* Surface::resource_origin
          heard,     \* the routes each caller's last resources/list was made of
          task,      \* each caller's resource or prompt request
          call,      \* the tool call on the wire, a caller's or a workflow's
          reply      \* the answer on its way to a caller

vars == <<world, phase, next, ups, listings, cat, origin, heard, task, call, reply>>
conf == world.conf

Resting == [doing |-> "no", at |-> 1, found |-> <<>>, uri |-> "none"]
Nobody == [to |-> "nobody", kind |-> "none", ids |-> {}]
Say(c, kind, ids) == [to |-> c, kind |-> kind, ids |-> ids]

(* The first of two maps, and of the second what the first leaves open.      *)
Also(f, g) == [x \in DOMAIN f \union DOMAIN g |-> IF x \in DOMAIN f THEN f[x] ELSE g[x]]
Tell(c, kind, ids, more) == Also(Say(c, kind, ids), more)

Init ==
  /\ world \in Range(Deployments)
  /\ phase = "starting" /\ next = 1
  /\ ups = <<>> /\ listings = <<>> /\ cat = <<>>
  /\ origin = <<>>
  /\ heard = [c \in Callers |-> <<>>]
  /\ task = [c \in Callers |-> Resting]
  /\ call = Nothing
  /\ reply = Nobody

-----------------------------------------------------------------------------
(* The catalog: what passes the filters, each tool with its overlay.         *)
OverlayOf(id) ==
  LET its == {i \in DOMAIN conf.overlays : conf.overlays[i].tool = id}
  IN IF its = {} THEN NewOverlay(id) ELSE conf.overlays[Min(its)]

Entry(i, up, t) ==
  LET id == Under(up.name, t.name)
      o == OverlayOf(id)
  IN [id |-> id, up |-> i, name |-> t.name, declares |-> t.declares, poisoned |-> t.poisoned, sha |-> t.sha,
      op |-> t.op, fromSpec |-> up.kinds = {"spec"},
      schema |-> IF up.kinds = {"spec"} THEN OpSchema(t.op) ELSE t.schema,
      patches |-> o.patches, defaults |-> o.defaults, paginates |-> o.paginates,
      preflight |-> IF o.preflight = "unset" THEN conf.preflight ELSE o.preflight = "on",
      response |-> o.response, hints |-> o.hints]

Kept(i, up, listed) ==
  LET kept[n \in 0..Len(listed)] ==
        IF n = 0 THEN <<>>
        ELSE LET t == listed[n]
             IN IF PassesFilter(conf, up.name, Under(up.name, t.name))
                THEN Append(kept[n - 1], Entry(i, up, t)) ELSE kept[n - 1]
  IN kept[Len(listed)]

Assemble(from, listed) ==
  LET upto[i \in 0..Len(from)] ==
        IF i = 0 THEN <<>> ELSE upto[i - 1] \o Kept(i, conf.upstreams[from[i]], listed[i])
  IN upto[Len(from)]

(* by_id: of two tools with one id, the later one.                           *)
Known(tools, id) == \E i \in DOMAIN tools : tools[i].id = id
Def(tools, id) == tools[Max({i \in DOMAIN tools : tools[i].id = id})]

BrokenStrong(tools, o) ==
  LET known == Known(tools, o.tool)
      live == IF known THEN Def(tools, o.tool).sha ELSE "none"
  IN /\ StatusOf(o.patches, IF known THEN Def(tools, o.tool).schema ELSE Nothing, o.authored, live) = "broken"
     /\ Strength(conf, o) = "strong"

Vet(tools) ==
  /\ \A i \in DOMAIN conf.overlays : ~BrokenStrong(tools, conf.overlays[i])
  /\ conf.poisoning = "strict" => \A i \in DOMAIN tools : ~tools[i].poisoned

(* Passthrough names.  A name two tools share takes the id on both sides; a  *)
(* name still taken is cut to leave room for a number.                       *)
SanitizeName(id, reserve) ==
  LET room == IF Len(id) < NameCap - reserve THEN Len(id) ELSE NameCap - reserve
  IN [i \in 1..room |-> IF id[i] = "." THEN "_" ELSE id[i]]

Numbered(base, n) == base \o <<"_", Numerals[n]>>

(* A faulty NameFor: it does not look whether the name is taken.             *)
NameForUnchecked(tools, t, taken) ==
  LET bare == SanitizeName(t.name, 0)
  IN IF Cardinality({i \in DOMAIN tools : SanitizeName(tools[i].name, 0) = bare}) = 1
     THEN bare ELSE SanitizeName(t.id, 0)

NameFor(tools, t, taken) ==
  LET bare == SanitizeName(t.name, 0)
      uses == Cardinality({i \in DOMAIN tools : SanitizeName(tools[i].name, 0) = bare})
      name == IF uses = 1 THEN bare ELSE SanitizeName(t.id, 0)
      base == SanitizeName(t.id, 2)
      free == {n \in DOMAIN Numerals : Numbered(base, n) \notin taken}
  IN IF name \in taken THEN Numbered(base, Min(free)) ELSE name

Named(tools) ==
  LET exposed[n \in 0..Len(tools)] ==
        IF n = 0 THEN <<>>
        ELSE LET before == exposed[n - 1]
             IN Also([name \in {NameFor(tools, tools[n], DOMAIN before)} |-> tools[n].id], before)
  IN exposed[Len(tools)]

ExposedNames(tools) == IF conf.mode = "passthrough" THEN Named(tools) ELSE <<>>

-----------------------------------------------------------------------------
(* build: one upstream after the other, the excluded ones never started.  An *)
(* optional one that fails is left out, any other failure refuses to start.  *)
Connect ==
  /\ phase = "starting" /\ Valid(conf) /\ next <= Len(conf.upstreams)
  /\ LET up == conf.upstreams[next]
     IN \/ /\ ~UpstreamEnabled(conf, up.name)
           /\ next' = next + 1
           /\ UNCHANGED <<phase, ups, listings>>
        \/ /\ UpstreamEnabled(conf, up.name)
           /\ \E listed \in world.offers[next] :
                ups' = Append(ups, next) /\ listings' = Append(listings, listed)
           /\ next' = next + 1
           /\ UNCHANGED phase
        \/ /\ UpstreamEnabled(conf, up.name) /\ next \in world.fails
           /\ next' = next + 1
           /\ phase' = IF up.optional THEN phase ELSE "refused"
           /\ UNCHANGED <<ups, listings>>
  /\ UNCHANGED <<world, cat, origin, heard, task, call, reply>>

Start ==
  /\ phase = "starting"
  /\ ~Valid(conf) \/ next > Len(conf.upstreams)
  /\ LET tools == Assemble(ups, listings)
     IN IF Valid(conf) /\ Vet(tools) THEN phase' = "serving" /\ cat' = tools
        ELSE phase' = "refused" /\ UNCHANGED cat
  /\ UNCHANGED <<world, next, ups, listings, origin, heard, task, call, reply>>

(* A changed listing is assembled from the others' as last fetched; one that *)
(* does not pass the checks leaves the old catalog.                          *)
Reindex(i) ==
  /\ phase = "serving"
  /\ \E listed \in world.offers[ups[i]] \ {listings[i]} :
       LET fresh == [listings EXCEPT ![i] = listed]
           tools == Assemble(ups, fresh)
       IN Vet(tools) /\ listings' = fresh /\ cat' = tools
  /\ UNCHANGED <<world, phase, next, ups, origin, heard, task, call, reply>>

-----------------------------------------------------------------------------
(* What a caller may see, and what it is told.                               *)
Permits(c, id) == Allowed(conf, world.grants[c], id)

IsWorkflow(id) == \E i \in DOMAIN conf.workflows : conf.workflows[i].id = id
Corpus == {cat[i].id : i \in DOMAIN cat} \union {conf.workflows[i].id : i \in DOMAIN conf.workflows}

UpstreamVisible(c, i) ==
  LET its == {n \in DOMAIN cat : cat[n].up = i}
  IN its = {} \/ \E n \in its : Permits(c, cat[n].id)

Gives(answer) ==
  /\ phase = "serving" /\ reply = Nobody
  /\ reply' = answer
  /\ UNCHANGED <<world, phase, next, ups, listings, cat>>

Taken ==
  /\ reply # Nobody
  /\ reply' = Nobody
  /\ UNCHANGED <<world, phase, next, ups, listings, cat, origin, heard, task, call>>

Quiet == UNCHANGED <<origin, heard, task, call>>

ListTools(c) ==
  LET Listing(exposed) ==
        LET names == {n \in DOMAIN exposed : Known(cat, exposed[n]) /\ Permits(c, exposed[n])}
        IN Tell(c, "tools", {exposed[n] : n \in names}, [names |-> names])
  IN Gives(Listing(ExposedNames(cat))) /\ Quiet

(* Any ranking the index may make.                                           *)
Rankings(ids) == UNION {{r \in [1..n -> ids] : \A i, j \in 1..n : i # j => r[i] # r[j]} : n \in 0..Cardinality(ids)}

(* A faulty OverFetch: no more hits than are asked for.                      *)
OverFetchNone(k) == k

(* Search reads three times as many hits as it is asked for, because some of *)
(* them may be hidden.                                                       *)
OverFetch(k) == k * 3
Asked(k) == IF k = 0 THEN DefaultK ELSE k
Served(c, ranking, k) ==
  LET seen == {i \in DOMAIN ranking : i <= OverFetch(Asked(k)) /\ Permits(c, ranking[i])}
  IN {i \in seen : Cardinality({j \in seen : j < i}) < Asked(k)}

Search(c) ==
  /\ conf.mode = "three" /\ world.searches # {}
  /\ \E ranking \in Rankings(Corpus), k \in world.searches :
       LET served == Served(c, ranking, k)
       IN Gives(Tell(c, "found", {ranking[i] : i \in served},
                     [ranking |-> ranking, k |-> k, served |-> served]))
  /\ Quiet

(* A faulty Candidates: every id there is.                                   *)
CandidatesAll(c) == Corpus

(* At most two near misses, of the ids the caller may see.                   *)
Candidates(c) == {id \in Corpus : Permits(c, id)}
DidYouMean(ids) == {close \in SUBSET ids : Cardinality(close) <= 2}

Unknown(c, ids) == \E close \in DidYouMean(ids) : Gives(Say(c, "unknown", close))

Answerable(c, id) == Known(cat, id) /\ Permits(c, id)

Details(c, id) ==
  /\ conf.mode = "three"
  /\ IF IsWorkflow(id) /\ Permits(c, id) THEN Gives(Say(c, "steps", {id}))
     ELSE IF ~Answerable(c, id) THEN Unknown(c, Candidates(c))
     ELSE Gives(Tell(c, "details", {id}, DetailsOf(Def(cat, id))))
  /\ Quiet

(* The references of a spec tool's schema are resolved when it is asked for. *)
ResolveSchema ==
  \E doc \in world.documents :
    /\ Gives(Tell("nobody", "resolved", {}, [doc |-> doc, tree |-> Resolved(doc.defs, doc.root)]))
    /\ Quiet

(* The source map over the protocol: rows of visible tools only.             *)
SourceMap(c) == Gives(Say(c, "map", {cat[i].id : i \in {n \in DOMAIN cat : Permits(c, cat[n].id)}})) /\ Quiet

-----------------------------------------------------------------------------
(* A tool call: found, prepared, sent, answered, shaped.  The fields taken   *)
(* from the agent get the value of their source.                             *)
Supplied(patch) == patch.source # "none"

(* A faulty Injected: what the caller sent stays.                            *)
InjectedIfAbsent(patches, args, secrets) ==
  LET filled[n \in 0..Len(patches)] ==
        IF n = 0 THEN args
        ELSE IF Supplied(patches[n]) THEN DefaultAt(filled[n - 1], patches[n].path, secrets[patches[n].source])
             ELSE filled[n - 1]
  IN filled[Len(patches)]

Injected(patches, args, secrets) ==
  LET filled[n \in 0..Len(patches)] ==
        IF n = 0 THEN args
        ELSE IF Supplied(patches[n]) THEN SetAt(filled[n - 1], patches[n].path, secrets[patches[n].source])
             ELSE filled[n - 1]
  IN filled[Len(patches)]

(* Everything between the caller's arguments and the wire: what is sent, or  *)
(* why it is not.                                                            *)
Prepared(tool, args, secrets) ==
  LET Checked(filled) ==
        IF tool.preflight /\ Violations(tool, filled) # {}
        THEN [refused |-> "PREFLIGHT_ERROR", args |-> Nothing]
        ELSE [refused |-> "no", args |-> filled]
      missing == {n \in DOMAIN tool.patches :
                    Supplied(tool.patches[n]) /\ tool.patches[n].source \notin DOMAIN secrets}
  IN IF missing # {} THEN [refused |-> "USER_SUPPLIED_MISSING", args |-> Nothing]
     ELSE Checked(Injected(tool.patches, Prefilled(tool, args), secrets))

Send(c, tool, input) ==
  \E ready \in {Prepared(tool, input.args, world.secrets)} :
    \/ /\ ready.refused # "no"
       /\ Gives(Tell(c, "refused", {tool.id}, [tool |-> tool, input |-> input, why |-> ready.refused]))
       /\ Quiet
    \/ /\ ready.refused = "no"
       /\ call' = Tell(c, "sent", {tool.id}, [tool |-> tool, input |-> input, sent |-> ready.args])
       /\ UNCHANGED <<world, phase, next, ups, listings, cat, origin, heard, task, reply>>

(* execute_workflow: the steps of a composite one after the other, each      *)
(* dispatched like a call of its caller's.  The first that fails ends it     *)
(* with a report that names the composite, the tools of all its steps, and   *)
(* what the refusal of the failed one said.                                  *)
WorkflowOf(id) == CHOOSE wf \in Range(conf.workflows) : wf.id = id

Ends(answer) == Gives(answer) /\ call' = Nothing

Fails(c, wf, said) ==
  Ends(Tell(c, "failed", {wf.id} \union Range(wf.steps) \union said, [workflow |-> wf]))

SendStep(c, tool, input, wf, n) ==
  \E ready \in {Prepared(tool, input.args, world.secrets)} :
    \/ ready.refused # "no" /\ Fails(c, wf, {})
    \/ /\ ready.refused = "no"
       /\ call' = Tell(c, "step", {tool.id},
                       [tool |-> tool, input |-> input, sent |-> ready.args, workflow |-> wf, step |-> n])
       /\ UNCHANGED <<world, phase, next, ups, listings, cat, reply>>

RunStep(c, wf, n) ==
  /\ \/ n \notin DOMAIN wf.steps /\ Ends(Tell(c, "workflow", {wf.id}, [workflow |-> wf]))
     \/ /\ n \in DOMAIN wf.steps /\ ~Answerable(c, wf.steps[n])
        /\ \E close \in DidYouMean(Candidates(c)) : Fails(c, wf, close)
     \/ /\ n \in DOMAIN wf.steps /\ Answerable(c, wf.steps[n])
        /\ \E input \in world.inputs : SendStep(c, Def(cat, wf.steps[n]), [input EXCEPT !.fields = <<>>], wf, n)
  /\ UNCHANGED <<origin, heard, task>>

(* call_tool: a workflow's id is taken before a tool's, and checked like     *)
(* one; the tools of its steps are not.                                      *)
CallTool(c, id) ==
  /\ phase = "serving" /\ conf.mode = "three" /\ call = Nothing
  /\ \/ IsWorkflow(id) /\ Permits(c, id) /\ RunStep(c, WorkflowOf(id), 1)
     \/ /\ ~(IsWorkflow(id) /\ Permits(c, id)) /\ Answerable(c, id)
        /\ \E input \in world.inputs : Send(c, Def(cat, id), input)
     \/ ~(IsWorkflow(id) /\ Permits(c, id)) /\ ~Answerable(c, id) /\ Unknown(c, Candidates(c)) /\ Quiet

(* Passthrough: the name decides, and a hidden tool's name is no name.       *)
CallByName(c, name) ==
  /\ phase = "serving" /\ conf.mode = "passthrough" /\ call = Nothing
  /\ \E exposed \in {ExposedNames(cat)} :
       LET seen == {n \in DOMAIN exposed : Permits(c, exposed[n])}
       IN IF name \in seen
          THEN \E input \in world.inputs : Send(c, Def(cat, exposed[name]), [input EXCEPT !.fields = <<>>])
          ELSE Unknown(c, {exposed[n] : n \in seen}) /\ Quiet

Answer ==
  /\ call # Nothing /\ call.kind = "sent"
  /\ \E answer \in world.answers : Gives(Also([call EXCEPT !.kind = "result"], Returned(world, call, answer)))
  /\ call' = Nothing
  /\ UNCHANGED <<origin, heard, task>>

(* The answer to a step: an error ends the composite, anything else starts   *)
(* its next step, under the catalog of the moment.                           *)
StepAnswer ==
  /\ call # Nothing /\ call.kind = "step" /\ phase = "serving"
  /\ \E answer \in world.answers :
       IF Returned(world, call, answer).raw.isError
       THEN Fails(call.to, call.workflow, {}) /\ UNCHANGED <<origin, heard, task>>
       ELSE RunStep(call.to, call.workflow, call.step + 1)

-----------------------------------------------------------------------------
(* Resources and prompts: a listing asks one visible upstream after the      *)
(* other and waits for each.  A listing that fails midway is what came.      *)
Offers(doing, u) == IF doing = "prompts" THEN {Under(conf.upstreams[u].name, p) : p \in world.prompts[u]}
                    ELSE world.resources[u]

Pages(c, doing, i) ==
  IF ~UpstreamVisible(c, i) THEN {{}}
  ELSE {Offers(doing, ups[i])} \union IF world.flaky THEN {{}} ELSE {}

Begin(c, doing, uri) ==
  /\ phase = "serving" /\ task[c].doing = "no"
  /\ task' = [task EXCEPT ![c] = [Resting EXCEPT !.doing = doing, !.uri = uri]]
  /\ UNCHANGED <<world, phase, next, ups, listings, cat, origin, heard, call, reply>>

Fetch(c) ==
  LET i == task[c].at
  IN /\ task[c].doing # "no" /\ i <= Len(ups)
     /\ \E page \in Pages(c, task[c].doing, i) :
          task' = [task EXCEPT ![c].at = i + 1, ![c].found = Also([x \in page |-> i], @)]
     /\ UNCHANGED <<world, phase, next, ups, listings, cat, origin, heard, call, reply>>

(* A read goes where the table says, if the caller may see that upstream.    *)
Read(c, uri, routes) ==
  IF uri \in DOMAIN routes /\ UpstreamVisible(c, routes[uri])
  THEN Tell(c, "read", {}, [uri |-> uri, from |-> routes[uri]])
  ELSE Tell(c, "unreadable", {}, [uri |-> uri])

(* The routes of one listing join those of the others.                       *)
Learned(found) == Also(found, origin)

Listed(c) ==
  LET mine == task[c]
  IN /\ mine.doing # "no" /\ mine.at > Len(ups)
     /\ task' = [task EXCEPT ![c] = Resting]
     /\ origin' = IF mine.doing = "prompts" THEN origin ELSE Learned(mine.found)
     /\ heard' = IF mine.doing = "list" THEN [heard EXCEPT ![c] = mine.found] ELSE heard
     /\ Gives(CASE mine.doing = "list" -> Tell(c, "resources", {}, [uris |-> DOMAIN mine.found])
                [] mine.doing = "prompts" -> Tell(c, "prompts", {}, [names |-> DOMAIN mine.found])
                [] OTHER -> Read(c, mine.uri, origin'))
     /\ UNCHANGED call

ReadResource(c, uri) ==
  \/ uri \in DOMAIN origin /\ task[c].doing = "no" /\ Gives(Read(c, uri, origin)) /\ Quiet
  \/ uri \notin DOMAIN origin /\ Begin(c, "read", uri)

(* The longest upstream name the caller may see that starts the prompt's.    *)
Owners(c, name) ==
  {i \in DOMAIN ups : LET up == conf.upstreams[ups[i]].name
                      IN up # <<>> /\ IsStrictPrefix(Under(up, <<>>), name) /\ UpstreamVisible(c, i)}
Bare(i, name) == SubSeq(name, Len(conf.upstreams[ups[i]].name) + 2, Len(name))
PromptOwner(c, name) ==
  CHOOSE i \in Owners(c, name) : \A j \in Owners(c, name) :
    Len(conf.upstreams[ups[i]].name) >= Len(conf.upstreams[ups[j]].name)

GetPrompt(c, name) ==
  /\ Gives(IF Owners(c, name) = {} THEN Tell(c, "unprompted", {}, [name |-> name])
           ELSE LET i == PromptOwner(c, name)
                IN Tell(c, "prompt", {}, [name |-> name, from |-> i, bare |-> Bare(i, name)]))
  /\ Quiet

-----------------------------------------------------------------------------
Uris == UNION {world.resources[u] : u \in DOMAIN world.resources}
PromptNames == UNION {Offers("prompts", u) : u \in DOMAIN world.prompts}
Typo == <<"typo">>

Uses(c) ==
  \/ ListTools(c)
  \/ Search(c)
  \/ \E id \in Corpus \union {Typo} : Details(c, id) \/ CallTool(c, id)
  \/ SourceMap(c)
  \/ \E name \in DOMAIN ExposedNames(cat) \union {Typo} : CallByName(c, name)

Pulls(c) ==
  \/ Uris # {} /\ Begin(c, "list", "none")
  \/ PromptNames # {} /\ Begin(c, "prompts", "none")
  \/ Fetch(c)
  \/ Listed(c)
  \/ \E uri \in Uris : ReadResource(c, uri)
  \/ \E name \in PromptNames : GetPrompt(c, name)

Next ==
  \/ Connect
  \/ Start
  \/ \E i \in DOMAIN ups : Reindex(i)
  \/ \E c \in Callers : phase = "serving" /\ ((reply = Nobody /\ Uses(c)) \/ Pulls(c))
  \/ Answer
  \/ StepAnswer
  \/ phase = "serving" /\ ResolveSchema
  \/ Taken

Spec == Init /\ [][Next]_vars

-----------------------------------------------------------------------------
(* No answer to a caller names a tool or a workflow its scopes hide: not a   *)
(* listing, a search, a suggestion for a mistyped name, the source map, or   *)
(* what a call comes back with.  One answer is excepted, and is what the     *)
(* code gives away: the report of a composite that failed names the tools of *)
(* its steps whether or not the caller may see them, since a composite is    *)
(* checked by its own id alone.  It names hidden tools no further than that, *)
(* and only to a caller who may run the composite.                           *)
MentionsOnlyVisible ==
  reply.to \in Callers =>
    \A id \in reply.ids :
      \/ Allowed(conf, world.grants[reply.to], id)
      \/ /\ reply.kind = "failed" /\ id \in Range(reply.workflow.steps)
         /\ Allowed(conf, world.grants[reply.to], reply.workflow.id)

(* Hidden tools may crowd out a search only where they are most of three     *)
(* times the results asked for: a page stays short of what the caller may    *)
(* see only when more than twice its size of the best hits is hidden.        *)
SearchNotStarved ==
  reply.kind = "found" =>
    LET k == Asked(reply.k)
        seen == {i \in DOMAIN reply.ranking : Permits(reply.to, reply.ranking[i])}
        hidden == {i \in DOMAIN reply.ranking \ seen : i <= 3 * k}
    IN Cardinality(reply.served) < k /\ Cardinality(reply.served) < Cardinality(seen)
         => Cardinality(hidden) > 2 * k

(* Every tool of a catalog has a declared name in passthrough, within the  *)
(* length hosts accept, as long as the numbers to tell them apart last.      *)
ToolsNamed(tools) ==
  conf.mode = "passthrough" /\ Len(tools) <= Len(Numerals) =>
    \A exposed \in {ExposedNames(tools)} :
       /\ \A name \in DOMAIN exposed : Len(name) <= NameCap
       /\ {exposed[name] : name \in DOMAIN exposed} = {tools[i].id : i \in DOMAIN tools}
       /\ Cardinality(DOMAIN exposed) = Len(tools)

(* A resource that was on a caller's list is read when it asks, as long as   *)
(* the upstream is still visible to it and no other upstream lists that URI. *)
ResourcesReadable ==
  reply.kind = "unreadable" =>
    LET routes == heard[reply.to]
        Elsewhere(i) == \E j \in DOMAIN ups \ {i} : reply.uri \in world.resources[ups[j]]
    IN reply.uri \in DOMAIN routes =>
         Elsewhere(routes[reply.uri]) \/ ~UpstreamVisible(reply.to, routes[reply.uri])

(* A prompt's listed name comes back to the upstream that listed it, unless  *)
(* a visible upstream with a longer name also starts it, or the upstream or  *)
(* its prompt has no name at all.                                            *)
PromptsRoundTrip ==
  reply.kind = "prompt" =>
    \A i \in DOMAIN ups :
      LET Length(n) == Len(conf.upstreams[ups[n]].name)
          mine == \E p \in world.prompts[ups[i]] :
                    p # <<>> /\ Length(i) > 0 /\ reply.name = Under(conf.upstreams[ups[i]].name, p)
      IN mine /\ UpstreamVisible(reply.to, i) => reply.from = i \/ Length(reply.from) > Length(i)

(* What a listing promises, the later request gets, as of the moment it is   *)
(* answered: while the answer is on its way a re-index may show or hide an   *)
(* upstream.                                                                 *)
ListingsHonoured ==
  [][/\ \A tools \in {cat'} \ {cat} : ToolsNamed(tools)
     /\ reply' # reply => (ResourcesReadable /\ PromptsRoundTrip)']_vars

(* A user-supplied field goes out with the configured value whatever the     *)
(* caller, a default or the schema put there; only a caller that replaces an *)
(* object on the way to it by something else keeps it out, and only another  *)
(* user-supplied field of the same path puts another value there.            *)
SecretAuthoritative ==
  call # Nothing =>
    \A i \in DOMAIN call.tool.patches :
      LET path == call.tool.patches[i].path
          node == Walk(call.sent, path)
          Reached(n) == \A m \in 1..n : Has(node[m - 1], path[m])
          values == {world.secrets[call.tool.patches[j].source] :
                       j \in {n \in DOMAIN call.tool.patches :
                               Supplied(call.tool.patches[n]) /\ call.tool.patches[n].path = path}}
      IN Supplied(call.tool.patches[i]) /\ path # <<>> =>
           \/ node[Len(path)] \in values
           \/ \E n \in 0..(Len(path) - 1) : Reached(n) /\ ~IsObj(node[n])
=============================================================================
