----------------------------- MODULE MCSurface ------------------------------
(* The deployments the surface is checked on: a few for who sees what, and   *)
(* families of one-tool deployments for what happens to a call's data.       *)
EXTENDS SurfaceData

All == Wild(<<>>)
Tool(name) ==
  [name |-> name, schema |-> Object(<<>>, {}), declares |-> FALSE, poisoned |-> FALSE, sha |-> "s1", op |-> Nothing]
Plain(v) == [isError |-> FALSE, structured |-> Nothing, content |-> <<v>>]
Input(args) == [args |-> args, fields |-> <<>>]

World ==
  [conf |-> NewConfig, grants |-> [c \in Callers |-> {"all"}], offers |-> <<>>, fails |-> {}, flaky |-> FALSE,
   resources |-> <<>>, prompts |-> <<>>, secrets |-> <<>>, inputs |-> {Input(Empty)},
   answers |-> {Plain(Atom("x"))}, searches |-> {}, documents |-> {},
   headers |-> [base |-> [accept |-> "json"], overlay |-> [accept |-> "v2"]], raw |-> FALSE]

Upstreams(names) == [i \in DOMAIN names |-> NewUpstream(names[i])]
None(n) == [i \in 1..n |-> {}]
Rule(scope, tools) == [scope |-> scope, tools |-> tools]

-----------------------------------------------------------------------------
A == <<"a">>
B == <<"b">>
Scoped == [c \in Callers |-> IF c = "alice" THEN {"all"} ELSE {"few"}]
Few == {Rule("all", {All}), Rule("few", {Pattern(<<"a", ".", "x">>), Wild(<<"b", ".">>)})}

(* One tool of five is visible to bob, so that a search can be starved.      *)
Crowded ==
  [World EXCEPT
     !.conf = [NewConfig EXCEPT !.upstreams = Upstreams(<<A>>), !.rules = Few,
                                !.workflows = <<[id |-> <<"w">>, steps |-> <<>>]>>],
     !.grants = Scoped,
     !.offers = <<{<<Tool(<<"x">>), Tool(<<"h">>), Tool(<<"i">>), Tool(<<"j">>)>>}>>,
     !.resources = None(1), !.prompts = None(1), !.searches = {0, 1}]

(* Two upstreams list the URI "both"; the tools of b come and go, and with   *)
(* them its being visible to bob.                                            *)
Sharing ==
  [World EXCEPT
     !.conf = [NewConfig EXCEPT !.mode = "passthrough", !.upstreams = Upstreams(<<A, B>>),
                                !.rules = {Rule("all", {All}), Rule("few", {Wild(<<"a", ".">>), Pattern(<<"b", ".", "z">>)})}],
     !.grants = Scoped,
     !.offers = <<{<<Tool(<<"x">>)>>}, {<<Tool(<<"y">>)>>, <<Tool(<<"y">>), Tool(<<"z">>)>>}>>,
     !.resources = <<{"own", "both"}, {"both", "mine"}>>,
     !.prompts = None(2)]

(* A listing that fails leaves the routes of earlier ones.                   *)
Failing == [Sharing EXCEPT !.flaky = TRUE, !.resources = <<{"own"}, {}>>]

(* An upstream whose name extends another's, and names that collide.         *)
Nested(mode) ==
  [World EXCEPT
     !.conf = [NewConfig EXCEPT !.mode = mode, !.upstreams = Upstreams(<<<<"corp">>, <<"corp", ".", "jira">>>>),
                                !.rules = {Rule("all", {All}), Rule("few", {Wild(<<"corp", ".", "jira">>)})}],
     !.grants = Scoped,
     !.offers = <<{<<Tool(<<"get">>), Tool(<<"jira", ".", "get">>), Tool(<<"jira", "_", "get">>)>>},
                  {<<Tool(<<"get">>)>>, <<Tool(<<"get">>), Tool(<<"jira", "_", "get">>)>>}>>,
     !.resources = None(2),
     !.prompts = <<{<<"p">>, <<"jira", ".", "p">>}, {<<"p">>, <<"q">>}>>]

(* Composites bob may run, b.w of one tool of the two he may see, b.h with a *)
(* tool his scopes hide, and b.n with one that leaves with a re-index, whose *)
(* id is still named when it has left; the first tool takes a secret, and    *)
(* any step's call may fail.                                                 *)
Step(name) == Under(A, <<name>>)
Composite(name, steps) == [id |-> Under(B, <<name>>), steps |-> steps]
Chained ==
  [World EXCEPT
     !.conf = [NewConfig EXCEPT !.upstreams = Upstreams(<<A>>), !.rules = Few,
                                !.overlays = <<[NewOverlay(Step("x")) EXCEPT
                                                  !.patches = <<[NoPatch EXCEPT !.path = <<"k">>, !.source = "env"]>>]>>,
                                !.workflows = <<Composite("w", <<Step("x"), Step("x")>>),
                                                Composite("h", <<Step("x"), Step("h")>>),
                                                Composite("n", <<Step("n"), Step("x"), Step("n")>>)>>],
     !.grants = Scoped,
     !.offers = <<{<<[Tool(<<"x">>) EXCEPT !.schema = Object([k |-> Node("string"), r |-> Node("string")], {"r"})], Tool(<<"h">>)>>,
                   <<[Tool(<<"x">>) EXCEPT !.schema = Object([k |-> Node("string")], {})], Tool(<<"h">>), Tool(<<"n">>)>>}>>,
     !.resources = None(1), !.prompts = None(1), !.secrets = [env |-> Atom("secret")],
     !.inputs = {Input(Empty), Input(Obj([k |-> Atom("mine")]))},
     !.answers = {Plain(Atom("x")), [Plain(Atom("x")) EXCEPT !.isError = TRUE]}]

(* Startups: filters, failures, refusals, and checks a re-listing can fail.  *)
Strong(o) == [o EXCEPT !.binding = "strong", !.patches = <<[NoPatch EXCEPT !.path = <<"f">>, !.hide = TRUE]>>]
WithF == [Tool(<<"x">>) EXCEPT !.schema = Object([f |-> Node("string")], {})]
Bad == [Tool(<<"x">>) EXCEPT !.poisoned = TRUE]
Starting(cf) ==
  [World EXCEPT !.conf = [cf EXCEPT !.upstreams = <<[NewUpstream(A) EXCEPT !.optional = TRUE], NewUpstream(B)>>],
     !.offers = <<{<<WithF>>, <<Tool(<<"x">>)>>, <<Bad>>}, {<<Tool(<<"y">>)>>}>>,
     !.fails = {1, 2}, !.resources = None(2), !.prompts = None(2)]
Startups ==
  <<Starting(NewConfig),
    Starting([NewConfig EXCEPT !.include = {Pattern(A)}]),
    Starting([NewConfig EXCEPT !.exclude = {Wild(<<"b", ".">>), Pattern(<<"a", ".", "x">>)}]),
    Starting([NewConfig EXCEPT !.poisoning = "strict", !.mode = "passthrough"]),
    Starting([NewConfig EXCEPT !.overlays = <<Strong(NewOverlay(<<"a", ".", "x">>))>>]),
    Starting([NewConfig EXCEPT !.reportOnly = TRUE, !.rules = Few]),
    Starting([NewConfig EXCEPT !.maxInFlight = 0])>>

-----------------------------------------------------------------------------
(* One tool, t.t, seen by all.                                               *)
TheId == <<"t", ".", "t">>
One(mode, tool, overlay) ==
  [World EXCEPT
     !.conf = [NewConfig EXCEPT !.mode = mode, !.upstreams = Upstreams(<<<<"t">>>>), !.overlays = <<overlay>>],
     !.offers = <<{<<tool>>}>>, !.resources = None(1), !.prompts = None(1)]
Over == NewOverlay(TheId)

(* An object's optional entry; entries are joined by @@.                     *)
Opt(key, values) == {<<>>} \union {[k \in {key} |-> v] : v \in values}
Two(x, y) == {Obj(f @@ g) : f \in x, g \in y}
Each3(x, y, z) == {Obj(f @@ g @@ h) : f \in x, g \in y, h \in z}

X == Atom("x")
Str == Node("string")
C == "c"

(* Arguments against schemas and overlays.  `b` may come as an object, as a  *)
(* text that holds one, as null, or as something else.                       *)
Bodies == {Empty, Obj([c |-> X]), Obj([c |-> Null]), Text(Obj([c |-> X])), Null, X}
Calls == {Input(v) : v \in Each3(Opt("a", {Atom("2"), Atom("2.0"), X, Null}), Opt("b", Bodies), Opt("k", {X}))}

Needs(a, b) == [Tool(<<"t">>) EXCEPT !.schema = Object([a |-> a, b |-> b, k |-> Str], {"a"})]
WithC == Object([c |-> Str], {"c"})
Secret(path) == [NoPatch EXCEPT !.path = path, !.source = "env"]
Checked(tool, overlay, secrets) ==
  [One("three", tool, overlay) EXCEPT !.inputs = Calls, !.secrets = secrets]

Given == [env |-> Atom("secret")]
Two2 == [Node("integer") EXCEPT !.enum = {Atom("2")}]
Arguments ==
  <<Checked(Needs(Two2, WithC), Over, Given),
    Checked(Needs([Node("any") EXCEPT !.branches = <<[Str EXCEPT !.nullable = TRUE]>>], WithC), Over, Given),
    Checked(Needs(Node("any"), [WithC EXCEPT !.nullable = TRUE]), Over, Given),
    Checked(Needs([Str EXCEPT !.nullable = TRUE], WithC), [Over EXCEPT !.defaults = <<<<<<"b", "c">>, X>>, <<<<"a">>, X>>>>], Given),
    Checked(Needs(Two2, WithC), [Over EXCEPT !.patches = <<Secret(<<"b", "c">>)>>], Given),
    Checked(Needs(Two2, WithC), [Over EXCEPT !.patches = <<Secret(<<"k">>)>>, !.defaults = <<<<<<"k">>, X>>>>], Given),
    Checked(Needs(Two2, WithC), [Over EXCEPT !.patches = <<Secret(<<"b", "c">>)>>, !.preflight = "off"], Given),
    Checked(Needs(Two2, WithC), [Over EXCEPT !.patches = <<Secret(<<"k">>)>>], <<>>),
    Checked(Needs(Two2, WithC), [Over EXCEPT !.patches = <<[NoPatch EXCEPT !.path = <<"a">>, !.enum = {X}, !.type = "string", !.required = "no"],
                                                          [NoPatch EXCEPT !.path = <<"k">>, !.required = "yes"]>>], Given)>>

-----------------------------------------------------------------------------
(* Results against transforms and projections.                               *)
Item == {Obj([id |-> X]), Obj([id |-> X, key |-> Atom("s")]), Obj([key |-> Atom("s")])}
ResultData == {Obj([data |-> Arr(<<i, j>>), key |-> Atom("s")]) : i \in Item, j \in Item}
           \union {X, Arr(<<>>), Obj([data |-> Obj([id |-> X])])}
Bare1(v, bad) == [isError |-> bad, structured |-> Nothing, content |-> <<v>>]
Both(v, bad) == [Bare1(v, bad) EXCEPT !.structured = v]
Results == {Bare1(v, bad) : v \in ResultData, bad \in BOOLEAN}
           \union {Both(v, bad) : v \in {w \in ResultData : IsObj(w)}, bad \in BOOLEAN}
           \union {[Plain(X) EXCEPT !.content = <<Prose(<<"text">>), Obj([key |-> X])>>]}

DataId == <<"data", "[]", "id">>
DataKey == <<"data", "[]", "key">>
Fields == {<<>>, <<DataId>>, <<DataId, DataKey>>, <<<<"key">>, DataKey>>, <<<<"data">>, DataId>>, <<<<"none">>>>}
Transforms ==
  <<NoTransform,
    [NoTransform EXCEPT !.remove = <<DataKey, <<"key">>>>],
    [NoTransform EXCEPT !.remove = <<<<"data", "[]">>>>, !.when = "error"],
    [NoTransform EXCEPT !.keep = <<DataId>>],
    [NoTransform EXCEPT !.keep = <<DataKey>>, !.when = "error"],
    [NoTransform EXCEPT !.rename = <<<<DataId, "name">>>>, !.set = <<<<<<"from">>, X>>>>, !.when = "success"],
    [NoTransform EXCEPT !.jq = "unwrap"]>>
Hint == [contains |-> Atom("s"), field |-> <<"f">>]
Shaping(mode, i, declares) ==
  [One(mode, [WithF EXCEPT !.name = <<"t">>, !.declares = declares], [Over EXCEPT !.response = Transforms[i], !.hints = <<Hint>>]) EXCEPT
     !.inputs = {[args |-> Empty, fields |-> f] : f \in IF mode = "three" THEN Fields ELSE {<<>>}},
     !.answers = Results]
Responses ==
  [i \in DOMAIN Transforms |-> Shaping("three", i, FALSE)]
  \o [i \in DOMAIN Transforms |-> Shaping("passthrough", i, TRUE)]
  \o <<[Shaping("passthrough", 1, TRUE) EXCEPT !.conf.overlays[1].paginates = TRUE], Shaping("passthrough", 1, FALSE)>>

-----------------------------------------------------------------------------
(* One operation of an OpenAPI document, its requests and its answers.       *)
Param(name, where, style, explode) ==
  [name |-> name, in |-> where, required |-> where = "path", style |-> style, explode |-> explode, schema |-> Node("any")]
Media(type) == [type |-> type, schema |-> Node("object")]
Op(style, body) ==
  [id |-> "get", path |-> <<[literal |-> "items"], Hole("id")>>, style |-> "repeated", body |-> body,
   params |-> {Param("id", "path", "none", "none"), style}]
Form == Media("application/x-www-form-urlencoded")
Ops ==
  <<Op(Param("q", "query", "none", "none"), NoContent),
    Op(Param("q", "query", "form", "no"), [byRef |-> FALSE, media |-> <<Form, Media(JsonMedia)>>]),
    Op(Param("q", "query", "deepObject", "yes"), [byRef |-> FALSE, media |-> <<Form>>]),
    Op(Param("q", "query", "pipeDelimited", "yes"), [byRef |-> TRUE, media |-> <<Media(JsonMedia)>>])>>
Query == {X, Null, Arr(<<X, Atom("y")>>), Arr(<<X, Null>>), Arr(<<Obj([c |-> X]), Atom("y")>>), Obj([c |-> Arr(<<X>>), d |-> Null])}
Sends == Each3(Opt("path_params", {Empty, Obj([id |-> X])}), Opt("query_params", {Obj([q |-> v]) : v \in Query}),
               Opt("body", {Empty, Obj([c |-> X]), Text(Obj([c |-> X]))}))
Bodied == {Nothing, X, Obj([key |-> X]), Arr(<<Obj([key |-> X]), X>>), Arr([i \in 1..5 |-> X])}
HttpAnswers == {[status |-> s, body |-> b] : s \in {"2xx", "4xx"}, b \in Bodied}
               \union {[status |-> s, body |-> Nothing] : s \in {"lost", "broken"}}
Strip == [Over EXCEPT !.response.remove = <<<<"key">>, <<"[]", "key">>>>]
Mounted(i, inputs, answers, raw) ==
  [One("three", [Tool(<<"t">>) EXCEPT !.op = Ops[i]], Strip) EXCEPT
     !.conf.upstreams[1].kinds = {"spec"}, !.conf.upstreams[1].baseUrl = TRUE,
     !.inputs = inputs, !.answers = answers, !.raw = raw]
Mounts ==
  [i \in DOMAIN Ops |-> Mounted(i, {Input(v) : v \in Sends}, {[status |-> "2xx", body |-> X]}, FALSE)]
  \o [i \in 1..2 |-> Mounted(1, {Input(Obj([path_params |-> Obj([id |-> X])])), Input(Empty)}, HttpAnswers, i = 2)]

-----------------------------------------------------------------------------
(* Schemas to display, from what fits to what has to be cut.                 *)
Wordy == [Str EXCEPT !.docs = 6, !.enum = {Atom("p"), Atom("q"), Atom("r")}]
Deeper(s) == Object([n |-> s, m |-> Str], {"n"})
Nest(s, wraps) == FoldLeft(LAMBDA t, i : Deeper(t), s, [i \in 1..wraps |-> i])
Wide == Object([n \in {"1", "2", "3", "4", "5", "6", "7", "8"} |-> Str], {"1"})
Shapes ==
  <<Str, Wordy, Deeper(Wordy), Nest(Wordy, 3), Nest(Str, 4), Nest(Wordy, 6), Nest(Wide, 2), Wide,
    [Node("array") EXCEPT !.items = <<Nest(Str, 5)>>], [Node("any") EXCEPT !.branches = <<Deeper(Wordy), Wide>>],
    Object([n |-> [Node("any") EXCEPT !.branches = <<Nest(Str, 3), Nest(Wordy, 2)>>], m |-> Wide], {"n"})>>
Wider == Object([n \in {"1", "2", "3", "4", "5", "6", "7", "8", "9", "10", "11", "12"} |-> Wordy], {"1", "12"})
Displays ==
  LET Shows(s) == One("three", [Tool(<<"t">>) EXCEPT !.schema = s], Over)
  IN [n \in 1..(Len(Shapes) * Len(Shapes)) |->
        Shows(Object([a |-> Shapes[((n - 1) \div Len(Shapes)) + 1], b |-> Shapes[((n - 1) % Len(Shapes)) + 1]], {"a"}))]
     \o <<Shows(Wider)>>

(* Every graph of two definitions and a root, of at most two branches each.  *)
Kids == {Ref("A"), Ref("B"), Ref("Z"), Tree(<<>>), Tree(<<Ref("A"), Tree(<<>>)>>)}
Bushes == {Tree(<<>>), Ref("B")} \union {Tree(<<k>>) : k \in Kids} \union {Tree(<<k, l>>) : k \in Kids, l \in Kids}
Graphs ==
  [World EXCEPT !.documents = {[defs |-> [n \in {"A", "B"} |-> IF n = "A" THEN x ELSE y], root |-> z] :
                                 x \in Bushes, y \in Bushes, z \in {Ref("A"), Tree(<<Ref("A"), Ref("B")>>), Tree(<<Ref("B"), Ref("B")>>)}}]

MCDeployments ==
  <<Crowded, Chained, Sharing, Failing, Nested("three"), Nested("passthrough"), Graphs>>
  \o Startups \o Arguments \o Responses \o Mounts \o Displays
=============================================================================
