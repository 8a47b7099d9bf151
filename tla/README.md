# min-mcp in TLA+

min-mcp is an MCP proxy in Rust (`src/src/`). Agents talk to it over stdio or
HTTP; it merges the tools of many upstreams (MCP servers over stdio or HTTP,
OpenAPI specs, commands) into one catalog, and puts rate limits, preflight
checks, circuit breakers, a read cache, pagination, workflows and a signed audit
log between the two. This directory holds TLA+ models of its stateful parts,
the TLC runs that check them, and proofs that TLAPS checks.

The code is multi-threaded async Rust (tokio). State lives in one `Surface`
shared by all requests, behind short `std::sync::Mutex` sections and a few
tokio locks held across awaits. So the unit of interleaving in every module is
the same: what a task does under one lock, or between two awaits, is one action.

## Inventory

| Part | State it keeps | Operations | Talks to | What is hard | Correct when |
|---|---|---|---|---|---|
| Call path, `surface/dispatch.rs` | none of its own: drives breakers, cache, slots | `dispatch_reach`, `paginate`, `upstream_slot` | catalog snapshot, limits, breaker, cache, upstream, audit log | many calls at once; awaits between each check and its use; dropped futures; failure of one page | every call ends; a slot is always given back; the breaker and the cache hear what happened |
| Circuit breaker, `surface/breaker.rs` | failure count, `open_until`, `probe_started` per tool | `check`, `on_result` | call path | late results, dropped probes, time | one probe at a time; only a success closes; always recovers |
| Read cache, `surface/cache.rs` | (tool, arguments) → time, result | lookup, insert with eviction, bust | call path | reads in flight across a write | a stale read only from the causes named; no list cut by a failure; bounded |
| Stdio upstream, `upstream.rs` | child, pipes, `pending` map, `dead`, `next_id`, respawn lock, `stale` | `rpc`, `request`, `cancel`, `read_loop`, `connection` | call path, catalog | child death at any step; timeouts against late replies; full pipes | every request gets one outcome, its own; nobody waits in vain; one respawn per death |
| HTTP upstream, `http_upstream.rs` | session id, version, re-init lock | `request_deadline`, `reinitialize` | call path, OAuth | session expiry under concurrency, retry of a call | retried at most once; one re-init at a time |
| Catalog, `surface/catalog.rs`, `ids.rs` | the `Arc<Catalog>`, `recheck_at`, stale flags | `refresh_if_due`, `assemble`, `vet`, `exposed_names`, `cat` | upstreams, every request | change announced during a listing, refused changes, snapshots across a swap, names that collide | an announced change is served or retried; a refused one never served; every tool keeps a name |
| Audit log, `audit_chain.rs`, `Surface::log_event` | next seq, previous MAC, file | `stamp`, append, `resume_from`, `verify` | everything | two locks, failing appends, crashes, restarts | an untouched log verifies; a touched one does not |
| Rate limits, `surface/ratelimit.rs` | token buckets | `take`, `refund` | call path | stale `now`, refunds, eviction | a refused call costs nothing; no over-admission |
| Workflows, `surface/workflow.rs` | outputs of earlier steps | `execute_workflow`, `workflow_failure` | call path | partial failure | never calls a re-run safe when something was written |
| Surface, `surface.rs`, `surface/audit.rs` | the configuration, the parts above | start-up, `search_tools`, `get_tool_details`, `call_tool`, `source_map` | every part | each way of answering must apply the caller's scopes; a composite's steps are not checked by them; results are cut to budgets | nothing hidden is named, but to who runs a composite of it; nothing is dropped unsaid |
| Resources and prompts, `surface/resources.rs` | uri → upstream | list, read, get | upstreams | listings of several callers race | a read goes where the caller may see |
| A call's data, `preflight.rs`, `patch.rs`, `results.rs`, `project.rs`, `minify.rs` | none | patches, defaults, decoding, injection, preflight, transforms, projection, bounds | call path | the order of the rewrites; one payload in several copies | no valid call refused; a secret and a removed path handled wherever they are |
| Spec upstreams, `spec.rs`, `exec.rs`, `backend.rs` | the parsed document | reference expansion, request building, envelopes | HTTP | budgets, query styles, bodies | the request says what the caller said |
| Configuration, `config.rs`, `lint.rs` | none | validation, filters, scopes, overlays | everything | patterns against ids | nothing starts that would misroute |
| Front door, `rmcp_serve.rs`, `tls.rs`, `caller.rs` | live connections, peers | bind, handshake, authenticate, fall back | surface, credential caches | many routes to a handler; hang-ups | a call runs as its own caller |
| Credential caches, `auth.rs`, `oauth.rs`, `secrets.rs` | keys, verdicts, tokens, Vault login | refresh, ask, fetch, re-login | front door, HTTP upstream | single flight, failure, staleness, answers out of order | one fetch at a time; bounded staleness |
| Search index, `index.rs` | terms, usage | ranking | surface | floating-point scores | |
| Shadow retrieval, CLI, logging, `jq.rs`, `crypto` | counters | | | | |

Every part, modelled or not and why, is listed in `PROJECT.json` under
`components`; what can go wrong where, under `hazards`.

## Modules

    Breaker ── Dispatch ── MCDispatch        RpcPromise
                  └─ Dispatch_proofs             ↑ implemented by
                                            Stdio ── MCStdio
    AuditLog ── MCAuditLog                     └─ Stdio_proofs
       └─ AuditLog_proofs                   HttpSession ── MCHttpSession
                                               └─ HttpSession_proofs
    Catalog ── MCCatalog                    RateLimit ── Workflow ── MCWorkflow
       └─ Catalog_proofs                                    └─ Workflow_proofs
    FrontDoor ── MCFrontDoor
       └─ FrontDoor_proofs

    Json ┬─ Paths ── Schema ── SpecCall ┬─ Shape ──┐
         │                       Config ┤          ├─ SurfaceData ── MCSurface
         └──────────────────────────────┴─ Surface ┘
                                              └─ Surface_proofs

The modules of the last group hold what is sequential: operators from JSON to
JSON, and `Surface`, which drives them. `Surface` takes what is done to a call's
data as constants, so what is proved of it holds whatever that is, and
`SurfaceData` gives it the code's own. `Paths`, `Schema`, `SpecCall`, `Shape` and
`SurfaceData` use RECURSIVE operators, so nothing is proved in them. The others
hold what is concurrent.

### Breaker and Dispatch: the call path

`Breaker` is the breaker as a value (`BreakerState`) with `check`
(`Decision`, `Checked`) and `on_result` (`AfterResult`) as operators. The code
stores instants; only differences with `now` matter, so the model stores the
cooldown left and the probe's age and `Elapse` advances them. Ages stop at the
thresholds they are compared with, so time needs no bound.

`Dispatch` is `dispatch_reach`. A task is one request; its stages are the code's
awaits and lock sections:

| Action | Code |
|---|---|
| `Begin` | everything before the cache lookup, for a tool the catalog in force knows: a refusal there changes no state here |
| `Lookup` | the cache read, a hit ends the call |
| `Gate` | the breaker's `check`, then the queue of the semaphore |
| `AcquireSlot` | `upstream_slot().await` returns |
| `Serve` | the upstream processes the call (external) |
| `AnswerOk`, `AnswerError` | the call returns; the slot is dropped; a page is merged, the next one asked for, or the list ends: no cursor or `more` not true, the last cursor again, an empty page, `max_pages`, or a failure. Only the last sets `partial_error` |
| `Record` | `on_result` |
| `Store`, `Bust` | cache insert with eviction, or `bust_upstream_cache`, then the end |
| `LeaveQueue`, `HangUp` | the request's future is dropped at an await (the case the comment on `STALE_PROBE_AFTER` is about) |
| `LateCommit` | a write that was given up on commits after all (external) |
| `Relist` | a re-index drops a tool from the catalog or adds it again; the cache is not touched |
| `Tick` | time |

An upstream is a version number that writes advance, which is what tells a stale
read from a fresh one. Of a page only what it says of the next is kept (`said`).
A bust spares the entries of other upstreams, and those whose tool the catalog
in force does not know (`Spared`). `settled`, `adrift` and `overrun` are history
variables, and `raced` and `missed` history fields: no action reads them.

### Stdio and RpcPromise: the transport

`RpcPromise` states what a transport owes its callers: one outcome per request,
an answer only if it is the upstream's answer to that very request, and no
request carried out twice. An error says nothing of whether the call was carried
out, which neither transport can know. `Stdio` is `upstream.rs`: `Connect`, `Respawn`,
`SpawnOk`, `SpawnFails` are `Upstream::connection`; `Insert`, `LockWriter`,
`WriteFrame`, `WriteFails`, `CheckDead`, `Wake`, `TimeOut`, `Cancel` are
`Conn::request`; `ReadLine`, `ReaderLock`, `ReaderWrite`, `ReaderEof`, `Drain`
are `read_loop`; the `Child…` actions are the process, external. Pipes hold a
number of frames, because writing to a full one is where the code waits. A ping
stands for any server-to-client request (all are answered the same way). The
handshake of a fresh child is part of `SpawnOk`. A request's own future is never
dropped in this model. `KeepsPromise` checks that `Stdio` implements
`RpcPromise` under the mapping given there (`fate`, `answer`, `done`).

### HttpSession: the remote session and its tokens

`HttpSession` is `http_upstream.rs` for a 2025-06-18 server, with the token
cache of `oauth.rs`. A request is its progress through `request_deadline`;
`doing` says whether the POST under way is its own or one of the two of the
handshake it makes on the way.

| Action | Code |
|---|---|
| `Begin` | `seen` is read |
| `Bearer`, `FetchLock`, `Fetched`, `FetchFails` | `OAuthClient::bearer`: the cached token, the lock, the second look, the fetch |
| `Had`, `Post` | the two further reads of the session, in `request_once` and in `post`; other threads run between them |
| `Refuse`, `Open`, `Ready`, `Serve`, `Forget` | the server (external): sessions are opened at initialize, named in replies, forgotten at any time |
| `Head` | the reply's head: `Mcp-Session-Id` is captured, whichever request it answers; a notification ends here |
| `Body` | the outcome: an answer, an error, or 404 with a session held and so `reinitialize`, once |
| `Reinit`, `Clear` | the lock, the second look, and `initialize` forgetting the session |
| `PostFails` | a connection, deadline or body that fails at any of these points |

`KeepsPromise` checks it against the same `RpcPromise` as `Stdio`. What a failed
handshake leaves behind is in the model too: no session, so that later calls go
out without one, are refused, and re-initialize nothing, since only a 404 with a
session held does. `SessionlessAfterFailureOnly` says that this is the only way
there. `wentBack` is a history variable. Not modelled: `connect` (the model
starts with a session agreed), servers that use no session, the negotiated
version, redirects, and SSE parsing.

### AuditLog: the signed log

`Stamp` is `log_event` under the chain's mutex, `Write` and `WriteFails` the
append under the file's. `Crash` may cut an append short; `Start` is
`Surface::build` with `resume_from`, which refuses to chain onto garbage. The
MAC is an injective tuple of what it signs, and `Verifies` is `verify`.

### Catalog: re-indexing while serving

`Catalog` is `surface/catalog.rs`, `refresh_if_due` above all. A request's
`flight` is the local state of that function: the snapshot it started from
(`current`), the upstreams still to be listed, the one awaited, the changed
listings (`fresh`) and the ones that passed (`accepted`).

| Action | Code |
|---|---|
| `Change` | an upstream changes its tools (external), announcing it if it is of that kind |
| `Hear`, `Lose` | `read_loop` sets the stale flag; or the announcement dies with its connection, or rides on a reply nobody scans |
| `Lapse` | the instant in `recheck_at` comes |
| `Start` | something is due and `try_lock` succeeds |
| `Ask` | `take_stale`, then `list_tools_ttl` is awaited |
| `Answer` | the upstream reads its own tools (external) |
| `Listed`, `ListingFails` | `schedule_recheck` and the fingerprints, or `retry_later` |
| `Accept`, `Refuse` | `assemble` and `vet` on top of what was accepted |
| `Swap` | the new `Arc<Catalog>` is written, the lock released |
| `Drop` | the request's future is dropped at an await |

A listing carries its age (how many changes came before it), which no action
reads. A listing is taken at one instant: that its pages may be read around a
change is left out, and would be followed by that change's own signal. Vetting
depends on the listing only: configuration and overlays do not change.

### RateLimit and Workflow: composites and their limits

`RateLimit` is `ratelimit.rs` as operators on the map of buckets: `Taken` with
its sweep (`Swept`) and answer (`Admits`, `RetryIn`), and `Refunded`. A call
costs `per_s` tokens and a second refills `calls`, so the code's fraction
`calls / per_s` is a whole number. Time is in whole seconds.

`Workflow` is `execute_workflow` and `workflow_failure` over `rate_limited`. A
run is one execution of a composite; an ordinary call is a composite of one step.

| Action | Code |
|---|---|
| `Call` | a step starts, and `rate_limited` reads `now` |
| `Take` | one bucket is charged under its mutex: caller, (caller, tool), overlay. In report-only mode a refusal by one of the first two is passed over |
| `Refund` | a refused call's charges go back, one lock section each; then it fails as `NotSent` |
| `Admit` | no tier refused |
| `RefuseLocally` | any other refusal before sending |
| `AnswerOk` | the step succeeded: the next one, or the end |
| `AnswerError`, `AnswerUnreadable`, `NoAnswer` | the upstream's error; a success whose body could not be read; a timeout or transport failure |
| `LateEffect` | what was sent and not answered is carried out after all (external) |
| `Report` | `workflow_failure` reads the hints of the catalog in force and writes `fix` |
| `Rehint` | a re-index swaps in another hint for a tool (what `Catalog` models in full) |
| `Tick` | time |

Two assumptions about upstreams are in the model: a tool hinted read-only writes
nothing, and one that answers with an error has had no effect (what the report
calls `failed`). `admitted`, `ideal`, `disturbed`, `unread` and `rehinted` are
history variables. Three properties are as strong as the code allows:

* `VerdictSound` excepts runs during which a re-index changed the hint of a tool
  already called (`step_effect` reads the catalog of the moment of the failure),
  and those of the finding `rerun_repeats`; `OutcomeSound` excepts the latter.
* `WithinLimit` excepts a bucket that a thread with an older `now` came late to
  (`take` sets `updated` back, so the same second refills twice), and one a full
  map dropped before it was full again *for every thread on its way to it*
  (`Lost`). `MAX_BUCKETS`'s comment accepts dropping a bucket that is not full;
  the proof of `LimitsHold` showed that one which is full by the sweeper's clock
  matters too: a thread that read its `now` before finds a new, full bucket, and
  spends tokens the swept one would not yet have had. It takes three calls at
  once, one more than `MCWorkflow` has: an instance with three runs, one tool's
  limit and room for one bucket reaches it, and the theorem covers any number.
* `RefusalsCostNothing` excepts nothing, but counts the refunds still to come: a
  refused call keeps its charges until it has been refunded.

### FrontDoor: who comes in, and as whom

`FrontDoor` is `serve_http` and its request guard (`rmcp_serve.rs`) with the two
token checks of `auth.rs`. A request is a task; it is dropped where it awaits
when its client goes away.

| Action | Code |
|---|---|
| `Bind` | `serve_http` up to its accept loop: the refusal of an open door beyond loopback |
| `Accept`, `Handshake`, `Idle` | a connection, the TLS handshake with or without a client certificate, the two timeouts before a request |
| `Headers` | `HttpIdentity::authenticate`: the metadata document, a bearer, gateway headers, the process, a 401, in this order; a bearer goes on to `claims` |
| `Flight`, `Fetched`, `FetchFails` | `Jwks::refresh`: the lock and the second look; the document; no usable one. `attempted` is stamped before the request |
| `Heard`, `Unreachable` | `Introspector::active` after its await: `remember`, or the outage policy |
| `Handle` | `MinMcpServer::caller`: the identity of the parts, or the fallback of a request that has none |
| `HangUp` | the task is dropped, and with it the lock |
| `ProviderAnswers`, `ServerAnswers`, `Publish`, `Withdraw`, `Revoke` | the identity provider and the authorization server (external) |
| `Tick` | time: it does not pass the timeout of a question under way |

`foreign` is one bit, "the Origin header is none of `LOOPBACK_ORIGINS`", which
admit `null`; rmcp's Host check is not modelled. An answer is what holds when it
is *given*, and is heard later: two answers about
one token may be heard in the other order. `missed` is a history variable (an
attempt since the last usable document brought none). Signatures are taken to be
what they say. Vault's login cache (`secrets.rs`) repeats the shape of the OAuth
cache in `HttpSession` and is not modelled.

### Json to SurfaceData: what a caller gets

* `Json` is JSON values and the walk along a path: `get_path`, and `set_at` and
  `default_at` of `project.rs` (`PutAt`), as recursive functions. `At` is the
  reference the properties use.
* `Paths` is the rest of `project.rs`, which recurses over values: `Select` and
  `Project` with the merge by position, `PruneAt`, `RenameAt`.
* `Schema` is `patch.rs`, `preflight.rs`, `minify.rs` and `details_text`.
  `Accepts` is the reference: what JSON Schema says of a value.
* `SpecCall` is `spec.rs` and `exec.rs`: `Expand` with its node budget and
  `Deepen`, input schemas, query styles, bodies, headers, and envelopes.
* `Config` is the part of `config.rs` that decides: validation, filters, which
  upstreams are started, scopes, and bindings.
* `Shape` is what `dispatch_reach` does to one call's data: defaults and decoding
  before it goes out, `Shaped` (transform, projection, hints, nudge) and
  `Bounded` (the budgets of `Surface::call`) when the answer is back.
* `Surface` is the state machine. It decides whose answer names what, where a
  request goes, and when a secret is put in: `Prepared` is the order of the steps
  before the wire (defaults and decoding, injection, preflight). The operators on
  data it takes as constants are `OpSchema`, `StatusOf`, `DetailsOf`, `Resolved`,
  `Prefilled`, `Violations` and `Returned`.
* `SurfaceData` is `Surface` and `Shape` together, with the properties about the
  data. `MCSurface` passes its operators to `Surface`.

| Action | Code |
|---|---|
| `Connect`, `Start` | `Surface::build`: upstreams one by one, then `assemble` and `vet` |
| `Reindex` | a changed listing is assembled on the others and swapped in if it passes (its concurrency is `Catalog`'s) |
| `ListTools`, `Search`, `Details`, `SourceMap` | the answers that name tools. The index's ranking is any |
| `CallTool`, `CallByName` | `call_tool` and passthrough names, up to the wire or the refusal; of a composite, its start |
| `Answer` | the upstream's answer, transformed, projected, bounded |
| `StepAnswer` | the answer to a step of a composite: the next step under the catalog of the moment (`RunStep`), the end, or the failure report (`Fails`) |
| `Begin`, `Fetch`, `Listed`, `ReadResource`, `GetPrompt` | resources and prompts: a listing asks one upstream after the other and awaits each, while others extend the same routing table |
| `ResolveSchema` | `resolve` on a document |

A composite is scope-checked by its own id; each of its steps is dispatched under
the caller's scopes, and fails there as an unknown tool if they hide it. What its
report then says of names is in `Fails`; what it says of effects is `Workflow`'s.

A name is a sequence of pieces and a word of prose is a unit, so that prefixes,
lengths and budgets are those of the code at a smaller scale. Numbers appear as
the two spellings preflight has to take for one. A jq program is uninterpreted,
but for one that takes a value out of its object. `Numerals` are the numbers that
fit the room a cut name leaves for them. A reply is consumed before the
next one is given (`Taken`); requests of the other callers go on in between only
where the code awaits. `heard` is a history variable.

`ListingsHonoured` is an action property: what a listing promised holds as of the
step that answers. As a property of states it fails, since a re-index while the
answer is on its way may hide an upstream or show another. It excepts prompts of
an upstream with an empty name, and prompts with one, which no name leads to.

## Runs

| Run | Shows | Bounds, and why they are enough |
|---|---|---|
| `breaker_path` | one live probe, a tripped breaker stays open, only a success closes it, it recovers, every call ends | 3 requests of one tool, 1 slot, threshold 2: a trip needs two failures, a probe and a competitor a third task, one slot makes them queue; the tool has two pages, so that a call queues twice and others come between. `StaleAfter` is above `Deadline` as 180 s is above 120 s |
| `cache_path` | slots conserved, stale reads only by one of four causes, no list cut by a failure cached | 2 requests, 2 writes, a list of up to two pages with every way to end, a read that leaves the catalog and comes back and a write on one upstream, 2 slots, room for one entry: a race needs two tasks, an eviction two cacheable tools |
| `stdio` | no hopeless wait, exact `pending`, one respawn per death, `RpcPromise` | 2 requests, 2 children, 1 ping, pipes of 2 and 1 frames: ids repeat on the second child |
| `stdio_ends` | every request ends | 2 requests, 1 child, 2 pings, pipes of one frame: the tightest pipes |
| `audit_log` | when the log verifies, and what that is evidence of | 2 writers, 3 lines, 3 starts, 2 bodies: two histories that fork and rejoin need three lines and two starts |
| `catalog` | no change forgotten, none undone, all served or refused in the end | 2 requests for the lock, one upstream that announces and one with `ttlMs`, 2 changes each over 4 sets of tools (one differs in an annotation only, one is refused), 1 dropped request: a lost update needs two changes and two requests, a refusal that could hold back another two upstreams |
| `http_session` | single-flight re-initialization that undoes nothing live, one fetch at a time, `RpcPromise`, every request ends | 2 requests, 3 sessions: the second look under each lock needs two requests, and a late reply an older session than the one in force, itself forgotten once more |
| `workflow` | what a report may be relied on for; limits neither over-admit nor charge the refused; retry-after exact | a composite of a read and a write, and a call of the same write, by one caller; 2 seconds; limits 2/3s, 2/1s and 1/2s; room for 3 of 4 buckets, swept at age 1; 1 re-index, which changes the hint of the write: two calls race on every shared bucket, each tier refuses, the map overflows, and a limit with `per_s` above 1 makes fractions |
| `rerun_repeats` (violation) | a committed write reported as safe to repeat | the same, without re-indexes |
| `audit_order` (violation) | an untouched log that does not verify | 2 writers, 1 start |
| `front_door` | the process's scopes guarded by every route; how long a withdrawn key and a revoked token still open the door; no token refused unlooked | 2 requests, 2 keys (one published later, one withdrawn), 2 tokens (one revocable, one that expires), 8 deployments, 3 seconds, floor 1 s, age 2 s, timeouts and verdicts 1 s, room for one verdict: two requests race for the lock and for a verdict, and the clock passes each of the limits |
| `surface` | who is told of what; what is sent for a call and shown of its answer | 167 deployments: two callers with different scopes over one or two upstreams whose names nest, whose tools' names collide and whose resources share a URI, with a listing that may fail; composites of no step, and of a visible, a hidden and an absent tool; 9 combinations of schema and overlay against 105 argument objects; 16 of transform, mode and output schema against every payload of two elements; 4 operations with every pair of parameters and body, and every answer; every pair of 11 schemas against a budget of 10 words, and every graph of two definitions against 8 nodes |

Every property of a passing run is violated by the mutant `PROJECT.json` gives
it: an operator beside the one it replaces, marked "A faulty …".

### Findings

* **An untouched audit log fails verification** (`audit_order`). Stamping and
  appending are separate critical sections. `OrderIsAllThatIsLost` says that
  within one run of the process only the order suffers.
* **A committed write reported as harmless to repeat** (`rerun_repeats`). A
  success of a spec upstream whose body cannot be read carries a status, so
  `backend.rs:279` takes it for the upstream's error, and the composite's report
  says that re-running it "repeats no effect".

Two more show with other constants of the same modules:

* **A live probe is preempted.** `breaker.rs:28-29` says "a live probe is never
  preempted", but the probe's 180 s run from `check`, and the call then queues
  for a slot (`dispatch.rs:200`) before its 120 s begin. `OneProbe` excepts a
  tool one of whose probes has stayed out for `StaleAfter`, for this reason.
* **A ring of full pipes.** The reader task answers pings under the writer lock
  (`upstream.rs:444`), and writes have no deadline. With `OneAtATime = TRUE`, one
  child, two pings and pipes of one frame, `EveryRequestEnds` fails: a child that
  pings while both pipes are full stalls the connection for ever, though
  `upstream.rs:421-423` answers pings "so a blocking upstream can't stall us".

Where the code and what is said of it part, without a run. The properties state
what the code does:

* The comment on `bust_upstream_cache` (`cache.rs:51-52`) says a write "must not
  leave stale reads behind". Four things do, until the TTL: a read answered
  before a write and inserted after its bust; an entry whose tool the catalog
  did not know when the bust ran (`cache.rs:61`) and that comes back; a write
  carried out whose request was dropped before its bust (`dispatch.rs:298`); and
  one that commits after it was given up on. `StaleExplained`, which is proved,
  names these and says that there is no fifth.
* The comment on the insert (`dispatch.rs:273-275`) says "a pagination run that
  stopped early is NOT clean". That holds of failures only: a cursor that does
  not advance, an empty page, `more` missing or false and `max_pages` leave
  `partial_error` false (`dispatch.rs:448-463`, `486-488`), so that what was
  merged is cached, with `more` set to false. `CachedListsEnded`, which is
  proved, says what the code does: nothing a failure cut short is cached.
* "A limited caller learns nothing about hidden tools" (`dispatch.rs:50`): one who
  may run a composite learns the tools of its steps when it fails. The composite
  is checked by its own id alone (`surface.rs:772`), its report names every
  step's tool (`workflow.rs:104`, `132`, `136`) and quotes the refusal of the one
  that failed, `unknown tool_id` of a hidden one included (`dispatch.rs:35-43`).
  `MentionsOnlyVisible` excepts these names, in that answer, and no others.
* `upstream_enabled` (`config.rs`) is "conservative: only returns false when the
  whole upstream is provably out". An include wildcard shorter than the name and
  its dot, such as `git*`, references no upstream, so `github` is not started
  though its tools pass the filter.
* `body_media_type` (`spec.rs`) reads `requestBody` as it stands: a body behind a
  `$ref` is sent as a form whatever it declares. `RequestFaithful` excepts it.
* Preflight refuses a required null that the schema admits only through a branch
  or by declaring no type. `NeverTooStrict` excepts it.
* A user-supplied field is silently not injected where the caller puts something
  else than an object on its way, and of two of the same path the later one goes
  out. `SecretAuthoritative` excepts both.
* `source_map`'s `exposed_by_name` and its count of overlaid tools are those of
  the whole catalog, whatever the scopes (`surface/audit.rs`). They name nothing.
* The prompt `jira.x` of an upstream `corp` is shadowed by an upstream
  `corp.jira`; and the tool `jira.get` of the one has the id of the other's
  `get`: `by_id` keeps the later, and validation refuses neither.
  `ListingsHonoured` excepts both.
* Where two upstreams list a URI, the last listing of any caller decides where
  everyone's read goes, and a caller who does not see that upstream is refused.
* A body cut at `MAX_RESPONSE_CHARS` is a string, which `remove` cannot reach
  into: `StrippedNeverShown` reads the string as the atom it is.
* A composite with a tool's id takes its calls, while search describes the tool.
* In report-only mode `dispatch.rs:403-405` promises the lines "enforcement would
  produce". A call the tool tier would refuse is not refunded to its caller's
  bucket, so later lines may report refusals enforcement would not make.

Also met, and in no module: the fingerprint of a listing misses a change of
`readOnlyHint` alone (`catalog.rs:224`), so `Workflow` re-hints by a change of
anything else; and uses recorded on the old index while a new one is built are
lost from the ranking (`catalog.rs:338`).

## Fairness

* `Dispatch`: weak fairness of each task's own steps: tokio polls what is ready
  and the transport's deadline makes some answer one of these steps. Strong
  fairness of `Tick`: time goes on. Nothing is asked of clients or upstreams.
  `Prompt` says a tick is long beside a poll: time does not pass a deadline or a
  free slot somebody waits for. That every call on the wire ends by the deadline
  is what `Dispatch` assumes of a transport, and what the ring of full pipes
  shows the stdio transport not to guarantee of every child.
* `Stdio`: strong fairness of each request's and each reader's steps (tokio's
  mutex is first come, first served, so who waits for the writer lock gets it
  if it keeps coming free), and weak fairness of the child reading its input.
  The child need not ever answer. One that takes a message at a time
  (`OneAtATime`) answers before it reads on.
* `Catalog`: weak fairness of `Start` (requests keep coming; without them
  nothing is re-indexed, which is the code's design), of a re-index's own steps
  and of time; strong fairness, upstream by upstream, of an answer, a listing
  and an acceptance: who is asked again and again answers once in a while. A
  listing may fail, and secrets fail to resolve, any number of times before.
  Dropped requests are bounded: one dropped for ever would serve nothing.
* `HttpSession`: strong fairness of each request's steps: its lock waits are
  first come, first served, and every exchange has a deadline (30 s for a token,
  at most 120 s for a POST). Nothing is asked of the server.
* `AuditLog`, `Workflow`, `FrontDoor` and `Surface` state safety only. In
  `FrontDoor` a task that could go on does so before time passes a timeout,
  which is what a deadline is.

## Proofs

`Dispatch_proofs` proves, for any numbers of requests, tools, upstreams, slots
and pages and any breaker and cache settings (`BreakerAssumption`,
`DispatchAssumption`):

* `TypeCorrect`: `[]TypeOK`. One lemma per step of a task (`StepType`), then
  `NextType`.
* `TrippedStaysOpen`: `TrippedIsOpen` is inductive given types; `BreakerTrips`
  carries the arithmetic.
* `SlotsAreConserved`: needs the queue first. `SlotsConserved` is not inductive:
  a head of the queue that was on the wire already would take a second permit.
  `QueueIsExact` proves that the queue holds exactly the waiting tasks, once
  each, and is inductive by itself.
* `AtMostOneProbe`: `OneProbe` is strengthened to `ProbesTimed` (a live probe's
  age is the breaker's `probeAge`, below `StaleAfter`), which needs `FreshTasks`
  (age 0 before the gate).
* `StaleReadsExplained`: of `StaleExplained`, `EntriesExplained` is strengthened to
  `ReadsSound` (what a task in flight has seen is either not older than the
  settled version or marked raced); `WritesExplained` is inductive given types
  (`WritesKept`): a write that is carried out is on its way to its bust, and one
  whose request leaves before puts its upstream `adrift`.
* `BreakersCloseBySuccess`: the action property `ClosedBySuccess`.
* `NoListCutByFailure`: `CachedListsEnded` is strengthened by `TasksPaged`, which
  says at each stage how many pages a task has merged and what the last one said:
  a list that reaches the end clean was ended by its last page or by `max_pages`.

`Catalog_proofs` proves, for any requests, upstreams, tools and bounds
(`CatalogAssumption`: every upstream either announces or sends `ttlMs`, which is
what its header says of the two protocol eras):

* `TypeCorrect`: `[]TypeOK`.
* `NothingIsForgotten`: `NothingForgotten` says nothing of a listing that is in
  a re-index's hands while its upstream changes once more, so it is strengthened
  by `SignalsKept` (whatever a re-index holds that is older than what is offered
  has left a signal that outlives the re-index), which needs `OneFlight` (the
  lock, and that the snapshot is the catalog in force) and `Staged` (an upstream
  still to be listed is in no later stage). `AskStep` to `StartStep` say what
  each step does, field by field; the rest cites them.
* `NothingGoesBack`: `NeverBackwards` from `Ages`, the order of the ages served,
  in hand and offered, and `OneFlight`.

`HttpSession_proofs` proves, for any requests and sessions (`HttpAssumption`):

* `TypeCorrect`: `[]TypeOK`, which says of each lock that its holder is the
  request at the stages that hold it. `OneRequest` reduces a step to the new
  record of one request; `StageStep`, `AbortStep`, `PostingStep` and `ReplyStep`
  are the four shapes of step.
* `FetchesAreNeeded`: `NoNeedlessFetch` is inductive given types.
* `HandshakesDoNotMix`: `InitializedInSession` is strengthened to `Confirming`
  (from the answer to initialize on there is a session), which others keep since
  only `Clear` takes it away and only the lock's holder clears (`SessionStays`).
* `ImplementsPromise`: `Spec => KeepsPromise`. `CarriedRight` says what has been
  carried out at each stage, above all that a 404 means nothing was; `OwnFate`
  gives each step's effect on the abstract state, `PromiseStep` the simulation.
* `SessionIsKept`: neither half of `SessionKept` is inductive. `Succession` says
  how sessions follow one another: the client knows none the server has not
  opened (`Opened`), what brings a request to `reinitialize` is a lost session
  (`LostIsGone`), a handshake brings one newer than any it knows (`OfferIsNew`),
  and, while no late reply has put an older one back, the current session is the
  newest and the only one alive (`Forward`).

`Stdio_proofs` proves, for any requests, children, pings and pipe sizes
(`StdioAssumption`):

* `TypeCorrect`: `[]TypeOK`. `Disturbance` says which steps touch which part of
  which connection, so that every later proof looks at those only.
* `ImplementsPromise`: `Spec => KeepsPromise`. Ids are reused from one
  connection to the next, so `Exchanges` follows the messages: what is in a pipe
  of a connection bears the id of the request it is about (`InTransit`), a call
  is in the pipe once and not yet carried out, and a request hears of itself or
  of nothing (`Outcome`).
* `PendingAgrees`: from `Expected`, on top of `Exchanges`: the pending map is
  exactly the requests of the connection that wait or are about to (`PendingIs`),
  and one that waits has a reader. The case that needs care is the reader's
  death between a request's insertion and its second look at `dead`.
* `RunningChildStays`: `LiveNeverReplaced` is a statement about the respawn lock:
  `Succession` says that all connections but the last are dead, and that one too
  while somebody spawns the next.

`AuditLog_proofs` proves, for any writers, events, lines and restarts:

* `TypeCorrect`: `[]TypeOK`, which says of each line that it is garbage or one
  the process signed.
* `QuietVerifies`: `QuietLogVerifies` says nothing while a line is on its way.
  `Quiet` adds that the one line stamped and not written continues the file, and
  the chain that line.
* `OnlyOrderIsLost`: by `Whole`. Within the first run the stamped lines form a
  log that verifies, and each is in the file or on its way, once (a count:
  `Cardinality`); `FreshStart` says that nothing is there before.
* `TamperIsEvident`: from the types and the injectivity of the MAC:
  `NothingSpliced` shows that each line of a log that verifies and is made of
  stamped lines, altered or not, was stamped, and after the very line before it
  (no two histories are spliced); `BreakLocated` finds the line `verify` stops
  at.

`Workflow_proofs` proves, for any composites, callers, limits and catalogs
(`WorkflowAssumption`):

* `VerdictsAreSound` and `OutcomesAreSound`: both follow from `IInv`. `Traced`
  says where a run's effects may come from: steps already completed, and the
  failed one only with the `reach` that admits it; and that, as long as no hint
  of a called tool has changed, what wrote is hinted to write. `Progress` and
  `ReportType` say what a run's stage and reported reach are. `OneRun` reduces a
  step to one run's record, `EarlierSteps` and `NothingWritten` carry the
  verdict. The buckets play no part in it.

Of the buckets, under the same assumptions and for any limits, clocks and sizes
of the map, it proves two more properties. Both rest on `Ledger`: the types, that a call was charged for tiers it has been through, each
once (`Charges`), and so that it gives back each charge once.

* `RefusalsAreFree`: `RefusalsCostNothing` is inductive on `Ledger`. A bucket's
  worth changes by what its pending refunds change by (`OwedKept`), and never
  falls for an older `now`: `RefilledLater` says that a bucket written at an
  instant others have overtaken is worth at least as much later on.
* `LimitsHold`: `LimitKept` is `WithinLimit` and `RetryAfterExact`. The second
  follows from `Ledger` and the rounding of `RetryIn` (`RetryExact`). The first
  speaks of the past and so needs `Books`: `Room(k, n, t)` says that bucket `k`,
  last written at `n`, may hold `t`: the charges since any earlier instant, those
  of calls still being judged among them, leave room for `t` within burst and
  refill. It holds of what is in each bucket, and of a full one wherever a bucket
  may be created anew (`Accounted`); `Spans` is the bound on spans that are past.
  `BooksWritten` and `BooksKept` are the two shapes of step, `RoomLater` the
  refill, `RoomSwept` the sweep.

Before each proof TLC checked the invariant on an instance of the runs' size
(`Books` on three runs, where the first version of `WithinLimit` failed).

`FrontDoor_proofs` proves, for any requests, deployments, keys, tokens and
timeouts (`FrontDoorAssumption`: the floor and the fetch's timeout are no longer
than the age of a set, 60 s and 30 s against 600 s in the code), from one
inductive invariant `IInv`:

* `TypeCorrect`: `[]TypeOK`.
* `ProcessIsGuarded`: `ProcessScopesGuarded` speaks of the step that serves, and
  needs `Entered`: what the listener and the guard have seen to by the time a
  request is where it is.
* `WithdrawnKeysDie`: needs `KeysBacked`, that the known set is one the provider
  published at some time since the last attempt, unless an attempt failed or is
  under way, and `Fetches`, which says the same of what a fetch has got, that the
  lock's holder is the one request that fetches, and that it does so in time.
* `UnknownAfterLooking`: from `Fetches` and the second look.
* `RevocationsBite`: needs `VerdictsDated` (a cached "active" was heard no later
  than a question's time after any revocation) and `Asks`, which says of a
  question under way when it was sent and that "active" was true then or later.

`LookIs` gives the four records a look at a token may leave behind, and
`JudgedKeeps` shows each to satisfy the invariant; `OthersKeep` leaves the other
requests alone. `MovesByLooking` says which steps let a request in or refuse it.

`Surface_proofs` proves, for any deployments, callers and operators on the data:

* `OnlyVisibleMentioned`: `MentionsOnlyVisible` is strengthened to `Hushed`, which
  says the same of a reply (`Proper`, with the exception of a composite's report,
  `Reports`) and of the call on the wire, whose answer bears its name: a tool
  called, alone or as a step, is one its caller may see, and a composite is run
  for those who may run it. `Advanced` says what a composite's step leaves
  behind: an answer, or the next call. A reply and a call are records whose other fields depend on their kind (`Tell`);
  `TellSays` shows what they have in common.
* `NotStarved`: `Search` is the only step that gives such a reply
  (`OnlySearchFinds`), and `AllServed` counts: of the best `3 * k` hits, those
  served and those hidden are all there are.
* `ListingsAreHonoured`: `Base` says that the catalog in force is assembled from
  what the upstreams listed, and its tools' names are sequences; `NameFresh` that
  a tool's name is free and fits as long as the numbers last, `NamesWell` by
  induction that all tools have one. For resources `Routed` says that every
  route, in the table, in a listing that is still collected, or in what a caller
  was told, leads to an upstream that lists that URI, and that a caller was told
  of no URI the table has lost (`ListedReadable`, `ReadReadable`). For prompts
  `OwnerLongest` says that the owner is the visible upstream with the longest
  name that starts the prompt's, and `PromptReturns` that the upstream that
  listed it is one of those that start it.
* `SecretsAuthoritative`: `SetFills` says what `set_at` leaves at its path,
  `SetKeeps` that a later one leaves an earlier one's value, or puts its own on
  the same path, or something in its way; so one after the other
  (`InjectedOwns`) each field ends as `Owned` says. Violations are looked for
  after the injection, and nothing is rewritten between it and the wire.

What it assumes is `SurfaceAssumption`: names, paths and lists are sequences and
secrets no objects (`secrets.rs` resolves them to strings), a search asks for
a number of results, names have room for two pieces, and the numbers that tell
names apart differ. TLC evaluates it on every deployment of the run.

The model's recursive functions are choices by their equation. `Recursion` and
`Stepwise` show that a function with such an equation exists, and `UpTo` is
induction up to a number as a statement about sets, which needs no operator as a
parameter: a set of numbers has a least element (`Least`).

Only model-checked: liveness (`BreakerRecovers`, `EveryCallEnds`,
`EveryRequestEnds`, `EveryChangeServed`: no prover for fairness here), and the
properties of `SurfaceData` (`NeverTooStrict`, `RequestFaithful`,
`StrippedNeverShown`, `ResultsFaithful`, `DetailsComplete`), which say what
operators that recurse over JSON values compute. Every other property of the
passing runs is a theorem. Every theorem holds for all values of the constants
its assumptions admit, the runs' bounds among them.

## What could come next

1. `Catalog` composed with the read cache: a call that keeps the snapshot it
   began with across a swap. (`Relist` has the swaps as `Dispatch` sees them.)
2. `PruneAt` and `Select` as recursive functions along a path, as `PutAt` is, and
   the part of `StrippedNeverShown` that is about one path proved from them.
3. Vault's login, the connection set-up of `http_upstream.rs`, the handshake of
   the 2026-07-28 revision.

## Not modelled

* The search index: its scores are floating point. `Surface` takes any ranking.
* Shadow retrieval: an opt-in measurement that writes log lines.
* Parsing of the configuration, profiles, lint, redirects, logging, the CLI, the
  test server: sequential code over text, or wiring.
* TLS, signatures, hashes, jq, and the rmcp protocol machinery: library code.
* Arguments are left out of the cache key (`canonical_args` is the identity).
* u64 and f64 are unbounded except the breaker's u32 count, whose saturation is
  modelled.
* Two proxy processes appending to one audit log.
* `Dispatch`, `Workflow` and `Surface` each model their part of one call and are
  not composed: their product is beyond what a run of minutes can enumerate.
