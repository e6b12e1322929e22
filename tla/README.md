# A TLA+ verification of atlas-gateway

atlas-gateway is a stateless LLM gateway (FastAPI, `src/app`). Several replicas
serve the same API keys, and what they must agree on lives in Redis and
Postgres. The models here are about that: what concurrent requests, replicas,
crashes, expiring keys and disagreeing clocks can do to the gateway's breakers,
budgets, rate limits, routing and prompt registry; about the pipeline that takes
a request through all of them, with a fault at every await; and about the pure
parts that a request passes on its way, over all inputs up to a bound. TLC checks
them on small instances; TLAPS proves the main results for every value of the
constants.

    cd tla
    tlc -workers 2 -config CircuitBreaker.cfg CircuitBreaker
    tlapm CircuitBreakerProofs.tla

Theorems are in the eight modules named `...Proofs`, each beside the module of
that name.

## 1. The system

### Inventory

| Component | State | Operations | Talks to | Hard behaviour | What makes it correct | Here |
|---|---|---|---|---|---|---|
| Circuit breaker (`resilience/circuit_breaker.py`) | Redis hash per key: state, failures, opened_at, TTL | `allow`, `record_success`, `record_failure`, `choose`, `state` | Redis through `run_transaction`; called by the chat service | replicas race on one key; late outcomes; TTL against cooldown; lost probes | no outcome lost; no call in quarantine; quarantine not cut short; recovers alone | `CircuitBreaker` |
| Alias routing and failover (`routing/aliases.py`, `ChatService._call_provider`) | alias rows (read only) | `resolve`, then choose / allow / call / record | registry, breaker, providers | state moves between choose, allow and outcome; two keys for one vendor | healthy vendors stay in service; failover is temporary; nobody is called in quarantine | `Failover` |
| Monthly budget (`limits/budget.py`) | Redis hash per key and month: spend, alerted | `check`, `charge`, `current_spend` | Redis; called by the chat service before and after the call | concurrent charges; a carrier that re-run closures share; TTL; month end | exact spend; bounded overrun; one alert; refusal only at the cap | `Budget`, `BudgetLedger` |
| Rate limiter (`limits/ratelimit.py`) | Redis hash per key: tokens, ts | `check` | Redis; the API layer | concurrent takes; eviction of idle buckets; clocks of several replicas | burst and sustained rate bounded over every window; Retry-After kept | `RateLimiter` |
| Redis transaction seam (`limits/_redis_typing.py`) | none | `run_transaction` | Redis WATCH/MULTI/EXEC | aborts and re-runs | each closure takes effect on the value it read | inside the three modules above |
| Prompt promotion (`registry/promotion.py`) | `prompt_versions.status` | `transition`, `promote`, `retire`, `rollback` | injected store and eval gate | several writes without a transaction; verdicts changing | one production version; retired is terminal; no ungated production | `Promotion` |
| Prompt resolver (`registry/resolver.py`) | none | `resolve` | version repository | reference parsing, parameter schema, a production pointer that moves | a reference has one reading; only declared parameters are rendered | `Validation`, `ChatService` |
| Chat pipeline (`services/chat_service.py`, `api/v1/chat.py`) | per request | `complete`, `stream` | everything above | order of stages, partial failure, lost clients, streams without a charge | answers fit their questions; the provider sees guarded text; bills have rows; requests end | `ChatService`, `ChatContract` |
| Accounting (`accounting/`, `api/v1/usage.py`) | `call_records` rows, events | `record`, `publish`, pricing, usage report | Postgres, Kafka | row written and event lost; swallowed errors; foreign keys | reports, charges and events agree with the priced calls | `Billing`, `ChatService` |
| Caches (`cache/exact.py`, `cache/semantic.py`) | Redis values, a Qdrant collection per tenant | `get`, `set` | Redis, Qdrant | racing creation; stale or foreign answers | an answer is returned for its own question only | `ChatService`, `SemanticCache` |
| Guardrails (`guardrails/`) | none | chain of pre and post guards, schema repair, citations | provider, for repair; citation server | order, fail-fast, bounded repair | what is forwarded is clean; nothing rejected is returned; repair ends | `Guards`, `Validation`, `Citation` |
| Text detectors (`guardrails/pii*.py`, `injection*.py`, `tool_sanitize.py`) | none | match, redact, sanitize | - | passes over what earlier passes left | nothing matched is left over | `Guards` (on words) |
| Provider adapters (`providers/`) and retry policy | none | `chat`, `chat_stream` | vendor SDKs | roles, spread token counts, streams that break off | the conversation is delivered; a stream says what the answer says | `Adapters`, `Providers` |
| Provider registry (`providers/registry.py`) | model index | `resolve` | adapters | missing SDKs | a model is served by its own vendor | constant `Host` of `Failover` |
| Composition root (`api/deps.py`) | lazily built pool, recorder, lock | `get_*` | asyncpg, Kafka, Redis | two builders of one pool, cancellation between two awaits | bounded pools; nobody waits for ever | `Pools` |
| Authentication (`api/deps.py`, `repositories/api_keys.py`) | `api_keys` rows | `require_api_key` | Postgres | expiry, revocation, two sources of keys | - | in `Billing` |
| Schema and migrations (`repositories/tables.py`, `alembic/`) | the catalog | upgrade, downgrade | Postgres | order of drops, leftovers | head is the declared schema, base is empty | `Migrations` |
| Log redaction (`observability/`) | none | filter | - | order of patterns | no PII in a record | in `Guards` |
| Embeddings and models routes, telemetry, CI and load scripts | none | - | - | - | - | not modelled |

`PROJECT.json` lists every component with its files, and under `hazards` the
behaviours of this code that a test would hardly reach, at their lines.

### Interactions

A chat request authenticates, then passes the rate limiter (one `check`), the
budget (`check(0)`), the pre-guardrails, the prompt registry, the exact cache,
routing (`resolve`, `choose`, `allow`, the provider call, one `record_*`),
accounting (row, event) and `charge(cost)`, the post-guardrails, and the cache
again. A stream takes the same steps up to the prompt, and then only relays the
provider's deltas. `ChatService` models this order; what each collaborator does
inside its step is the subject of the other modules. All coordination between replicas goes through
single-key optimistic transactions: `run_transaction` WATCHes the key, runs a
closure that reads it and queues writes, and EXECs; if the key was touched in
between, EXEC fails and the closure runs again. The models make the WATCH/read
and the EXEC separate steps, with a `dirty` mark per watching client as Redis
keeps it, so everything other replicas do can fall between them. Promotion has
no transactions: there, each read and each write is a step.

## 2. The modules

### BreakerRules, CircuitBreaker, AtomicBreaker

`BreakerRules` holds the decisions as operators on one stored hash: `Effective`
(the lazy half-open of `_read`), `ProbeDue`/`AfterProbe` (`allow`),
`AfterFailure` (`record_failure`). Absolute times are replaced by ages: the code
only compares `now - opened_at` with the cooldown, so the age stops growing at
`Cooldown`; in the same way `failures` stops at `Threshold`, past which the code
makes no difference.

`CircuitBreaker` is one key and every caller on every replica. A caller reads
(`AllowRead`), then commits one of `Reject`, `Admit`, `Probe`, or `Retry`s;
`Answer` is the provider's answer and the read of `record_*`;
`RecordSuccess`/`RecordFailure` are their EXECs. `lag` is the time since the
closure read the clock, because a failure is stamped with that reading and not
with the time of EXEC. `Abandon` is a cancelled task, a dead replica, or a Redis
error: `_call_provider` catches `Exception`, and `CancelledError` is not one.
`Tick` and `Expire` are time and the TTL, `max(4 * cooldown, 60)`.

`AtomicBreaker` is what the callers may believe: each operation happens at one
instant. `ImplementsAtomicBreaker` maps a call under way to one whose `allow` has
committed and whose outcome has not (`Serving`).

### Failover

`ChatService._call_provider` over several aliases, each key's breaker taken as
the atomic one above. `ChoosePrimary` and `ChooseFallback` are `choose` (two
reads, the second only if the first finds the primary cooling), `Unknown` a
model whose adapter is missing, `Reject`/`Allow` the `allow`, `Succeed`/`Fail`
the outcome, recorded under the key `choose` returned. `ModelOf` follows the code's comparison of
the chosen key with the alias's provider. `Host` is the registry of
`default_providers`, `Missing` a model no installed adapter serves.

Assumptions: the service is wired with a router and a breaker (its constructor
takes both; `deps.get_chat_service` does not pass them today); replicas' clocks
agree to within a second; `choose`'s own read transaction is taken as one read per
key.

### Budget, BudgetLedger

`Budget` is one API key and one month's Redis key, with the steps of `_accrue`
for `check(0)` (`Check`, then `Deny` or `Admit`) and for `charge` (`Charge`, then
`Charged`). `exceeded` is the flag of the closure's result carrier, which an
aborted attempt sets and no later attempt resets. `Abandon` covers a failed
call, a call the recorder could not price, and a charge whose error the service
swallows. `NextDay` and `Expire` are the calendar and the key's TTL; requests
that began in the month may charge after its end. The alert is on (`alert_at_80pct`, the
default). Amounts are whole numbers in
place of `Decimal`.

`BudgetLedger` is the promise: a total, admission below the cap, one alert at
80%. After the month nothing is promised but that the total is a total.
`ImplementsLedger` maps the ledger's spend to the charges committed.

### RateLimiter

One API key's bucket. `Unit` parts make a token and a tick refills `Rate` parts,
which stands for the code's floats exactly; `Second` ticks make a second, so
that whole-second TTLs and Retry-After values round as `ceil` does. `at` is when
the closure ran, `Offset` how far each caller's clock is ahead of Redis' own.
`from` and `count` are an observer that may start over at any time
(`Observe`): `RateBounded` is thereby a statement about every window. `lead` and
`gained` are histories too: whose clock wrote the stamp, and how far stamps have
been put forward since the observer's first admission by passing to a replica
whose clock is ahead. The refill subtracts such stamps, so what they gain is
refilled on top of the time that passes, and `RateBounded` counts it.

### Promotion

`PromotionService` instances over one store. A call starts as `Transition`,
`Promote` or `Rollback` and goes through `Enter` (read and validate the
status), `Gate` (the eval verdict), `Find` (the current production version),
`Demote` and `Set`; `Fail` is a raising store or a dead replica at any point.
`Evaluate` lets the verdict of any version change at any time. Calls rejected
before their first write change nothing and are not shown.

### ChatService, ChatContract

`ChatService` walks requests of several tenants through `complete` and `stream`.
`stage` is the await a request is at; `Needs` says which collaborators a stage
takes, and `Skip` passes a stage whose collaborator is `None`. One action per
stage does what the code does there (`Limit`, `Budget`, `Prepare`, `Hit`/`Miss`,
`Call`, `Insert`, `Publish`, `Charge`, `Guard`, `Store`, and `Open`, `Pull`,
`EndStream` for streams); wherever the awaited call may raise there is a disjunct
or an action for it, which ends the request (`Break`, a 500) or is swallowed
(`Insert`, `Publish`, `Charge`). `Prepare` is one step, because the guards and the
prompt resolver of the deployment do not await. `Lose` is a client that hangs up
or a replica that dies. `Promote` and `Expire` are other components' steps:
promotion moves the pointer, Redis drops an entry. A text is a model value and a
guard a function from texts to what it leaves of them (`TextGuard`); the proofs
put the functions of `Guards` in their place (`Guarding`). `wired` is the deployment:
`deps.py` leaves any collaborator out that is not configured.

The messages that `Prepare` puts together are the guarded text and the prompt
version. The parameters of the prompt are rendered into the system message after the
guards have run (`chat_service.py:324-328`) and are not guarded; `ProviderSeesGuarded`
is about the text of the client's messages. `deps.py` wires no prompt registry, so
no deployment of `deps.py` renders any.

`ChatContract` is what a client may believe of a request: it is asked once, its
answer is one that a provider gave and the output guards let through, it is billed
once at most, for a call that was made, and an open stream is not refused. A question
is the tenant, the model, the messages, and the sampling parameters (`max_tokens`,
`temperature`) that the provider is called with. A request that made a call is
answered with that call's answer to its own question. A cache hit `Fits`: same tenant,
model and messages, but the parameters may be another request's, because the code
sends them to the provider (`chat_service.py:364-369`, `376-381`) and leaves them out
of the key (`exact.py:49-63`). The contract says so, and promises nothing about them; see
section 4. `asked` in `ImplementsContract` is what the provider would be sent for
the request (`QuestionOf`), which shares neither the version nor the parameters with
`BuildKey`; a cache entry keeps the key and the answer only, as Redis does. That the
key tells apart what it must is thereby part of the refinement.

### SemanticCache

`get` and `set` of several tenants over one Qdrant, await by await: `Start`
embeds, `List` and `Create`/`CreateFails` are `_ensure_collection`, `Search` and
`Upsert` the rest. `Score` is the similarity of two texts; `Search` does not look
at the model, as `get` does not.

### Pools

The `_accounting` map of `deps.py` with its FIFO `asyncio.Lock`. `Plan` is the
order in which FastAPI resolves a route's dependencies; `Immediate` and `Enter`
are the look before the lock, `Found` and `NotFound` the one under it,
`CreatePool`, `CreateFails` and `Start` the awaits inside, `Cancel` a cancelled
request at any of them.

### Algorithms and the pure modules

`Algorithms` has one behaviour: an input grows letter by letter, in every
possible way, and the functions of its subject are judged in every state against
reference definitions that do not share their shape. `Inputs` has the growing
input; what is judged is in `Outgoing` (what the guardrails let out), `Books` (what
is recorded of the calls, and the schema it is recorded in), `Providers` (the
adapters and the retries), `Algorithms` (citations) and `Validators` (schemas),
which the run instantiates. They are apart so that the first three can be proved
about. The functions are in modules without state:

- `Adapters`: what each of the seven adapters makes of a conversation, of a reply
  and of a stream's chunks (`Prompt`, `Chat`, `Stream`), the SSE frames of
  `_stream_frames`, and the retry policy. The vendors' streams (`Script`) are
  external.
- `Guards`: every text guardrail, the chain with its metrics, log redaction and
  tool sanitizing. A word stands for a class of strings: those a pattern matches.
  In a tool's output a word also knows whether a hidden character splits it, which
  keeps the patterns from matching until it is stripped, and how many brackets are
  around it, which keep none from matching: `[ignore]` is bracketed again, as
  `\b(ignore|...)\b` still finds it (`tool_sanitize.py:68`, `117-118`). A role word
  includes the blanks before it, and one imperative stands for the three patterns. A
  log record's nested lists and tuples are given by their leaves, by path.
- `Citation`: sentences, claims, markers and the verifier's answers.
- `Validation`: the JSON-schema subset of `schema_repair.py`, its repair loop, and
  the resolver's references and parameters. Recursive, so TLC only.
- `Billing`: pricing, the recorder, the foreign keys of `call_records`, row level
  security, authentication, the events, the charge and the usage report, over
  sequences of calls, days, revocations and failures. A call may lose its charge (it
  raises and is swallowed, `chat_service.py:495-499`, or the request is cancelled
  between row and charge), a deployment may have no budget (`deps.py:113-129`), and
  an outage fails the requests of a deployment that authenticates in the database.
  What is recorded is compared with `Due`, which adds up a call's tokens from a
  price list of its own (`ListPrice`), not with what `ComputeCost` returned.
- `Migrations`: the four revisions as lists of DDL, on a catalog that refuses what
  PostgreSQL refuses.

## 3. The runs

| Run | Instance | Checks | Shows |
|---|---|---|---|
| CircuitBreaker | 2 callers, threshold 2, cooldown 2, TTL 8, fair | TypeOK, CountsEveryFailure, NoCallWhileCooling, QuarantineEnds, ImplementsAtomicBreaker, Recovers | the transactions are atomic, and no manual reset is needed |
| Failover | 2 requests, 3 seed aliases, openai healthy, fair | TypeOK, HealthyStaysInService, EachKeyIsABreaker, ReturnsToPrimary | outcomes land on the right breaker; a failover is temporary |
| FailoverUnhealthy | 2 requests, fair | ServesFromHealthy: violated | an alias that falls back to itself calls a quarantined vendor |
| Budget | 3 requests, cap 5, costs 1 and 4, 2-day month, 3-day TTL | TypeOK, SpendIsExact, RefusesOnlyAtCap, ImplementsLedger, OverrunBounded, AlertsOnce | charges are exact, the budget is the ledger, the cap is soft by a known amount |
| RateLimiter | 2 requests, 2 tokens, clocks a tick apart, 5 ticks, gain 1 | TypeOK, RateBounded, RetryAfterSuffices | burst and rate hold over every window up to what the stamps gain; Retry-After is kept |
| Promotion | 1 service, 2 prompts, 3 versions | TypeOK, AtMostOneProduction, PassedItsEval, RetiredIsTerminal, DemotedForSuccessor | the lifecycle holds, failures included |
| PromotionRace | 2 services, fair | AtMostOneProduction: violated | two production versions |
| ChatService | 2 requests out of 7 kinds, 3 deployments, 2 versions, cap 1, fair | TypeOK, ProviderSeesGuarded, AccountingNeverFails, BilledIsRecorded, ImplementsContract, EveryRequestEnds | the pipeline keeps its contract whatever raises, and no request hangs |
| Pools | 3 requests, accounting and Kafka on, 5 pools, fair | PoolsBounded, EveryoneIsServed | two pools and one per torn build; the lock is always handed on |
| SemanticCache | 2 calls, 2 tenants, 3 texts | ServesOwnUncited, RaceIsPaidOnce | no answer crosses tenants; a new collection costs at most one error with two callers |
| Algorithms | every input of up to 3 to 9 letters, by subject | AdaptersAgree, OutgoingIsClean, AnswersAreGrounded, ValidatorsAreExact, BooksBalance, MigrationsReachTables | the pure parts keep their reference definitions |
| Unrecorded | the ledgers of Algorithms | EveryCallIsRecorded: violated | calls by model name are not recorded |

**Why the bounds are enough.** Threshold 2 has a failure that does not trip and
one that does; cooldown 2 and TTL 8 (= 4 x cooldown, the code's own ratio) let a
late failure restamp a cooling breaker and the TTL pass it. Two callers suffice
for one transaction to commit between another's read and EXEC, and for a
straggler beside a probe; the theorems cover any number. The seed aliases are
one that fails over to another vendor, one whose fallback is its own primary
model, and one whose model no chat adapter serves. Cap 5 with costs 1 and 4 puts 80% at exactly 4, lets one charge
reach it, cross it, or land on the cap, and lets calls overrun together. The
month and the TTL are shrunk to 2 and 3 days, keeping the code's order (35 days,
`budget.py:62`, outlive any month). In the rate limiter a token is 3 parts, refilled by 2 a
tick, so that levels are fractional and the rounding of Retry-After matters;
`Horizon` 5 covers a drained bucket, its expiry (TTL 4 ticks) and a second
burst. One request's clock is a tick (half a second) ahead; `MaxGain` 1 lets a
stamp be put forward once in an observation, which is enough to break the bound
if `gained` is left out of it; the theorem has no such limit. Three versions give a flip of one prompt beside another prompt's.

In ChatService two requests are enough for one to write the cache, the budget or
the production pointer between any two steps of the other; the kinds of request
are two tenants with the same question, a text the guards rewrite, complete and
streamed, one they refuse, a model nobody serves, and a question put again with a
smaller `max_tokens`; the deployments are nothing
wired, everything, and everything but Kafka and the prompts; cap 1 makes the
second call of a tenant the refused one. Pools needs three requests: one builds,
one waits, one arrives behind it; `MaxPools` 5 exceeds what three requests can open
without three torn builds. In SemanticCache two texts are paraphrases of each
other and the third is not; `MaxFailures` is above what the property allows. The
lengths in `LongestInputs` let each letter of an alphabet meet each other one in
both orders with something between them; nine migration steps go up, down and up
again through four revisions.

`Horizon`, `MaxGain`, `MaxPools`, `MaxFailures` and `Longest` are the only bounds put into a
guard; the other models are finite as they are. Symmetry is used where callers are interchangeable and no liveness is
checked.

Every property of a passing run has a mutant: a plausible bug in a mapped
definition ("Mutant:" operators in the modules) under which the same run finds
the property violated. Nothing else uses those operators.

**Fairness.** `WF(Tick \/ Expire)`: time passes. `WF(Serve(c))` in Failover: a
request under way is carried on, since provider calls end or time out; it does
not say that they succeed, nor that a request begins. `WF(Step(s) \/ Fail(s))`
in Promotion: a call goes on or fails. `Recovers` needs only the first: the
breaker closes although every probe may be abandoned, because the key expires.
`Recovers` and `ReturnsToPrimary` assume that failures stop being recorded, which is
what "recovery" is about. `WF(Step(r))` in ChatService and `WF(Step(c))` in Pools:
the event loop runs a coroutine that can run, and every await ends, by a result
or by the client library's timeout; it does not say which. `Lose`, `Cancel`,
`Receive` and `Arrive` are not fair. The safety counterexamples are under the fair
specifications and do not depend on anything stopping.

## 4. Findings

Shown by a run:

- `_call_provider` gives `choose` the fallback *model* as the second breaker
  key. An alias whose fallback is its primary model is thus served by the
  vendor whose breaker is cooling (`chat_service.py:352`, run FailoverUnhealthy).
- Promotion is not atomic: two replicas leave two production versions
  (`promotion.py:274`, against lines 166-168, run PromotionRace). For the same
  reason a version retired while another replica promotes it comes back, and a
  flip passes through, and after a store failure stays in, a state without a
  production version.
- A completed call that named a model and not an alias has no `call_records` row:
  `alias` is the request's model and has a foreign key to `model_aliases`, which
  the migration fills with the seed aliases only; the refused insert is swallowed,
  so there is no event and no charge either (`chat_service.py:418`, run
  Unrecorded). `seed_db.py` adds rows for the mock and for the local models it is
  told of, and for no other. Since `deps.get_chat_service` wires no alias router,
  every served call of the deployed composition names a model.

Met while modelling; the property that says the opposite is defined in its module
and marked as one the code does not keep:

- A half-open breaker admits every caller that reads `half_open`; only the write
  of that state happens once (`circuit_breaker.py:290`, against lines 18 and
  295): `AtMostOneProbe`.
- A success of a call admitted before the trip closes the breaker in
  mid-cooldown (`circuit_breaker.py:325`): `CoolingStaysOpen`.
- `CircuitOpenError` is propagated, never turned into a failover
  (`chat_service.py:362`, against `circuit_breaker.py:76`):
  `RefusedOnlyIfNoneServes`.
- The limiter's refill mixes clocks of different replicas (`ratelimit.py:162`): a
  small constant disagreement lets a key exceed its rate without bound, by the
  difference each time its bucket passes to a replica that is ahead. `RateBounded`
  counts that (`gained`), and is proved for any clocks; the documented "burst and
  sustained rate" hold where the clocks agree (`SyncedRateCorrect`).
- A cache hit may be an answer given for other sampling parameters: one that another
  `max_tokens` cut short, or given at another temperature, because
  `build_key` hashes neither (`exact.py:49-63`, against
  `chat_service.py:364-369` and `376-381`, which send both). `Reply` of the contract
  states the exclusion: with `k.question = asked[r]` in both of its cases the run
  ChatService fails.
- A charge that raises is swallowed, so a budget's spend may be less than the usage
  report (`chat_service.py:495-499`): `BooksBalance` says by exactly how much, namely
  the calls whose charge was lost.
- `complete` builds its response before the post-guardrails run: what a post-guard
  rewrites (schema repair persists its repaired output in the context) does not
  reach the client. The deployed chain has no such guard: `ClientSeesRepaired`.

Differences between code and docs that no property here is about:

- Streams are admitted against the budget and never recorded or charged.
- A Redis error in `cache.set` turns a paid, recorded and charged answer into a 500.
- The deployed stream adapters do not end a stream as their `chat` ends an answer:
  `openai_provider` takes the counts from the finish chunk, where the API does not
  put them, and `google_provider` emits a terminal delta for every chunk with
  counts, with finish reasons spelled as the SDK's enumeration. `AdaptersAgree`
  excepts these two from `EndsOnce` and `EndsLikeChat`. `anthropic_provider.chat`
  returns the first block only where its stream returns all of them, and passes
  on roles that the API does not know (excepted from `Understood`);
  `google_provider` sends system messages as the user's.
- Sanitizing a tool's output twice is not the same as once: what was bracketed is
  bracketed again.
- An `enum` of 1 accepts `true` (`schema_repair.py:110`), since Python's `==` does.
- `_record`'s docstring has the row carry the prompt version; `_to_record` does not
  set it. The recorder's says that a caller's stable id makes it idempotent;
  `_to_record` makes a new one per call.
- The semantic cache's `get` takes a model and does not use it: an answer that one
  model gave is returned to a request for another. `_collection` gives `a-b` and
  `a_b` one collection; `ServesOwnUncited` is about tenants whose names stay apart.
- A failed-over call is priced at the primary alias's rates, and a model without a
  seeded rate at zero.
- `get_db_pool` promises one pool; the recorder has a second one (`PoolsBounded`).
  If Kafka is down when the recorder is built, the process publishes no events
  until it restarts.
- A key that only the environment knows is served and fails the foreign key of
  `call_records`, as in the third finding.

## 5. The proofs

All are for arbitrary constants under the named assumptions of the modules:
`BreakerAssumption` (positive threshold and cooldown, TTL at least 4 cooldowns),
`BudgetAssumption` (finitely many callers, a positive cap, costs with a maximum,
a TTL longer than the month), `BucketAssumption` (positive capacity, rate and
units; any clock offsets), `RouteAssumption`, `PoolsAssumption`,
`SemanticAssumption` (finitely many callers, a symmetric similarity), and in
ChatService `ChatAssumption`, `ChainAssumption` (a pre-guard leaves a text or
rejects it) and `NoneAssumption`. Of the pure parts `ReasonAssumption` (Outgoing),
`LedgerAssumption` (Books) and `ReplyAssumption` (Providers) only say that `None` is
no text, no number, no name, no counts and no reason to stop. TLC evaluates them in the runs.

| Theorem | States |
|---|---|
| CircuitBreakerProofs: TypeCorrect, CountingCorrect, AdmissionCorrect, QuarantineCorrect, Implementation | every safety property of the run CircuitBreaker |
| BudgetProofs: TypeCorrect, SpendCorrect, RefusalCorrect, Implementation, OverrunCorrect, AlertCorrect | every property of the run Budget |
| RateLimiterProofs: TypeCorrect, RateCorrect, RetryCorrect | every property of the run RateLimiter, for any clocks |
| RateLimiterProofs: SyncedRateCorrect | the bound without `gained`, assuming `Synced` (the clocks agree) |
| PromotionProofs: TypeCorrect, GateCorrect | TypeOK and PassedItsEval, for any services |
| PromotionProofs: PointerCorrect, RetirementCorrect, DemotionCorrect | the rest of the run Promotion, assuming `Sole` (one service) |
| FailoverProofs: TypeCorrect, IsolationCorrect, ProtocolCorrect | every safety property of the run Failover |
| FailoverProofs: AdaptersCorrect | AdaptersAgree, for conversations, replies, speeches and attempts of any length |
| PoolsProofs: BoundCorrect, SettlingCorrect | PoolsBounded, and that a recorder is not replaced |
| SemanticCacheProofs: ServesCorrect, RaceCorrect | every property of the run SemanticCache, for any callers |
| ChatServiceProofs: TypeCorrect, BooksCorrect, AccountingCorrect | TypeOK, BilledIsRecorded, AccountingNeverFails |
| ChatServiceProofs: Implementation | ImplementsContract, with sampling parameters in the question and not in the key, assuming `OnlyRejects` (no post-guard rewrites an answer) |
| ChatServiceProofs: EachGuardHolds, GuardedCorrect | what was sent is left alone by each guard that holds (`GuardHolds`); ProviderSeesGuarded where all do |
| ChatServiceProofs: DeployedCorrect | with the deployed chain of `Guards`, nothing is sent with a word that a fast PII pattern matches or an imperative |
| ChatServiceProofs: GuardsClean | the guards of `Guards` keep each promise of `OutgoingIsClean` for conversations and texts over any words, of any length |
| ChatServiceProofs: OutgoingCorrect | OutgoingIsClean, for inputs of any length |
| ChatServiceProofs: LedgerCorrect | BooksBalance, for any number of calls, lost charges, days, revocations and failures, with and without a budget |
| ChatServiceProofs: MigrationsCorrect | MigrationsReachTables, for any walk over the revisions |

**Inductive invariants.** The common core of the three Redis proofs is that a
transaction that is not `dirty` has read the key as it still is. None of the
properties is inductive without it: a committing EXEC writes what it decided on
its snapshot. To it each proof adds what time does. The breaker needs that the
snapshot of a clean transaction differs from the key by age only, by at most
`lag`, and that the key cannot expire while it cools (the idle time is at most
the age until the cooldown is over). The budget needs that the key outlives the
month (`KeyOutlivesMonth`), that the alert flag is what the spend says, and that
a set carrier flag stays true because spend only grows within the month
(`CarrierIsRight`): this is why the missing reset is harmless. The rate
limiter needs a potential: the tokens a transaction may find now plus the tokens
already taken never exceed a full bucket and the refill since the observer began.
It is reckoned on the clock that wrote the bucket (`Written`: the stamp is at most
the time plus `lead`, and a stamp in the future of a slower clock adds nothing),
so that only a step to a faster clock can raise it, by what `gained` rises. The
case of an absent key is apart: the TTL suffices to fill it, on any clock.

Failover's invariant is that a request's key is one of its alias's two and
stands for the vendor it calls: only then does a success clear, and a failure
count against, the vendor that answered. That of Pools is that who creates a
pool or starts a recorder holds the lock and what it looked for is still
missing; the bound follows by counting a pool of `get_db_pool`, one of the
recorder, and one per torn build. That of ChatService says what a request has by
its stage (`Progress`: a question from the pre-checks on, an answer known for it
from the call on, no status before the end), what accounting has written for it
(`Booked`), and that the cache holds known answers only: for each entry some known
question has its key's tenant, model and messages (`CacheIsKnown`), with whatever
parameters. `BuildKey` enters in `StoreKeeps` and in `HitReplies`: an answer may be
stored and served because the key tells apart all that a question does but those. What
a call answered is followed with the parameters (`GivenTo`), so that a reply from a
call of the request's own is to the very question asked (`StoreReplies`).

That of SemanticCache has a part for each property. A stored point is filed under
its tenant's name, uncited (`PointsAreFiled`), and a reply is such a point, close to
the call it answers (`RepliesAreClose`); a point may be overwritten later and
its reply stays as it was. `RaceIsClosed` counts: the creations of a collection
refused so far and those that may still be refused, by the callers that listed it
as missing and have not created yet (`Racing`), are fewer than the callers once it
exists. The race is closed because who lists an existing collection never tries.

**The guards.** What is sent is the chain's result for some text (`GInv`), and the
rest is about the chain. `ChainKeeps` says that its result is a fixed point of
each guard that holds: the guard would leave its own output alone, and no later
guard undoes that. It is stated guard by guard because the deployed size cap does
not hold: a placeholder may be longer than what it replaces, so a redacted text
may be over the cap that the text was under. `InjectionIs` and `PiiGuardIs` then
say what the deployed functions do to a conversation of any length. The PII guard
is a fold of a fold, over messages and over patterns; that it leaves nothing needs
every pattern to leave placeholders alone and to bring back no earlier pattern's
match, which `DeployedHold` gets from the letters of `Guards`. `GuardsClean` carries
this to everything the guards let out (log records, what is returned, tool output
in its fence, the counts that reject). A tool's output (`Inert`) hides nothing and
forges no turn, an imperative in it stands in brackets, the words that were not hidden
are all there in their order, and a second pass would add brackets only; and `OutgoingCorrect` to every input.

**The ledger.** `OnBooks` ties the books together: the rows are the calls that could be
recorded, each at what is `Due` for it, what a key was charged is the sum of what is due
for its calls that were billed (a budget is wired and the charge was not lost), and
every event is a row's, in the order of the calls. `ActKeeps` shows it of every act (a
call with each of its failures, a charge to be lost, a day, a revocation, an outage),
`LedgerOnBooks` of every ledger, with and without a budget and under both ways to
authenticate. That the usage report agrees needs more than the invariant: it adds the
same rows by groups, so sums over sets must not depend on the order or the grouping
(`SumIsAdded`, `SumOfClasses`). Lines of equal cost may come in any order
(`Dearest`), as `ORDER BY total_cost_usd DESC` (`usage.py:84`) leaves it open.

**The revisions.** Between two statements the catalog is determined by how many of
the types, tables and indexes exist, in the order in which they are made (`SoFar`),
and later by what is secured. Each statement `Takes` one such catalog to the next
and is accepted there; `RunIs` chains the statements of a revision, for each of the
eight directions (`UpB113`, ..., `DownE4b8`), and `WalkStops` the revisions. A drop
in another order, or an index left behind, breaks a link of a chain.

**The adapters.** An adapter's stream is a fold over the vendor's events, so what it
has told is followed event by event: if the first events said the first words of the
answer, so do the deltas made of them (`Tells` in `YieldsTell`), whether the adapter
yields as it reads (`OpenAIYields`, `GoogleYields`) or keeps what it reads
(`KeptIs`). That is what makes a stream that breaks off anywhere well formed. For
the end, the kept reason and counts are followed through the events after the
words, which differ by vendor (`EndsAsAnthropic`, `EndsAsGoogle`), and compared with
those of the whole reply. A conversation is split into what the system says and the
rest, and the two halves are all of it, in order (`PartsAre`). These proofs are in
`FailoverProofs`, beside those of the calls that the adapters serve; that module
states the fold lemmas it shares with `ChatServiceProofs` for itself, since the
variables of the two components bear the same names.

**Refinement.** In `CircuitBreakerProofs!Implementation` and
`BudgetProofs!Implementation` every step is the abstract operation at its EXEC,
and a stutter at WATCH, read and retry. In `ChatServiceProofs!Implementation`
preparation is `Ask`, the provider's answer `Call`, the charge `Bill`, a hit and a
store `Reply`, and the stages between them stutter; `VInv` adds that what is
stored passed the post-chain, which is where `OnlyRejects` is needed: without it
the refinement is false (`ClientSeesRepaired`). In `BudgetProofs` the ledger's theorems
are then carried over: the ledger's inductive invariant is instantiated under
the same mapping, so the Redis budget inherits the overrun bound and the single
alert.

**Recursion and induction.** A chain is a recursive function on the naturals and a
redaction a fold of the community modules. Induction over numbers is done here in
its set form, from well-foundedness (`SetInduction`: a set that has 0 and the
successor of each of its numbers has every number), and a fold of a given step
becomes a recursive function whose values are pinned one by one (`IsFold`,
`FoldExists`). What remains out of reach are the library's induction theorems,
which take an operator, and every module with a RECURSIVE operator.

**Only model-checked.** The liveness properties (`Recovers`,
`ReturnsToPrimary`, `EveryRequestEnds`, `EveryoneIsServed`): liveness under
fairness is out of the prover's reach. `ValidatorsAreExact`: schemas nest in
schemas, and `Validation` is RECURSIVE. `AnswersAreGrounded`: the citation guard
splits an answer into sentences with `SelectSeq` and nested folds, of which nothing
has been proved yet. Violated properties need only their
counterexamples.

## 6. What is abstracted or left out

- Floats and `Decimal`s are exact integers; overflow does not arise in Python.
- An EXEC whose reply is lost (the client library may report it as a failed
  WATCH, and the closure would run again) is behaviour of the library and is
  not modelled: an EXEC's outcome is known to its caller.
- In the breaker and in Failover replicas' clocks agree; only RateLimiter varies them.
- `state()` and `current_spend()` only read. `choose` runs `_load` in a
  transaction whose closure extends one list on each re-run; its choice is
  advisory, since `allow` decides again, and is modelled by single reads.
- Per-key alias overrides are a parameter nothing passes yet.
- In ChatService the rate limiter, the budget's transaction and the route are
  single steps, as their own modules justify; a chain of guards and a prompt
  lookup take no await in the deployment and are one step.
- Texts are words: what the regular expressions match inside a word and Unicode
  folding are left out, as is the classifier's model.
- The Numeric(12, 8) column rounds; the ledgers' prices are such that the books
  can be compared exactly. The database role's privileges under row level
  security, and transactions of the client library, are external.
- Not modelled: the embeddings and models routes (one stateless call each),
  request validation, spans and metrics, and the scripts for CI, load tests and
  the OpenAPI export, which are not part of the running gateway.

## 7. The plan

Done: the shared-state core (CircuitBreaker, Failover, Budget, RateLimiter,
Promotion), the pipeline over it (ChatService), the caches, the pools and the
pure parts; every safety property of the state machines is a theorem, and so is what
the guards, the ledger, the migrations and the adapters promise. What is left:

1. **Citations**: `AnswersAreGrounded` over answers of any length, with the
   selections written as folds, as those of the adapters are.
2. **Choose**: `choose` with its own transaction and the list that survives
   re-runs, refining Failover's single reads.
3. `ImplementsContract` with guards that rewrite answers: the contract the code
   keeps there (the client gets the unrepaired answer) stated on its own.
