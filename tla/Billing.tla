------------------------------- MODULE Billing -------------------------------
(***************************************************************************)
(* From a completed call to a tenant's usage report: authentication        *)
(* (api/deps.py, repositories/api_keys.py), pricing and the recorder        *)
(* (app/accounting), the tables it writes with their foreign keys and row   *)
(* level security (repositories/tables.py, alembic), the event stream, and  *)
(* GET /v1/usage (api/v1/usage.py).                                         *)
(*                                                                         *)
(* Money is counted in units of 1e-10 dollars; a rate is in cents per       *)
(* million tokens, so a token costs 100 units per cent of its rate.         *)
(***************************************************************************)
EXTENDS Naturals, Sequences, SequencesExt, FiniteSets, FiniteSetsExt

CONSTANT None

Rates(in, out) == [in |-> in, out |-> out]

\* Cache writes bill at 1.25 times the input rate, cache reads at 0.10 times.
ComputeCost(u, rates) ==
  100 * rates.in * u.input + 100 * rates.out * u.output
    + 125 * rates.in * u.created + 10 * rates.in * u.read

\* Numeric(12, 8): a stored cost is rounded to units of 1e-8.
Stored(cost) == ((cost + 50) \div 100) * 100

\* ALIAS_SEED, for the aliases a call can name: prices and models.
AliasSeed == [smart |-> [primary |-> "claude", fallback |-> "gpt", rates |-> Rates(300, 1500)],
              fast  |-> [primary |-> "haiku", fallback |-> "gpt", rates |-> Rates(100, 500)]]

RatesFromSeed == [alias \in DOMAIN AliasSeed |-> AliasSeed[alias].rates]

ZeroRates == Rates(0, 0)

ProviderForModel(model) == CASE model \in {"claude", "haiku"} -> "anthropic"
                             [] model = "gemini" -> "google"
                             [] OTHER -> "openai"

\* By the alias of the request, else by the model, else at zero.
RatesFor(call) ==
  CASE call.alias \in DOMAIN RatesFromSeed -> RatesFromSeed[call.alias]
    [] call.alias \notin DOMAIN RatesFromSeed
         /\ call.model \in DOMAIN RatesFromSeed -> RatesFromSeed[call.model]
    [] OTHER -> ZeroRates

ToRecord(id, call) ==
  [id |-> id, key |-> call.key, app |-> "atlas-gateway", alias |-> call.alias,
   model |-> call.model, provider |-> ProviderForModel(call.model),
   usage |-> call.usage, cost |-> ComputeCost(call.usage, RatesFor(call))]

-----------------------------------------------------------------------------
(* The database: the rows of api_keys by key, with their status and         *)
(* expiry; the aliases of model_aliases; call_records as a set of rows with *)
(* the day they were created.                                               *)

\* The foreign keys of call_records.
Admissible(db, r) == /\ r.key \in DOMAIN db.keys
                     /\ r.alias = None \/ r.alias \in db.aliases

\* INSERT ... ON CONFLICT (id) DO NOTHING.
Insert(db, r, day) ==
  IF \E old \in db.records : old.id = r.id THEN db
  ELSE [db EXCEPT !.records = @ \cup {[id |-> r.id, key |-> r.key, app |-> r.app,
                                       model |-> r.model, usage |-> r.usage,
                                       cost |-> Stored(r.cost), day |-> day]}]

\* The event carries the unrounded cost and is keyed by the tenant.
FromRecord(r) == [key |-> r.key, record |-> r.id, cost |-> r.cost]

\* Mutant: the cost is returned although the insert failed.
RecordAnyway(s, call, up) ==
  LET r == ToRecord(Len(s.calls), call)
  IN IF s.healthy /\ Admissible(s.db, r)
     THEN [db |-> Insert(s.db, r, s.day), cost |-> r.cost,
           events |-> IF up THEN <<FromRecord(r)>> ELSE <<>>]
     ELSE [db |-> s.db, cost |-> r.cost, events |-> <<>>]

\* Price, persist, publish; whatever fails in persisting is swallowed and costs
\* None, a failed publish is not noticed.
Record(s, call, up) ==
  LET r == ToRecord(Len(s.calls), call)
  IN IF s.healthy /\ Admissible(s.db, r)
     THEN [db |-> Insert(s.db, r, s.day), cost |-> r.cost,
           events |-> IF up THEN <<FromRecord(r)>> ELSE <<>>]
     ELSE [db |-> s.db, cost |-> None, events |-> <<>>]

KeyIsActive(db, key, day) ==
  /\ key \in DOMAIN db.keys
  /\ db.keys[key].status = "active"
  /\ db.keys[key].expires = None \/ db.keys[key].expires > day

\* The database decides when it is asked to and there is one, else the
\* allowlist of the environment. A database that is asked and does not answer
\* fails the request.
RequireApiKey(s, key) ==
  IF s.settings.auth_db /\ s.settings.pool
  THEN s.healthy /\ KeyIsActive(s.db, key, s.day)
  ELSE key \in s.settings.api_keys

\* What a transaction may read: the rows of the tenant it has named.
Visible(db, guc) == {r \in db.records : guc # None /\ r.key = guc}

Total(field(_), rows) == MapThenSumSet(field, rows)

\* The rows of one report: one per app and model, dearest first.
FetchUsageRows(db, key, since) ==
  LET mine == {r \in Visible(db, key) : r.key = key /\ r.day >= since}
      group(app, model) == {r \in mine : r.app = app /\ r.model = model}
      row(p) == [app |-> p[1], model |-> p[2],
                 input  |-> Total(LAMBDA r : r.usage.input, group(p[1], p[2])),
                 output |-> Total(LAMBDA r : r.usage.output, group(p[1], p[2])),
                 cost   |-> Total(LAMBDA r : r.cost, group(p[1], p[2]))]
  IN CHOOSE report \in SetToSeqs({row(<<r.app, r.model>>) : r \in mine}) :
       \A i, j \in DOMAIN report : i < j => report[i].cost >= report[j].cost

\* The report, when the database answers; 503 where there is none.
GetUsage(settings, db, key, since) ==
  IF settings.pool THEN FetchUsageRows(db, key, since) ELSE "503"

-----------------------------------------------------------------------------
(* A day's work: calls that ChatService.complete makes and records under    *)
(* the name the request asked for, with the days passing, the database and  *)
(* the broker failing, keys being revoked and charges being lost between    *)
(* them.                                                                    *)

Tokens(in, out, created, read) ==
  [input |-> in, output |-> out, created |-> created, read |-> read]

Call(key, alias, model, usage) ==
  [key |-> key, alias |-> alias, model |-> model, usage |-> usage]

Calls == [k1smart  |-> Call("k1", "smart", "claude", Tokens(2, 1, 0, 4)),
          k1backup |-> Call("k1", "smart", "gpt", Tokens(1, 1, 2, 0)),
          k1direct |-> Call("k1", "gpt", "gpt", Tokens(1, 2, 0, 0)),
          k2mock   |-> Call("k2", "mock", "mock", Tokens(2, 2, 0, 0)),
          k2fast   |-> Call("k2", "fast", "haiku", Tokens(3, 1, 0, 0)),
          ghost    |-> Call("ghost", "smart", "claude", Tokens(1, 1, 0, 0))]

Keys == {"k1", "k2", "ghost"}

\* seed_db.py: the aliases, and a row for the mock and for each local model it is
\* told of, so that their calls have an alias to refer to.
SeedAliases == DOMAIN AliasSeed \cup {"mock"}

\* The keys that were seeded, and the environment's, which the ghost is in; with a
\* budget, or in dev or without Redis none.
Opened(authDb, budget) ==
  [settings |-> [auth_db |-> authDb, pool |-> TRUE, api_keys |-> Keys, budget |-> budget],
   db       |-> [keys    |-> [k \in {"k1", "k2"} |-> [status  |-> "active",
                                                      expires |-> IF k = "k2" THEN 2 ELSE None]],
                 aliases |-> SeedAliases, records |-> {}],
   day |-> 1, healthy |-> TRUE, up |-> TRUE, lost |-> FALSE,
   calls |-> <<>>, charged |-> [k \in Keys |-> 0], events |-> <<>>]

\* A call is served if its key is accepted. Where there is a budget, it is
\* charged what the call cost, if anything, unless the charge is lost: it raises
\* and is swallowed, or the request is cancelled before it.
Complete(s, call) ==
  IF ~ RequireApiKey(s, call.key) THEN s
  ELSE LET done == Record(s, call, s.up)
           charge == IF done.cost = None \/ s.lost \/ ~ s.settings.budget THEN 0 ELSE done.cost
       IN [s EXCEPT !.db = done.db,
                    !.events = @ \o done.events,
                    !.charged[call.key] = @ + charge,
                    !.lost = FALSE,
                    !.calls = Append(@, [call |-> call, cost |-> done.cost, day |-> s.day,
                                         healthy |-> s.healthy, lost |-> s.lost])]

\* "lost": the charge of the next call served will be.
Act(s, letter) ==
  CASE letter = "day" -> [s EXCEPT !.day = @ + 1]
    [] letter = "revoke" -> [s EXCEPT !.db.keys["k1"].status = "revoked"]
    [] letter = "database" -> [s EXCEPT !.healthy = ~ @]
    [] letter = "broker" -> [s EXCEPT !.up = ~ @]
    [] letter = "lost" -> [s EXCEPT !.lost = TRUE]
    [] OTHER -> Complete(s, Calls[letter])

Ledger(authDb, budget, letters) == FoldLeft(Act, Opened(authDb, budget), letters)

-----------------------------------------------------------------------------
(* What it promises.                                                       *)

\* What a token of each class costs under an alias that is priced, as a list of
\* its own; under any other name a call is free.
ListPrice == [smart |-> Tokens(30000, 150000, 37500, 3000),
              fast  |-> Tokens(10000, 50000, 12500, 1000)]

Due(call) ==
  IF call.alias \notin DOMAIN ListPrice THEN 0
  ELSE LET price == ListPrice[call.alias]
           u == call.usage
       IN price.input * u.input + price.output * u.output
            + price.created * u.created + price.read * u.read

\* A report adds up what is due for the tenant's priced calls of its days, no
\* others. The budget was charged the same calls, but for those whose charge was
\* lost; without a budget, none.
ReportIsExact(s, key, since) ==
  LET report == GetUsage(s.settings, s.db, key, since)
      rows == {report[i] : i \in DOMAIN report}
      mine == {i \in DOMAIN s.calls : /\ s.calls[i].call.key = key
                                      /\ s.calls[i].cost # None
                                      /\ s.calls[i].day >= since}
      of(model) == {i \in mine : s.calls[i].call.model = model}
      billed == {i \in mine : s.settings.budget /\ ~ s.calls[i].lost}
  IN /\ {r.model : r \in rows} = {s.calls[i].call.model : i \in mine}
     /\ Len(report) = Cardinality({r.model : r \in rows})
     /\ \A r \in rows :
          /\ r.input = Total(LAMBDA i : s.calls[i].call.usage.input, of(r.model))
          /\ r.output = Total(LAMBDA i : s.calls[i].call.usage.output, of(r.model))
          /\ r.cost = Total(LAMBDA i : Due(s.calls[i].call), of(r.model))
     /\ \A i \in DOMAIN report : \A j \in 1 .. i : report[j].cost >= report[i].cost
     /\ since = 1 => s.charged[key] = Total(LAMBDA i : Due(s.calls[i].call), billed)

\* Every event is about a row, at the row's price, and a tenant's events are in
\* the order of its calls.
EventsAreRows(s) ==
  /\ \A i \in DOMAIN s.events :
       \E r \in s.db.records : /\ r.id = s.events[i].record
                               /\ r.key = s.events[i].key /\ r.cost = s.events[i].cost
  /\ \A i, j \in DOMAIN s.events : i < j => s.events[i].record < s.events[j].record

Balanced(s) ==
  /\ EventsAreRows(s)
  /\ \A key \in Keys, since \in 1 .. s.day : ReportIsExact(s, key, since)
  /\ Visible(s.db, None) = {}

\* A call served while the database was up, for a key it knows, has its record.
EveryCallIsRecorded(s) ==
  \A i \in DOMAIN s.calls :
    s.calls[i].healthy /\ s.calls[i].call.key \in DOMAIN s.db.keys
      => s.calls[i].cost # None

=============================================================================
