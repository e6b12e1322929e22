----------------------------- MODULE Migrations -----------------------------
(***************************************************************************)
(* The Alembic revisions (alembic/versions) as lists of DDL, executed on a  *)
(* catalog that refuses what PostgreSQL refuses, and the schema that        *)
(* app/repositories/tables.py declares.  Columns of plain types stand for   *)
(* their table; the columns that refer to another object are kept, and so   *)
(* are the ones a later revision adds.                                      *)
(***************************************************************************)
EXTENDS Naturals, Sequences, SequencesExt, FiniteSets

Table(name, refs, types, indexes) ==
  [name |-> name, refs |-> refs, types |-> types, indexes |-> indexes]

\* What tables.py declares: foreign keys, enumeration types, indexes.
ModelAliases == Table("model_aliases", {}, {"provider_enum"}, {})
ApiKeys == Table("api_keys", {}, {"key_status_enum"},
                 {"idx_api_keys_hashed_secret", "idx_api_keys_app"})
Budgets == Table("budgets", {"api_keys"}, {}, {"idx_budgets_api_key_id"})
CallRecords == Table("call_records", {"api_keys", "model_aliases"}, {"provider_enum"},
                     {"idx_call_records_api_key_id", "idx_call_records_created_at",
                      "idx_call_records_alias"})
Prompts == Table("prompts", {}, {}, {})
PromptVersions == Table("prompt_versions", {"prompts", "model_aliases"},
                        {"prompt_status_enum"},
                        {"idx_prompt_versions_prompt_id", "idx_prompt_versions_status"})

Metadata == {ModelAliases, ApiKeys, Budgets, CallRecords, Prompts, PromptVersions}

-----------------------------------------------------------------------------
(* DDL on a catalog.                                                       *)

Op(do, on, with) == [do |-> do, on |-> on, with |-> with]

CreateType(type) == Op("create_type", type, {})
CreateTable(name, refs, types) == Op("create_table", name, [refs |-> refs, types |-> types])
CreateIndex(index, table) == Op("create_index", index, table)
AddColumn(table, column) == Op("add_column", table, column)
DropColumn(table, column) == Op("drop_column", table, column)
DropIndex(index) == Op("drop_index", index, {})
DropTable(name) == Op("drop_table", name, {})
DropType(type) == Op("drop_type", type, {})

Empty == [types |-> {}, tables |-> {}, refs |-> {}, uses |-> {}, indexes |-> {},
          added |-> {}, secured |-> {}, policies |-> {}, seeded |-> FALSE, failed |-> FALSE]

\* Whether the server accepts a statement.
Accepts(db, op) ==
  CASE op.do = "create_table" -> /\ op.on \notin db.tables
                                 /\ op.with.refs \subseteq db.tables
                                 /\ op.with.types \subseteq db.types
    [] op.do = "create_index" -> op.with \in db.tables /\ op.on \notin {i[1] : i \in db.indexes}
    [] op.do = "drop_index" -> op.on \in {i[1] : i \in db.indexes}
    [] op.do = "add_column" -> op.on \in db.tables /\ <<op.on, op.with>> \notin db.added
    [] op.do = "drop_column" -> <<op.on, op.with>> \in db.added
    [] op.do = "drop_table" -> op.on \in db.tables /\ ~ \E r \in db.refs : r[2] = op.on
    [] op.do = "drop_type" -> ~ \E u \in db.uses : u[2] = op.on
    [] op.do = "create_policy" -> op.with \in db.tables /\ op.on \notin {p[1] : p \in db.policies}
    [] op.do \in {"secure", "unsecure"} -> op.on \in db.tables
    [] OTHER -> TRUE

\* Dropping a table drops its indexes and policies; types are created and
\* dropped, and policies dropped, only if they are missing or there.
Apply(db, op) ==
  CASE op.do = "create_type" -> [db EXCEPT !.types = @ \cup {op.on}]
    [] op.do = "create_table" ->
         [db EXCEPT !.tables = @ \cup {op.on},
                    !.refs = @ \cup {<<op.on, t>> : t \in op.with.refs},
                    !.uses = @ \cup {<<op.on, t>> : t \in op.with.types}]
    [] op.do = "create_index" -> [db EXCEPT !.indexes = @ \cup {<<op.on, op.with>>}]
    [] op.do = "seed" -> [db EXCEPT !.seeded = TRUE]
    [] op.do = "add_column" -> [db EXCEPT !.added = @ \cup {<<op.on, op.with>>}]
    [] op.do = "drop_column" -> [db EXCEPT !.added = @ \ {<<op.on, op.with>>}]
    [] op.do = "drop_index" -> [db EXCEPT !.indexes = {i \in @ : i[1] # op.on}]
    [] op.do = "drop_table" ->
         [db EXCEPT !.tables = @ \ {op.on},
                    !.refs = {r \in @ : r[1] # op.on}, !.uses = {u \in @ : u[1] # op.on},
                    !.indexes = {i \in @ : i[2] # op.on}, !.policies = {p \in @ : p[2] # op.on},
                    !.added = {c \in @ : c[1] # op.on}, !.secured = @ \ {op.on},
                    !.seeded = @ /\ op.on # "model_aliases"]
    [] op.do = "drop_type" -> [db EXCEPT !.types = @ \ {op.on}]
    [] op.do = "secure" -> [db EXCEPT !.secured = @ \cup {op.on}]
    [] op.do = "unsecure" -> [db EXCEPT !.secured = @ \ {op.on}]
    [] op.do = "create_policy" -> [db EXCEPT !.policies = @ \cup {<<op.on, op.with>>}]
    [] op.do = "drop_policy" -> [db EXCEPT !.policies = {p \in @ : p[1] # op.on}]

\* A revision runs in one transaction: it is applied as a whole or not at all.
Run(db, ops) ==
  LET end == FoldLeft(LAMBDA d, op : IF d.failed \/ ~ Accepts(d, op) THEN [d EXCEPT !.failed = TRUE]
                                     ELSE Apply(d, op), db, ops)
  IN IF end.failed THEN [db EXCEPT !.failed = TRUE] ELSE end

-----------------------------------------------------------------------------
(* The revisions, oldest first.                                            *)

\* _seed_aliases inserts the rows of ALIAS_SEED.
SeedAliases == Op("seed", "model_aliases", {})

UpgradeB113 ==
  <<CreateType("provider_enum"), CreateType("key_status_enum"),
    CreateTable("model_aliases", {}, {"provider_enum"}),
    CreateTable("api_keys", {}, {"key_status_enum"}),
    CreateIndex("idx_api_keys_hashed_secret", "api_keys"),
    CreateIndex("idx_api_keys_app", "api_keys"),
    CreateTable("budgets", {"api_keys"}, {}),
    CreateIndex("idx_budgets_api_key_id", "budgets"),
    CreateTable("call_records", {"api_keys", "model_aliases"}, {"provider_enum"}),
    CreateIndex("idx_call_records_api_key_id", "call_records"),
    CreateIndex("idx_call_records_created_at", "call_records"),
    CreateIndex("idx_call_records_alias", "call_records"),
    SeedAliases>>

\* Mutant: the tables go in the order they came.
DowngradeB113InOrder ==
  <<DropIndex("idx_api_keys_app"), DropIndex("idx_api_keys_hashed_secret"),
    DropTable("api_keys"), DropTable("budgets"), DropTable("call_records"),
    DropTable("model_aliases"),
    DropType("key_status_enum"), DropType("provider_enum")>>

DowngradeB113 ==
  <<DropIndex("idx_call_records_alias"), DropIndex("idx_call_records_created_at"),
    DropIndex("idx_call_records_api_key_id"), DropTable("call_records"),
    DropIndex("idx_budgets_api_key_id"), DropTable("budgets"),
    DropIndex("idx_api_keys_app"), DropIndex("idx_api_keys_hashed_secret"),
    DropTable("api_keys"), DropTable("model_aliases"),
    DropType("key_status_enum"), DropType("provider_enum")>>

UpgradeCb47 ==
  <<CreateType("prompt_status_enum"), CreateTable("prompts", {}, {}),
    CreateTable("prompt_versions", {"prompts", "model_aliases"}, {"prompt_status_enum"}),
    CreateIndex("idx_prompt_versions_prompt_id", "prompt_versions"),
    CreateIndex("idx_prompt_versions_status", "prompt_versions")>>

DowngradeCb47 ==
  <<DropIndex("idx_prompt_versions_status"), DropIndex("idx_prompt_versions_prompt_id"),
    DropTable("prompt_versions"), DropTable("prompts"), DropType("prompt_status_enum")>>

UpgradeD2f1 == <<AddColumn("api_keys", "expires_at")>>
DowngradeD2f1 == <<DropColumn("api_keys", "expires_at")>>

RlsTables == <<"call_records", "budgets">>

ReadPolicy == [call_records |-> "call_records_read_tenant", budgets |-> "budgets_read_tenant"]
InsertPolicy == [call_records |-> "call_records_insert_server",
                 budgets |-> "budgets_insert_server"]

EnableSql(table) ==
  <<Op("secure", table, {}), Op("create_policy", ReadPolicy[table], table),
    Op("create_policy", InsertPolicy[table], table)>>

DisableSql(table) ==
  <<Op("drop_policy", InsertPolicy[table], table),
    Op("drop_policy", ReadPolicy[table], table), Op("unsecure", table, {})>>

UpgradeE4b8 == EnableSql(RlsTables[1]) \o EnableSql(RlsTables[2])
DowngradeE4b8 == DisableSql(RlsTables[1]) \o DisableSql(RlsTables[2])

Upgrades == <<UpgradeB113, UpgradeCb47, UpgradeD2f1, UpgradeE4b8>>
Downgrades == <<DowngradeB113, DowngradeCb47, DowngradeD2f1, DowngradeE4b8>>

\* alembic upgrade +1 and downgrade -1, from the revision alembic_version has.
Migrate(at, step) ==
  CASE step = "up" /\ at.rev < Len(Upgrades) ->
         [rev |-> at.rev + 1, db |-> Run(at.db, Upgrades[at.rev + 1])]
    [] step = "down" /\ at.rev > 0 ->
         [rev |-> at.rev - 1, db |-> Run(at.db, Downgrades[at.rev])]
    [] OTHER -> at

Walk(steps) == FoldLeft(Migrate, [rev |-> 0, db |-> Empty], steps)

-----------------------------------------------------------------------------
(* What they promise.                                                      *)

\* The catalog tables.py describes, with row level security on the tables that
\* belong to a tenant.
IsSchemaOf(db) ==
  /\ db.tables = {t.name : t \in Metadata}
  /\ db.refs = UNION {{<<t.name, r>> : r \in t.refs} : t \in Metadata}
  /\ db.uses = UNION {{<<t.name, e>> : e \in t.types} : t \in Metadata}
  /\ db.indexes = UNION {{<<i, t.name>> : i \in t.indexes} : t \in Metadata}
  /\ db.added = {<<"api_keys", "expires_at">>}
  /\ db.secured = ToSet(RlsTables)
  /\ db.seeded

\* However the revisions were walked, no statement was refused, a revision's
\* catalog is the one its number says, the head is the declared schema and the
\* base is empty.
Reversible(steps) ==
  LET at == Walk(steps)
      straight == Walk([i \in 1 .. at.rev |-> "up"])
  IN /\ ~ at.db.failed
     /\ at.db = straight.db
     /\ at.rev = Len(Upgrades) => IsSchemaOf(at.db)
     /\ at.rev = 0 => at.db = Empty

=============================================================================
