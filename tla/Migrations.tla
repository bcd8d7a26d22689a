------------------------------ MODULE Migrations ------------------------------
(***************************************************************************)
(* The database schema: the four Alembic revisions of alembic/versions,    *)
(* the command that runs them (alembic/env.py), and the tables that        *)
(* db/models.py, and with it every repository, takes for granted.          *)
(*                                                                         *)
(* A table is the set of tables its foreign keys refer to and the set of   *)
(* its unique keys (for a table without an id column, its primary key).    *)
(* The other columns and the indexes are dropped.                          *)
(*                                                                         *)
(* Alembic and PostgreSQL are external.  CREATE TABLE fails if the table   *)
(* exists or one it refers to does not, DROP TABLE if the table does not   *)
(* exist or another one refers to it.  The row of alembic_version is       *)
(* written after the last statement of a revision.  DDL is transactional.  *)
(***************************************************************************)
EXTENDS Naturals, Sequences

VARIABLES
  tables,    \* the committed tables, by name
  version,   \* the committed revision of alembic_version, 0 for none
  command,   \* the alembic command that runs
  unfinished \* whether a downgrade has begun to drop tables and has not stamped its revision

migrationVars == <<tables, version, command, unfinished>>

-----------------------------------------------------------------------------
(* The revisions.                                                          *)

Table(refs, keys) == [refs |-> refs, keys |-> keys]
Create(name, refs, keys) == [op |-> "create", name |-> name, table |-> Table(refs, keys)]

\* The unique constraint of orders is left out.
FaultyInitial ==
  << Create("organizations", {}, {}),
     Create("roles", {}, {{"name"}}),
     Create("users", {"organizations"}, {{"organization_id", "email"}}),
     Create("user_roles", {"users", "roles"}, {{"user_id", "role_id"}}),
     Create("exchange_accounts", {"organizations"}, {}),
     Create("encrypted_credentials", {"organizations", "exchange_accounts"}, {}),
     Create("orders", {"organizations", "exchange_accounts"}, {}),
     Create("audit_events", {"organizations"}, {}) >>

Initial ==
  << Create("organizations", {}, {}),
     Create("roles", {}, {{"name"}}),
     Create("users", {"organizations"}, {{"organization_id", "email"}}),
     Create("user_roles", {"users", "roles"}, {{"user_id", "role_id"}}),
     Create("exchange_accounts", {"organizations"}, {}),
     Create("encrypted_credentials", {"organizations", "exchange_accounts"}, {}),
     Create("orders", {"organizations", "exchange_accounts"},
           {{"exchange_account_id", "client_order_id"}}),
     Create("audit_events", {"organizations"}, {}) >>

\* The tables are dropped in the order in which they were created.
FaultyDropInitial == [i \in 1..Len(Initial) |-> Initial[i].name]

DropInitial ==
  << "audit_events", "orders", "encrypted_credentials", "exchange_accounts", "user_roles",
     "users", "roles", "organizations" >>

DurableControlPlane ==
  << Create("tenants", {}, {{"name"}}),
     Create("user_sessions", {"tenants", "users"}, {{"token_hash"}}),
     Create("refresh_tokens", {"user_sessions"}, {{"token_hash"}}),
     Create("bot_instances", {"tenants"}, {{"tenant_id", "name"}}),
     Create("bot_user_assignments", {"bot_instances", "users"}, {{"bot_id", "user_id"}}),
     Create("system_settings", {"tenants"}, {{"tenant_id", "key"}}),
     Create("risk_settings", {"tenants", "bot_instances"}, {{"bot_id"}}),
     Create("strategies", {"tenants", "bot_instances"}, {}),
     Create("ai_generated_strategies", {"tenants", "users"}, {}),
     Create("audit_log_chain", {"tenants"}, {{"tenant_id", "sequence"}}),
     Create("notifications", {"tenants"}, {}),
     Create("background_jobs", {"tenants"}, {}) >>

DropDurableControlPlane ==
  << "background_jobs", "notifications", "audit_log_chain", "ai_generated_strategies",
     "strategies", "risk_settings", "system_settings", "bot_user_assignments",
     "bot_instances", "refresh_tokens", "user_sessions", "tenants" >>

ExchangeCredentials ==
  << Create("exchange_credentials", {"tenants"},
            {{"tenant_id", "exchange", "api_key_masked"}}) >>

DropExchangeCredentials == << "exchange_credentials" >>

BingxExecutionRecords ==
  << Create("account_states", {"tenants"},
            {{"tenant_id", "account_id", "environment", "product"}}),
     Create("market_snapshots", {"tenants"}, {}),
     Create("trading_rule_snapshots", {"tenants"}, {}),
     Create("source_trade_events", {"tenants"}, {{"tenant_id", "leader_id", "source_event_id"}}),
     Create("copy_allocations", {"tenants"},
            {{"tenant_id", "source_event_id", "follower_account_id", "symbol"}}),
     Create("order_intents", {"tenants", "bot_instances"},
            {{"tenant_id", "account_id", "client_order_id"}}),
     Create("exchange_orders", {"tenants", "order_intents"}, {{"tenant_id", "exchange_order_id"}}),
     Create("order_fills", {"tenants", "exchange_orders"}, {{"tenant_id", "exchange_fill_id"}}),
     Create("position_snapshots", {"tenants"}, {}),
     Create("volume_sessions", {"tenants", "bot_instances"}, {}),
     Create("reconciliation_runs", {"tenants"}, {}) >>

DropBingxExecutionRecords ==
  LET n == Len(BingxExecutionRecords) IN
  [i \in 1..n |-> BingxExecutionRecords[n + 1 - i].name]

\* down_revision orders the revisions.
Upgrades == <<Initial, DurableControlPlane, ExchangeCredentials, BingxExecutionRecords>>
Downgrades ==
  <<DropInitial, DropDurableControlPlane, DropExchangeCredentials, DropBingxExecutionRecords>>
Latest == Len(Upgrades)

\* The tables of the revisions up to v.
SchemaOf ==
  [v \in 0..Latest |->
     LET created == UNION {{Upgrades[r][i] : i \in 1..Len(Upgrades[r])} : r \in 1..v} IN
     [name \in {c.name : c \in created} |-> (CHOOSE c \in created : c.name = name).table]]

-----------------------------------------------------------------------------
(* db/models.py                                                            *)

OrganizationModels ==
  { Create("organizations", {}, {}),
    Create("users", {"organizations"}, {{"organization_id", "email"}}),
    Create("roles", {}, {{"name"}}),
    Create("user_roles", {"users", "roles"}, {{"user_id", "role_id"}}),
    Create("exchange_accounts", {"organizations"}, {}),
    Create("encrypted_credentials", {"organizations", "exchange_accounts"}, {}),
    Create("orders", {"organizations", "exchange_accounts"},
           {{"exchange_account_id", "client_order_id"}}),
    Create("audit_events", {"organizations"}, {}) }

TenantModels ==
  { Create("tenants", {}, {{"name"}}),
    Create("user_sessions", {"tenants", "users"}, {{"token_hash"}}),
    Create("refresh_tokens", {"user_sessions"}, {{"token_hash"}}),
    Create("bot_instances", {"tenants"}, {{"tenant_id", "name"}}),
    Create("bot_user_assignments", {"bot_instances", "users"}, {{"bot_id", "user_id"}}),
    Create("system_settings", {"tenants"}, {{"tenant_id", "key"}}),
    Create("risk_settings", {"tenants", "bot_instances"}, {{"bot_id"}}) }

RecordModels ==
  { Create("strategies", {"tenants", "bot_instances"}, {}),
    Create("ai_generated_strategies", {"tenants", "users"}, {}),
    Create("audit_log_chain", {"tenants"}, {{"tenant_id", "sequence"}}),
    Create("notifications", {"tenants"}, {}),
    Create("background_jobs", {"tenants"}, {}),
    Create("exchange_credentials", {"tenants"}, {{"tenant_id", "exchange", "api_key_masked"}}) }

Models == OrganizationModels \cup TenantModels \cup RecordModels

-----------------------------------------------------------------------------
(* The commands.  An offline command prints a script that the operator     *)
(* applies, statement by statement, until one fails; run_migrations is     *)
(* called outside begin_transaction, so the script has no BEGIN and no     *)
(* COMMIT.  An online command runs in the transaction that its connection  *)
(* opened by itself, as SQLAlchemy 2 does, and sees its own statements.    *)
(*                                                                         *)
(* mode             "online" or "offline"                                  *)
(* target           the revision asked for                                 *)
(* tables, version  the database as the command sees it                    *)
(* done             the statements executed of the revision under way      *)
(* sound            it found exactly the tables of the stamped revision    *)
(* end              "ok", "failed" or "killed", or "running"               *)

NoCommand == [mode |-> "offline", target |-> 0, tables |-> <<>>, version |-> 0, done |-> 0,
              sound |-> TRUE, end |-> "ok"]

Upgrading == command.version < command.target

Stamp(v) == [op |-> "stamp", version |-> v]
Drop(name) == [op |-> "drop", name |-> name]

\* The next statement of a command that has not reached its target: of the upgrade to the
\* next revision, or of the downgrade of the last one.
NextStatement ==
  LET v == command.version
      i == command.done + 1
  IN  IF Upgrading
      THEN IF i <= Len(Upgrades[v + 1]) THEN Upgrades[v + 1][i] ELSE Stamp(v + 1)
      ELSE IF i <= Len(Downgrades[v]) THEN Drop(Downgrades[v][i]) ELSE Stamp(v - 1)

MigrationsInit ==
  /\ tables = <<>>
  /\ version = 0
  /\ command = NoCommand
  /\ unfinished = FALSE

Start(mode, target) ==
  /\ command.end # "running"
  /\ target # version
  /\ command' = [mode |-> mode, target |-> target, tables |-> tables, version |-> version, done |-> 0,
                 sound |-> (tables = SchemaOf[version]), end |-> "running"]
  /\ UNCHANGED <<tables, version, unfinished>>

Possible(s) ==
  CASE s.op = "create" ->
         s.name \notin DOMAIN command.tables /\ s.table.refs \subseteq DOMAIN command.tables
    [] s.op = "drop" ->
         /\ s.name \in DOMAIN command.tables
         /\ \A t \in DOMAIN command.tables : s.name \notin command.tables[t].refs
    [] OTHER -> TRUE

TablesAfter(s) ==
  CASE s.op = "create" ->
         [t \in DOMAIN command.tables \cup {s.name} |->
            IF t = s.name THEN s.table ELSE command.tables[t]]
    [] s.op = "drop" -> [t \in DOMAIN command.tables \ {s.name} |-> command.tables[t]]
    [] OTHER -> command.tables

VersionAfter(s) == IF s.op = "stamp" THEN s.version ELSE command.version

\* Each statement of an offline script is committed by itself.
Execute(s) ==
  /\ Possible(s)
  /\ command' = [command EXCEPT !.tables = TablesAfter(s), !.version = VersionAfter(s),
                                !.done = IF s.op = "stamp" THEN 0 ELSE @ + 1]
  /\ IF command.mode = "offline"
     THEN /\ tables' = TablesAfter(s)
          /\ version' = VersionAfter(s)
          /\ unfinished' = (s.op = "drop" \/ (unfinished /\ ~(s.op = "stamp" /\ command.sound)))
     ELSE UNCHANGED <<tables, version, unfinished>>

\* An error, a crash, or the end of the script.  The connection of an online command is
\* closed and was never committed.
End(how) ==
  /\ command' = [command EXCEPT !.done = 0, !.end = how]
  /\ UNCHANGED <<tables, version, unfinished>>

MigrationsNext ==
  \/ \E mode \in {"online", "offline"}, target \in 0..Latest : Start(mode, target)
  \/ /\ command.end = "running"
     /\ \/ command.version # command.target /\ Execute(NextStatement)
        \/ command.version # command.target /\ ~Possible(NextStatement) /\ End("failed")
        \/ command.version = command.target /\ End("ok")
        \/ End("killed")

MigrationsSpec == MigrationsInit /\ [][MigrationsNext]_migrationVars

-----------------------------------------------------------------------------
(* Properties.                                                             *)

\* Some of the tables of the revisions, as the revisions create them.
TablesOfRevisions(t) ==
  /\ DOMAIN t \subseteq DOMAIN SchemaOf[Latest]
  /\ t = [name \in DOMAIN t |-> SchemaOf[Latest][name]]

MigrationsTypeOK ==
  /\ version \in 0..Latest
  /\ command.mode \in {"online", "offline"}
  /\ command.end \in {"ok", "failed", "killed", "running"}
  /\ command.version \in 0..Latest /\ command.target \in 0..Latest /\ command.done \in Nat
  /\ command.sound \in BOOLEAN /\ unfinished \in BOOLEAN
  /\ TablesOfRevisions(tables) /\ TablesOfRevisions(command.tables)

\* A command that finds exactly the tables of the stamped revision, and is not killed,
\* executes every statement and sees exactly the tables of its target, in both directions
\* and from every revision: no table is created before one it refers to or dropped before
\* one that refers to it, and no downgrade forgets a table (upgrade, downgrade).
SoundCommandsSucceed ==
  command.sound =>
    /\ command.end # "failed"
    /\ command.end = "ok" => command.tables = SchemaOf[command.target]

\* Wherever scripts were interrupted or failed, the tables of the stamped revision exist as
\* its revisions created them, unless a downgrade was left unfinished; and from the revision
\* that created the last of them on, every table of models.py, with the unique keys that
\* the repositories rely on.
StampedTablesExist ==
  ~unfinished =>
    /\ \A t \in DOMAIN SchemaOf[version] : t \in DOMAIN tables /\ tables[t] = SchemaOf[version][t]
    /\ \A m \in Models :
         version >= 3 \/ m.name \in DOMAIN SchemaOf[version] =>
           m.name \in DOMAIN tables /\ tables[m.name] = m.table

\* "alembic upgrade head" leaves the database at the head revision (src/README.md).
UpgradesPersist == command.mode = "online" /\ command.end = "ok" => version = command.target

=============================================================================
