# crypbot in TLA+

TLA+ specifications of the crypbot backend (`src/backend/app`): a mock trading
engine behind a FastAPI server, the exchange clients it would trade through, and
the services and the database around them. TLC checks every module on small
instances; TLAPS proves every invariant that the passing runs check, for any number
of handlers, callers or sessions, any limits and any inputs. Liveness under fairness stays with TLC.

Paths below are relative to `src/backend/app` unless they start with `src/`.

## Inventory

| Component | State | Operations | Hard behaviour |
|---|---|---|---|
| **Mock trading engine** `services/trading_platform.py`, its endpoints in `main.py` | `BotRuntimeState`: bot and strategy states, scenario, signals, orders, positions, closed trades, daily P&L | `start`, `stop`, `pause/resume_strategy`, `apply_scenario`, `emergency_close_all`, `dashboard_snapshot`; each of them but the emergency runs `run_once` | Endpoints are `def` functions, so the server runs them on a pool of threads; the engine has no lock. Every check (limit of positions, a strategy's position, the duplicate window) is separated from the write it guards |
| **Order submission** `services/orders.py`, `exchanges/fake.py`, `exchanges/bingx.py`, `exchanges/safety.py` | orders on the exchange, the client's dict of orders | `submit_idempotent`: look up by client id, place, look up again on a timeout; `cancel_order`; `_request` with retries; five gates before a live POST or DELETE | A POST that timed out may still arrive; two coroutines with one intent, or one that cancels what the other submits; GET retries beside a POST that must not be retried |
| **Market-data WebSocket** `exchanges/bingx_websocket.py` | subscriptions, connection, `_stop`, window of seen events | `run`, `connect`, `reconnect`, `receive_once`, `heartbeat`, `subscribe`, `unsubscribe`, `stop` | Other coroutines act at every await: subscriptions change while the dict of them is iterated, `stop` closes the socket under a pending `recv` |
| **SQL repositories** `db/repositories.py` | settings with a version, the audit chain of each tenant; tenants, bots and exchange credentials | `save`, `append`, `verify`; `create`, `get`, `list`, `set_status`, `mark_verified`; `live_start_allowed`; all in a caller's transaction | Read-then-write at READ COMMITTED, unique constraints, rollbacks and crashes; identifiers that may be another tenant's; a live start decided on a row read earlier |
| **Schema, migrations** `db/models.py`, `alembic/` | the tables and the stamped revision | four revisions, upgraded and downgraded online or as an offline script | Hand-written lists of tables in two directions next to the models; scripts stopped half-way; who commits |
| **Control plane** `services/control_plane.py`, `services/durable_security.py` | users, sessions, AI drafts, audit records, the in-memory hash chain | login with lockout, create user, draft and approve, read, logout, audit | Handler threads switched out around a slow password hash and inside the append to the chain |
| **Resilience primitives** `exchanges/resilience.py` | token buckets; failures and opening time of a breaker; clock offset | `acquire`; `require_available`, `record_*`; `synchronize` | Polling with a deadline, calls let through before a breaker opened, time passing between a request and its answer |
| **Validation and caches** `exchanges/safety.py` | trading rules per symbol with their load time; market snapshots | normalize and validate an order; `get`, `invalidate`; `update`, `require_fresh` | Rounding towards the safe side; `invalidate` does not take the lock `get` holds; partial updates with false or zero fields |
| **Sizing, copy, risk** `services/twap.py`, `volume_execution.py`, `copy.py`, `risk.py`, `domain/types.py` | copy instruction state | plan slices, size children, check an order, move an instruction | Minimums applied after caps; a trigger price rounded to zero; a table of transitions used by several callers |
| **Reconciliation** `services/reconciliation.py` | none | two set differences | none |
| **Execution-safety services** `services/execution_safety.py` | locks, kill switch | -- | cannot be imported (`Fill` is missing from `exchanges/interfaces.py`) |
| **BingX runtime guards** `exchanges/runtime.py` | none | checks of environment variables and URLs | none |
| **Configuration, encryption** `core/` | none | settings, redaction, ciphers, password hashing | none |
| **Demo endpoints** `main.py`, **frontend** `src/frontend`, **scripts** | none | fixed answers, a polling view, offline checks | none |

How they interact. `main.py` holds one `TradingApplication` and one control
plane per process. The endpoints of the engine are public: each runs a handler, and
most of them then write an audit record of no user. Those of the control plane take a session
token and check its permissions. The demo endpoints
call the pure services with constant inputs. `orders.py` runs over either
exchange client. The resilience primitives and the trading-rules cache are
libraries which only tests call. The repositories are the durable counterpart of
the control plane and no endpoint uses them yet; they rely on the unique keys that
the migrations create.

What makes each of them correct: the engine never trades while stopped, never
opens twice for one strategy, never holds opposing positions, closes a position
once, and is flat after an emergency stop; a submission never places more
orders than its lost answers account for and always ends, and a cancelled intent
trades no more; a reconnected
WebSocket sends every stream again that it does not lose track of, recovers what was missed, and `stop` ends it; a
stored audit chain never forks and a settings version is never overwritten; no
tenant touches the rows of another, and a live start rests on a check of its key;
the migrations lead from any revision to any other; no
change of the control plane escapes the audit; a lockout bounds password
guesses; a limiter, a breaker and a cache keep their bounds under any
interleaving; a normalized order never asks for more than was wished, and a verdict of the risk check
is final.
`PROJECT.json` lists each hazard at its line with the property that covers it.

## Modules

| Module | Models | One step is |
|---|---|---|
| `TradingPlatform` | the trading engine | a stretch of a handler between two accesses to the shared state whose outcome another handler could change |
| `PositionBook` | what the engine promises: an abstract book of one side per strategy | one request's effect |
| `OrderSubmission` | `submit_idempotent` and `cancel_order` over both clients and an external exchange | a coroutine from one await to the next |
| `WebSocketClient` | the WebSocket client and an external peer | an await to the next |
| `Repositories` | the repositories that compute what they write: `save`, `append`, `verify`, over an external PostgreSQL | one SQL statement, commit or rollback |
| `TenantRecords` | the repositories of tenants, bots and credentials, and `live_start_allowed`, over the same | one method (a statement and the reads after it), commit or rollback |
| `Migrations` | the revisions, the command that runs them, the tables of the models | one statement of a script, or the end of a command |
| `ControlPlane` | the control plane with its audit log and chain | a stretch of a handler up to a call or a turn of a loop |
| `GuardClock` | clients and a clock, shared by the next five | a tick |
| `RateLimiter`, `CircuitBreaker`, `TimeSynchronizer`, `TradingRulesCache`, `MarketDataCache` | the five guards | an await to the next |
| `OrderSizing` | quantizing, normalization, validation, TWAP and volume plans, the risk check as pure operators | |
| `CopyTrading` | the states of a copy instruction | one call |
| `MCTrading...` | instances for TLC: constants and symmetry | |
| `MCExchange` | composes `OrderSubmission` and `WebSocketClient`, which share nothing: what talks to BingX | a step of one of them |
| `MCPersistence` | composes the two repository modules and the migrations: the database | a step of one of them |
| `MCStores` | composes that database and the control plane, which share nothing: where records are kept | a step of one of them |
| `MCServices` | composes the guards, the copy instruction and the pure functions | a step of one of them |

Proofs are in `TradingPlatform_proofs` and `SerialTrading_proofs` (the engine, with any
number of handlers and with one), `OrderSubmission_proofs`, `WebSocketClient_proofs`,
`ControlPlane_proofs`, `Repositories_proofs`, `Persistence_proofs` (the records, the migrations,
and the database that `MCPersistence` composes) and `Services_proofs` (the guards, the order
arithmetic, the copy instruction, and what `MCServices` composes).

### State and actions against the code

`PROJECT.json` maps each definition to its lines. The main correspondences:

- `TradingPlatform`: `thread[t].pc` names the place a handler is at; `Request`
  is an endpoint being called; `RunOnce .. InsertPosition` walk `run_once`,
  `execute`, `approve`, `place_order` and `open_from_order`;
  `SnapshotPositions, ClosePosition, RemovePosition` walk a loop over a copy of
  the position list. `Abort` is an exception that ends the request
  (`list.remove` of a position already gone, `KeyError` of a scenario that
  changed between two reads, `IndexError` of an emptied list). A signal is named
  after the scenario that makes it. Money is in cents.
- `OrderSubmission`: `placed` are the orders the exchange holds and `cancelled` how
  many of them are cancelled; `late` and `lateDeletes` are the POSTs and DELETEs still
  on their way after their sender gave up, `orphaned` counts the former. `client`,
  `gates` and `validator` are chosen once: which client is in use, which of the five
  live gates are enabled (any of the 32 subsets), and whether the client has its default validator or was
  given one. The fake client's whole request is one step, and so are the two demo
  endpoints over it.
- `WebSocketClient`: `server` is what the peer has been sent since it accepted
  the connection; `seen` and `order` are the set and the deque.
  `run.size`, `run.left` and `run.visited` are the iterator of `_resubscribe` over the dict:
  the size it began with, the turns it has left, and the streams it has passed.
- `Repositories`: `settings` and `chain` are the committed rows, and `tx[s]` holds the
  rows which the open transaction of a session wrote. A lock is a guard on the write.
- `TenantRecords`: `rows` are the committed rows of three tables and `work[s]` the
  transaction of a session: `mine` is what it wrote, `held` what its last read
  returned, `Visible(s)` what a statement of it sees. An exception rolls back, a
  duplicate key or a row of another tenant included.
- `Migrations`: a revision is a sequence of CREATE TABLE or DROP TABLE; `command.version` is
  the revision a command has reached and `command.done` how many statements of the next
  one it has executed, after the last of which it writes the stamp. An offline script has no BEGIN, so that each of its
  statements is committed alone; an online command has one transaction, which
  nothing commits.
- `MarketDataCache`: two fields stand for the seven, a number that may be zero and a
  truth value that may be false.
- `ControlPlane`: users, sessions, drafts and records are sequences and a
  reference is a place in one. A hash is the history it commits to, so that equal
  hashes mean equal histories.

`workers` of `ControlPlane` is how many requests an instance handles at a time. The
other variables without a counterpart in the code are histories which properties
read, and which only the bounds of the models look at otherwise: `overlapped` and
`saves` (Repositories), `findings`, `latest` and `raced` (TenantRecords), `unfinished`
(Migrations), `guesses` (ControlPlane), `gap`, `overtaken`, `begun`, `age` and `reopened`
(WebSocketClient), `orphaned` and `exposed` (OrderSubmission), `mark`/`granted`,
`since`/`admitted`, `required`/`from`/`counted`, `told`/`toldAt`/`answer` and `roundTrip`
(guards), `submissions` (CopyTrading).
An operator named `Faulty...` is a plausible mistake in the definition after it;
nothing uses it, and `PROJECT.json` says which property notices it.

### Abstractions

- The clock-derived price tick under 0.1 %, notifications, risk events and log
  lines are dropped: nothing reads them back.
- All built-in signals are for one symbol, so the engine has no symbols.
- All trading rules are those of the order's symbol, so `SYMBOL_MISMATCH`
  (`exchanges/safety.py:55`) does not arise.
- `SymbolMetadata` (`exchanges/interfaces.py`) lacks `active` and
  `max_quantity`, which the default validator reads (`exchanges/safety.py:57`); with it
  every live submission raises `AttributeError` before its POST. A validator that was
  supplied to the client accepts or refuses. Both are explored: the first is the
  finding of `default_validator`, and the second reaches the rest of a submission.
- The order and the slots of a Python dict are dropped. A key inserted while
  `_resubscribe` iterates the dict may move the entries up, and the iterator then passes
  over some of those it has not reached: `InsertUnderIteration` lets it pass over any.
- A stream of `WebSocketClient` has one payload and one handler.
- `Decimal` is exact here; its rounding at 28 digits is dropped.
- `Tick` of `ControlPlane` keeps a request from lasting as long as a lock period:
  a request that does is out of the scope of the model.
- A row of `TenantRecords` keeps what keys, filters and decisions look at; the encrypted
  payload, times and the other columns are dropped. `permitted` stands for the
  conditions of `live_start_allowed` that are not about the credential.
- `Migrations` keeps the references and the unique keys of a table; its other columns and
  plain indexes are dropped.
- The network, the exchange, the peer, Alembic and PostgreSQL are external and as hostile
  as the code is written for: losing, delaying and refusing, not lying.

## Runs

| Run | Checks | Bounds, and why they are enough |
|---|---|---|
| `trading_sequential` | one handler: flat after an emergency stop, no signal executed twice, P&L untouched, every request answered, `PositionBook` implemented (one position per strategy, one side, openings only while running) | 7 scenarios: the 7 others neither emit a signal nor close a position and leave the handler on paths already taken. 6 signals are never reached: the window of 5 already holds all distinct ones. Three positions is the code's own limit |
| `trading_concurrent` | two handlers: ledger consistency, closed once, limit exceeded by at most one | A limit of 1 makes the race as tight as it gets; one scenario of each kind (open, close, exit, rejected, API down). The theorems cover other values |
| `trading_emergency` | *violated*: flat after an emergency stop | shortest instance of the race |
| `exchange` | orders: duplicates, a cancellation holds, closed gates place nothing, requests end. Stream: an event is a duplicate exactly while it is recent, `run` listens only when every stream not overtaken by an insertion was sent and what was missed was recovered, at most one reopening after stop, `run` ends after stop | two callers and three calls each: a lost POST, its retry, a cancellation and a concurrent caller all meet; retries 2 as in the default; all 32 subsets of the gates. 3 events over a window of 2, so eviction happens; 2 streams, so that one can be withdrawn and subscribed again while the other is still to be sent |
| `orders_unknown` | *violated*: an unsettled submission is reported UNKNOWN | |
| `default_validator` | *violated*: with open gates the default validator lets an order through or refuses it with a reason | one caller, one call |
| `stores` | database: the chain verifies for every reader, serial saves are counted; tenants stay apart, live starts rest on checks; sound migrations succeed, stamped tables exist. Control plane: audit complete, no record lost, serial requests keep the chain and the emails sound, guesses bounded | three overlapping transactions of one tenant (tenants share no row), two saves, two entries (the first, and one that follows another), failures anywhere; two callers, three rows (two tenants and one record of either, or one and two records), two checks; every migration from every revision. One or two threads, logins of the role that may do most, of the one that may do least, and of a user created on the way, whatever its role, two failures to lock, time for a whole lock period to pass and a second to begin |
| `settings_lost_update` | *violated*: no save is lost | two sessions |
| `migrations_lost` | *violated*: an online upgrade leaves the database upgraded | |
| `services` | grants bounded, calls in an outage bounded, reload after invalidate, loads spaced, snapshots current, offset error, orders and plans within bounds, copy instructions submitted once and verdicts final, acquire ends | two clients; each time span fits twice into the six ticks; one service at a time, since they share nothing; every combination of small orders and plans on both sides of each step, minimum and cap, among them a step of zero and a negative total. The inputs are constants of `MCServices` (`OrderInputs`, `TwapInputs`, `VolumeInputs`), and the theorems are about any |
| `volume_cap` | *violated*: the children of a volume plan stay within its participation rate | the volume plans of `services` |
| `trigger_price` | *violated*: the trigger price of an accepted order is positive | the orders of `services` |

`CHECK_DEADLOCK FALSE` is set where the system may really stop: submissions have
all returned, `run` is over, an input has been answered, the bounded clock or the
audit log of the model is at its end. The engine never stops.

### Fairness

The engine's is `FairSpec` of `TradingPlatform`; that of submissions and of the WebSocket is
`Fairness` of `MCExchange`, and the limiter's is in `MCServices`.

- The engine: a handler that has begun is run to its end by the thread pool, so
  each thread's `Step` is weakly fair. New requests are not fair.
- Submissions: the event loop runs a ready coroutine, and each HTTP call ends by
  its own timeout; so each caller's step is weakly fair. Arrival of a late POST
  is not.
- The WebSocket: the awaits of `run` end (`recv` by its timeout), so `RunStep`
  is weakly fair. Nothing forces a peer to connect, to push or to drop.
- The limiter: time passes and a sleeping client is woken.

## Findings

1. *An emergency stop can leave a position open* (`services/trading_platform.py:654`).
   `emergency_stop` closes a copy of the list, while another handler past
   `approve` inserts afterwards. The notification at line 658 and
   `src/backend/tests/test_trading_platform.py:30` say all are closed.
2. *A timed-out POST is never reported UNKNOWN* (`services/orders.py:20`,
   `src/docs/runbook.md:9`): `_request` turns the timeout into `BingXError`.
3. *The default validator fails on every order* (`exchanges/safety.py:57`): it reads two
   fields that `SymbolMetadata` does not have. `src/backend/tests/test_bingx_adapter.py:138-182`,
   `186-217` and `src/backend/tests/test_bingx_complete.py:214-233` expect a client with open
   gates and that validator to place orders.
4. *A lost update of settings* (`db/repositories.py:110`): the UPDATE does not
   carry the expected version.
5. *`alembic upgrade head` changes nothing* (`src/backend/alembic/env.py:16`,
   `src/README.md:35`): the migrations run in the transaction that the connection began
   by itself, outside `context.begin_transaction()`, and closing it rolls them back.
   The offline script has no transaction at all and does persist.
6. *A minimum child order exceeds the participation cap* (`services/volume_execution.py:41`):
   `src/docs/progress.md:37` and the docstring at lines 28-32 promise the cap without an exception.
7. *A trigger price is rounded to zero* (`exchanges/safety.py:82`): line 81 says that it must be
   positive, and line 76 checks the rounded price, but nothing checks the rounded trigger price.

Found on the way, and without a run of their own. The properties of the runs except the first
four by name. An `invalidate` during a load leaves the old rules in the cache for a whole TTL.
An event whose handler the receive timeout cancels is remembered as seen and never handled. A
stream withdrawn and subscribed again while `_resubscribe` waits for a send can move the dict's
entries, so that another is not sent again and nothing is raised. A check of an API key
recorded late overwrites a newer one. A quantity below one step is
rounded to zero and accepted unless the symbol's minimum forbids it. A CLOSE signal opens a
short (`services/trading_platform.py:350`; `src/MOCK_DEMO_GUIDE.md:10` calls it "Lead trader closes
position"): nothing looks at a signal's action. A copy instruction may be moved from RECEIVED over
VALIDATING to READY without a risk check (`services/copy.py:42`). The fake
client's `cancel_order` answers CANCELLED and leaves the order as it was
(`exchanges/fake.py:72`), so `CancelHolds` says something about BingX only. The kill-switch
endpoint (`main.py:387`) answers "new trading rejected" and changes nothing. Pausing or
resuming a strategy writes no audit record, which `EverythingIsAudited` does not ask for.

## Proofs

Everything below is proved for every value of the constants that satisfies the `ASSUME`s
of the module: sets of threads, callers, clients and streams are finite (the first three not
empty), scenarios and controls are among those the code has, limits and times are
natural numbers, positive where the code needs them to be; the quantities, prices and
steps of orders, plans and copy instructions are any integers, and only the limits of a
TWAP plan and the maximum child of a volume plan are not negative. TLC evaluates these
assumptions in the runs.

### The trading engine (`TradingPlatform_proofs`)

| Theorem | Says |
|---|---|
| `TypeCorrectness` | `Spec => []TypeOK` |
| `LedgerIsBacked` | every position ever opened comes from a filled order of its own |
| `PositionsCloseOnce` | no position is closed twice or is open again |
| `PnlNeverMoves` | trading never moves the daily P&L, so the daily-loss limit is out of its reach |
| `ExposureIsBounded` | `Cardinality(positions) <= MaxOpenPositions + Cardinality(Threads) - 1` |
| `HandlersAreShort` | a request has a bounded number of steps left; each of its own lowers it, no other changes it |

None of the invariants is inductive by itself. The argument, in order:

1. `HandlerInv`: `TypeOK`, and a handler at a label that needs a signal or an
   order has one, and no position has an id above `opened`. Without it, a step
   could read the head of an empty queue.
2. `LedgerInv`: the two ledger invariants, unique ids, and that a handler carries
   a filled order which no position and no other handler has. It is what makes
   an insertion keep "an order of its own".
3. `MarkInv`: each position is marked at its entry price, so closing adds nothing.
4. `SlotInv`: positions plus the handlers *between the limit check and the insertion*
   are at most `MaxOpenPositions + |Threads| - 1`. A handler that passes the check
   does it with at most `MaxOpenPositions - 1` positions open and at most
   `|Threads| - 1` other handlers under way; an insertion trades one for the other.
5. `ShortInv`, for `HandlersAreShort`: what is left of a handler is a sum of 24 steps for each call of
   `run_once` it still has to make, 6 for each signal of the queue, 2 for each position it
   still has to close, and the way from its place to the end. A loop over a list that others
   change could go on for ever; these go over copies, and `SlotInv` bounds the largest one. The
   list of a handler that closes is finite, is not empty, and has no id above `opened`, so that
   each turn takes a position off it.

### The engine with one handler at a time (`SerialTrading_proofs`)

`OneHandler` says that `Threads` has one element. It is a hypothesis of these theorems and
not an assumption of the model, and `trading_emergency` shows that it is needed.

| Theorem | Says |
|---|---|
| `SerialImplementsBook` | the initial state is one of `PositionBook`, and every step is a step of the book or a stutter |
| `SerialEmergencyIsFlat` | an emergency stop leaves nothing open |
| `SerialSignalsOnce` | no signal is recorded twice |

`SoleInv` says what the only handler knows at each place: a handler that closes positions
for an emergency still has every open one in its copy of the list, one that opens has
found no position of its strategy and none of the other side. `OnceInv` adds that the signal
before the risk check was never recorded: the built-in signals are five, so if the window of
the last five is full of others, a pigeonhole argument leaves no room for a new one.

### The control plane (`ControlPlane_proofs`)

| Theorem | Says |
|---|---|
| `ControlTypes` | `ControlSpec => []ControlTypeOK` |
| `RecordsKept` | no audit record is lost to a race of two appends |
| `ChangesAudited` | users created, sessions and drafts are as many as the records that tell of them |
| `SerialRequests` | one worker: the audit chain has no fork, and no email two users |
| `GuessingBounded` | wrong passwords compared before a lock <= `MaxFailures + workers - 1` |

The lemma `EveryCall` sorts the 20 kinds of steps of a request once (`Took`): what they do to
the log (nothing, have something to record, record it, read the chain, append to it), to the
users (nothing, a password compared, one inserted), and when the request read the clock.
The invariants rest on that alone:

1. `LogInv`: each record is in the chain or carried by a request between `record` and
   `append`, and by one of them only. A fork of the chain does not break it, which is why
   nothing is lost even where `verify` fails.
2. `AuditInv`: of each action as many records and requests about to write one as changes;
   `ToldStep` counts what one step adds.
3. `SoleInv`: with one worker the others are idle, so what a request has read of the chain
   or of the emails still holds when it is used.
4. `LockInv`: a free account has fewer than `MaxFailures` guesses, and no more than the code
   counts; of a locked one, the guesses and the requests that are comparing a password are
   at most `MaxFailures + workers - 1`. The wrong password that locks the account leaves at
   most `workers - 1` others past the check, and the lock lets nobody else past it. It needs
   that no request lasts as long as a lock, the guard of `Tick`.

### Order submission and the WebSocket client

| Theorem | Says | Invariant behind it |
|---|---|---|
| `SubmissionTypes` | at most one POST and `max_retries + 1` tries of a GET for a submission | `OrderInv` of `OrderSubmission_proofs` |
| `DuplicatesAreAccountedFor` | orders of an intent <= callers + POSTs that outlived their caller | `placed + late + Cardinality(Unplaced) <= Cardinality(Callers) + orphaned`: a caller that looked an intent up in vain is counted until its POST is placed, lost or orphaned |
| `CancelIsFinal` | after a cancellation only what was under way can trade | the same count, against what was `exposed` at the cancellation |
| `ClosedGatesHold` | no order past a closed gate, for any subset of the gates | what a caller past the check knows (`CallOK`) |
| `SubmissionsAreShort` | a request has at most `9 * (MaxRetries + 1)` steps left; each of its own lowers it, no other changes it | `OrderInv`: the network calls still to make, and the retries of the current one |
| `ClientTypes` | `StreamSpec => []StreamTypeOK` | a small fact about the record `run` |
| `WindowIsExact` | an event counts as seen exactly while fewer than `MaxSeen` others were remembered since | `WindowInv`: the deque holds each event of the set once, in the order of their ages |
| `StreamsAreResent` | `run` waits on a connection only when every subscription was sent, except one still to be sent again when another stream was inserted | `RestoredInv`, by the place where `run` is |
| `LossesAreRecovered` | and only when what was missed, or failed in a handler, was recovered | the same |
| `StopIsNearlyFinal` | at most one reopening after `stop` | `StopInv`: after it `run` is past its last look at `_stop` |
| `StopIsShort` | after `stop`, `run` has at most `10 + Cardinality(Streams)` steps left; each of its own lowers it, no other changes it | `StreamTypeOK`: the iteration of a resubscription is bounded by the number of subscriptions it began with |

### The database (`Repositories_proofs`, `Persistence_proofs`)

| Theorem | Says | Invariant behind it |
|---|---|---|
| `StoredChainsVerify` | the audit chain that any reader sees verifies | `ChainInv`: committed entries are numbered without a gap, a transaction's own entries continue them, and at most one open transaction of a tenant has any; the cardinality of a chain is shown to be its last number |
| `SerialSavesAreCounted` | the version counts the saves unless two overlapped | `SavesInv`: without an overlap at most one transaction of a tenant is saving, and it read the row as it is |
| `TenantsStayApart` | no row of another tenant is read or written | `RecordsInv`: what a transaction wrote and holds is its tenant's (`WorkOK`), and no two transactions write one row (`Apart`) |
| `LiveStartsRestOnChecks` | a live start rests on a check that found no permission to withdraw; a recorded check is replaced by later ones only, unless checks overlapped | the same: a row says of withdrawals what its check found (`Sound`), and a check not yet recorded is later than what is |
| `SoundCommandsAlwaysSucceed` | a command that finds the tables of its revision is never stopped by a statement, and ends with those of its target | `MigrationsInv`, see below |
| `StampedTablesAreThere` | the tables of the stamped revision exist, unless a downgrade was left unfinished | the same |
| `PersistenceAsSpecified` | `Spec` of `MCPersistence` implements `RepositoriesSpec`, `RecordsSpec` and `MigrationsSpec` | a step of the whole is a step of one part and leaves the others alone |
| `PersistenceKeepsItsPromises`, `PersistenceTyped` | the six invariants and `TypeOK` of the run, of `Spec` | inherited |

The migrations have no constants: the revisions are the code's own. What the theorems add to
the run is the argument, and that it does not depend on how many commands TLC can follow:

1. Each of the 32 tables has a place, `Rank`, in the order in which the revisions create
   them. Lemmas read off the lists that `Upgrades` creates the tables in this order
   (`UpgradesAre`), that `Downgrades` drops those of a revision in the opposite order
   (`DowngradesAre`), that a table refers to tables before it (`PlaceFacts`), and that each
   model is a table of the first three revisions with the same references and keys
   (`ModelsAre`). A list in a wrong order, or a forgotten table, fails here.
2. `SeesProgress`: a sound command sees the tables up to a place, which each statement moves by
   one; so the next table does not exist and those it refers to do (`SoundIsPossible`).
3. `ScriptIsCommitted`: of an unsound script, stopped or failed anywhere, the database has every
   table that its statements since the last stamp created, and once it dropped one the
   downgrade is marked unfinished. It is what makes the next stamp true.

### The services (`Services_proofs`)

| Theorem | Says | Invariant behind it |
|---|---|---|
| `GrantsAreBounded` | grants in any stretch of time <= full bucket + refill | `Period * granted + Tokens <= Full + Requests * (now - mark)` |
| `OutageIsBounded` | calls let through in a recovery time without a success <= threshold + clients - 1 | `BreakerInv`: while closed each of them is under way or has failed |
| `InvalidateReloads`, `LoadsAreSpaced` | no rules from before an `invalidate`; one load per time to live | `ReloadInv` and `SpacedInv`: entries and loads under way are late enough, and the last counted load left its entry |
| `AnswersAreCurrent` | a fresh snapshot has the last value told for each field | `MarketInv`: the snapshot is what was told |
| `OffsetIsNear` | the offset is off by at most half of the round trip | the lemma `MidpointIsNear` about the rounded midpoint |
| `CopyVerdictsAreFinal` | an instruction is submitted at most once, never after it was rejected, and if it was checked then only within its profile | `CopyInv`: nothing was submitted before SUBMITTING, to which only READY leads and from which nothing leads back to READY; nothing leads out of RISK_REJECTED; and an instruction that was checked and not rejected is within the profile it was checked against |
| `TwapPlansAreBounded`, `VolumePlansAreBounded` | every plan that is accepted, with any step, keeps `SlicesWithinBounds`, `ChildrenWithinBounds` | none: lemmas about `QuantizeDown`, which returns the multiple of the step next below a quotient, or next above a negative one |
| `AcceptedOrdersAreSafe` | every order that is accepted, over any rules, is `SafeOrder`, which also says when its quantity or trigger price is zero | none: rounding twice is rounding once, and it moves a price towards its owner only |
| `SizesAreBounded` | `SizesWithinBounds`, for any set of inputs | `AnswerInv`: the verdict answers the input |
| `ServicesAsSpecified`, `ServicesKeepTheirBounds` | `Spec` of `MCServices` implements the specification of each service, and keeps the seven invariants | a step of the whole is a step of one part |

### What only TLC checks

Liveness: `RequestsTerminate`, `SubmissionsEnd`, `StopEndsRun`, `AcquiresEnd`, and the fairness in
the implementation of `PositionBook` (its initial states and steps are proved). Fairness and
ENABLED are out of the prover's reach. Of the first three the part that needs no fairness is
proved: who keeps taking steps is soon done (`HandlersAreShort`, `SubmissionsAreShort`,
`StopIsShort`). That a step can always be taken, and is, stays with TLC. `AcquiresEnd` has no such
bound: it rests on time passing up to the deadline, and any number of tries fits before it.
The seven findings are counterexamples of TLC. That the
models end where the bounds of their guards say (`MaxTime`, `MaxSaves` and the like) is not
a restriction of the theorems, which hold for any value of them.

## Not modelled

- *Reconciliation* (`services/reconciliation.py`): two set differences without state.
- *`services/execution_safety.py`* cannot be imported: `exchanges/interfaces.py` has no
  `Fill`. No behaviour of the program reaches it.
- *Runtime guards* (`exchanges/runtime.py`), *configuration*, *redaction, ciphers and
  password hashing* (`core/`): pure checks and conversions without an order of steps to
  get wrong. `ControlPlane` takes a password to be right or wrong.
- *The other endpoints of `main.py`*: fixed or clock-derived answers, or calls of components
  that are modelled with constant inputs. The reports of the trading endpoints are read-only
  views of the engine's state.
- *The read-only calls of the BingX client* (balances, positions, history, depth) share
  `_request` with what is modelled and change nothing.
- *The engine and the audit together.* A trading endpoint runs the handler and, unless it pauses or
  resumes a strategy, writes one audit record. It authorizes nobody. `ControlPlane` has that record (`TRADING_CONTROL`), the engine
  has the handler, and neither reads state of the other, so the two are not composed.
- *Frontend, scripts, worker and scheduler*: a polling view, offline checks, placeholders.

## Plan

Every component that keeps state is modelled, and every invariant of a passing run is
proved. What is left, in order of worth:

1. *Prove* that the guards still let through what they should: that a full bucket is granted
   and a closed breaker refuses nobody, stated of the actions' guards without ENABLED.
2. *Extend* the engine and the control plane into one module if the code ever makes one
   read the other (a role that loses its permission while its handler waits, say).
