--------------------------- MODULE TradingPlatform ---------------------------
(***************************************************************************)
(* The mock trading engine: backend/app/services/trading_platform.py.      *)
(*                                                                         *)
(* One TradingApplication object is shared by every request handler of     *)
(* backend/app/main.py.  The handlers are plain functions, so FastAPI runs *)
(* them on a pool of threads, and nothing in the engine takes a lock.  A   *)
(* step of this module is a stretch of a handler between two accesses to   *)
(* the shared BotRuntimeState whose outcome another handler could change.  *)
(* With one thread the module is the sequential program.  The reads of one *)
(* evaluate, the checks of one approve on either side of the position list *)
(* and the insertion of the signal it decides on are each taken together.  *)
(*                                                                         *)
(* Abstractions.  All built-in signals are for BTC-USDT, so symbols are    *)
(* dropped.  A signal is named after the scenario that produces it: its    *)
(* strategy, side, action and reason are functions of that name.  Money is *)
(* in cents and quantities in hundredths.  The sub-0.1% price tick derived *)
(* from the clock is dropped.  Notifications, audit entries and risk       *)
(* events are written and never read back, and are left out.  The lists    *)
(* the code grows with insert(0, _) are kept oldest first.                 *)
(*                                                                         *)
(* An operator named Faulty... is a plausible mistake in the definition    *)
(* that follows it.  Nothing uses it: it is put in that definition's place *)
(* to see that a property notices.                                         *)
(***************************************************************************)
EXTENDS Integers, Sequences, FiniteSets

CONSTANTS
  Threads,           \* the worker threads that run request handlers
  Scenarios,         \* the mock scenarios the operator may select
  Controls,          \* the other requests the operator may send
  MaxOpenPositions,  \* BotConfig.max_open_positions
  MaxSignals         \* bound of the model: no new work after this many signals

AllScenarios ==
  {"NORMAL_MARKET", "BULLISH_VOLUME_BREAKOUT", "BEARISH_VOLUME_BREAKDOWN",
   "LEAD_TRADER_OPENS_LONG", "LEAD_TRADER_OPENS_SHORT",
   "LEAD_TRADER_CLOSES_POSITION", "STOP_LOSS_HIT", "TAKE_PROFIT_HIT",
   "DAILY_LOSS_LIMIT_HIT", "API_CONNECTION_FAILURE", "ORDER_REJECTION",
   "HIGH_SPREAD_NO_TRADE", "OPPOSITE_STRATEGY_CONFLICT", "EMERGENCY_STOP"}

AllControls ==
  {"start", "stop", "emergency", "pause", "resume", "dashboard"}

Strategies == {"COPY", "VOLUME"}

ASSUME ThreadsAssumption == IsFiniteSet(Threads) /\ Threads # {}
ASSUME RequestsAssumption == Scenarios \subseteq AllScenarios /\ Controls \subseteq AllControls
ASSUME LimitsAssumption == MaxOpenPositions \in Nat \ {0} /\ MaxSignals \in Nat

VARIABLES
  botState, strategyState, scenario, apiConnected,   \* BotRuntimeState
  signals,       \* every signal handed to the executor, oldest first
  orders,        \* every order placed, oldest first; an order is named by its index
  positions,     \* the open positions
  closedTrades,  \* the positions closed, oldest first
  opened,        \* the number of positions ever opened, which names the next one
  dailyPnl,      \* daily_realized_pnl
  thread         \* the local state of each handler thread

settings == <<botState, strategyState, scenario, apiConnected>>
book == <<positions, closedTrades, opened, dailyPnl>>
vars == <<settings, signals, orders, book, thread>>

-----------------------------------------------------------------------------
(* Signals and prices.                                                     *)

CopyScenarios ==
  {"LEAD_TRADER_OPENS_LONG", "LEAD_TRADER_OPENS_SHORT", "LEAD_TRADER_CLOSES_POSITION"}
BreakoutScenarios == {"BULLISH_VOLUME_BREAKOUT", "BEARISH_VOLUME_BREAKDOWN"}
Signals == CopyScenarios \cup BreakoutScenarios

StrategyOf(sig) == IF sig \in CopyScenarios THEN "COPY" ELSE "VOLUME"
SideOf(sig) ==
  IF sig \in {"LEAD_TRADER_OPENS_LONG", "BULLISH_VOLUME_BREAKOUT"} THEN "BUY" ELSE "SELL"

\* Dollars for one BTC: 65000 shifted by the scenario.
Price(s) ==
  CASE s = "BULLISH_VOLUME_BREAKOUT"  -> 65975
    [] s = "BEARISH_VOLUME_BREAKDOWN" -> 64025
    [] s = "STOP_LOSS_HIT"            -> 63050
    [] s = "TAKE_PROFIT_HIT"          -> 67925
    [] OTHER                          -> 65000

Quantity(strategy) == IF strategy = "COPY" THEN 1 ELSE 2

MaxPositionSize == 150000
MaxDailyLoss == 25000
FaultyDedupWindow == 4
DedupWindow == 5

\* Some signal among the last five has the same strategy, symbol and reason.
IsDuplicateSignal(sig) ==
  \E i \in 1..Len(signals) : i > Len(signals) - DedupWindow /\ signals[i] = sig

\* state.positions[0]: positions are always inserted at the front.
Newest(set) == CHOOSE p \in set : \A q \in set : q.id <= p.id

\* The position marked to the market instead of to its entry.
FaultyUnrealizedPnl(p) ==
  (Price(scenario) - p.entry) * Quantity(p.strategy) * (IF p.side = "BUY" THEN 1 ELSE -1)

UnrealizedPnl(p) ==
  (p.mark - p.entry) * Quantity(p.strategy) * (IF p.side = "BUY" THEN 1 ELSE -1)

-----------------------------------------------------------------------------
(* Handler threads.                                                        *)
(*   pc       the next step                                                *)
(*   rounds   calls of run_once the handler still has to make              *)
(*   pending  the signals of the current run_once not yet handled          *)
(*   price    the price read by the executor                               *)
(*   order    the order being turned into a position                       *)
(*   closing  the positions still to be passed to close_position           *)
(*   resume   where to go on after the last of them                        *)

Labels ==
  {"idle", "emergency", "snapshot", "leadCloses", "leadPick", "close", "remove",
   "run", "copy", "emit", "volume", "signal", "approve", "approveBook", "place",
   "open", "insert", "exit", "exitStop", "exitTake"}

Idle == [pc |-> "idle", rounds |-> 0, pending |-> <<>>, price |-> 0, order |-> 0,
         closing |-> {}, resume |-> "run"]

At(t, label) == thread[t].pc = label
Become(t, local) == thread' = [thread EXCEPT ![t] = local]
Goto(t, label) == Become(t, [thread[t] EXCEPT !.pc = label])
Begin(t, label, rounds) == Become(t, [Idle EXCEPT !.pc = label, !.rounds = rounds])

\* An exception leaves the handler at once; the state written so far stays.
Abort(t) == Become(t, Idle)

\* The signal is not taken off the queue.
FaultyNextSignal(t) == Goto(t, "signal")

\* The handler is done with the first pending signal.
NextSignal(t) ==
  Become(t, [thread[t] EXCEPT !.pc = "signal", !.pending = Tail(@)])

\* The handler calls close_position for each of set, then goes on at resume.
CloseAll(t, set, resume) ==
  Become(t, [thread[t] EXCEPT !.pc = IF set = {} THEN resume ELSE "close",
                              !.closing = set,
                              !.resume = IF set = {} THEN "run" ELSE resume])

Init ==
  /\ botState = "RUNNING"
  /\ strategyState = [s \in Strategies |-> "RUNNING"]
  /\ scenario = "NORMAL_MARKET"
  /\ apiConnected = TRUE
  /\ signals = <<>>
  /\ orders = <<>>
  /\ positions = {}
  /\ closedTrades = <<>>
  /\ opened = 0
  /\ dailyPnl = 4218
  /\ thread = [t \in Threads |-> Idle]

-----------------------------------------------------------------------------
(* Requests.  Every handler ends with dashboard_snapshot, which itself     *)
(* calls run_once; rounds counts the calls of run_once still to come.      *)

MayAccept(t) == At(t, "idle") /\ Len(signals) < MaxSignals

ApplyScenario(t, s) ==
  /\ MayAccept(t)
  /\ scenario' = s
  /\ apiConnected' = (s # "API_CONNECTION_FAILURE")
  /\ Begin(t, CASE s = "EMERGENCY_STOP" -> "emergency"
                [] s = "LEAD_TRADER_CLOSES_POSITION" -> "leadCloses"
                [] OTHER -> "run", 2)
  /\ UNCHANGED <<botState, strategyState, signals, orders, book>>

Start(t) ==
  /\ "start" \in Controls
  /\ MayAccept(t)
  /\ botState' = "RUNNING"
  /\ Begin(t, "run", 1)
  /\ UNCHANGED <<strategyState, scenario, apiConnected, signals, orders, book>>

Stop(t) ==
  /\ "stop" \in Controls
  /\ At(t, "idle")
  /\ botState' = "STOPPED"
  /\ Begin(t, "run", 1)
  /\ UNCHANGED <<strategyState, scenario, apiConnected, signals, orders, book>>

SetStrategyState(t, strategy, state) ==
  /\ MayAccept(t)
  /\ strategyState' = [strategyState EXCEPT ![strategy] = state]
  /\ Begin(t, "run", 1)
  /\ UNCHANGED <<botState, scenario, apiConnected, signals, orders, book>>

PauseStrategy(t, strategy) == "pause" \in Controls /\ SetStrategyState(t, strategy, "PAUSED")
ResumeStrategy(t, strategy) == "resume" \in Controls /\ SetStrategyState(t, strategy, "RUNNING")

\* POST /emergency-close-all
EmergencyCloseAll(t) ==
  /\ "emergency" \in Controls
  /\ At(t, "idle")
  /\ Begin(t, "emergency", 1)
  /\ UNCHANGED <<settings, signals, orders, book>>

DashboardSnapshot(t) ==
  /\ "dashboard" \in Controls
  /\ MayAccept(t)
  /\ Begin(t, "run", 1)
  /\ UNCHANGED <<settings, signals, orders, book>>

Request(t) ==
  \/ \E s \in Scenarios : ApplyScenario(t, s)
  \/ Start(t)
  \/ Stop(t)
  \/ \E s \in Strategies : PauseStrategy(t, s) \/ ResumeStrategy(t, s)
  \/ EmergencyCloseAll(t)
  \/ DashboardSnapshot(t)

-----------------------------------------------------------------------------
(* emergency_stop, the lead-trader close and close_position.               *)

EmergencyStop(t) ==
  /\ At(t, "emergency")
  /\ botState' = "EMERGENCY_STOPPED"
  /\ Goto(t, "snapshot")
  /\ UNCHANGED <<strategyState, scenario, apiConnected, signals, orders, book>>

\* Only the front of the list is closed.
FaultySnapshotPositions(t) ==
  /\ At(t, "snapshot")
  /\ CloseAll(t, IF positions = {} THEN {} ELSE {Newest(positions)}, "run")
  /\ UNCHANGED <<settings, signals, orders, book>>

\* for position in list(self.state.positions)
SnapshotPositions(t) ==
  /\ At(t, "snapshot")
  /\ CloseAll(t, positions, "run")
  /\ UNCHANGED <<settings, signals, orders, book>>

\* "... and self.state.positions": with no open position the scenario runs
\* the engine like any other.
LeadCloses(t) ==
  /\ At(t, "leadCloses")
  /\ IF positions = {}
     THEN Goto(t, "run")
     ELSE Become(t, [thread[t] EXCEPT !.pc = "leadPick", !.rounds = 1])
  /\ UNCHANGED <<settings, signals, orders, book>>

\* self.state.positions[0] raises IndexError when the list was emptied meanwhile.
LeadPick(t) ==
  /\ At(t, "leadPick")
  /\ IF positions = {}
     THEN Abort(t)
     ELSE CloseAll(t, {Newest(positions)}, "run")
  /\ UNCHANGED <<settings, signals, orders, book>>

\* close_position searches a copy of the list, and returns None if the id is not in it.
ClosePosition(t) ==
  /\ At(t, "close")
  /\ LET p == Newest(thread[t].closing)
     IN IF p \in positions
        THEN Goto(t, "remove")
        ELSE CloseAll(t, thread[t].closing \ {p}, thread[t].resume)
  /\ UNCHANGED <<settings, signals, orders, book>>

\* The position is closed again when another thread removed it first.
FaultyRemovePosition(t) ==
  /\ At(t, "remove")
  /\ LET p == Newest(thread[t].closing)
     IN /\ positions' = positions \ {p}
        /\ dailyPnl' = dailyPnl + UnrealizedPnl(p)
        /\ closedTrades' = Append(closedTrades, p)
        /\ CloseAll(t, thread[t].closing \ {p}, thread[t].resume)
  /\ UNCHANGED <<settings, signals, orders, opened>>

\* positions.remove raises ValueError when another thread removed it first.
RemovePosition(t) ==
  /\ At(t, "remove")
  /\ LET p == Newest(thread[t].closing)
     IN IF p \in positions
        THEN /\ positions' = positions \ {p}
             /\ dailyPnl' = dailyPnl + UnrealizedPnl(p)
             /\ closedTrades' = Append(closedTrades, p)
             /\ CloseAll(t, thread[t].closing \ {p}, thread[t].resume)
        ELSE /\ Abort(t)
             /\ UNCHANGED <<positions, dailyPnl, closedTrades>>
  /\ UNCHANGED <<settings, signals, orders, opened>>

-----------------------------------------------------------------------------
(* run_once.                                                               *)

\* The loop over the remaining calls; after the last one the handler replies.
RunOnce(t) ==
  /\ At(t, "run")
  /\ thread[t].rounds > 0
  /\ Become(t, [thread[t] EXCEPT !.pc = IF botState = "RUNNING" THEN "copy" ELSE "run",
                                 !.rounds = @ - 1])
  /\ UNCHANGED <<settings, signals, orders, book>>

\* The rest of dashboard_snapshot serializes the state, the configuration, the balance and
\* the reports: it reads and changes nothing.
Reply(t) ==
  /\ At(t, "run")
  /\ thread[t].rounds = 0
  /\ Become(t, Idle)
  /\ UNCHANGED <<settings, signals, orders, book>>

NextCopySignal(t) ==
  /\ At(t, "copy")
  /\ Goto(t, IF scenario \in CopyScenarios /\ strategyState["COPY"] # "PAUSED"
             THEN "emit" ELSE "volume")
  /\ UNCHANGED <<settings, signals, orders, book>>

\* The scenario is taken for a copy signal whatever it has become.
FaultyEmitCopySignal(t) ==
  /\ At(t, "emit")
  /\ Become(t, [thread[t] EXCEPT !.pc = "volume", !.pending = <<scenario>>])
  /\ UNCHANGED <<settings, signals, orders, book>>

\* mapping[self.state.scenario] reads the scenario again: KeyError if it changed.
EmitCopySignal(t) ==
  /\ At(t, "emit")
  /\ IF scenario \in CopyScenarios
     THEN Become(t, [thread[t] EXCEPT !.pc = "volume", !.pending = <<scenario>>])
     ELSE Abort(t)
  /\ UNCHANGED <<settings, signals, orders, book>>

\* VolumeMomentumEngine.evaluate; a breakout scenario always shows a volume spike.
Evaluate(t) ==
  LET active == strategyState["VOLUME"] # "PAUSED"
      found  == IF active /\ scenario \in BreakoutScenarios THEN <<scenario>> ELSE <<>>
  IN  /\ At(t, "volume")
      /\ Become(t, [thread[t] EXCEPT !.pc = "signal", !.pending = @ \o found])
      /\ UNCHANGED <<settings, signals, orders, book>>

EndOfSignals(t) ==
  /\ At(t, "signal")
  /\ thread[t].pending = <<>>
  /\ Goto(t, "exit")
  /\ UNCHANGED <<settings, signals, orders, book>>

\* A duplicate is dropped; otherwise the executor starts by reading the price.
CheckDuplicate(t) ==
  /\ At(t, "signal")
  /\ thread[t].pending # <<>>
  /\ IF IsDuplicateSignal(Head(thread[t].pending))
     THEN NextSignal(t)
     ELSE Become(t, [thread[t] EXCEPT !.pc = "approve", !.price = Price(scenario)])
  /\ UNCHANGED <<settings, signals, orders, book>>

\* A rejected signal is recorded like an accepted one and then dropped.
Reject(t) ==
  /\ signals' = Append(signals, Head(thread[t].pending))
  /\ NextSignal(t)

\* The first three checks of SharedRiskManager.approve.
ApproveState(t) ==
  /\ At(t, "approve")
  /\ \/ /\ botState = "EMERGENCY_STOPPED"
        /\ Reject(t)
        /\ UNCHANGED apiConnected
     \/ /\ botState # "EMERGENCY_STOPPED"
        /\ scenario = "API_CONNECTION_FAILURE"
        /\ apiConnected' = FALSE
        /\ Reject(t)
     \/ /\ botState # "EMERGENCY_STOPPED"
        /\ scenario # "API_CONNECTION_FAILURE"
        /\ UNCHANGED apiConnected
        /\ IF dailyPnl <= -MaxDailyLoss \/ scenario = "DAILY_LOSS_LIMIT_HIT"
           THEN Reject(t)
           ELSE Goto(t, "approveBook") /\ UNCHANGED signals
  /\ UNCHANGED <<botState, strategyState, scenario, orders, book>>

Conflicts(sig) == \E p \in positions : p.side # SideOf(sig)

FaultyLimitReached == Cardinality(positions) > MaxOpenPositions
LimitReached == Cardinality(positions) >= MaxOpenPositions

\* The checks against the open positions, then signals.insert.
ApproveBook(t) ==
  LET sig == Head(thread[t].pending)
  IN  /\ At(t, "approveBook")
      /\ IF \/ LimitReached
            \/ thread[t].price * Quantity(StrategyOf(sig)) > MaxPositionSize
            \/ Conflicts(sig)
         THEN Reject(t)
         ELSE signals' = Append(signals, sig) /\ Goto(t, "place")
      /\ UNCHANGED <<settings, orders, book>>

\* A rejected order is turned into a position too.
FaultyPlaceOrder(t) ==
  /\ At(t, "place")
  /\ orders' = Append(orders, [signal |-> Head(thread[t].pending),
                               price |-> thread[t].price,
                               status |-> IF scenario = "ORDER_REJECTION" THEN "REJECTED" ELSE "FILLED"])
  /\ Become(t, [thread[t] EXCEPT !.pc = "open", !.order = Len(orders) + 1])
  /\ UNCHANGED <<settings, signals, book>>

\* MockExchangeAdapter.place_order; open_from_order ignores an order that is not FILLED.
PlaceOrder(t) ==
  LET rejected == scenario = "ORDER_REJECTION"
  IN  /\ At(t, "place")
      /\ orders' = Append(orders, [signal |-> Head(thread[t].pending),
                                   price |-> thread[t].price,
                                   status |-> IF rejected THEN "REJECTED" ELSE "FILLED"])
      /\ IF rejected
         THEN NextSignal(t)
         ELSE Become(t, [thread[t] EXCEPT !.pc = "open", !.order = Len(orders) + 1])
      /\ UNCHANGED <<settings, signals, book>>

\* The strategy's open position is not looked for.
FaultyCheckPosition(t) ==
  /\ At(t, "open")
  /\ Goto(t, "insert")
  /\ UNCHANGED <<settings, signals, orders, book>>

\* open_from_order returns None when the strategy already holds a position.
CheckPosition(t) ==
  /\ At(t, "open")
  /\ IF \E p \in positions : p.strategy = StrategyOf(orders[thread[t].order].signal)
     THEN NextSignal(t)
     ELSE Goto(t, "insert")
  /\ UNCHANGED <<settings, signals, orders, book>>

NewPosition(n) ==
  [id |-> opened + 1, order |-> n, strategy |-> StrategyOf(orders[n].signal),
   side |-> SideOf(orders[n].signal), entry |-> orders[n].price, mark |-> orders[n].price]

InsertPosition(t) ==
  /\ At(t, "insert")
  /\ positions' = positions \cup {NewPosition(thread[t].order)}
  /\ opened' = opened + 1
  /\ NextSignal(t)
  /\ UNCHANGED <<settings, signals, orders, closedTrades, dailyPnl>>

\* _apply_mock_exit_scenarios: three separate reads of the shared state.
ExitGate(t) ==
  /\ At(t, "exit")
  /\ Goto(t, IF positions = {} THEN "run" ELSE "exitStop")
  /\ UNCHANGED <<settings, signals, orders, book>>

\* Closes positions[0] when the scenario asks for it; IndexError on an empty list.
ExitOn(t, s, resume) ==
  /\ \/ scenario # s /\ Goto(t, resume)
     \/ scenario = s /\ positions = {} /\ Abort(t)
     \/ scenario = s /\ positions # {} /\ CloseAll(t, {Newest(positions)}, resume)
  /\ UNCHANGED <<settings, signals, orders, book>>

ExitStopLoss(t) == At(t, "exitStop") /\ ExitOn(t, "STOP_LOSS_HIT", "exitTake")
ExitTakeProfit(t) == At(t, "exitTake") /\ ExitOn(t, "TAKE_PROFIT_HIT", "run")

-----------------------------------------------------------------------------

Step(t) ==
  \/ EmergencyStop(t) \/ SnapshotPositions(t) \/ LeadCloses(t) \/ LeadPick(t)
  \/ ClosePosition(t) \/ RemovePosition(t)
  \/ RunOnce(t) \/ Reply(t) \/ NextCopySignal(t) \/ EmitCopySignal(t) \/ Evaluate(t)
  \/ EndOfSignals(t) \/ CheckDuplicate(t) \/ ApproveState(t) \/ ApproveBook(t)
  \/ PlaceOrder(t) \/ CheckPosition(t) \/ InsertPosition(t)
  \/ ExitGate(t) \/ ExitStopLoss(t) \/ ExitTakeProfit(t)

Next == \E t \in Threads : Request(t) \/ Step(t)

Spec == Init /\ [][Next]_vars

\* A handler that has started is run to its end by the thread pool.
Fairness == \A t \in Threads : WF_vars(Step(t))

FairSpec == Spec /\ Fairness

-----------------------------------------------------------------------------
(* Properties.                                                             *)

Position ==
  [id : Nat \ {0}, order : Nat \ {0}, strategy : Strategies, side : {"BUY", "SELL"},
   entry : Int, mark : Int]
Order == [signal : Signals, price : Int, status : {"FILLED", "REJECTED"}]
HandlerState ==
  [pc : Labels, rounds : 0..2, pending : Seq(Signals), price : Int, order : Nat,
   closing : SUBSET Position, resume : {"run", "exitTake"}]

\* The shared state and the handlers' local state keep their types.
TypeOK ==
  /\ botState \in {"RUNNING", "STOPPED", "EMERGENCY_STOPPED"}
  /\ strategyState \in [Strategies -> {"RUNNING", "PAUSED"}]
  /\ scenario \in AllScenarios
  /\ apiConnected \in BOOLEAN
  /\ signals \in Seq(Signals)
  /\ orders \in Seq(Order)
  /\ positions \in SUBSET Position
  /\ closedTrades \in Seq(Position)
  /\ opened \in Nat
  /\ dailyPnl \in Int
  /\ thread \in [Threads -> HandlerState]

Quiet == \A t \in Threads : At(t, "idle")
Closed == {closedTrades[i] : i \in 1..Len(closedTrades)}

\* Every position, open or closed, comes from a filled order of its own: no
\* order is turned into two positions, whatever the handlers interleave
\* (place_order and open_from_order).
PositionsBackedByOrders ==
  /\ \A p \in positions \cup Closed :
       /\ p.order \in 1..Len(orders)
       /\ orders[p.order].status = "FILLED"
       /\ p.side = SideOf(orders[p.order].signal)
  /\ \A p, q \in positions \cup Closed : p.order = q.order => p = q

\* A position is closed at most once and is never open again, although
\* emergency close-all, exits and lead-trader closes race on the same list
\* (close_position).
ClosedOnce ==
  /\ Closed \cap positions = {}
  /\ \A i, j \in 1..Len(closedTrades) : closedTrades[i].id = closedTrades[j].id => i = j

\* Between the check of len(positions) and the insertion every other handler
\* may pass the same check, so max_open_positions can be exceeded, but by no
\* more than one position per other thread (approve, open_from_order).
ExposureBound == Cardinality(positions) <= MaxOpenPositions + Cardinality(Threads) - 1

\* Once every handler has replied, an emergency-stopped engine holds no position
\* (emergency_stop).
EmergencyMeansFlat == Quiet /\ botState = "EMERGENCY_STOPPED" => positions = {}

\* Sequentially the window of five signals never forgets: a signal, executed or
\* rejected, is not executed again for the life of the process, through pauses,
\* stops and restarts (_is_duplicate_signal, execute).
SignalsNeverRepeat ==
  \A i, j \in 1..Len(signals) : signals[i] = signals[j] => i = j

\* Closing a position never moves the daily P&L, since a position stays marked at
\* its entry: the daily-loss limit cannot be reached by trading.
RealizedPnlNeverMoves == dailyPnl = 4218

\* Every request is answered, with a snapshot or an error.
RequestsTerminate == \A t \in Threads : ~At(t, "idle") ~> At(t, "idle")

-----------------------------------------------------------------------------
(* The book the operator sees.  A strategy holds the side of its position;  *)
(* the abstract book knows no way to hold several.                         *)

HeldSide(s) ==
  LET held == {p \in positions : p.strategy = s}
  IN  CASE held = {} -> "NONE"
        [] Cardinality(held) = 1 -> (CHOOSE p \in held : TRUE).side
        [] OTHER -> "SEVERAL"

Book == INSTANCE PositionBook WITH
          Sides <- {"BUY", "SELL"},
          mode <- botState,
          held <- [s \in Strategies |-> HeldSide(s)]

\* With one handler at a time the engine implements the abstract book: at most
\* one position per strategy, one side, openings only while RUNNING, and an
\* emergency stop that empties the book before anything else happens.
ImplementsBook == Book!BookSpec

=============================================================================
