----------------------- MODULE TradingPlatform_proofs -----------------------
(***************************************************************************)
(* Theorems about the trading engine, for every set of handler threads,    *)
(* every choice of scenarios and controls and every configured limit.      *)
(*                                                                         *)
(* HandlerInv says what a handler carries at each of its steps, so that no *)
(* step reads the head of an empty queue or an order that does not exist.  *)
(* LedgerInv relates orders, positions and closed trades.  SlotInv counts  *)
(* the handlers between the check of the position limit and the insertion. *)
(***************************************************************************)
EXTENDS TradingPlatform, FiniteSetTheorems, WellFoundedInduction, TLAPS

-----------------------------------------------------------------------------
(* The front of the position list.                                         *)

\* A nonempty set of naturals has a least element.
LEMMA LeastNatural ==
  ASSUME NEW S \in SUBSET Nat, S # {}
  PROVE  \E x \in S : \A y \in S : x <= y
<1> DEFINE R == OpToRel(<, Nat)
<1>1. IsWellFoundedOn(R, Nat)
  BY NatLessThanWellFounded
<1>2. PICK x \in S : \A y \in S : ~ (<<y, x>> \in R)
  <2> HIDE DEF R
  <2> QED BY <1>1, WFMin
<1>3. \A y \in S : ~ (y < x)
  BY <1>2 DEF OpToRel
<1> QED BY <1>3

\* positions[0] exists in a nonempty book whose identifiers are bounded.
LEMMA NewestIsMember ==
  ASSUME NEW S, NEW n \in Nat, S # {}, \A p \in S : p.id \in Nat /\ p.id <= n
  PROVE  Newest(S) \in S
<1> DEFINE D == {n - p.id : p \in S}
<1>1. D \in SUBSET Nat /\ D # {}
  OBVIOUS
<1>2. PICK d \in D : \A e \in D : d <= e
  <2> HIDE DEF D
  <2> QED BY <1>1, LeastNatural
<1>3. PICK p \in S : d = n - p.id
  BY <1>2
<1>4. \A q \in S : n - p.id <= n - q.id
  BY <1>2, <1>3
<1>5. \A q \in S : q.id <= p.id
  BY <1>3, <1>4
<1> QED BY <1>5 DEF Newest

-----------------------------------------------------------------------------
(* Types, and what a handler carries.                                      *)

CarriesSignal(t) == thread[t].pc \in {"approve", "approveBook", "place", "open", "insert"}
CarriesOrder(t) == thread[t].pc \in {"open", "insert"}

\* The part of TypeOK about the state the handlers share.
SharedOK ==
  /\ botState \in {"RUNNING", "STOPPED", "EMERGENCY_STOPPED"}
  /\ strategyState \in [Strategies -> {"RUNNING", "PAUSED"}]
  /\ scenario \in AllScenarios
  /\ apiConnected \in BOOLEAN
  /\ signals \in Seq(Signals)
  /\ orders \in Seq(Order)
  /\ positions \in SUBSET Position
  /\ closedTrades \in Seq(Position)
  /\ opened \in Nat
  /\ dailyPnl \in Int
  /\ \A p \in positions : p.id <= opened

HandlerInv ==
  /\ TypeOK
  /\ \A t \in Threads : CarriesSignal(t) => thread[t].pending # <<>>
  /\ \A t \in Threads : CarriesOrder(t) => thread[t].order \in 1..Len(orders)
  /\ \A p \in positions : p.id <= opened

LEMMA IdleType == Idle \in HandlerState
  BY DEF Idle, HandlerState, Labels

LEMMA SignalFacts ==
  /\ \A s \in Signals : StrategyOf(s) \in Strategies /\ SideOf(s) \in {"BUY", "SELL"}
  /\ \A s \in AllScenarios : Price(s) \in Int
  /\ Signals \subseteq AllScenarios
  BY DEF Signals, CopyScenarios, BreakoutScenarios, StrategyOf, Strategies, SideOf, AllScenarios, Price

LEMMA PnlType == \A p \in Position : UnrealizedPnl(p) \in Int
<1> SUFFICES ASSUME NEW p \in Position PROVE UnrealizedPnl(p) \in Int
  OBVIOUS
<1>1. p.mark - p.entry \in Int /\ Quantity(p.strategy) \in Int
  BY DEF Position, Quantity
<1> QED BY <1>1 DEF UnrealizedPnl

LEMMA HandlerInit == Init => HandlerInv
  BY IdleType DEF Init, HandlerInv, TypeOK, AllScenarios, Strategies, Idle, CarriesSignal, CarriesOrder

\* What a handler's local state h must satisfy when n orders have been placed.
WellFormed(h, n) ==
  /\ h \in HandlerState
  /\ h.pc \in {"approve", "approveBook", "place", "open", "insert"} => h.pending # <<>>
  /\ h.pc \in {"open", "insert"} => h.order \in 1..n

\* A handler that becomes a well-formed h keeps the invariant, if the step keeps
\* the types of the shared state and removes no order.
LEMMA HandlerMove ==
  ASSUME HandlerInv, NEW t \in Threads, NEW h, Become(t, h),
         WellFormed(h, Len(orders')), SharedOK', Len(orders) <= Len(orders')
  PROVE  HandlerInv'
<1>1. thread \in [Threads -> HandlerState] /\ h \in HandlerState
  BY DEF HandlerInv, TypeOK, WellFormed
<1>2. thread' = [thread EXCEPT ![t] = h]
  BY DEF Become
<1>3. thread' \in [Threads -> HandlerState]
  BY <1>1, <1>2
<1>4. \A u \in Threads : thread'[u] = IF u = t THEN h ELSE thread[u]
  BY <1>1, <1>2
<1>5. TypeOK'
  BY <1>3 DEF SharedOK, TypeOK
<1>6. \A u \in Threads : CarriesSignal(u)' => thread'[u].pending # <<>>
  BY <1>4 DEF HandlerInv, WellFormed, CarriesSignal
<1>7. Len(orders) \in Nat /\ Len(orders') \in Nat
  BY <1>5 DEF HandlerInv, TypeOK
<1>8. \A u \in Threads : CarriesOrder(u)' => thread'[u].order \in 1..Len(orders')
  BY <1>4, <1>7 DEF HandlerInv, WellFormed, CarriesOrder
<1> QED
  BY <1>5, <1>6, <1>8 DEF HandlerInv, SharedOK

\* The shared state has its types, and a step that leaves it alone keeps them.
LEMMA SharedFacts ==
  /\ HandlerInv => SharedOK
  /\ HandlerInv /\ UNCHANGED <<settings, signals, orders, book>> => SharedOK' /\ orders' = orders
  BY DEF HandlerInv, TypeOK, SharedOK, settings, book

\* A handler that only moves.
LEMMA LocalMove ==
  ASSUME HandlerInv, NEW t \in Threads, NEW h, Become(t, h), WellFormed(h, Len(orders)),
         UNCHANGED <<settings, signals, orders, book>>
  PROVE  HandlerInv'
<1>1. SharedOK' /\ orders' = orders
  BY SharedFacts
<1>2. Len(orders) <= Len(orders')
  BY <1>1 DEF HandlerInv, TypeOK
<1> QED BY <1>1, <1>2, HandlerMove

\* Going to a step that carries nothing keeps a handler well-formed.
PlainLabels == Labels \ {"approve", "approveBook", "place", "open", "insert"}

LEMMA PlainGoto ==
  ASSUME HandlerInv, NEW t \in Threads, NEW l \in PlainLabels, NEW n
  PROVE  WellFormed([thread[t] EXCEPT !.pc = l], n)
<1>1. thread[t] \in HandlerState
  BY DEF HandlerInv, TypeOK
<1> QED BY <1>1 DEF PlainLabels, Labels, WellFormed, HandlerState

LEMMA MoveWithRounds ==
  ASSUME HandlerInv, NEW t \in Threads, NEW l \in PlainLabels, NEW r \in 0..2, NEW n
  PROVE  WellFormed([thread[t] EXCEPT !.pc = l, !.rounds = r], n)
<1> DEFINE h == [thread[t] EXCEPT !.pc = l, !.rounds = r]
<1>1. thread[t] \in HandlerState
  BY DEF HandlerInv, TypeOK
<1>2. l \in Labels
  BY DEF PlainLabels
<1>3. h \in HandlerState /\ h.pc = l
  BY <1>1, <1>2 DEF HandlerState
<1> HIDE DEF h
<1>4. WellFormed(h, n)
  BY <1>3 DEF WellFormed, PlainLabels
<1> QED BY <1>4 DEF h

LEMMA IdleWellFormed ==
  ASSUME NEW n, NEW l \in PlainLabels, NEW r \in 0..2
  PROVE  /\ WellFormed(Idle, n)
         /\ WellFormed([Idle EXCEPT !.pc = l, !.rounds = r], n)
<1>1. WellFormed(Idle, n)
  BY IdleType DEF WellFormed, Idle
<1>2. [Idle EXCEPT !.pc = l, !.rounds = r] \in HandlerState
  BY IdleType DEF PlainLabels, HandlerState
<1>3. [Idle EXCEPT !.pc = l, !.rounds = r].pc = l
  BY DEF Idle
<1> QED BY <1>1, <1>2, <1>3 DEF WellFormed, PlainLabels

LEMMA CloseAllWellFormed ==
  ASSUME HandlerInv, NEW t \in Threads, NEW set \in SUBSET Position,
         NEW resume \in {"run", "exitTake"}, NEW n
  PROVE  WellFormed([thread[t] EXCEPT !.pc = IF set = {} THEN resume ELSE "close",
                       !.closing = set, !.resume = IF set = {} THEN "run" ELSE resume], n)
<1>1. thread[t] \in HandlerState
  BY DEF HandlerInv, TypeOK
<1> QED BY <1>1 DEF Labels, WellFormed, HandlerState

LEMMA NextSignalWellFormed ==
  ASSUME HandlerInv, NEW t \in Threads, thread[t].pending # <<>>, NEW n
  PROVE  WellFormed([thread[t] EXCEPT !.pc = "signal", !.pending = Tail(@)], n)
<1>1. thread[t] \in HandlerState
  BY DEF HandlerInv, TypeOK
<1> DEFINE rest == Tail(thread[t].pending)
<1>2. rest \in Seq(Signals)
  BY <1>1 DEF HandlerState
<1> HIDE DEF rest
<1>3. WellFormed([thread[t] EXCEPT !.pc = "signal", !.pending = rest], n)
  BY <1>1, <1>2 DEF Labels, WellFormed, HandlerState
<1> QED BY <1>3 DEF rest

-----------------------------------------------------------------------------
(* Every step keeps HandlerInv.                                            *)

LEMMA RequestKeepsHandlerInv ==
  ASSUME HandlerInv, NEW t \in Threads, Request(t)
  PROVE  HandlerInv'
<1> USE SharedFacts DEF PlainLabels, Labels, Begin
<1>1. ASSUME NEW s \in Scenarios, ApplyScenario(t, s) PROVE HandlerInv'
  <2> DEFINE l == CASE s = "EMERGENCY_STOP" -> "emergency"
                    [] s = "LEAD_TRADER_CLOSES_POSITION" -> "leadCloses"
                    [] OTHER -> "run"
  <2>1. l \in PlainLabels
    OBVIOUS
  <2>2. SharedOK' /\ orders' = orders
    BY <1>1, RequestsAssumption DEF ApplyScenario, SharedOK, book
  <2>3. Become(t, [Idle EXCEPT !.pc = l, !.rounds = 2])
    BY <1>1 DEF ApplyScenario
  <2> HIDE DEF l
  <2>4. WellFormed([Idle EXCEPT !.pc = l, !.rounds = 2], Len(orders'))
    <3>1. 2 \in 0..2
      OBVIOUS
    <3> QED BY <2>1, <3>1, IdleWellFormed, Zenon
  <2> QED BY <2>2, <2>3, <2>4, HandlerMove DEF HandlerInv, TypeOK
<1>a. "run" \in PlainLabels /\ "emergency" \in PlainLabels /\ 1 \in 0..2
  OBVIOUS
<1>2. WellFormed([Idle EXCEPT !.pc = "run", !.rounds = 1], Len(orders))
  BY <1>a, IdleWellFormed, Zenon
<1>3. WellFormed([Idle EXCEPT !.pc = "emergency", !.rounds = 1], Len(orders))
  BY <1>a, IdleWellFormed, Zenon
<1>4. Len(orders) <= Len(orders)
  BY DEF HandlerInv, TypeOK
<1>5. CASE Start(t)
  <2>1. SharedOK' /\ orders' = orders
    BY <1>5 DEF Start, SharedOK, book
  <2> QED BY <1>2, <1>4, <1>5, <2>1, HandlerMove DEF Start
<1>6. CASE Stop(t)
  <2>1. SharedOK' /\ orders' = orders
    BY <1>6 DEF Stop, SharedOK, book
  <2> QED BY <1>2, <1>4, <1>6, <2>1, HandlerMove DEF Stop
<1>7. ASSUME NEW s \in Strategies, PauseStrategy(t, s) \/ ResumeStrategy(t, s) PROVE HandlerInv'
  <2>1. PICK m \in {"PAUSED", "RUNNING"} : SetStrategyState(t, s, m)
    BY <1>7 DEF PauseStrategy, ResumeStrategy
  <2>2. SharedOK' /\ orders' = orders
    BY <2>1 DEF SetStrategyState, SharedOK, book
  <2> QED BY <1>2, <1>4, <2>1, <2>2, HandlerMove DEF SetStrategyState
<1>8. CASE EmergencyCloseAll(t)
  BY <1>3, <1>8, LocalMove DEF EmergencyCloseAll
<1>9. CASE DashboardSnapshot(t)
  BY <1>2, <1>9, LocalMove DEF DashboardSnapshot
<1> QED BY <1>1, <1>5, <1>6, <1>7, <1>8, <1>9 DEF Request

\* The front of the book may be handed to close_position.
LEMMA NewestType ==
  ASSUME HandlerInv, positions # {}
  PROVE  {Newest(positions)} \in SUBSET Position
<1>1. \A p \in positions : p.id \in Nat /\ p.id <= opened
  BY DEF HandlerInv, TypeOK, Position
<1>2. Newest(positions) \in positions
  BY <1>1, NewestIsMember DEF HandlerInv, TypeOK
<1> QED BY <1>2 DEF HandlerInv, TypeOK

LEMMA CloseKeepsHandlerInv ==
  ASSUME HandlerInv, NEW t \in Threads,
         \/ EmergencyStop(t) \/ SnapshotPositions(t) \/ LeadCloses(t) \/ LeadPick(t)
         \/ ClosePosition(t) \/ RemovePosition(t)
  PROVE  HandlerInv'
<1>1. thread[t] \in HandlerState
  BY DEF HandlerInv, TypeOK
<1>2. "snapshot" \in PlainLabels /\ "run" \in PlainLabels /\ "leadPick" \in PlainLabels
      /\ "close" \in PlainLabels /\ "remove" \in PlainLabels
  BY DEF PlainLabels, Labels
<1>3. CASE EmergencyStop(t)
  <2>1. SharedOK' /\ orders' = orders
    BY <1>3, SharedFacts DEF EmergencyStop, SharedOK, book
  <2>2. Len(orders) <= Len(orders')
    BY <2>1 DEF HandlerInv, TypeOK
  <2>3. WellFormed([thread[t] EXCEPT !.pc = "snapshot"], Len(orders'))
    BY <1>2, PlainGoto
  <2> QED BY <1>3, <2>1, <2>2, <2>3, HandlerMove DEF EmergencyStop, Goto
<1>4. CASE SnapshotPositions(t)
  <2>1. positions \in SUBSET Position
    BY DEF HandlerInv, TypeOK
  <2> QED BY <1>4, <2>1, CloseAllWellFormed, LocalMove DEF SnapshotPositions, CloseAll
<1>5. CASE LeadCloses(t)
  <2>1. WellFormed([thread[t] EXCEPT !.pc = "run"], Len(orders))
    BY <1>2, PlainGoto
  <2>2. WellFormed([thread[t] EXCEPT !.pc = "leadPick", !.rounds = 1], Len(orders))
    <3>1. 1 \in 0..2
      OBVIOUS
    <3> QED BY <1>2, <3>1, MoveWithRounds, Zenon
  <2>3. CASE positions = {}
    BY <1>5, <2>1, <2>3, LocalMove DEF LeadCloses, Goto
  <2>4. CASE positions # {}
    BY <1>5, <2>2, <2>4, LocalMove DEF LeadCloses
  <2> QED BY <2>3, <2>4
<1>6. CASE LeadPick(t)
  <2>1. CASE positions = {}
    <3>1. WellFormed(Idle, Len(orders))
      BY IdleType DEF WellFormed, Idle
    <3> QED BY <1>6, <2>1, <3>1, LocalMove DEF LeadPick, Abort
  <2>2. CASE positions # {}
    <3>1. {Newest(positions)} \in SUBSET Position
      BY <2>2, NewestType
    <3>2. CloseAll(t, {Newest(positions)}, "run")
      BY <1>6, <2>2 DEF LeadPick
    <3> QED BY <1>6, <3>1, <3>2, CloseAllWellFormed, LocalMove DEF LeadPick, CloseAll
  <2> QED BY <2>1, <2>2
<1>7. CASE ClosePosition(t)
  <2> DEFINE p == Newest(thread[t].closing)
  <2>1. thread[t].closing \ {p} \in SUBSET Position /\ thread[t].resume \in {"run", "exitTake"}
    BY <1>1 DEF HandlerState
  <2>2. CASE p \in positions
    <3>1. WellFormed([thread[t] EXCEPT !.pc = "remove"], Len(orders))
      BY <1>2, PlainGoto
    <3> QED BY <1>7, <2>2, <3>1, LocalMove DEF ClosePosition, Goto
  <2>3. CASE p \notin positions
    BY <1>7, <2>1, <2>3, CloseAllWellFormed, LocalMove DEF ClosePosition, CloseAll
  <2> QED BY <2>2, <2>3
<1>8. CASE RemovePosition(t)
  <2> DEFINE p == Newest(thread[t].closing)
  <2>1. thread[t].closing \ {p} \in SUBSET Position /\ thread[t].resume \in {"run", "exitTake"}
    BY <1>1 DEF HandlerState
  <2>2. CASE p \in positions
    <3>1. UNCHANGED <<settings, signals, orders, opened>>
      BY <1>8 DEF RemovePosition
    <3>2. positions' = positions \ {p} /\ dailyPnl' = dailyPnl + UnrealizedPnl(p)
          /\ closedTrades' = Append(closedTrades, p)
      BY <1>8, <2>2 DEF RemovePosition
    <3>3. p \in Position /\ UnrealizedPnl(p) \in Int
      BY <2>2, PnlType DEF HandlerInv, TypeOK
    <3> HIDE DEF p
    <3>4. positions' \in SUBSET Position /\ dailyPnl' \in Int /\ closedTrades' \in Seq(Position)
      BY <3>2, <3>3 DEF HandlerInv, TypeOK
    <3>5. SharedOK'
      BY <3>1, <3>2, <3>4 DEF SharedOK, settings, HandlerInv, TypeOK
    <3>6. Len(orders) <= Len(orders')
      BY <3>1 DEF HandlerInv, TypeOK
    <3>7. CloseAll(t, thread[t].closing \ {p}, thread[t].resume)
      BY <1>8, <2>2 DEF RemovePosition, p
    <3> QED BY <2>1, <3>5, <3>6, <3>7, CloseAllWellFormed, HandlerMove DEF CloseAll
  <2>3. CASE p \notin positions
    <3>1. WellFormed(Idle, Len(orders))
      BY IdleType DEF WellFormed, Idle
    <3> QED BY <1>8, <2>3, <3>1, LocalMove DEF RemovePosition, Abort, book
  <2> QED BY <2>2, <2>3
<1> QED BY <1>3, <1>4, <1>5, <1>6, <1>7, <1>8

LEMMA SignalsKeepHandlerInv ==
  ASSUME HandlerInv, NEW t \in Threads,
         \/ RunOnce(t) \/ Reply(t) \/ NextCopySignal(t) \/ EmitCopySignal(t) \/ Evaluate(t)
         \/ EndOfSignals(t) \/ ExitGate(t) \/ ExitStopLoss(t) \/ ExitTakeProfit(t)
  PROVE  HandlerInv'
<1>1. thread[t] \in HandlerState /\ scenario \in AllScenarios
  BY DEF HandlerInv, TypeOK
<1>2. {"run", "copy", "emit", "volume", "signal", "exit", "exitStop", "exitTake"} \subseteq PlainLabels
  BY DEF PlainLabels, Labels
<1>3. WellFormed(Idle, Len(orders))
  BY IdleType DEF WellFormed, Idle
<1>4. CASE RunOnce(t)
  <2>1. thread[t].rounds - 1 \in 0..2
    BY <1>1, <1>4 DEF RunOnce, HandlerState
  <2> DEFINE l == IF botState = "RUNNING" THEN "copy" ELSE "run"
             r == thread[t].rounds - 1
  <2>2. l \in PlainLabels
    BY <1>2
  <2>3. Become(t, [thread[t] EXCEPT !.pc = l, !.rounds = r])
    BY <1>4 DEF RunOnce
  <2> HIDE DEF l, r
  <2>4. r \in 0..2
    BY <2>1 DEF r
  <2> QED BY <1>4, <2>2, <2>3, <2>4, MoveWithRounds, LocalMove DEF RunOnce
<1>5. CASE Reply(t)
  BY <1>3, <1>5, LocalMove DEF Reply
<1>6. CASE NextCopySignal(t)
  <2> DEFINE l == IF scenario \in CopyScenarios /\ strategyState["COPY"] # "PAUSED"
                  THEN "emit" ELSE "volume"
  <2>1. l \in PlainLabels
    BY <1>2
  <2>2. Become(t, [thread[t] EXCEPT !.pc = l])
    BY <1>6 DEF NextCopySignal, Goto
  <2> HIDE DEF l
  <2> QED BY <1>6, <2>1, <2>2, PlainGoto, LocalMove DEF NextCopySignal
<1>7. CASE EmitCopySignal(t)
  <2>1. CASE scenario \in CopyScenarios
    <3> DEFINE q == <<scenario>>
    <3>1. q \in Seq(Signals)
      BY <2>1 DEF Signals
    <3> HIDE DEF q
    <3>2. WellFormed([thread[t] EXCEPT !.pc = "volume", !.pending = q], Len(orders))
      BY <1>1, <3>1 DEF WellFormed, HandlerState, Labels
    <3> QED BY <1>7, <2>1, <3>2, LocalMove DEF EmitCopySignal, q
  <2>2. CASE scenario \notin CopyScenarios
    BY <1>3, <1>7, <2>2, LocalMove DEF EmitCopySignal, Abort
  <2> QED BY <2>1, <2>2
<1>8. CASE Evaluate(t)
  <2> DEFINE found == IF strategyState["VOLUME"] # "PAUSED" /\ scenario \in BreakoutScenarios
                      THEN <<scenario>> ELSE <<>>
             q == thread[t].pending \o found
  <2>1. found \in Seq(Signals)
    <3>1. <<>> \in Seq(Signals)
      OBVIOUS
    <3>2. scenario \in BreakoutScenarios => <<scenario>> \in Seq(Signals)
      BY DEF Signals
    <3> QED BY <3>1, <3>2
  <2>2. q \in Seq(Signals)
    BY <1>1, <2>1 DEF HandlerState
  <2>3. Become(t, [thread[t] EXCEPT !.pc = "signal", !.pending = q])
    BY <1>8 DEF Evaluate
  <2> HIDE DEF q
  <2>4. WellFormed([thread[t] EXCEPT !.pc = "signal", !.pending = q], Len(orders))
    BY <1>1, <2>2 DEF WellFormed, HandlerState, Labels
  <2> QED BY <1>8, <2>3, <2>4, LocalMove DEF Evaluate
<1>9. CASE EndOfSignals(t)
  BY <1>2, <1>9, PlainGoto, LocalMove DEF EndOfSignals, Goto
<1>10. CASE ExitGate(t)
  <2> DEFINE l == IF positions = {} THEN "run" ELSE "exitStop"
  <2>1. l \in PlainLabels
    BY <1>2
  <2>2. Become(t, [thread[t] EXCEPT !.pc = l])
    BY <1>10 DEF ExitGate, Goto
  <2> HIDE DEF l
  <2> QED BY <1>10, <2>1, <2>2, PlainGoto, LocalMove DEF ExitGate
<1>11. ASSUME NEW s, NEW resume \in {"run", "exitTake"}, ExitOn(t, s, resume)
       PROVE  HandlerInv'
  <2>0. UNCHANGED <<settings, signals, orders, book>>
    BY <1>11 DEF ExitOn
  <2>1. CASE scenario # s
    <3>1. Become(t, [thread[t] EXCEPT !.pc = resume])
      BY <1>11, <2>1 DEF ExitOn, Goto
    <3>2. resume \in PlainLabels
      BY <1>2
    <3> QED BY <2>0, <3>1, <3>2, PlainGoto, LocalMove
  <2>2. CASE scenario = s /\ positions = {}
    <3>1. Become(t, Idle)
      BY <1>11, <2>2 DEF ExitOn, Abort
    <3> QED BY <1>3, <2>0, <3>1, LocalMove
  <2>3. CASE scenario = s /\ positions # {}
    <3>1. CloseAll(t, {Newest(positions)}, resume)
      BY <1>11, <2>3 DEF ExitOn
    <3>2. {Newest(positions)} \in SUBSET Position
      BY <2>3, NewestType
    <3> QED BY <2>0, <3>1, <3>2, CloseAllWellFormed, LocalMove DEF CloseAll
  <2> QED BY <2>1, <2>2, <2>3
<1>12. CASE ExitStopLoss(t)
  BY <1>11, <1>12 DEF ExitStopLoss
<1>13. CASE ExitTakeProfit(t)
  BY <1>11, <1>13 DEF ExitTakeProfit
<1> QED BY <1>4, <1>5, <1>6, <1>7, <1>8, <1>9, <1>10, <1>12, <1>13

\* Keeping the pending signals, a handler may go on to the next step of the executor.
LEMMA CarryGoto ==
  ASSUME HandlerInv, NEW t \in Threads, thread[t].pending # <<>>,
         NEW l \in {"approveBook", "place", "insert"}, NEW n,
         l = "insert" => thread[t].order \in 1..n
  PROVE  WellFormed([thread[t] EXCEPT !.pc = l], n)
<1> DEFINE h == [thread[t] EXCEPT !.pc = l]
<1>1. thread[t] \in HandlerState
  BY DEF HandlerInv, TypeOK
<1>2. h \in HandlerState /\ h.pc = l /\ h.pending = thread[t].pending /\ h.order = thread[t].order
  BY <1>1 DEF HandlerState, Labels
<1> HIDE DEF h
<1>3. WellFormed(h, n)
  BY <1>2 DEF WellFormed
<1> QED BY <1>3 DEF h

\* A handler that carries a signal, and the signal it carries.
LEMMA CarriedSignal ==
  ASSUME HandlerInv, NEW t \in Threads, thread[t].pending # <<>>
  PROVE  Head(thread[t].pending) \in Signals
<1>1. thread[t].pending \in Seq(Signals)
  BY DEF HandlerInv, TypeOK, HandlerState
<1> QED BY <1>1

\* Recording a signal, and rejecting it.
LEMMA RecordSignal ==
  ASSUME HandlerInv, NEW sig \in Signals,
         signals' = Append(signals, sig) \/ UNCHANGED signals,
         apiConnected' \in BOOLEAN,
         UNCHANGED <<botState, strategyState, scenario, orders, book>>
  PROVE  SharedOK' /\ orders' = orders
<1>0. signals \in Seq(Signals)
  BY DEF HandlerInv, TypeOK
<1>1. signals' \in Seq(Signals)
  <2>1. CASE signals' = Append(signals, sig)
    BY <1>0, <2>1
  <2>2. CASE UNCHANGED signals
    BY <1>0, <2>2
  <2> QED BY <2>1, <2>2
<1>2. SharedOK
  BY SharedFacts
<1>3. UNCHANGED <<botState, strategyState, scenario, orders, positions, closedTrades, opened, dailyPnl>>
  BY DEF book
<1> QED BY <1>1, <1>2, <1>3 DEF SharedOK

LEMMA ApproveKeepsHandlerInv ==
  ASSUME HandlerInv, NEW t \in Threads, CheckDuplicate(t) \/ ApproveState(t) \/ ApproveBook(t)
  PROVE  HandlerInv'
<1>1. thread[t] \in HandlerState /\ scenario \in AllScenarios /\ apiConnected \in BOOLEAN
  BY DEF HandlerInv, TypeOK
<1>2. thread[t].pending # <<>>
  BY DEF CheckDuplicate, ApproveState, ApproveBook, At, HandlerInv, CarriesSignal
<1>3. Head(thread[t].pending) \in Signals
  BY <1>2, CarriedSignal
<1>4. WellFormed([thread[t] EXCEPT !.pc = "signal", !.pending = Tail(@)], Len(orders))
  BY <1>2, NextSignalWellFormed
<1>5. Len(orders) <= Len(orders)
  BY DEF HandlerInv, TypeOK
<1>6. CASE CheckDuplicate(t)
  <2>1. CASE NextSignal(t)
    BY <1>4, <1>6, <2>1, LocalMove DEF CheckDuplicate, NextSignal
  <2>2. CASE ~NextSignal(t)
    <3> DEFINE q == Price(scenario)
    <3>1. q \in Int
      BY <1>1, SignalFacts
    <3>2. Become(t, [thread[t] EXCEPT !.pc = "approve", !.price = q])
      BY <1>6, <2>2 DEF CheckDuplicate
    <3> HIDE DEF q
    <3> DEFINE h == [thread[t] EXCEPT !.pc = "approve", !.price = q]
    <3>3. h \in HandlerState /\ h.pc = "approve" /\ h.pending = thread[t].pending
      BY <1>1, <3>1 DEF HandlerState, Labels
    <3> HIDE DEF h
    <3>4. WellFormed(h, Len(orders))
      BY <1>2, <3>3 DEF WellFormed
    <3> QED BY <1>6, <3>2, <3>4, LocalMove DEF CheckDuplicate, h
  <2> QED BY <2>1, <2>2
<1>7. CASE ApproveState(t)
  <2>1. UNCHANGED <<botState, strategyState, scenario, orders, book>> /\ apiConnected' \in BOOLEAN
    BY <1>1, <1>7 DEF ApproveState
  <2>2. CASE Reject(t)
    <3>1. SharedOK' /\ orders' = orders
      BY <1>3, <2>1, <2>2, RecordSignal DEF Reject
    <3> QED BY <1>4, <1>5, <2>2, <3>1, HandlerMove DEF Reject, NextSignal
  <2>3. CASE Goto(t, "approveBook") /\ UNCHANGED signals
    <3>1. SharedOK' /\ orders' = orders
      BY <1>3, <2>1, <2>3, RecordSignal
    <3>2. WellFormed([thread[t] EXCEPT !.pc = "approveBook"], Len(orders))
      BY <1>2, CarryGoto
    <3> QED BY <1>5, <2>3, <3>1, <3>2, HandlerMove DEF Goto
  <2> QED BY <1>7, <2>2, <2>3 DEF ApproveState
<1>8. CASE ApproveBook(t)
  <2>1. UNCHANGED <<botState, strategyState, scenario, orders, book>> /\ apiConnected' \in BOOLEAN
    BY <1>1, <1>8 DEF ApproveBook, settings
  <2>2. CASE Reject(t)
    <3>1. SharedOK' /\ orders' = orders
      BY <1>3, <2>1, <2>2, RecordSignal DEF Reject
    <3> QED BY <1>4, <1>5, <2>2, <3>1, HandlerMove DEF Reject, NextSignal
  <2>3. CASE signals' = Append(signals, Head(thread[t].pending)) /\ Goto(t, "place")
    <3>1. SharedOK' /\ orders' = orders
      BY <1>3, <2>1, <2>3, RecordSignal
    <3>2. WellFormed([thread[t] EXCEPT !.pc = "place"], Len(orders))
      BY <1>2, CarryGoto
    <3> QED BY <1>5, <2>3, <3>1, <3>2, HandlerMove DEF Goto
  <2> QED BY <1>8, <2>2, <2>3 DEF ApproveBook
<1> QED BY <1>6, <1>7, <1>8

LEMMA OrdersKeepHandlerInv ==
  ASSUME HandlerInv, NEW t \in Threads, PlaceOrder(t) \/ CheckPosition(t) \/ InsertPosition(t)
  PROVE  HandlerInv'
<1>1. thread[t] \in HandlerState /\ orders \in Seq(Order) /\ Len(orders) \in Nat
  BY DEF HandlerInv, TypeOK
<1>2. thread[t].pending # <<>>
  BY DEF PlaceOrder, CheckPosition, InsertPosition, At, HandlerInv, CarriesSignal
<1>3. Head(thread[t].pending) \in Signals
  BY <1>2, CarriedSignal
<1>4. WellFormed([thread[t] EXCEPT !.pc = "signal", !.pending = Tail(@)], Len(orders'))
  BY <1>2, NextSignalWellFormed
<1>5. CASE PlaceOrder(t)
  <2> DEFINE o == [signal |-> Head(thread[t].pending), price |-> thread[t].price,
                   status |-> IF scenario = "ORDER_REJECTION" THEN "REJECTED" ELSE "FILLED"]
             m == Len(orders) + 1
  <2>1. o \in Order
    BY <1>1, <1>3 DEF Order, HandlerState
  <2>2. orders' = Append(orders, o) /\ UNCHANGED <<settings, signals, book>>
    BY <1>5 DEF PlaceOrder
  <2>3. \/ NextSignal(t)
        \/ Become(t, [thread[t] EXCEPT !.pc = "open", !.order = m])
    BY <1>5 DEF PlaceOrder
  <2>4. m \in Nat /\ m \in 1..m
    BY <1>1
  <2> HIDE DEF o
  <2>5. orders' \in Seq(Order) /\ Len(orders') = m
    BY <1>1, <2>1, <2>2
  <2>6. SharedOK'
    BY <2>2, <2>5 DEF HandlerInv, TypeOK, SharedOK, settings, book
  <2>7. Len(orders) <= Len(orders')
    BY <1>1, <2>5
  <2> HIDE DEF m
  <2> DEFINE h == [thread[t] EXCEPT !.pc = "open", !.order = m]
  <2>8. h \in HandlerState /\ h.pc = "open" /\ h.order = m /\ h.pending = thread[t].pending
    BY <1>1, <2>4 DEF HandlerState, Labels
  <2> HIDE DEF h
  <2>9. WellFormed(h, Len(orders'))
    BY <1>2, <2>4, <2>5, <2>8 DEF WellFormed
  <2>10. CASE NextSignal(t)
    BY <1>4, <2>6, <2>7, <2>10, HandlerMove DEF NextSignal
  <2>11. CASE Become(t, h)
    BY <2>6, <2>7, <2>9, <2>11, HandlerMove
  <2> QED BY <2>3, <2>10, <2>11 DEF h
<1>6. CASE CheckPosition(t)
  <2>1. thread[t].order \in 1..Len(orders)
    BY <1>6 DEF CheckPosition, At, HandlerInv, CarriesOrder
  <2>2. WellFormed([thread[t] EXCEPT !.pc = "insert"], Len(orders))
    BY <1>2, <2>1, CarryGoto
  <2>3. UNCHANGED <<settings, signals, orders, book>>
    BY <1>6 DEF CheckPosition
  <2>4. CASE NextSignal(t)
    BY <1>4, <2>3, <2>4, LocalMove DEF NextSignal
  <2>5. CASE Goto(t, "insert")
    BY <2>2, <2>3, <2>5, LocalMove DEF Goto
  <2> QED BY <1>6, <2>4, <2>5 DEF CheckPosition
<1>7. CASE InsertPosition(t)
  <2> DEFINE n == thread[t].order
             p == NewPosition(n)
  <2>1. n \in 1..Len(orders) /\ n \in Nat \ {0}
    BY <1>1, <1>7 DEF InsertPosition, At, HandlerInv, CarriesOrder
  <2>2. orders[n] \in Order
    BY <1>1, <2>1
  <2>3. opened \in Nat /\ opened + 1 \in Nat \ {0}
    BY DEF HandlerInv, TypeOK
  <2>4. StrategyOf(orders[n].signal) \in Strategies /\ SideOf(orders[n].signal) \in {"BUY", "SELL"}
    BY <2>2, SignalFacts DEF Order
  <2>5. p \in Position /\ p.id = opened + 1
    BY <2>1, <2>2, <2>3, <2>4 DEF NewPosition, Position, Order
  <2>6. positions' = positions \cup {p} /\ opened' = opened + 1 /\ NextSignal(t)
        /\ UNCHANGED <<settings, signals, orders, closedTrades, dailyPnl>>
    BY <1>7 DEF InsertPosition
  <2> HIDE DEF p
  <2>7. positions' \in SUBSET Position
    BY <2>5, <2>6 DEF HandlerInv, TypeOK
  <2>8. \A x \in positions' : x.id <= opened'
    <3>1. \A x \in positions : x.id \in Nat /\ x.id <= opened
      BY DEF HandlerInv, TypeOK, Position
    <3> QED BY <2>3, <2>5, <2>6, <3>1
  <2>9. SharedOK'
    BY <2>3, <2>6, <2>7, <2>8 DEF HandlerInv, TypeOK, SharedOK, settings
  <2>10. Len(orders) <= Len(orders')
    BY <1>1, <2>6
  <2> QED BY <1>4, <2>6, <2>9, <2>10, HandlerMove DEF NextSignal
<1> QED BY <1>5, <1>6, <1>7

\* Every step keeps the types and what the handlers carry.
LEMMA HandlerStep == HandlerInv /\ [Next]_vars => HandlerInv'
<1> SUFFICES ASSUME HandlerInv, [Next]_vars PROVE HandlerInv'
  OBVIOUS
<1>1. ASSUME NEW t \in Threads, Request(t) \/ Step(t) PROVE HandlerInv'
  BY <1>1, RequestKeepsHandlerInv, CloseKeepsHandlerInv, SignalsKeepHandlerInv,
     ApproveKeepsHandlerInv, OrdersKeepHandlerInv DEF Step
<1>2. CASE UNCHANGED vars
  BY <1>2 DEF vars, settings, book, HandlerInv, TypeOK, CarriesSignal, CarriesOrder
<1> QED BY <1>1, <1>2 DEF Next

\* The types of the shared state and of the handlers hold in every behaviour.
THEOREM TypeCorrectness == Spec => []TypeOK
<1>1. HandlerInv => TypeOK
  BY DEF HandlerInv
<1> QED BY HandlerInit, HandlerStep, <1>1, PTL DEF Spec

-----------------------------------------------------------------------------
(* Orders, positions and closed trades.                                    *)

LedgerInv ==
  /\ PositionsBackedByOrders
  /\ ClosedOnce
  /\ \A p, q \in positions \cup Closed : p.id = q.id => p = q
  /\ \A p \in Closed : p.id <= opened
  /\ \A t \in Threads : CarriesOrder(t) =>
       /\ orders[thread[t].order].status = "FILLED"
       /\ \A p \in positions \cup Closed : p.order # thread[t].order
  /\ \A t, u \in Threads : CarriesOrder(t) /\ CarriesOrder(u)
                           /\ thread[t].order = thread[u].order => t = u

\* A handler that has passed the check of the position limit.
Committed(t) == thread[t].pc \in {"place", "open", "insert"}

\* A step that leaves the ledger alone and starts carrying no order.
LedgerQuiet ==
  /\ UNCHANGED <<orders, book>>
  /\ \A u \in Threads : CarriesOrder(u)' => CarriesOrder(u) /\ thread'[u].order = thread[u].order

\* Such a step, after which no handler is newly committed.
QuietStep == LedgerQuiet /\ \A u \in Threads : Committed(u)' => Committed(u)

LEMMA BecomeIsQuiet ==
  ASSUME HandlerInv, NEW t \in Threads, NEW h, Become(t, h), UNCHANGED <<orders, book>>,
         h.pc \notin {"open", "insert"}
  PROVE  LedgerQuiet /\ (h.pc # "place" => QuietStep)
<1>1. \A u \in Threads : thread'[u] = IF u = t THEN h ELSE thread[u]
  BY DEF Become, HandlerInv, TypeOK
<1> QED BY <1>1 DEF QuietStep, LedgerQuiet, CarriesOrder, Committed

Harmless == Labels \ {"place", "open", "insert"}

LEMMA QuietMoves ==
  ASSUME HandlerInv, NEW t \in Threads, UNCHANGED <<orders, book>>,
         \/ \E l \in Harmless : Goto(t, l)
         \/ \E l \in Harmless : \E r : Begin(t, l, r)
         \/ Abort(t)
         \/ NextSignal(t)
         \/ \E set : \E r \in {"run", "exitTake"} : CloseAll(t, set, r)
         \/ \E l \in Harmless : \E r : Become(t, [thread[t] EXCEPT !.pc = l, !.rounds = r])
         \/ \E l \in Harmless : \E q : Become(t, [thread[t] EXCEPT !.pc = l, !.pending = q])
         \/ \E l \in Harmless : \E q : Become(t, [thread[t] EXCEPT !.pc = l, !.price = q])
  PROVE  QuietStep
<1>0. thread[t] \in HandlerState
  BY DEF HandlerInv, TypeOK
<1>1. ASSUME NEW l \in Harmless, Goto(t, l) PROVE QuietStep
  <2>1. [thread[t] EXCEPT !.pc = l].pc \notin {"place", "open", "insert"}
    BY <1>0 DEF HandlerState, Harmless
  <2> QED BY <1>1, <2>1, BecomeIsQuiet DEF Goto
<1>2. ASSUME NEW l \in Harmless, NEW r, Begin(t, l, r) PROVE QuietStep
  <2>1. [Idle EXCEPT !.pc = l, !.rounds = r].pc \notin {"place", "open", "insert"}
    BY <1>0, IdleType DEF HandlerState, Harmless
  <2> QED BY <1>2, <2>1, BecomeIsQuiet DEF Begin
<1>3. ASSUME Abort(t) PROVE QuietStep
  <2>1. Idle.pc \notin {"place", "open", "insert"}
    BY DEF Idle
  <2> QED BY <1>3, <2>1, BecomeIsQuiet DEF Abort
<1>4. ASSUME NextSignal(t) PROVE QuietStep
  <2>1. [thread[t] EXCEPT !.pc = "signal", !.pending = Tail(@)].pc \notin {"place", "open", "insert"}
    BY <1>0 DEF HandlerState, Harmless
  <2> QED BY <1>4, <2>1, BecomeIsQuiet DEF NextSignal
<1>5. ASSUME NEW set, NEW r \in {"run", "exitTake"}, CloseAll(t, set, r) PROVE QuietStep
  <2>1. [thread[t] EXCEPT !.pc = IF set = {} THEN r ELSE "close", !.closing = set,
                         !.resume = IF set = {} THEN "run" ELSE r].pc \notin {"place", "open", "insert"}
    BY <1>0 DEF HandlerState, Harmless
  <2> QED BY <1>5, <2>1, BecomeIsQuiet DEF CloseAll
<1>6. ASSUME NEW l \in Harmless, NEW r, Become(t, [thread[t] EXCEPT !.pc = l, !.rounds = r]) PROVE QuietStep
  <2>1. [thread[t] EXCEPT !.pc = l, !.rounds = r].pc \notin {"place", "open", "insert"}
    BY <1>0, IdleType DEF HandlerState, Harmless
  <2> QED BY <1>6, <2>1, BecomeIsQuiet
<1>7. ASSUME NEW l \in Harmless, NEW q, Become(t, [thread[t] EXCEPT !.pc = l, !.pending = q]) PROVE QuietStep
  <2>1. [thread[t] EXCEPT !.pc = l, !.pending = q].pc \notin {"place", "open", "insert"}
    BY <1>0 DEF HandlerState, Harmless
  <2> QED BY <1>7, <2>1, BecomeIsQuiet
<1>8. ASSUME NEW l \in Harmless, NEW q, Become(t, [thread[t] EXCEPT !.pc = l, !.price = q]) PROVE QuietStep
  <2>1. [thread[t] EXCEPT !.pc = l, !.price = q].pc \notin {"place", "open", "insert"}
    BY <1>0 DEF HandlerState, Harmless
  <2> QED BY <1>8, <2>1, BecomeIsQuiet
<1> QED BY <1>1, <1>2, <1>3, <1>4, <1>5, <1>6, <1>7, <1>8

\* Only the steps that accept a signal or write orders or positions are not quiet.
LEMMA QuietActions ==
  ASSUME HandlerInv, NEW t \in Threads, Request(t) \/ Step(t)
  PROVE  QuietStep \/ ApproveBook(t) \/ PlaceOrder(t) \/ InsertPosition(t) \/ RemovePosition(t)
<1>1. CASE Request(t)
  <2>1. "run" \in Harmless /\ "emergency" \in Harmless /\ "leadCloses" \in Harmless
    BY DEF Harmless, Labels
  <2>2. ASSUME NEW s \in Scenarios, ApplyScenario(t, s) PROVE QuietStep
    <3> DEFINE l == CASE s = "EMERGENCY_STOP" -> "emergency"
                      [] s = "LEAD_TRADER_CLOSES_POSITION" -> "leadCloses"
                      [] OTHER -> "run"
    <3>1. l \in Harmless
      BY <2>1
    <3>2. UNCHANGED <<orders, book>> /\ Begin(t, l, 2)
      BY <2>2 DEF ApplyScenario
    <3> HIDE DEF l
    <3> QED BY <3>1, <3>2, QuietMoves
  <2>3. ASSUME NEW s \in Strategies, NEW m, SetStrategyState(t, s, m) PROVE QuietStep
    BY <2>1, <2>3, QuietMoves DEF SetStrategyState
  <2>4. CASE Start(t)
    BY <2>1, <2>4, QuietMoves DEF Start
  <2>5. CASE Stop(t)
    BY <2>1, <2>5, QuietMoves DEF Stop
  <2>6. CASE EmergencyCloseAll(t)
    BY <2>1, <2>6, QuietMoves DEF EmergencyCloseAll
  <2>7. CASE DashboardSnapshot(t)
    BY <2>1, <2>7, QuietMoves DEF DashboardSnapshot
  <2> QED
    BY <1>1, <2>2, <2>3, <2>4, <2>5, <2>6, <2>7 DEF Request, PauseStrategy, ResumeStrategy
<1>2. CASE EmergencyStop(t)
  <2>1. "snapshot" \in Harmless
    BY DEF Harmless, Labels
  <2> QED BY <1>2, <2>1, QuietMoves DEF EmergencyStop
<1>3. CASE SnapshotPositions(t)
  BY <1>3, QuietMoves DEF SnapshotPositions
<1>4. CASE LeadCloses(t) \/ LeadPick(t)
  <2>1. "run" \in Harmless /\ "leadPick" \in Harmless
    BY DEF Harmless, Labels
  <2>2. CASE LeadCloses(t)
    <3>1. \/ Goto(t, "run")
          \/ Become(t, [thread[t] EXCEPT !.pc = "leadPick", !.rounds = 1])
      BY <2>2 DEF LeadCloses
    <3> QED BY <2>1, <2>2, <3>1, QuietMoves DEF LeadCloses
  <2>3. CASE LeadPick(t)
    BY <2>3, QuietMoves DEF LeadPick
  <2> QED BY <1>4, <2>2, <2>3
<1>5. CASE ClosePosition(t)
  <2>1. "remove" \in Harmless
    BY DEF Harmless, Labels
  <2>2. thread[t].resume \in {"run", "exitTake"}
    BY DEF HandlerInv, TypeOK, HandlerState
  <2>3. UNCHANGED <<orders, book>>
    BY <1>5 DEF ClosePosition
  <2>4. Goto(t, "remove") \/ \E set : CloseAll(t, set, thread[t].resume)
    BY <1>5 DEF ClosePosition
  <2> QED BY <2>1, <2>2, <2>3, <2>4, QuietMoves
<1>6. CASE RunOnce(t)
  <2> DEFINE l == IF botState = "RUNNING" THEN "copy" ELSE "run"
             r == thread[t].rounds - 1
  <2>1. l \in Harmless
    BY DEF Harmless, Labels
  <2>2. UNCHANGED <<orders, book>> /\ Become(t, [thread[t] EXCEPT !.pc = l, !.rounds = r])
    BY <1>6 DEF RunOnce
  <2> HIDE DEF l, r
  <2> QED BY <2>1, <2>2, QuietMoves
<1>7. CASE Reply(t)
  BY <1>7, QuietMoves DEF Reply, Abort
<1>8. CASE NextCopySignal(t) \/ EndOfSignals(t) \/ ExitGate(t)
  <2>1. {"emit", "volume", "exit", "run", "exitStop"} \subseteq Harmless
    BY DEF Harmless, Labels
  <2>2. UNCHANGED <<orders, book>>
    BY <1>8 DEF NextCopySignal, EndOfSignals, ExitGate
  <2>3. \E l \in {"emit", "volume", "exit", "run", "exitStop"} : Goto(t, l)
    BY <1>8 DEF NextCopySignal, EndOfSignals, ExitGate
  <2> QED BY <2>1, <2>2, <2>3, QuietMoves
<1>9. CASE EmitCopySignal(t)
  <2>1. "volume" \in Harmless
    BY DEF Harmless, Labels
  <2>2. \/ Abort(t)
        \/ Become(t, [thread[t] EXCEPT !.pc = "volume", !.pending = <<scenario>>])
    BY <1>9 DEF EmitCopySignal
  <2> QED BY <1>9, <2>1, <2>2, QuietMoves DEF EmitCopySignal
<1>10. CASE Evaluate(t)
  <2>1. "signal" \in Harmless
    BY DEF Harmless, Labels
  <2>2. \E q : Become(t, [thread[t] EXCEPT !.pc = "signal", !.pending = q])
    BY <1>10 DEF Evaluate
  <2> QED BY <1>10, <2>1, <2>2, QuietMoves DEF Evaluate
<1>11. CASE CheckDuplicate(t)
  <2>1. "approve" \in Harmless
    BY DEF Harmless, Labels
  <2>2. \/ NextSignal(t)
        \/ Become(t, [thread[t] EXCEPT !.pc = "approve", !.price = Price(scenario)])
    BY <1>11 DEF CheckDuplicate
  <2> QED BY <1>11, <2>1, <2>2, QuietMoves DEF CheckDuplicate
<1>12. CASE ApproveState(t)
  <2>1. "approveBook" \in Harmless
    BY DEF Harmless, Labels
  <2>2. NextSignal(t) \/ Goto(t, "approveBook")
    BY <1>12 DEF ApproveState, Reject
  <2>3. UNCHANGED <<orders, book>>
    BY <1>12 DEF ApproveState
  <2> QED BY <2>1, <2>2, <2>3, QuietMoves
<1>13. CASE CheckPosition(t)
  <2>1. UNCHANGED <<orders, book>>
    BY <1>13 DEF CheckPosition
  <2>2. CASE NextSignal(t)
    BY <2>1, <2>2, QuietMoves
  <2>3. CASE Goto(t, "insert")
    <3>1. thread \in [Threads -> HandlerState] /\ thread[t] \in HandlerState
      BY DEF HandlerInv, TypeOK
    <3>2. thread' = [thread EXCEPT ![t] = [thread[t] EXCEPT !.pc = "insert"]]
      BY <2>3 DEF Goto, Become
    <3>3. \A u \in Threads : thread'[u].order = thread[u].order /\ (u # t => thread'[u] = thread[u])
      BY <3>1, <3>2 DEF HandlerState
    <3>4. CarriesOrder(t)
      BY <1>13 DEF CheckPosition, At, CarriesOrder
    <3> QED BY <2>1, <3>3, <3>4 DEF QuietStep, LedgerQuiet, CarriesOrder, Committed
  <2> QED BY <1>13, <2>2, <2>3 DEF CheckPosition
<1>14. CASE ExitStopLoss(t) \/ ExitTakeProfit(t)
  <2>1. {"run", "exitTake"} \subseteq Harmless
    BY DEF Harmless, Labels
  <2>2. PICK s, resume : ExitOn(t, s, resume) /\ resume \in {"run", "exitTake"}
    BY <1>14 DEF ExitStopLoss, ExitTakeProfit
  <2>3. UNCHANGED <<orders, book>>
    BY <2>2 DEF ExitOn
  <2>4. Goto(t, resume) \/ Abort(t) \/ CloseAll(t, {Newest(positions)}, resume)
    BY <2>2 DEF ExitOn
  <2>5. CASE Goto(t, resume)
    BY <2>1, <2>2, <2>3, <2>5, QuietMoves
  <2>6. CASE Abort(t)
    BY <2>3, <2>6, QuietMoves
  <2>7. CASE CloseAll(t, {Newest(positions)}, resume)
    BY <2>2, <2>3, <2>7, QuietMoves
  <2> QED BY <2>4, <2>5, <2>6, <2>7
<1> QED
  BY <1>1, <1>2, <1>3, <1>4, <1>5, <1>6, <1>7, <1>8, <1>9, <1>10, <1>11, <1>12, <1>13, <1>14
     DEF Step

LEMMA LedgerInit == Init => LedgerInv
  BY DEF Init, LedgerInv, PositionsBackedByOrders, ClosedOnce, Closed, CarriesOrder, Idle

LEMMA QuietKeepsLedger ==
  ASSUME HandlerInv, LedgerInv, LedgerQuiet
  PROVE  LedgerInv'
<1>1. UNCHANGED <<orders, positions, closedTrades, opened>>
  BY DEF LedgerQuiet, book
<1>2. Closed' = Closed
  BY <1>1 DEF Closed
<1>3. PositionsBackedByOrders' /\ ClosedOnce'
  BY <1>1, <1>2 DEF LedgerInv, PositionsBackedByOrders, ClosedOnce
<1>4. \A t \in Threads : CarriesOrder(t)' =>
        /\ orders[thread'[t].order].status = "FILLED"
        /\ \A p \in positions \cup Closed : p.order # thread'[t].order
  BY DEF LedgerQuiet, LedgerInv
<1>5. \A t, u \in Threads :
        CarriesOrder(t)' /\ CarriesOrder(u)' /\ thread'[t].order = thread'[u].order => t = u
  BY DEF LedgerQuiet, LedgerInv
<1> QED BY <1>1, <1>2, <1>3, <1>4, <1>5 DEF LedgerInv

\* Accepting or rejecting a signal touches no order.
LEMMA ApproveBookIsQuiet ==
  ASSUME HandlerInv, NEW t \in Threads, ApproveBook(t)
  PROVE  LedgerQuiet
<1>1. thread[t] \in HandlerState
  BY DEF HandlerInv, TypeOK
<1>2. UNCHANGED <<orders, book>> /\ (NextSignal(t) \/ Goto(t, "place"))
  BY DEF ApproveBook, Reject
<1>3. CASE NextSignal(t)
  BY <1>2, <1>3, QuietMoves DEF QuietStep
<1>4. CASE Goto(t, "place")
  <2>1. [thread[t] EXCEPT !.pc = "place"].pc \notin {"open", "insert"}
    BY <1>1 DEF HandlerState
  <2> QED BY <1>2, <1>4, <2>1, BecomeIsQuiet DEF Goto
<1> QED BY <1>2, <1>3, <1>4

\* A new order is nobody's yet.
LEMMA PlaceKeepsLedger ==
  ASSUME HandlerInv, LedgerInv, NEW t \in Threads, PlaceOrder(t)
  PROVE  LedgerInv'
<1> DEFINE o == [signal |-> Head(thread[t].pending), price |-> thread[t].price,
                 status |-> IF scenario = "ORDER_REJECTION" THEN "REJECTED" ELSE "FILLED"]
           m == Len(orders) + 1
<1>1. /\ thread \in [Threads -> HandlerState] /\ thread[t] \in HandlerState
      /\ orders \in Seq(Order) /\ Len(orders) \in Nat /\ positions \in SUBSET Position
      /\ closedTrades \in Seq(Position)
  BY DEF HandlerInv, TypeOK
<1>2. orders' = Append(orders, o) /\ UNCHANGED <<settings, signals, book>>
  BY DEF PlaceOrder
<1>3. UNCHANGED <<positions, closedTrades, opened>> /\ Closed' = Closed
  BY <1>2 DEF book, Closed
<1>4. o.status \in {"FILLED", "REJECTED"} /\ (scenario # "ORDER_REJECTION" => o.status = "FILLED")
  OBVIOUS
<1>o. o \in Order
  <2>1. thread[t].pending # <<>>
    BY DEF PlaceOrder, At, HandlerInv, CarriesSignal
  <2>2. Head(thread[t].pending) \in Signals
    BY <2>1, CarriedSignal
  <2> QED BY <1>1, <2>2 DEF Order, HandlerState
<1> HIDE DEF o
<1>5. /\ orders' \in Seq(Order) /\ Len(orders') = m /\ orders'[m] = o
      /\ \A i \in 1..Len(orders) : orders'[i] = orders[i]
  BY <1>1, <1>2, <1>o
<1>6. \A p \in positions \cup Closed : p.order \in 1..Len(orders)
  BY DEF LedgerInv, PositionsBackedByOrders
<1>7. PositionsBackedByOrders'
  <2>1. \A p \in positions \cup Closed :
           p.order \in 1..Len(orders') /\ orders'[p.order] = orders[p.order]
    BY <1>1, <1>5, <1>6
  <2> QED BY <1>3, <2>1 DEF LedgerInv, PositionsBackedByOrders
<1>8. ClosedOnce'
  BY <1>3 DEF LedgerInv, ClosedOnce
<1>9. \A u \in Threads : u # t => thread'[u] = thread[u]
  BY <1>1 DEF PlaceOrder, NextSignal, Become
<1>10. CarriesOrder(t)' => thread'[t].order = m /\ o.status = "FILLED"
  <2>1. CASE scenario = "ORDER_REJECTION"
    <3>1. thread'[t] = [thread[t] EXCEPT !.pc = "signal", !.pending = Tail(@)]
      BY <1>1, <2>1 DEF PlaceOrder, NextSignal, Become
    <3>2. [thread[t] EXCEPT !.pc = "signal", !.pending = Tail(@)].pc = "signal"
      BY <1>1 DEF HandlerState
    <3> QED BY <3>1, <3>2 DEF CarriesOrder
  <2>2. CASE scenario # "ORDER_REJECTION"
    <3>1. thread'[t] = [thread[t] EXCEPT !.pc = "open", !.order = m]
      BY <1>1, <2>2 DEF PlaceOrder, Become
    <3> HIDE DEF m
    <3>2. [thread[t] EXCEPT !.pc = "open", !.order = m].order = m
      BY <1>1 DEF HandlerState
    <3> QED BY <1>4, <2>2, <3>1, <3>2
  <2> QED BY <2>1, <2>2
<1>11. \A u \in Threads : u # t /\ CarriesOrder(u)' =>
         CarriesOrder(u) /\ thread'[u].order = thread[u].order /\ thread[u].order \in 1..Len(orders)
  BY <1>9 DEF CarriesOrder, HandlerInv
<1>12. \A u \in Threads : CarriesOrder(u)' =>
         /\ orders'[thread'[u].order].status = "FILLED"
         /\ \A p \in positions \cup Closed : p.order # thread'[u].order
  <2>1. CASE CarriesOrder(t)'
    <3>1. orders'[thread'[t].order].status = "FILLED"
      BY <1>5, <1>10, <2>1
    <3>2. \A p \in positions \cup Closed : p.order # m
      BY <1>1, <1>6
    <3> QED BY <1>5, <1>10, <1>11, <2>1, <3>1, <3>2 DEF LedgerInv
  <2>2. CASE ~CarriesOrder(t)'
    BY <1>5, <1>11, <2>2 DEF LedgerInv
  <2> QED BY <2>1, <2>2
<1>13. \A u, v \in Threads :
         CarriesOrder(u)' /\ CarriesOrder(v)' /\ thread'[u].order = thread'[v].order => u = v
  <2>1. \A u \in Threads : u # t /\ CarriesOrder(u)' => thread'[u].order # m
    BY <1>1, <1>11
  <2> QED BY <1>10, <1>11, <2>1 DEF LedgerInv
<1> QED BY <1>3, <1>7, <1>8, <1>12, <1>13 DEF LedgerInv

\* The position made from a filled order that nobody else carries.
LEMMA InsertKeepsLedger ==
  ASSUME HandlerInv, LedgerInv, NEW t \in Threads, InsertPosition(t)
  PROVE  LedgerInv'
<1> DEFINE n == thread[t].order
           p == NewPosition(n)
           All == positions \cup Closed
<1>1. /\ thread \in [Threads -> HandlerState] /\ thread[t] \in HandlerState
      /\ orders \in Seq(Order) /\ opened \in Nat /\ positions \in SUBSET Position
      /\ closedTrades \in Seq(Position)
  BY DEF HandlerInv, TypeOK
<1>2. /\ positions' = positions \cup {p} /\ opened' = opened + 1
      /\ UNCHANGED <<orders, closedTrades>>
  BY DEF InsertPosition
<1>3. Closed' = Closed
  BY <1>2 DEF Closed
<1>4. CarriesOrder(t) /\ n \in 1..Len(orders)
  BY DEF InsertPosition, At, CarriesOrder, HandlerInv
<1>5. orders[n].status = "FILLED" /\ \A q \in All : q.order # n
  BY <1>4 DEF LedgerInv
<1>6. p.id = opened + 1 /\ p.order = n /\ p.side = SideOf(orders[n].signal)
  BY DEF NewPosition
<1>7. \A q \in All : q.id \in Nat /\ q.id <= opened
  <2>1. Closed \subseteq Position
    BY <1>1 DEF Closed
  <2> QED BY <1>1, <2>1 DEF HandlerInv, LedgerInv, Position
<1>8. p.id \in Nat /\ \A q \in All : q.id # p.id /\ q # p
  BY <1>1, <1>6, <1>7
<1> HIDE DEF p
<1>9. PositionsBackedByOrders'
  BY <1>2, <1>3, <1>4, <1>5, <1>6 DEF LedgerInv, PositionsBackedByOrders
<1>10. ClosedOnce'
  BY <1>2, <1>3, <1>8 DEF LedgerInv, ClosedOnce
<1>11. \A q, r \in positions' \cup Closed' : q.id = r.id => q = r
  BY <1>2, <1>3, <1>8 DEF LedgerInv
<1>12. \A q \in Closed' : q.id <= opened'
  BY <1>1, <1>2, <1>3, <1>7
<1>13. ~CarriesOrder(t)' /\ \A u \in Threads : u # t => thread'[u] = thread[u]
  <2>1. thread' = [thread EXCEPT ![t] = [thread[t] EXCEPT !.pc = "signal", !.pending = Tail(@)]]
    BY DEF InsertPosition, NextSignal, Become
  <2>2. [thread[t] EXCEPT !.pc = "signal", !.pending = Tail(@)].pc = "signal"
    BY <1>1 DEF HandlerState
  <2> QED BY <1>1, <2>1, <2>2 DEF CarriesOrder
<1>14. \A u \in Threads : CarriesOrder(u)' =>
         u # t /\ CarriesOrder(u) /\ thread'[u].order = thread[u].order
  BY <1>13 DEF CarriesOrder
<1>15. \A u \in Threads : CarriesOrder(u)' =>
         /\ orders'[thread'[u].order].status = "FILLED"
         /\ \A q \in positions' \cup Closed' : q.order # thread'[u].order
  <2>1. \A u \in Threads : u # t /\ CarriesOrder(u) => thread[u].order # n
    BY <1>4 DEF LedgerInv
  <2> QED BY <1>2, <1>3, <1>6, <1>14, <2>1 DEF LedgerInv
<1>16. \A u, v \in Threads :
         CarriesOrder(u)' /\ CarriesOrder(v)' /\ thread'[u].order = thread'[v].order => u = v
  BY <1>14 DEF LedgerInv
<1> QED BY <1>9, <1>10, <1>11, <1>12, <1>15, <1>16 DEF LedgerInv

\* A position removed from the book becomes the last closed trade.
LEMMA RemoveKeepsLedger ==
  ASSUME HandlerInv, LedgerInv, NEW t \in Threads, RemovePosition(t)
  PROVE  LedgerInv'
<1> DEFINE p == Newest(thread[t].closing)
<1>1. /\ thread \in [Threads -> HandlerState] /\ thread[t] \in HandlerState
      /\ positions \in SUBSET Position /\ closedTrades \in Seq(Position) /\ opened \in Nat
  BY DEF HandlerInv, TypeOK
<1>2. CASE p \notin positions
  <2>1. Abort(t) /\ UNCHANGED <<orders, book>>
    BY <1>2 DEF RemovePosition, book
  <2> QED BY <2>1, QuietMoves, QuietKeepsLedger DEF QuietStep
<1>3. CASE p \in positions
  <2>1. /\ positions' = positions \ {p} /\ closedTrades' = Append(closedTrades, p)
        /\ UNCHANGED <<orders, opened>>
        /\ CloseAll(t, thread[t].closing \ {p}, thread[t].resume)
    BY <1>3 DEF RemovePosition
  <2>2. p \in Position /\ p.id <= opened
    BY <1>1, <1>3 DEF HandlerInv
  <2>3. ~CarriesOrder(t)' /\ \A u \in Threads : u # t => thread'[u] = thread[u]
    <3> DEFINE rest == thread[t].closing \ {p}
               h == [thread[t] EXCEPT !.pc = IF rest = {} THEN thread[t].resume ELSE "close",
                       !.closing = rest, !.resume = IF rest = {} THEN "run" ELSE thread[t].resume]
    <3>1. thread' = [thread EXCEPT ![t] = h]
      BY <2>1 DEF CloseAll, Become
    <3>2. thread[t].resume \in {"run", "exitTake"}
      BY <1>1 DEF HandlerState
    <3> HIDE DEF rest
    <3>3. h.pc \notin {"open", "insert"}
      BY <1>1, <3>2 DEF HandlerState
    <3> HIDE DEF h
    <3> QED BY <1>1, <3>1, <3>3 DEF CarriesOrder
  <2> HIDE DEF p
  <2>4. /\ Len(closedTrades') = Len(closedTrades) + 1 /\ closedTrades'[Len(closedTrades) + 1] = p
        /\ \A i \in 1..Len(closedTrades) : closedTrades'[i] = closedTrades[i]
        /\ Len(closedTrades) \in Nat
    BY <1>1, <2>1, <2>2
  <2>5. Closed' = Closed \cup {p}
    <3>1. Closed \cup {p} \subseteq Closed'
      <4>1. Len(closedTrades) + 1 \in 1..Len(closedTrades')
        BY <2>4
      <4>2. 1..Len(closedTrades) \subseteq 1..Len(closedTrades')
        BY <2>4
      <4> QED BY <2>4, <4>1, <4>2 DEF Closed
    <3>2. Closed' \subseteq Closed \cup {p}
      <4>1. \A i \in 1..Len(closedTrades') : i \in 1..Len(closedTrades) \/ i = Len(closedTrades) + 1
        BY <2>4
      <4> QED BY <2>4, <4>1 DEF Closed
    <3> QED BY <3>1, <3>2
  <2>6. positions' \cup Closed' = positions \cup Closed
    BY <1>3, <2>1, <2>5 DEF p
  <2>7. PositionsBackedByOrders'
    BY <2>1, <2>6 DEF LedgerInv, PositionsBackedByOrders
  <2>8. \A q, r \in positions' \cup Closed' : q.id = r.id => q = r
    BY <2>6 DEF LedgerInv
  <2>9. \A q \in Closed' : q.id <= opened'
    BY <2>1, <2>2, <2>5 DEF LedgerInv
  <2>10. ClosedOnce'
    <3>1. Closed' \cap positions' = {}
      BY <2>1, <2>5 DEF LedgerInv, ClosedOnce
    <3>2. p \notin Closed
      BY <1>3 DEF LedgerInv, ClosedOnce, p
    <3>3. \A i \in 1..Len(closedTrades) : closedTrades[i] \in Closed
      BY DEF Closed
    <3>4. \A i \in 1..Len(closedTrades) : closedTrades[i].id # p.id
      BY <1>3, <3>2, <3>3 DEF LedgerInv, p
    <3>5. \A i, j \in 1..Len(closedTrades) : closedTrades[i].id = closedTrades[j].id => i = j
      BY DEF LedgerInv, ClosedOnce
    <3>6. \A i \in 1..Len(closedTrades') : i \in 1..Len(closedTrades) \/ i = Len(closedTrades) + 1
      BY <2>4
    <3>7. \A i, j \in 1..Len(closedTrades') : closedTrades'[i].id = closedTrades'[j].id => i = j
      BY <2>4, <3>4, <3>5, <3>6
    <3> QED BY <3>1, <3>7 DEF ClosedOnce
  <2>11. \A u \in Threads : CarriesOrder(u)' =>
           u # t /\ CarriesOrder(u) /\ thread'[u].order = thread[u].order
    BY <2>3 DEF CarriesOrder
  <2> QED BY <2>1, <2>6, <2>7, <2>8, <2>9, <2>10, <2>11 DEF LedgerInv
<1> QED BY <1>2, <1>3

\* The ledger invariant is inductive.
LEMMA LedgerStep == HandlerInv /\ LedgerInv /\ [Next]_vars => LedgerInv'
<1> SUFFICES ASSUME HandlerInv, LedgerInv, [Next]_vars PROVE LedgerInv'
  OBVIOUS
<1>1. ASSUME NEW t \in Threads, Request(t) \/ Step(t) PROVE LedgerInv'
  BY <1>1, QuietActions, ApproveBookIsQuiet, QuietKeepsLedger, PlaceKeepsLedger,
     InsertKeepsLedger, RemoveKeepsLedger DEF QuietStep
<1>2. CASE UNCHANGED vars
  <2>1. LedgerQuiet
    BY <1>2 DEF vars, book, settings, LedgerQuiet, CarriesOrder
  <2> QED BY <2>1, QuietKeepsLedger
<1> QED BY <1>1, <1>2 DEF Next

\* Whatever the handlers interleave, every position comes from a filled order of
\* its own (place_order, open_from_order).
THEOREM LedgerIsBacked == Spec => []PositionsBackedByOrders
<1>1. LedgerInv => PositionsBackedByOrders
  BY DEF LedgerInv
<1> QED BY HandlerInit, HandlerStep, LedgerInit, LedgerStep, <1>1, PTL DEF Spec

\* Whatever the handlers interleave, a position is closed at most once and never
\* reopened (close_position).
THEOREM PositionsCloseOnce == Spec => []ClosedOnce
<1>1. LedgerInv => ClosedOnce
  BY DEF LedgerInv
<1> QED BY HandlerInit, HandlerStep, LedgerInit, LedgerStep, <1>1, PTL DEF Spec

-----------------------------------------------------------------------------
(* Profit and loss.                                                        *)

\* A position is marked at its entry, so closing it realizes nothing.
MarkInv == RealizedPnlNeverMoves /\ \A p \in positions : p.mark = p.entry

LEMMA MarkInit == Init => MarkInv
  BY DEF Init, MarkInv, RealizedPnlNeverMoves

LEMMA MarkStep == HandlerInv /\ MarkInv /\ [Next]_vars => MarkInv'
<1> SUFFICES ASSUME HandlerInv, MarkInv, [Next]_vars PROVE MarkInv'
  OBVIOUS
<1> USE DEF MarkInv, RealizedPnlNeverMoves
<1>1. ASSUME UNCHANGED book PROVE MarkInv'
  BY <1>1 DEF book
<1>2. ASSUME NEW t \in Threads, InsertPosition(t) PROVE MarkInv'
  BY <1>2 DEF InsertPosition, NewPosition
<1>3. ASSUME NEW t \in Threads, RemovePosition(t) PROVE MarkInv'
  <2>1. \A p \in positions : UnrealizedPnl(p) = 0
    <3> SUFFICES ASSUME NEW p \in positions PROVE UnrealizedPnl(p) = 0
      OBVIOUS
    <3>1. p.mark - p.entry = 0 /\ Quantity(p.strategy) \in Int
      BY DEF HandlerInv, TypeOK, Position, Quantity
    <3> QED BY <3>1 DEF UnrealizedPnl
  <2> QED BY <1>3, <2>1 DEF RemovePosition
<1>4. ASSUME NEW t \in Threads, Request(t) \/ Step(t) PROVE MarkInv'
  <2>1. ApproveBook(t) \/ PlaceOrder(t) => UNCHANGED book
    BY DEF ApproveBook, PlaceOrder
  <2>2. QuietStep => UNCHANGED book
    BY DEF QuietStep, LedgerQuiet
  <2> QED BY <1>1, <1>2, <1>3, <1>4, <2>1, <2>2, QuietActions
<1>5. CASE UNCHANGED vars
  BY <1>1, <1>5 DEF vars
<1> QED BY <1>4, <1>5 DEF Next

\* However requests interleave, trading never moves the daily P&L, so it never
\* reaches the configured daily loss (close_position, approve).
THEOREM PnlNeverMoves == Spec => []RealizedPnlNeverMoves
<1>1. MarkInv => RealizedPnlNeverMoves
  BY DEF MarkInv
<1> QED BY HandlerInit, HandlerStep, MarkInit, MarkStep, <1>1, PTL DEF Spec

-----------------------------------------------------------------------------
(* The position limit.                                                     *)

CommittedThreads == {t \in Threads : Committed(t)}

\* The positions and the handlers committed to opening one.
SlotInv ==
  /\ IsFiniteSet(positions)
  /\ Cardinality(positions) + Cardinality(CommittedThreads)
       <= MaxOpenPositions + Cardinality(Threads) - 1

LEMMA CommittedFacts ==
  /\ IsFiniteSet(CommittedThreads)
  /\ Cardinality(CommittedThreads) \in Nat
  /\ Cardinality(CommittedThreads) <= Cardinality(Threads)
  /\ Cardinality(Threads) \in Nat \ {0}
<1>1. CommittedThreads \subseteq Threads
  BY DEF CommittedThreads
<1>2. Cardinality(Threads) \in Nat /\ Cardinality(Threads) # 0
  BY ThreadsAssumption, FS_CardinalityType, FS_EmptySet
<1> QED BY <1>1, <1>2, ThreadsAssumption, FS_Subset, FS_CardinalityType

LEMMA SlotInit == Init => SlotInv
<1> SUFFICES ASSUME Init PROVE SlotInv
  OBVIOUS
<1>1. CommittedThreads = {} /\ positions = {}
  BY DEF Init, CommittedThreads, Committed, Idle
<1>2. IsFiniteSet({}) /\ Cardinality({}) = 0
  BY FS_EmptySet
<1>3. Cardinality(Threads) \in Nat \ {0}
  BY CommittedFacts
<1> QED BY <1>1, <1>2, <1>3, LimitsAssumption DEF SlotInv

\* A step that opens nothing and commits nobody.
LEMMA SlotShrinks ==
  ASSUME SlotInv, positions' \subseteq positions, CommittedThreads' \subseteq CommittedThreads
  PROVE  SlotInv'
<1>1. IsFiniteSet(positions') /\ Cardinality(positions') <= Cardinality(positions)
  BY FS_Subset DEF SlotInv
<1>2. Cardinality(CommittedThreads') <= Cardinality(CommittedThreads)
  BY CommittedFacts, FS_Subset
<1>3. Cardinality(positions') \in Nat /\ Cardinality(positions) \in Nat
      /\ Cardinality(CommittedThreads') \in Nat
  BY <1>1, CommittedFacts, FS_CardinalityType, FS_Subset DEF SlotInv
<1> QED BY <1>1, <1>2, <1>3, CommittedFacts, LimitsAssumption DEF SlotInv

\* A handler that takes the step h stops being committed, or does not become so.
LEMMA SlotMove ==
  ASSUME HandlerInv, SlotInv, NEW t \in Threads, NEW h, Become(t, h),
         h.pc \in {"place", "open", "insert"} => Committed(t), positions' \subseteq positions
  PROVE  SlotInv'
<1>1. \A u \in Threads : thread'[u] = IF u = t THEN h ELSE thread[u]
  BY DEF Become, HandlerInv, TypeOK
<1>2. CommittedThreads' \subseteq CommittedThreads
  BY <1>1 DEF CommittedThreads, Committed
<1> QED BY <1>2, SlotShrinks

LEMMA SlotStep == HandlerInv /\ SlotInv /\ [Next]_vars => SlotInv'
<1> SUFFICES ASSUME HandlerInv, SlotInv, [Next]_vars PROVE SlotInv'
  OBVIOUS
<1>1. ASSUME QuietStep PROVE SlotInv'
  BY <1>1, SlotShrinks DEF QuietStep, LedgerQuiet, book, CommittedThreads
<1>2. ASSUME NEW t \in Threads, NextSignal(t), UNCHANGED positions PROVE SlotInv'
  <2>1. [thread[t] EXCEPT !.pc = "signal", !.pending = Tail(@)].pc = "signal"
    BY DEF HandlerInv, TypeOK, HandlerState
  <2> QED BY <1>2, <2>1, SlotMove DEF NextSignal
<1>3. ASSUME NEW t \in Threads, ApproveBook(t) PROVE SlotInv'
  <2>1. positions' = positions
    BY <1>3 DEF ApproveBook, book
  <2>2. CASE NextSignal(t)
    BY <1>2, <2>1, <2>2
  <2>3. CASE ~NextSignal(t)
    <3>1. ~(Cardinality(positions) >= MaxOpenPositions)
      BY <1>3, <2>3 DEF ApproveBook, Reject, LimitReached
    <3>2. CommittedThreads' \subseteq Threads
      BY DEF CommittedThreads
    <3>3. Cardinality(CommittedThreads') <= Cardinality(Threads)
          /\ Cardinality(CommittedThreads') \in Nat
      BY <3>2, ThreadsAssumption, FS_Subset, FS_CardinalityType
    <3>4. Cardinality(positions) \in Nat
      BY FS_CardinalityType DEF SlotInv
    <3> QED BY <2>1, <3>1, <3>3, <3>4, CommittedFacts, LimitsAssumption DEF SlotInv
  <2> QED BY <2>2, <2>3
<1>4. ASSUME NEW t \in Threads, PlaceOrder(t) PROVE SlotInv'
  <2>1. positions' = positions /\ Committed(t)
    BY <1>4 DEF PlaceOrder, book, At, Committed
  <2>2. PICK h : Become(t, h)
    BY <1>4 DEF PlaceOrder, NextSignal
  <2> QED BY <2>1, <2>2, SlotMove
<1>5. ASSUME NEW t \in Threads, InsertPosition(t) PROVE SlotInv'
  <2> DEFINE p == NewPosition(thread[t].order)
             h == [thread[t] EXCEPT !.pc = "signal", !.pending = Tail(@)]
  <2>1. positions' = positions \cup {p} /\ Become(t, h)
    BY <1>5 DEF InsertPosition, NextSignal
  <2>2. h.pc = "signal"
    BY DEF HandlerInv, TypeOK, HandlerState
  <2>3. t \in CommittedThreads
    BY <1>5 DEF InsertPosition, At, CommittedThreads, Committed
  <2> HIDE DEF p, h
  <2>4. \A u \in Threads : thread'[u] = IF u = t THEN h ELSE thread[u]
    BY <2>1 DEF Become, HandlerInv, TypeOK
  <2>5. CommittedThreads' = CommittedThreads \ {t}
    BY <2>2, <2>4 DEF CommittedThreads, Committed
  <2>6. Cardinality(CommittedThreads') = Cardinality(CommittedThreads) - 1
    BY <2>3, <2>5, CommittedFacts, FS_RemoveElement
  <2>7. IsFiniteSet(positions') /\ Cardinality(positions') <= Cardinality(positions) + 1
        /\ Cardinality(positions') \in Nat /\ Cardinality(positions) \in Nat
    <3>1. IsFiniteSet(positions) /\ Cardinality(positions) \in Nat
      BY FS_CardinalityType DEF SlotInv
    <3>2. IsFiniteSet(positions') /\ (Cardinality(positions') = Cardinality(positions)
                                      \/ Cardinality(positions') = Cardinality(positions) + 1)
      BY <2>1, <3>1, FS_AddElement
    <3> QED BY <3>1, <3>2
  <2> QED BY <2>6, <2>7, CommittedFacts, LimitsAssumption DEF SlotInv
<1>6. ASSUME NEW t \in Threads, RemovePosition(t) PROVE SlotInv'
  <2> DEFINE p == Newest(thread[t].closing)
             rest == thread[t].closing \ {p}
             h == [thread[t] EXCEPT !.pc = IF rest = {} THEN thread[t].resume ELSE "close",
                     !.closing = rest, !.resume = IF rest = {} THEN "run" ELSE thread[t].resume]
  <2>1. positions' \subseteq positions
    BY <1>6 DEF RemovePosition
  <2>2. Become(t, h) \/ Become(t, Idle)
    BY <1>6 DEF RemovePosition, CloseAll, Abort
  <2>3. Idle.pc = "idle"
    BY DEF Idle
  <2>4. thread[t].resume \in {"run", "exitTake"} /\ thread[t] \in HandlerState
    BY DEF HandlerInv, TypeOK, HandlerState
  <2> HIDE DEF rest
  <2>5. h.pc \in {"run", "exitTake", "close"}
    BY <2>4 DEF HandlerState
  <2> HIDE DEF h
  <2> QED BY <2>1, <2>2, <2>3, <2>5, SlotMove
<1>7. ASSUME NEW t \in Threads, Request(t) \/ Step(t) PROVE SlotInv'
  BY <1>1, <1>3, <1>4, <1>5, <1>6, <1>7, QuietActions
<1>8. CASE UNCHANGED vars
  BY <1>8, SlotShrinks DEF vars, book, CommittedThreads, Committed
<1> QED BY <1>7, <1>8 DEF Next

\* For every number of handler threads, the book never exceeds the limit by more
\* than one position per other thread (approve, open_from_order).
THEOREM ExposureIsBounded == Spec => []ExposureBound
<1>1. SlotInv => ExposureBound
  <2> SUFFICES ASSUME SlotInv PROVE ExposureBound
    OBVIOUS
  <2>1. Cardinality(positions) \in Nat
    BY FS_CardinalityType DEF SlotInv
  <2> QED BY <2>1, CommittedFacts, LimitsAssumption DEF SlotInv, ExposureBound
<1> QED BY HandlerInit, HandlerStep, SlotInit, SlotStep, <1>1, PTL DEF Spec

-----------------------------------------------------------------------------
(* How long a request can take.                                            *)

\* The most positions there can be.
Capacity == MaxOpenPositions + Cardinality(Threads) - 1

\* The steps from label to the end of the handler, when it has no calls of run_once left, no
\* signals pending and no positions to close: one for the reply, three for each of the two
\* exits, and so back to the start of run_once.
Ahead(label, resume) ==
  LET after == IF resume = "run" THEN 1 ELSE 4
  IN  CASE label = "idle" -> 0            [] label = "run" -> 1
        [] label = "exitTake" -> 4        [] label = "exitStop" -> 7
        [] label = "exit" -> 8            [] label = "signal" -> 9
        [] label = "approve" -> 8         [] label = "approveBook" -> 7
        [] label = "place" -> 6           [] label = "open" -> 5
        [] label = "insert" -> 4          [] label = "volume" -> 16
        [] label = "emit" -> 23           [] label = "copy" -> 24
        [] label = "close" -> after       [] label = "remove" -> after - 1
        [] label = "leadPick" -> 4        [] label = "leadCloses" -> 29
        [] label = "snapshot" -> 2 * Capacity + 2
        [] label = "emergency" -> 2 * Capacity + 3

\* Each call of run_once adds a round, each signal a pass of the executor, and each position
\* a search and a removal.
Left(h) ==
  Ahead(h.pc, h.resume) + 24 * h.rounds + 6 * Len(h.pending) + 2 * Cardinality(h.closing)
HandlerStepsLeft(t) == Left(thread[t])

\* 24 steps for each of two rounds, the steps before them, and those of an emergency close.
LongestHandler == 2 * 24 + 29 + 2 * Capacity

\* A handler closes finitely many positions that exist or existed.
Closable(h) ==
  /\ IsFiniteSet(h.closing) /\ \A p \in h.closing : p.id <= opened
  /\ h.pc \in {"close", "remove"} => h.closing # {}

ClosableInv == \A t \in Threads : Closable(thread[t])
ShortInv == ClosableInv /\ \A t \in Threads : HandlerStepsLeft(t) \in 0..LongestHandler

\* The handler moves on to a state in which less is left.
Shortens(t) == \E h \in HandlerState : Become(t, h) /\ Closable(h) /\ Left(h) < Left(thread[t])

LEMMA CapacityIs == Capacity \in Nat
  BY CommittedFacts, LimitsAssumption DEF Capacity

LEMMA AheadIs ==
  ASSUME NEW label \in Labels, NEW resume \in {"run", "exitTake"}
  PROVE  Ahead(label, resume) \in Nat /\ (label \notin {"idle", "remove"} => Ahead(label, resume) > 0)
<1> DEFINE after == IF resume = "run" THEN 1 ELSE 4
           most == 2 * Capacity
<1>1. after \in {1, 4} /\ most \in Nat
  BY CapacityIs
<1>2. Ahead(label, resume) \in {0, 1, 3, 4, 5, 6, 7, 8, 9, 16, 23, 24, 29, most + 2, most + 3}
  BY DEF Ahead, Labels
<1>3. label \notin {"idle", "remove"} => Ahead(label, resume) # 0
  <2>1. most + 2 # 0 /\ most + 3 # 0
    BY <1>1
  <2> QED
    BY <2>1 DEF Ahead, Labels
<1> HIDE DEF most
<1>4. most + 2 \in Nat /\ most + 3 \in Nat
  BY <1>1
<1> QED
  BY <1>2, <1>3, <1>4

LEMMA LeftIs ==
  ASSUME NEW h \in HandlerState, IsFiniteSet(h.closing)
  PROVE  /\ Ahead(h.pc, h.resume) \in Nat /\ h.rounds \in Nat /\ Len(h.pending) \in Nat
         /\ Cardinality(h.closing) \in Nat
         /\ Left(h) \in Nat /\ Ahead(h.pc, h.resume) <= Left(h)
         /\ Cardinality(h.closing) <= Left(h)
<1>1. h.pc \in Labels /\ h.resume \in {"run", "exitTake"} /\ h.rounds \in 0..2
      /\ h.pending \in Seq(Signals)
  BY DEF HandlerState
<1>2. Ahead(h.pc, h.resume) \in Nat
  BY <1>1, AheadIs
<1>3. Len(h.pending) \in Nat
  BY <1>1
<1>4. Cardinality(h.closing) \in Nat
  BY FS_CardinalityType
<1> DEFINE a == Ahead(h.pc, h.resume)
           r == h.rounds
           m == Len(h.pending)
           n == Cardinality(h.closing)
<1>5. a \in Nat /\ r \in Nat /\ m \in Nat /\ n \in Nat /\ Left(h) = a + 24 * r + 6 * m + 2 * n
  BY <1>1, <1>2, <1>3, <1>4 DEF Left
<1> HIDE DEF a, r, m, n
<1>6. Left(h) \in Nat /\ a <= Left(h) /\ n <= Left(h)
  BY <1>5
<1> QED
  BY <1>5, <1>6 DEF a, r, m, n

LEMMA IdleLeft ==
  ASSUME NEW label \in Labels, NEW rounds \in 0..2
  PROVE  LET h == [Idle EXCEPT !.pc = label, !.rounds = rounds]
         IN  Left(h) = Ahead(label, "run") + 24 * rounds /\ h \in HandlerState
<1> DEFINE h == [Idle EXCEPT !.pc = label, !.rounds = rounds]
<1>1. h.pc = label /\ h.resume = "run" /\ h.rounds = rounds /\ h.pending = <<>> /\ h.closing = {}
  BY DEF Idle
<1>2. h \in HandlerState
  BY IdleType DEF HandlerState
<1> HIDE DEF h
<1>3. Len(h.pending) = 0 /\ Cardinality(h.closing) = 0
  BY <1>1, FS_EmptySet
<1>4. Ahead(label, "run") \in Nat
  BY AheadIs
<1>5. Left(h) = Ahead(label, "run") + 24 * rounds
  BY <1>1, <1>3, <1>4 DEF Left
<1> QED
  BY <1>2, <1>5 DEF h

\* What each kind of move leaves.
LEMMA ShorterMove ==
  ASSUME HandlerInv, ClosableInv, NEW t \in Threads,
         NEW label \in Labels \ {"close", "remove"}, NEW rounds \in 0..2, NEW pending \in Seq(Signals),
         NEW h \in HandlerState, Become(t, h),
         h.pc = label, h.resume = thread[t].resume, h.closing = thread[t].closing,
         h.rounds = rounds, h.pending = pending,
         Ahead(label, thread[t].resume) + 24 * rounds + 6 * Len(pending)
           < Ahead(thread[t].pc, thread[t].resume) + 24 * thread[t].rounds + 6 * Len(thread[t].pending)
  PROVE  Shortens(t)
<1>1. thread[t] \in HandlerState
  BY DEF HandlerInv, TypeOK
<1>2. Closable(thread[t]) /\ Closable(h)
  BY DEF ClosableInv, Closable
<1> DEFINE was == Ahead(thread[t].pc, thread[t].resume) + 24 * thread[t].rounds
                    + 6 * Len(thread[t].pending)
           is == Ahead(label, thread[t].resume) + 24 * rounds + 6 * Len(pending)
           closing == 2 * Cardinality(thread[t].closing)
           a == Ahead(thread[t].pc, thread[t].resume)
           b == Ahead(label, thread[t].resume)
           r == thread[t].rounds
           m == Len(thread[t].pending)
           k == Len(pending)
           n == Cardinality(thread[t].closing)
<1>6. a \in Nat /\ b \in Nat /\ r \in Nat /\ rounds \in Nat /\ m \in Nat /\ k \in Nat /\ n \in Nat
  BY <1>1, <1>2, LeftIs, AheadIs DEF Closable, HandlerState
<1>7. was = a + 24 * r + 6 * m /\ is = b + 24 * rounds + 6 * k /\ closing = 2 * n /\ is < was
  OBVIOUS
<1> HIDE DEF a, b, r, m, k, n
<1>3. was \in Nat /\ is \in Nat /\ closing \in Nat /\ is < was
  BY <1>6, <1>7
<1>4. Left(h) = is + closing /\ Left(thread[t]) = was + closing
  BY DEF Left, a, b, r, m, k, n
<1> HIDE DEF was, is, closing
<1>5. Left(h) < Left(thread[t])
  BY <1>3, <1>4
<1> QED
  BY <1>2, <1>5 DEF Shortens

LEMMA ShorterGoto ==
  ASSUME HandlerInv, ClosableInv, NEW t \in Threads,
         NEW label \in Labels \ {"close", "remove"}, Goto(t, label),
         Ahead(label, thread[t].resume) < Ahead(thread[t].pc, thread[t].resume)
  PROVE  Shortens(t)
<1> DEFINE h == [thread[t] EXCEPT !.pc = label]
<1>1. thread[t] \in HandlerState
  BY DEF HandlerInv, TypeOK
<1>2. /\ h \in HandlerState /\ h.pc = label /\ h.resume = thread[t].resume
      /\ h.closing = thread[t].closing /\ h.rounds = thread[t].rounds
      /\ h.pending = thread[t].pending
      /\ thread[t].rounds \in 0..2 /\ thread[t].pending \in Seq(Signals)
      /\ thread[t].pc \in Labels /\ thread[t].resume \in {"run", "exitTake"}
  BY <1>1 DEF HandlerState
<1>3. Become(t, h)
  BY DEF Goto
<1> DEFINE a == Ahead(label, thread[t].resume)
           b == Ahead(thread[t].pc, thread[t].resume)
           m == Len(thread[t].pending)
           r == thread[t].rounds
<1>4. a \in Nat /\ b \in Nat /\ m \in Nat /\ r \in Nat /\ a < b
  BY <1>2, AheadIs
<1> HIDE DEF a, b, m, r
<1>5. a + 24 * r + 6 * m < b + 24 * r + 6 * m
  BY <1>4
<1> HIDE DEF h
<1> QED
  BY <1>2, <1>3, <1>5, ShorterMove DEF a, b, m, r

LEMMA ShorterAbort ==
  ASSUME HandlerInv, ClosableInv, NEW t \in Threads, Abort(t), ~At(t, "idle")
  PROVE  Shortens(t)
<1>1. thread[t] \in HandlerState /\ Closable(thread[t])
  BY DEF HandlerInv, TypeOK, ClosableInv
<1>2. Left(Idle) = 0
  <2>1. Idle.pc = "idle" /\ Idle.resume = "run" /\ Idle.rounds = 0 /\ Idle.pending = <<>>
        /\ Idle.closing = {}
    BY DEF Idle
  <2>2. Ahead("idle", "run") = 0 /\ Len(Idle.pending) = 0 /\ Cardinality(Idle.closing) = 0
    BY <2>1, FS_EmptySet DEF Ahead
  <2> QED
    BY <2>1, <2>2 DEF Left
<1>3. Closable(Idle)
  BY FS_EmptySet DEF Closable, Idle
<1>4. Left(thread[t]) > 0
  <2> DEFINE h == thread[t]
  <2>1. h.pc \in Labels /\ h.resume \in {"run", "exitTake"} /\ h.pc # "idle"
    BY <1>1 DEF HandlerState, At
  <2>2. CASE h.pc = "remove"
    <3>1. IsFiniteSet(h.closing) /\ h.closing # {}
      BY <1>1, <2>2 DEF Closable
    <3>2. Cardinality(h.closing) # 0
      BY <3>1, FS_EmptySet
    <3> QED
      BY <1>1, <3>1, <3>2, LeftIs
  <2>3. CASE h.pc # "remove"
    <3>1. Ahead(h.pc, h.resume) > 0
      BY <2>1, <2>3, AheadIs
    <3>2. IsFiniteSet(h.closing)
      BY <1>1 DEF Closable
    <3> QED
      BY <1>1, <3>1, <3>2, LeftIs
  <2> QED
    BY <2>2, <2>3
<1> QED
  BY <1>2, <1>3, <1>4, IdleType DEF Abort, Shortens

\* The executor is done with a signal.
LEMMA ShorterSignal ==
  ASSUME HandlerInv, ClosableInv, NEW t \in Threads, NextSignal(t), thread[t].pending # <<>>,
         thread[t].pc \in {"signal", "approve", "approveBook", "place", "open", "insert"}
  PROVE  Shortens(t)
<1> DEFINE rest == Tail(thread[t].pending)
           h == [thread[t] EXCEPT !.pc = "signal", !.pending = rest]
<1>1. thread[t] \in HandlerState
  BY DEF HandlerInv, TypeOK
<1>2. thread[t].pending \in Seq(Signals)
  BY <1>1 DEF HandlerState
<1>3. rest \in Seq(Signals) /\ Len(rest) = Len(thread[t].pending) - 1 /\ Len(thread[t].pending) \in Nat
  BY <1>2
<1>4. Become(t, h)
  BY DEF NextSignal
<1> HIDE DEF rest
<1>5. /\ h \in HandlerState /\ h.pc = "signal" /\ h.resume = thread[t].resume
      /\ h.closing = thread[t].closing /\ h.rounds = thread[t].rounds /\ h.pending = rest
      /\ thread[t].rounds \in 0..2 /\ "signal" \in Labels \ {"close", "remove"}
  BY <1>1, <1>3 DEF HandlerState, Labels
<1> HIDE DEF h
<1>6. Ahead("signal", thread[t].resume) = 9 /\ Ahead(thread[t].pc, thread[t].resume) \in 4..9
  BY DEF Ahead
<1> DEFINE a == Ahead("signal", thread[t].resume)
           b == Ahead(thread[t].pc, thread[t].resume)
           m == Len(thread[t].pending)
           n == Len(rest)
           r == thread[t].rounds
<1>7. a = 9 /\ b \in 4..9 /\ m \in Nat /\ n = m - 1 /\ r \in 0..2
  BY <1>3, <1>5, <1>6
<1> HIDE DEF a, b, m, n, r
<1>8. a + 24 * r + 6 * n < b + 24 * r + 6 * m
  BY <1>7
<1> QED
  BY <1>3, <1>4, <1>5, <1>8, ShorterMove DEF a, b, m, n, r

\* The handler turns to closing the positions of a set.
LEMMA ShorterClose ==
  ASSUME HandlerInv, ClosableInv, NEW t \in Threads, NEW set \in SUBSET Position,
         NEW resume \in {"run", "exitTake"}, CloseAll(t, set, resume),
         IsFiniteSet(set), \A p \in set : p.id <= opened,
         Ahead("close", resume) + 2 * Cardinality(set)
           < Ahead(thread[t].pc, thread[t].resume) + 2 * Cardinality(thread[t].closing)
  PROVE  Shortens(t)
<1> DEFINE pc == IF set = {} THEN resume ELSE "close"
           back == IF set = {} THEN "run" ELSE resume
           h == [thread[t] EXCEPT !.pc = pc, !.closing = set, !.resume = back]
<1>1. thread[t] \in HandlerState /\ Closable(thread[t])
  BY DEF HandlerInv, TypeOK, ClosableInv
<1>2. Become(t, h)
  BY DEF CloseAll
<1>3. pc \in Labels /\ back \in {"run", "exitTake"} /\ (pc \in {"close", "remove"} => set # {})
  BY DEF Labels
<1>4. Ahead(pc, back) = Ahead("close", resume)
  BY DEF Ahead
<1> HIDE DEF pc, back
<1>5. /\ h \in HandlerState /\ h.pc = pc /\ h.resume = back /\ h.closing = set
      /\ h.rounds = thread[t].rounds /\ h.pending = thread[t].pending
  BY <1>1, <1>3 DEF HandlerState
<1> HIDE DEF h
<1>6. Closable(h)
  BY <1>3, <1>5 DEF Closable
<1> DEFINE a == Ahead(thread[t].pc, thread[t].resume)
           b == Ahead("close", resume)
           r == thread[t].rounds
           m == Len(thread[t].pending)
           n == Cardinality(thread[t].closing)
           k == Cardinality(set)
<1>7. a \in Nat /\ r \in Nat /\ m \in Nat /\ n \in Nat
  BY <1>1, LeftIs DEF Closable
<1>8. b \in Nat /\ k \in Nat /\ b + 2 * k < a + 2 * n
  <2>1. "close" \in Labels
    BY DEF Labels
  <2> QED
    BY <2>1, AheadIs, FS_CardinalityType
<1>9. Left(thread[t]) = a + 24 * r + 6 * m + 2 * n /\ Left(h) = b + 24 * r + 6 * m + 2 * k
  BY <1>4, <1>5 DEF Left
<1> HIDE DEF a, b, r, m, n, k
<1>10. Left(h) < Left(thread[t])
  BY <1>7, <1>8, <1>9
<1> QED
  BY <1>2, <1>5, <1>6, <1>10 DEF Shortens

LEMMA NewestIsOne ==
  ASSUME HandlerInv, positions # {}
  PROVE  LET set == {Newest(positions)}
         IN  /\ set \in SUBSET Position /\ IsFiniteSet(set) /\ Cardinality(set) = 1
             /\ \A p \in set : p.id <= opened
<1>1. \A p \in positions : p.id \in Nat /\ p.id <= opened
  BY DEF HandlerInv, TypeOK, Position
<1>2. opened \in Nat
  BY DEF HandlerInv, TypeOK
<1>3. Newest(positions) \in positions
  BY <1>1, <1>2, NewestIsMember
<1> QED
  BY <1>1, <1>3, FS_Singleton DEF HandlerInv, TypeOK

LEMMA PositionsAreClosable ==
  ASSUME HandlerInv, SlotInv
  PROVE  /\ positions \in SUBSET Position /\ IsFiniteSet(positions)
         /\ Cardinality(positions) \in Nat /\ Cardinality(positions) <= Capacity
         /\ \A p \in positions : p.id <= opened
<1>1. Cardinality(positions) \in Nat
  BY FS_CardinalityType DEF SlotInv
<1>2. Cardinality(positions) <= Capacity
  BY <1>1, CommittedFacts, LimitsAssumption DEF SlotInv, Capacity
<1> QED
  BY <1>1, <1>2 DEF SlotInv, HandlerInv, TypeOK

\* close_position and its removal take a position off the handler's list.
LEMMA ClosingShrinks ==
  ASSUME HandlerInv, ClosableInv, NEW t \in Threads, thread[t].pc \in {"close", "remove"}
  PROVE  LET rest == thread[t].closing \ {Newest(thread[t].closing)}
         IN  /\ rest \in SUBSET Position /\ IsFiniteSet(rest) /\ \A p \in rest : p.id <= opened
             /\ Cardinality(rest) = Cardinality(thread[t].closing) - 1
             /\ Cardinality(thread[t].closing) \in Nat
<1> DEFINE set == thread[t].closing
<1>1. IsFiniteSet(set) /\ set # {} /\ \A p \in set : p.id <= opened
  BY DEF ClosableInv, Closable
<1>2. set \in SUBSET Position /\ opened \in Nat
  BY DEF HandlerInv, TypeOK, HandlerState
<1>3. \A p \in set : p.id \in Nat
  BY <1>2 DEF Position
<1> HIDE DEF set
<1>4. Newest(set) \in set
  BY <1>1, <1>2, <1>3, NewestIsMember
<1>5. IsFiniteSet(set \ {Newest(set)}) /\ Cardinality(set \ {Newest(set)}) = Cardinality(set) - 1
  BY <1>1, <1>4, FS_RemoveElement
<1> QED
  BY <1>1, <1>2, <1>5, FS_CardinalityType DEF set

LEMMA StepShortensHandler ==
  ASSUME HandlerInv, SlotInv, ClosableInv, NEW t \in Threads, Step(t)
  PROVE  Shortens(t)
<1> DEFINE h == thread[t]
<1>1. h \in HandlerState
  BY DEF HandlerInv, TypeOK
<1>2. h.pc \in Labels /\ h.resume \in {"run", "exitTake"} /\ h.rounds \in 0..2
      /\ h.pending \in Seq(Signals)
  BY <1>1 DEF HandlerState
<1>3. Capacity \in Nat
  BY CapacityIs
<1>4. Cardinality(h.closing) \in Nat
  BY FS_CardinalityType DEF ClosableInv, Closable
<1>g. ASSUME NEW l \in Labels \ {"close", "remove"}, Goto(t, l), Ahead(l, h.resume) < Ahead(h.pc, h.resume)
      PROVE  Shortens(t)
  BY <1>g, ShorterGoto
<1>a. ASSUME Abort(t), ~At(t, "idle") PROVE Shortens(t)
  BY <1>a, ShorterAbort
<1>o. ASSUME NEW resume \in {"run", "exitTake"}, positions # {},
             CloseAll(t, {Newest(positions)}, resume), Ahead("close", resume) + 2 < Ahead(h.pc, h.resume)
      PROVE  Shortens(t)
  <2> DEFINE set == {Newest(positions)}
             a == Ahead("close", resume)
             b == Ahead(h.pc, h.resume)
             n == Cardinality(h.closing)
             m == Cardinality(set)
  <2>1. "close" \in Labels
    BY DEF Labels
  <2>2. a \in Nat /\ b \in Nat
    BY <1>2, <2>1, AheadIs
  <2>3. set \in SUBSET Position /\ IsFiniteSet(set) /\ m = 1 /\ \A p \in set : p.id <= opened
    BY <1>o, NewestIsOne
  <2>4. CloseAll(t, set, resume) /\ a + 2 < b /\ n \in Nat
    BY <1>4, <1>o
  <2> HIDE DEF set, a, b, n, m
  <2>5. a + 2 * m < b + 2 * n
    BY <2>2, <2>3, <2>4
  <2> QED
    BY <2>3, <2>4, <2>5, ShorterClose DEF a, b, n, m
<1>n. ASSUME NextSignal(t), h.pending # <<>>,
             h.pc \in {"signal", "approve", "approveBook", "place", "open", "insert"}
      PROVE  Shortens(t)
  BY <1>n, ShorterSignal
<1>s. h.pc \in {"approve", "approveBook", "place", "open", "insert"} => h.pending # <<>>
  BY DEF HandlerInv, CarriesSignal
<1>5. CASE EmergencyStop(t)
  <2>1. "snapshot" \in Labels \ {"close", "remove"} /\ Goto(t, "snapshot") /\ h.pc = "emergency"
    BY <1>5 DEF EmergencyStop, At, Labels
  <2>2. Ahead("snapshot", h.resume) < Ahead("emergency", h.resume)
    BY <1>3 DEF Ahead
  <2> QED
    BY <1>g, <2>1, <2>2
<1>6. CASE SnapshotPositions(t)
  <2>1. CloseAll(t, positions, "run") /\ h.pc = "snapshot"
    BY <1>6 DEF SnapshotPositions, At
  <2>2. Ahead("close", "run") = 1 /\ Ahead("snapshot", h.resume) = 2 * Capacity + 2
    BY DEF Ahead
  <2>3. 1 + 2 * Cardinality(positions) < 2 * Capacity + 2 + 2 * Cardinality(h.closing)
    BY <1>3, <1>4, PositionsAreClosable
  <2> QED
    BY <2>1, <2>2, <2>3, PositionsAreClosable, ShorterClose
<1>7. CASE LeadCloses(t)
  <2>1. h.pc = "leadCloses" /\ {"run", "leadPick"} \subseteq Labels \ {"close", "remove"}
    BY <1>7 DEF LeadCloses, At, Labels
  <2>2. Ahead("run", h.resume) = 1 /\ Ahead("leadCloses", h.resume) = 29
        /\ Ahead("leadPick", h.resume) = 4
    BY DEF Ahead
  <2>3. CASE Goto(t, "run")
    BY <1>g, <2>1, <2>2, <2>3
  <2>4. CASE Become(t, [h EXCEPT !.pc = "leadPick", !.rounds = 1])
    <3> DEFINE k == [h EXCEPT !.pc = "leadPick", !.rounds = 1]
    <3>0. 1 \in 0..2
      OBVIOUS
    <3>1. /\ k \in HandlerState /\ k.pc = "leadPick" /\ k.resume = h.resume
          /\ k.closing = h.closing /\ k.rounds = 1 /\ k.pending = h.pending
      BY <1>1, <2>1, <3>0 DEF HandlerState
    <3> HIDE DEF k
    <3>2. Become(t, k) /\ 1 \in 0..2
      BY <2>4 DEF k
    <3> DEFINE m == Len(h.pending)
               r == h.rounds
    <3>3. m \in Nat /\ r \in Nat
      BY <1>2
    <3> HIDE DEF m, r
    <3>4. 4 + 24 * 1 + 6 * m < 29 + 24 * r + 6 * m
      BY <3>3
    <3> QED
      BY <1>2, <2>1, <2>2, <3>1, <3>2, <3>4, ShorterMove DEF m, r
  <2> QED
    BY <1>7, <2>3, <2>4 DEF LeadCloses
<1>8. CASE LeadPick(t)
  <2>1. h.pc = "leadPick" /\ ~At(t, "idle")
    BY <1>8 DEF LeadPick, At
  <2>2. Ahead("close", "run") + 2 < Ahead("leadPick", h.resume)
    BY DEF Ahead
  <2>3. CASE positions = {}
    BY <1>8, <1>a, <2>1, <2>3 DEF LeadPick
  <2>4. CASE positions # {}
    BY <1>8, <1>o, <2>1, <2>2, <2>4 DEF LeadPick
  <2> QED
    BY <2>3, <2>4
<1>9. CASE ClosePosition(t) \/ RemovePosition(t)
  <2> DEFINE rest == h.closing \ {Newest(h.closing)}
             a == Ahead("close", h.resume)
             b == Ahead("remove", h.resume)
             n == Cardinality(h.closing)
             m == Cardinality(rest)
  <2>1. h.pc \in {"close", "remove"} /\ ~At(t, "idle")
    BY <1>9 DEF ClosePosition, RemovePosition, At
  <2>2. /\ rest \in SUBSET Position /\ IsFiniteSet(rest) /\ \A p \in rest : p.id <= opened
        /\ m = n - 1 /\ n \in Nat
    BY <2>1, ClosingShrinks
  <2>3. a \in Nat /\ b = a - 1
    BY DEF Ahead
  <2>4. CASE CloseAll(t, rest, h.resume)
    <3> HIDE DEF rest, a, b, n, m
    <3>1. a + 2 * m < a + 2 * n /\ a + 2 * m < b + 2 * n
      BY <2>2, <2>3
    <3> QED
      BY <1>2, <2>1, <2>2, <2>4, <3>1, ShorterClose DEF a, b, n, m
  <2>5. CASE Abort(t)
    BY <1>a, <2>1, <2>5
  <2>6. CASE h.pc = "close" /\ Goto(t, "remove")
    <3> DEFINE k == [h EXCEPT !.pc = "remove"]
    <3>1. /\ k \in HandlerState /\ k.pc = "remove" /\ k.resume = h.resume
          /\ k.closing = h.closing /\ k.rounds = h.rounds /\ k.pending = h.pending
      BY <1>1 DEF HandlerState, Labels
    <3> HIDE DEF k
    <3>2. Become(t, k)
      BY <2>6 DEF k, Goto
    <3>3. Closable(k)
      BY <2>1, <3>1 DEF ClosableInv, Closable
    <3> DEFINE q == Len(h.pending)
               r == h.rounds
    <3>4. q \in Nat /\ r \in Nat
      BY <1>2
    <3>5. Left(k) = b + 24 * r + 6 * q + 2 * n /\ Left(h) = a + 24 * r + 6 * q + 2 * n
      BY <2>6, <3>1 DEF Left
    <3> HIDE DEF a, b, n, q, r
    <3>6. Left(k) < Left(h)
      BY <2>2, <2>3, <3>4, <3>5
    <3> QED
      BY <3>1, <3>2, <3>3, <3>6 DEF Shortens
  <2> QED
    BY <1>9, <2>4, <2>5, <2>6 DEF ClosePosition, RemovePosition, At
<1>10. CASE RunOnce(t)
  <2> DEFINE l == IF botState = "RUNNING" THEN "copy" ELSE "run"
             k == [h EXCEPT !.pc = l, !.rounds = @ - 1]
             m == Len(h.pending)
             r == h.rounds
             a == Ahead(l, h.resume)
  <2>1. h.pc = "run" /\ r > 0 /\ Become(t, k) /\ l \in Labels \ {"close", "remove"}
    BY <1>10 DEF RunOnce, At, Labels
  <2>2. a \in {1, 24} /\ Ahead("run", h.resume) = 1
    BY DEF Ahead
  <2> HIDE DEF l
  <2>3. /\ k \in HandlerState /\ k.pc = l /\ k.resume = h.resume
        /\ k.closing = h.closing /\ k.rounds = r - 1 /\ k.pending = h.pending
    <3>1. r - 1 \in 0..2
      BY <1>2, <2>1
    <3> QED
      BY <1>1, <2>1, <3>1 DEF HandlerState
  <2> HIDE DEF k
  <2>4. m \in Nat /\ r \in 1..2 /\ r - 1 \in 0..2
    BY <1>2, <2>1
  <2> HIDE DEF m, r, a
  <2>5. a + 24 * (r - 1) + 6 * m < 1 + 24 * r + 6 * m
    BY <2>2, <2>4
  <2> QED
    BY <1>2, <2>1, <2>2, <2>3, <2>4, <2>5, ShorterMove DEF m, r, a
<1>11. CASE Reply(t)
  BY <1>11, <1>a DEF Reply, Abort, At
<1>12. CASE NextCopySignal(t) \/ EndOfSignals(t) \/ ExitGate(t)
  <2>1. {"emit", "volume", "exit", "run", "exitStop"} \subseteq Labels \ {"close", "remove"}
    BY DEF Labels
  <2>2. /\ Ahead("emit", h.resume) = 23 /\ Ahead("volume", h.resume) = 16
        /\ Ahead("copy", h.resume) = 24 /\ Ahead("signal", h.resume) = 9
        /\ Ahead("exit", h.resume) = 8 /\ Ahead("run", h.resume) = 1
        /\ Ahead("exitStop", h.resume) = 7
    BY DEF Ahead
  <2>3. \/ h.pc = "copy" /\ \E l \in {"emit", "volume"} : Goto(t, l)
        \/ h.pc = "signal" /\ Goto(t, "exit")
        \/ h.pc = "exit" /\ \E l \in {"run", "exitStop"} : Goto(t, l)
    BY <1>12 DEF NextCopySignal, EndOfSignals, ExitGate, At
  <2>4. \E l \in {"emit", "volume", "exit", "run", "exitStop"} :
          Goto(t, l) /\ Ahead(l, h.resume) < Ahead(h.pc, h.resume)
    BY <2>2, <2>3
  <2> QED
    BY <1>g, <2>1, <2>4
<1>13. CASE EmitCopySignal(t)
  <2>1. h.pc = "emit" /\ ~At(t, "idle") /\ "volume" \in Labels \ {"close", "remove"}
    BY <1>13 DEF EmitCopySignal, At, Labels
  <2>2. CASE Abort(t)
    BY <1>a, <2>1, <2>2
  <2>3. CASE scenario \in CopyScenarios /\ Become(t, [h EXCEPT !.pc = "volume", !.pending = <<scenario>>])
    <3> DEFINE q == <<scenario>>
               k == [h EXCEPT !.pc = "volume", !.pending = q]
               m == Len(h.pending)
               r == h.rounds
    <3>1. q \in Seq(Signals) /\ Len(q) = 1
      BY <2>3 DEF Signals
    <3> HIDE DEF q
    <3>2. /\ k \in HandlerState /\ k.pc = "volume" /\ k.resume = h.resume
          /\ k.closing = h.closing /\ k.rounds = r /\ k.pending = q
      BY <1>1, <2>1, <3>1 DEF HandlerState
    <3>3. Become(t, k)
      BY <2>3 DEF q
    <3> HIDE DEF k
    <3>4. Ahead("volume", h.resume) = 16 /\ Ahead("emit", h.resume) = 23
      BY DEF Ahead
    <3>5. m \in Nat /\ r \in 0..2
      BY <1>2
    <3> HIDE DEF m, r
    <3>6. 16 + 24 * r + 6 * 1 < 23 + 24 * r + 6 * m
      BY <3>5
    <3> QED
      BY <2>1, <3>1, <3>2, <3>3, <3>4, <3>5, <3>6, ShorterMove DEF m, r
  <2> QED
    BY <1>13, <2>2, <2>3 DEF EmitCopySignal
<1>14. CASE Evaluate(t)
  <2> DEFINE found == IF strategyState["VOLUME"] # "PAUSED" /\ scenario \in BreakoutScenarios
                      THEN <<scenario>> ELSE <<>>
             q == h.pending \o found
             k == [h EXCEPT !.pc = "signal", !.pending = q]
             m == Len(h.pending)
             n == Len(q)
             r == h.rounds
  <2>1. h.pc = "volume" /\ "signal" \in Labels \ {"close", "remove"}
    BY <1>14 DEF Evaluate, At, Labels
  <2>2. Become(t, k)
    BY <1>14 DEF Evaluate
  <2>3. found \in Seq(Signals) /\ Len(found) <= 1 /\ Len(found) \in Nat
    BY DEF Signals
  <2> HIDE DEF found
  <2>4. q \in Seq(Signals) /\ n <= m + 1 /\ n \in Nat /\ m \in Nat
    BY <1>2, <2>3
  <2> HIDE DEF q
  <2>5. /\ k \in HandlerState /\ k.pc = "signal" /\ k.resume = h.resume
        /\ k.closing = h.closing /\ k.rounds = r /\ k.pending = q
    BY <1>1, <2>1, <2>4 DEF HandlerState
  <2> HIDE DEF k
  <2>6. Ahead("signal", h.resume) = 9 /\ Ahead("volume", h.resume) = 16
    BY DEF Ahead
  <2>7. r \in 0..2
    BY <1>2
  <2> HIDE DEF m, n, r
  <2>8. 9 + 24 * r + 6 * n < 16 + 24 * r + 6 * m
    BY <2>4, <2>7
  <2> QED
    BY <2>1, <2>2, <2>4, <2>5, <2>6, <2>7, <2>8, ShorterMove DEF m, n, r
<1>15. CASE CheckDuplicate(t)
  <2>1. h.pc = "signal" /\ h.pending # <<>>
    BY <1>15 DEF CheckDuplicate, At
  <2>2. CASE NextSignal(t)
    BY <1>n, <2>1, <2>2
  <2>3. CASE Become(t, [h EXCEPT !.pc = "approve", !.price = Price(scenario)])
    <3> DEFINE k == [h EXCEPT !.pc = "approve", !.price = Price(scenario)]
               m == Len(h.pending)
               r == h.rounds
    <3>1. Price(scenario) \in Int /\ "approve" \in Labels \ {"close", "remove"}
      BY SignalFacts DEF HandlerInv, TypeOK, Labels
    <3>2. /\ k \in HandlerState /\ k.pc = "approve" /\ k.resume = h.resume
          /\ k.closing = h.closing /\ k.rounds = r /\ k.pending = h.pending
      BY <1>1, <3>1 DEF HandlerState
    <3>3. Become(t, k)
      BY <2>3
    <3> HIDE DEF k
    <3>4. Ahead("approve", h.resume) = 8 /\ Ahead("signal", h.resume) = 9
      BY DEF Ahead
    <3>5. m \in Nat /\ r \in 0..2
      BY <1>2
    <3> HIDE DEF m, r
    <3>6. 8 + 24 * r + 6 * m < 9 + 24 * r + 6 * m
      BY <3>5
    <3> QED
      BY <1>2, <2>1, <3>1, <3>2, <3>3, <3>4, <3>5, <3>6, ShorterMove DEF m, r
  <2> QED
    BY <1>15, <2>2, <2>3 DEF CheckDuplicate
<1>16. CASE ApproveState(t) \/ ApproveBook(t) \/ CheckPosition(t)
  <2>1. \/ h.pc = "approve" /\ (NextSignal(t) \/ Goto(t, "approveBook"))
        \/ h.pc = "approveBook" /\ (NextSignal(t) \/ Goto(t, "place"))
        \/ h.pc = "open" /\ (NextSignal(t) \/ Goto(t, "insert"))
    BY <1>16 DEF ApproveState, ApproveBook, CheckPosition, Reject, At
  <2>2. {"approveBook", "place", "insert"} \subseteq Labels \ {"close", "remove"}
    BY DEF Labels
  <2>3. /\ Ahead("approve", h.resume) = 8 /\ Ahead("approveBook", h.resume) = 7
        /\ Ahead("place", h.resume) = 6 /\ Ahead("open", h.resume) = 5
        /\ Ahead("insert", h.resume) = 4
    BY DEF Ahead
  <2>4. CASE NextSignal(t)
    BY <1>n, <1>s, <2>1, <2>4
  <2>5. CASE \E l \in {"approveBook", "place", "insert"} :
               Goto(t, l) /\ Ahead(l, h.resume) < Ahead(h.pc, h.resume)
    BY <1>g, <2>2, <2>5
  <2> QED
    BY <2>1, <2>3, <2>4, <2>5
<1>17. CASE PlaceOrder(t)
  <2>1. h.pc = "place" /\ "open" \in Labels \ {"close", "remove"}
    BY <1>17 DEF PlaceOrder, At, Labels
  <2>2. CASE NextSignal(t)
    BY <1>n, <1>s, <2>1, <2>2
  <2>3. CASE Become(t, [h EXCEPT !.pc = "open", !.order = Len(orders) + 1])
    <3> DEFINE k == [h EXCEPT !.pc = "open", !.order = Len(orders) + 1]
               m == Len(h.pending)
               r == h.rounds
    <3>1. Len(orders) + 1 \in Nat
      BY DEF HandlerInv, TypeOK
    <3>2. /\ k \in HandlerState /\ k.pc = "open" /\ k.resume = h.resume
          /\ k.closing = h.closing /\ k.rounds = r /\ k.pending = h.pending
      BY <1>1, <2>1, <3>1 DEF HandlerState
    <3>3. Become(t, k)
      BY <2>3
    <3> HIDE DEF k
    <3>4. Ahead("open", h.resume) = 5 /\ Ahead("place", h.resume) = 6
      BY DEF Ahead
    <3>5. m \in Nat /\ r \in 0..2
      BY <1>2
    <3> HIDE DEF m, r
    <3>6. 5 + 24 * r + 6 * m < 6 + 24 * r + 6 * m
      BY <3>5
    <3> QED
      BY <1>2, <2>1, <3>2, <3>3, <3>4, <3>5, <3>6, ShorterMove DEF m, r
  <2> QED
    BY <1>17, <2>2, <2>3 DEF PlaceOrder
<1>18. CASE InsertPosition(t)
  BY <1>18, <1>n, <1>s DEF InsertPosition, At
<1>19. CASE ExitStopLoss(t) \/ ExitTakeProfit(t)
  <2>1. PICK s, resume :
          /\ ExitOn(t, s, resume)
          /\ \/ h.pc = "exitStop" /\ resume = "exitTake"
             \/ h.pc = "exitTake" /\ resume = "run"
    BY <1>19 DEF ExitStopLoss, ExitTakeProfit, At
  <2>2. Ahead("close", resume) + 2 < Ahead(h.pc, h.resume) /\ Ahead(resume, h.resume) < Ahead(h.pc, h.resume)
    BY <2>1 DEF Ahead
  <2>3. resume \in Labels \ {"close", "remove"} /\ resume \in {"run", "exitTake"} /\ ~At(t, "idle")
    BY <2>1 DEF Labels, At
  <2>4. CASE Goto(t, resume)
    BY <1>g, <2>2, <2>3, <2>4
  <2>5. CASE Abort(t)
    BY <1>a, <2>3, <2>5
  <2>6. CASE positions # {} /\ CloseAll(t, {Newest(positions)}, resume)
    BY <1>o, <2>2, <2>3, <2>6
  <2> QED
    BY <2>1, <2>4, <2>5, <2>6 DEF ExitOn
<1> QED
  BY <1>5, <1>6, <1>7, <1>8, <1>9, <1>10, <1>11, <1>12, <1>13, <1>14, <1>15, <1>16, <1>17, <1>18,
     <1>19 DEF Step

\* A request starts with no more left than the longest one, and with nothing to close.
LEMMA RequestStarts ==
  ASSUME HandlerInv, NEW t \in Threads, Request(t)
  PROVE  \E h \in HandlerState : Become(t, h) /\ Closable(h) /\ Left(h) \in 0..LongestHandler
<1>1. At(t, "idle") /\ \E rounds \in {1, 2} : \E label \in {"emergency", "leadCloses", "run"} :
        Begin(t, label, rounds)
  <2>1. ASSUME NEW s \in Scenarios, ApplyScenario(t, s)
        PROVE  At(t, "idle") /\ \E label \in {"emergency", "leadCloses", "run"} : Begin(t, label, 2)
    BY <2>1 DEF ApplyScenario, MayAccept
  <2>2. ASSUME NEW s \in Strategies, PauseStrategy(t, s) \/ ResumeStrategy(t, s)
        PROVE  At(t, "idle") /\ Begin(t, "run", 1)
    BY <2>2 DEF PauseStrategy, ResumeStrategy, SetStrategyState, MayAccept
  <2>3. CASE Start(t) \/ Stop(t) \/ DashboardSnapshot(t) \/ EmergencyCloseAll(t)
    BY <2>3 DEF Start, Stop, DashboardSnapshot, EmergencyCloseAll, MayAccept
  <2> QED
    BY <2>1, <2>2, <2>3 DEF Request
<1>2. PICK rounds \in {1, 2}, label \in {"emergency", "leadCloses", "run"} : Begin(t, label, rounds)
  BY <1>1
<1> DEFINE h == [Idle EXCEPT !.pc = label, !.rounds = rounds]
           a == Ahead(label, "run")
           most == 2 * Capacity
<1>3. label \in Labels /\ rounds \in 0..2
  BY DEF Labels
<1>4. h \in HandlerState /\ Left(h) = a + 24 * rounds
  BY <1>3, IdleLeft
<1>5. Become(t, h)
  BY <1>2 DEF Begin
<1>6. Closable(h)
  BY FS_EmptySet DEF Closable, Idle
<1>7. a \in {1, 29, most + 3} /\ most \in Nat /\ LongestHandler = 2 * 24 + 29 + most
  BY CapacityIs DEF Ahead, LongestHandler
<1> HIDE DEF h, a, most
<1>8. Left(h) \in 0..LongestHandler
  BY <1>3, <1>4, <1>7
<1> QED
  BY <1>4, <1>5, <1>6, <1>8

\* Positions are numbered upwards, so that what a handler closes stays closable.
LEMMA OpenedGrows ==
  ASSUME HandlerInv, NEW t \in Threads, Request(t) \/ Step(t)
  PROVE  opened \in Nat /\ opened' \in Nat /\ opened <= opened'
<1>1. opened \in Nat
  BY DEF HandlerInv, TypeOK
<1>2. opened' = opened \/ opened' = opened + 1
  <2>1. CASE QuietStep
    BY <2>1 DEF QuietStep, LedgerQuiet, book
  <2>2. CASE ~QuietStep
    BY <2>2, QuietActions DEF ApproveBook, PlaceOrder, InsertPosition, RemovePosition, book
  <2> QED
    BY <2>1, <2>2
<1> QED
  BY <1>1, <1>2

LEMMA ShortInit == Init => ShortInv
<1> SUFFICES ASSUME Init, NEW t \in Threads
             PROVE  Closable(thread[t]) /\ HandlerStepsLeft(t) \in 0..LongestHandler
  BY DEF ShortInv, ClosableInv
<1>1. thread[t] = Idle
  BY DEF Init
<1>2. Closable(Idle)
  BY FS_EmptySet DEF Closable, Idle
<1>3. Left(Idle) = 0
  <2>1. Idle.pc = "idle" /\ Idle.resume = "run" /\ Idle.rounds = 0 /\ Idle.pending = <<>>
        /\ Idle.closing = {}
    BY DEF Idle
  <2>2. Ahead("idle", "run") = 0 /\ Len(Idle.pending) = 0 /\ Cardinality(Idle.closing) = 0
    BY <2>1, FS_EmptySet DEF Ahead
  <2> QED
    BY <2>1, <2>2 DEF Left
<1>4. 0 \in 0..LongestHandler
  BY CapacityIs DEF LongestHandler
<1> QED
  BY <1>1, <1>2, <1>3, <1>4 DEF HandlerStepsLeft

\* A step of one handler does not touch another, and it starts a request or shortens one.
LEMMA ShortMove ==
  ASSUME HandlerInv, ShortInv, NEW t \in Threads, NEW h \in HandlerState, Become(t, h), Closable(h),
         Left(h) \in 0..LongestHandler, opened \in Nat, opened' \in Nat, opened <= opened'
  PROVE  ShortInv'
<1>1. \A u \in Threads : thread'[u] = IF u = t THEN h ELSE thread[u]
  BY DEF HandlerInv, TypeOK, Become
<1>2. thread \in [Threads -> HandlerState]
  BY DEF HandlerInv, TypeOK
<1>3. ASSUME NEW u \in Threads PROVE Closable(thread[u])' /\ HandlerStepsLeft(u)' \in 0..LongestHandler
  <2> DEFINE k == thread'[u]
  <2>1. Closable(k) /\ Left(k) \in 0..LongestHandler /\ k \in HandlerState
    BY <1>1, <1>2 DEF ShortInv, ClosableInv, HandlerStepsLeft
  <2>2. \A p \in k.closing : p.id \in Nat
    BY <2>1 DEF HandlerState, Position
  <2> HIDE DEF k
  <2>3. \A p \in k.closing : p.id <= opened'
    BY <2>1, <2>2 DEF Closable
  <2> QED
    BY <2>1, <2>3 DEF Closable, HandlerStepsLeft, k, Left
<1> QED
  BY <1>3 DEF ShortInv, ClosableInv, LongestHandler, Capacity

LEMMA ShortStep == HandlerInv /\ SlotInv /\ ShortInv /\ [Next]_vars => ShortInv'
<1> SUFFICES ASSUME HandlerInv, SlotInv, ShortInv, [Next]_vars PROVE ShortInv'
  OBVIOUS
<1>1. ASSUME NEW t \in Threads, Request(t) PROVE ShortInv'
  BY <1>1, RequestStarts, OpenedGrows, ShortMove
<1>2. ASSUME NEW t \in Threads, Step(t) PROVE ShortInv'
  <2>1. PICK h \in HandlerState : Become(t, h) /\ Closable(h) /\ Left(h) < Left(thread[t])
    BY <1>2, StepShortensHandler DEF ShortInv, Shortens
  <2>2. Left(h) \in Nat
    BY <2>1, LeftIs DEF Closable
  <2>3. Left(thread[t]) \in 0..LongestHandler
    BY DEF ShortInv, HandlerStepsLeft
  <2>4. Left(h) \in 0..LongestHandler
    BY <2>1, <2>2, <2>3, CapacityIs DEF LongestHandler
  <2> QED
    BY <1>2, <2>1, <2>4, OpenedGrows, ShortMove
<1>3. CASE UNCHANGED vars
  BY <1>3 DEF vars, book, ShortInv, ClosableInv, Closable, HandlerStepsLeft, Left
<1> QED
  BY <1>1, <1>2, <1>3 DEF Next

\* What is left of each request is bounded by a number that depends on the position limit and
\* the threads only, every step of its handler lowers it, and nothing that another handler
\* does changes it: a request takes at most LongestHandler steps, however the handlers change
\* the shared state under each other (apply_scenario, run_once, close_position).
THEOREM HandlersAreShort ==
  Spec => /\ [](\A t \in Threads : HandlerStepsLeft(t) \in 0..LongestHandler)
          /\ [][\A t \in Threads :
                  ~At(t, "idle") => IF Step(t) THEN HandlerStepsLeft(t)' < HandlerStepsLeft(t)
                                               ELSE HandlerStepsLeft(t)' = HandlerStepsLeft(t)]_vars
<1>1. ShortInv => \A t \in Threads : HandlerStepsLeft(t) \in 0..LongestHandler
  BY DEF ShortInv
<1>2. HandlerInv /\ SlotInv /\ ShortInv /\ [Next]_vars =>
        [\A t \in Threads :
           ~At(t, "idle") => IF Step(t) THEN HandlerStepsLeft(t)' < HandlerStepsLeft(t)
                                        ELSE HandlerStepsLeft(t)' = HandlerStepsLeft(t)]_vars
  <2> SUFFICES ASSUME HandlerInv, SlotInv, ShortInv, Next, NEW t \in Threads, ~At(t, "idle")
               PROVE  IF Step(t) THEN HandlerStepsLeft(t)' < HandlerStepsLeft(t)
                                 ELSE HandlerStepsLeft(t)' = HandlerStepsLeft(t)
    OBVIOUS
  <2>0. thread \in [Threads -> HandlerState]
    BY DEF HandlerInv, TypeOK
  <2>1. CASE Step(t)
    <3>1. PICK h \in HandlerState : Become(t, h) /\ Left(h) < Left(thread[t])
      BY <2>1, StepShortensHandler DEF ShortInv, Shortens
    <3>2. thread'[t] = h
      BY <2>0, <3>1 DEF Become
    <3> QED
      BY <2>1, <3>1, <3>2 DEF HandlerStepsLeft, Left
  <2>2. CASE ~Step(t)
    <3>1. PICK u \in Threads : Request(u) \/ Step(u)
      BY DEF Next
    <3>2. PICK h \in HandlerState : Become(u, h)
      BY <3>1, RequestStarts, StepShortensHandler DEF ShortInv, Shortens
    <3>3. u # t
      <4>1. Request(u) => At(u, "idle")
        BY DEF Request, ApplyScenario, Start, Stop, PauseStrategy, ResumeStrategy, SetStrategyState,
               EmergencyCloseAll, DashboardSnapshot, MayAccept
      <4> QED
        BY <2>2, <3>1, <4>1
    <3>4. thread'[t] = thread[t]
      BY <2>0, <3>2, <3>3 DEF Become
    <3> QED
      BY <2>2, <3>4 DEF HandlerStepsLeft, Left
  <2> QED
    BY <2>1, <2>2
<1> QED
  BY <1>1, <1>2, HandlerInit, HandlerStep, SlotInit, SlotStep, ShortInit, ShortStep, PTL DEF Spec

=============================================================================
