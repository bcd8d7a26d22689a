------------------------- MODULE SerialTrading_proofs -------------------------
(***************************************************************************)
(* Theorems about the trading engine when one handler runs at a time, for  *)
(* every choice of scenarios, controls and limits: it implements the steps *)
(* of PositionBook, an emergency stop leaves it flat, and no signal is     *)
(* ever executed twice.                                                    *)
(*                                                                         *)
(* SoleInv says what the only handler may rely on at each of its steps,    *)
(* because nobody else touches the book: what it found when it checked is  *)
(* still so when it writes.                                                *)
(***************************************************************************)
EXTENDS TradingPlatform_proofs

OneHandler == Cardinality(Threads) = 1

-----------------------------------------------------------------------------
(* The inductive invariant.                                                *)

Running ==
  {"copy", "emit", "volume", "signal", "approve", "approveBook", "place", "open", "insert",
   "exit", "exitStop", "exitTake"}
Closing == {"close", "remove"}
Opening == {"place", "open", "insert"}

OneSide == \A p, q \in positions : p.side = q.side
OneEach == \A p, q \in positions : p.strategy = q.strategy => p = q

\* The engine runs the rounds of a RUNNING engine only; the positions a handler is closing
\* are open; an emergency-stopped engine is flat, or its handler has still to close all
\* that is open; and the handler that is opening a position has found room for it.
SoleHandler(h, mode, open, placed) ==
  /\ h.pc \in Running => mode = "RUNNING"
  /\ h.pc \in Closing => /\ h.closing # {} /\ h.closing \subseteq open
                         /\ h.resume = "exitTake" => mode = "RUNNING"
  /\ mode = "EMERGENCY_STOPPED" =>
       \/ open = {}
       \/ h.pc = "snapshot"
       \/ h.pc \in Closing /\ open \subseteq h.closing /\ h.resume = "run"
  /\ h.pc \in Opening => \A p \in open : p.side = SideOf(Head(h.pending))
  /\ h.pc \in {"open", "insert"} => placed[h.order].signal = Head(h.pending)
  /\ h.pc = "insert" => \A p \in open : p.strategy # StrategyOf(Head(h.pending))

SoleInv ==
  /\ OneSide /\ OneEach
  /\ \A t \in Threads : SoleHandler(thread[t], botState, positions, orders)

LEMMA OnlyHandler ==
  ASSUME OneHandler, NEW t \in Threads
  PROVE  Threads = {t}
<1>1. PICK x : Threads = {x}
  BY ThreadsAssumption, FS_Singleton DEF OneHandler
<1> QED
  BY <1>1

\* The only handler becomes h.
LEMMA SoleMove ==
  ASSUME OneHandler, HandlerInv, NEW t \in Threads, NEW h, Become(t, h),
         OneSide', OneEach', SoleHandler(h, botState', positions', orders')
  PROVE  SoleInv'
<1>1. thread'[t] = h /\ \A u \in Threads : u = t
  BY OnlyHandler DEF Become, HandlerInv, TypeOK
<1> QED
  BY <1>1 DEF SoleInv, SoleHandler

\* A step of the handler that neither opens nor closes anything, nor starts to.
LEMMA CalmMove ==
  ASSUME OneHandler, HandlerInv, SoleInv, NEW t \in Threads, NEW h, Become(t, h),
         h.pc \notin Closing \cup Opening, positions' = positions,
         h.pc \in Running => botState' = "RUNNING",
         botState' = "EMERGENCY_STOPPED" => positions = {}
  PROVE  SoleInv'
<1>1. OneSide' /\ OneEach'
  BY DEF SoleInv, OneSide, OneEach
<1>2. SoleHandler(h, botState', positions', orders')
  BY DEF SoleHandler, Opening, Closing
<1> QED
  BY <1>1, <1>2, SoleMove

\* What an emergency-stopped engine is like outside of emergency_stop.
LEMMA HaltedIsFlat ==
  ASSUME SoleInv, NEW t \in Threads, thread[t].pc \notin Closing \cup {"snapshot"},
         botState = "EMERGENCY_STOPPED"
  PROVE  positions = {}
BY DEF SoleInv, SoleHandler

LEMMA RunningFacts ==
  ASSUME SoleInv, NEW t \in Threads, thread[t].pc \in Running
  PROVE  botState = "RUNNING"
BY DEF SoleInv, SoleHandler

-----------------------------------------------------------------------------
(* The handler's steps.                                                    *)

LEMMA RequestKeepsSole ==
  ASSUME OneHandler, HandlerInv, SoleInv, NEW t \in Threads, Request(t)
  PROVE  /\ SoleInv' /\ positions' = positions
         /\ botState = "EMERGENCY_STOPPED" => positions = {}
<1>1. thread[t].pc = "idle"
  BY DEF Request, ApplyScenario, Start, Stop, PauseStrategy, ResumeStrategy, SetStrategyState,
         EmergencyCloseAll, DashboardSnapshot, MayAccept, At
<1>2. botState = "EMERGENCY_STOPPED" => positions = {}
  BY <1>1, HaltedIsFlat DEF Closing
<1>3. positions' = positions /\ botState' \in {botState, "RUNNING", "STOPPED"}
  BY DEF Request, ApplyScenario, Start, Stop, PauseStrategy, ResumeStrategy, SetStrategyState,
         EmergencyCloseAll, DashboardSnapshot, book, settings
<1>4. \E l \in {"run", "emergency", "leadCloses"} : \E r : Begin(t, l, r)
  <2>1. ASSUME NEW s \in Scenarios, ApplyScenario(t, s)
        PROVE  \E l \in {"run", "emergency", "leadCloses"} : Begin(t, l, 2)
    <3> DEFINE l == CASE s = "EMERGENCY_STOP" -> "emergency"
                      [] s = "LEAD_TRADER_CLOSES_POSITION" -> "leadCloses"
                      [] OTHER -> "run"
    <3>1. l \in {"run", "emergency", "leadCloses"}
      OBVIOUS
    <3>2. Begin(t, l, 2)
      BY <2>1 DEF ApplyScenario
    <3> HIDE DEF l
    <3> QED
      BY <3>1, <3>2
  <2>2. ASSUME ~ \E s \in Scenarios : ApplyScenario(t, s)
        PROVE  Begin(t, "run", 1) \/ Begin(t, "emergency", 1)
    BY <2>2 DEF Request, Start, Stop, PauseStrategy, ResumeStrategy, SetStrategyState,
           EmergencyCloseAll, DashboardSnapshot
  <2> QED
    BY <2>1, <2>2
<1>5. PICK l, r : l \in {"run", "emergency", "leadCloses"} /\ Begin(t, l, r)
  BY <1>4
<1> DEFINE h == [Idle EXCEPT !.pc = l, !.rounds = r]
<1>6. Become(t, h) /\ h.pc = l
  BY <1>5 DEF Begin, Idle
<1> HIDE DEF h
<1>7. SoleInv'
  BY <1>2, <1>3, <1>5, <1>6, CalmMove DEF Closing, Opening, Running
<1> QED
  BY <1>2, <1>3, <1>7

LEMMA EmergencyKeepsSole ==
  ASSUME OneHandler, HandlerInv, SoleInv, NEW t \in Threads, EmergencyStop(t)
  PROVE  SoleInv' /\ positions' = positions
<1> DEFINE h == [thread[t] EXCEPT !.pc = "snapshot"]
<1>1. Become(t, h) /\ h.pc = "snapshot" /\ positions' = positions
  BY DEF EmergencyStop, Goto, book, HandlerInv, TypeOK, HandlerState
<1> HIDE DEF h
<1>2. OneSide' /\ OneEach' /\ SoleHandler(h, botState', positions', orders')
  BY <1>1 DEF SoleInv, OneSide, OneEach, SoleHandler, Running, Closing, Opening
<1> QED
  BY <1>1, <1>2, SoleMove

\* The handler starts to close a part of the book.
LEMMA StartClosing ==
  ASSUME OneHandler, HandlerInv, SoleInv, NEW t \in Threads, NEW set \in SUBSET positions,
         NEW r \in {"run", "exitTake"}, CloseAll(t, set, r), UNCHANGED <<botState, positions>>,
         r = "exitTake" => botState = "RUNNING",
         botState = "EMERGENCY_STOPPED" => positions \subseteq set /\ r = "run"
  PROVE  SoleInv'
<1> DEFINE h == [thread[t] EXCEPT !.pc = IF set = {} THEN r ELSE "close", !.closing = set,
                   !.resume = IF set = {} THEN "run" ELSE r]
<1>1. Become(t, h)
  BY DEF CloseAll
<1>2. thread[t] \in HandlerState
  BY DEF HandlerInv, TypeOK
<1>3. h.pc = (IF set = {} THEN r ELSE "close") /\ h.closing = set /\ (set # {} => h.resume = r)
  BY <1>2 DEF HandlerState
<1> HIDE DEF h
<1>4. CASE set = {}
  BY <1>1, <1>3, <1>4, CalmMove DEF Closing, Opening, Running
<1>5. CASE set # {}
  <2>1. OneSide' /\ OneEach'
    BY DEF SoleInv, OneSide, OneEach
  <2>2. SoleHandler(h, botState', positions', orders')
    BY <1>3, <1>5 DEF SoleHandler, Running, Closing, Opening
  <2> QED
    BY <1>1, <2>1, <2>2, SoleMove
<1> QED
  BY <1>4, <1>5

LEMMA FrontIsOpen ==
  ASSUME HandlerInv, positions # {}
  PROVE  Newest(positions) \in positions
<1>1. \A p \in positions : p.id \in Nat /\ p.id <= opened
  BY DEF HandlerInv, TypeOK, Position
<1> QED
  BY <1>1, NewestIsMember DEF HandlerInv, TypeOK

LEMMA SnapshotKeepsSole ==
  ASSUME OneHandler, HandlerInv, SoleInv, NEW t \in Threads, SnapshotPositions(t)
  PROVE  SoleInv'
BY StartClosing DEF SnapshotPositions, settings, book

\* LeadPick, ExitStopLoss and ExitTakeProfit: the front of the book, if there is one.
LEMMA CloseFront ==
  ASSUME OneHandler, HandlerInv, SoleInv, NEW t \in Threads, NEW r \in {"run", "exitTake"},
         thread[t].pc \notin Closing \cup {"snapshot"},
         r = "exitTake" => thread[t].pc \in Running,
         positions # {}, CloseAll(t, {Newest(positions)}, r), UNCHANGED <<botState, positions>>
  PROVE  SoleInv'
<1>1. {Newest(positions)} \in SUBSET positions
  BY FrontIsOpen
<1>2. botState # "EMERGENCY_STOPPED"
  BY HaltedIsFlat
<1>3. r = "exitTake" => botState = "RUNNING"
  BY RunningFacts
<1> QED
  BY <1>1, <1>2, <1>3, StartClosing

\* The position a handler is about to close is open.
LEMMA ClosingFacts ==
  ASSUME HandlerInv, SoleInv, NEW t \in Threads, thread[t].pc \in Closing
  PROVE  /\ Newest(thread[t].closing) \in thread[t].closing
         /\ Newest(thread[t].closing) \in positions
         /\ thread[t].closing \subseteq positions
<1>1. thread[t].closing # {} /\ thread[t].closing \subseteq positions
  BY DEF SoleInv, SoleHandler
<1>2. \A p \in positions : p.id \in Nat /\ p.id <= opened
  BY DEF HandlerInv, TypeOK, Position
<1>3. opened \in Nat
  BY DEF HandlerInv, TypeOK
<1> QED
  BY <1>1, <1>2, <1>3, NewestIsMember

LEMMA ClosePositionKeepsSole ==
  ASSUME OneHandler, HandlerInv, SoleInv, NEW t \in Threads, ClosePosition(t)
  PROVE  SoleInv'
<1> DEFINE h == [thread[t] EXCEPT !.pc = "remove"]
<1>1. thread[t].pc = "close" /\ UNCHANGED <<botState, positions>>
  BY DEF ClosePosition, At, settings, book
<1>2. Become(t, h)
  BY <1>1, ClosingFacts DEF ClosePosition, Goto, Closing
<1>3. h.pc = "remove" /\ h.closing = thread[t].closing /\ h.resume = thread[t].resume
  BY DEF HandlerInv, TypeOK, HandlerState
<1> HIDE DEF h
<1>4. SoleHandler(thread[t], botState, positions, orders)
  BY DEF SoleInv
<1>5. OneSide' /\ OneEach'
  BY <1>1 DEF SoleInv, OneSide, OneEach
<1>6. SoleHandler(h, botState', positions', orders')
  BY <1>1, <1>3, <1>4 DEF SoleHandler, Running, Closing, Opening
<1> QED
  BY <1>2, <1>5, <1>6, SoleMove

\* The position is taken out of the book; nothing else is.
LEMMA RemoveFacts ==
  ASSUME HandlerInv, SoleInv, NEW t \in Threads, RemovePosition(t)
  PROVE  LET p == Newest(thread[t].closing)
         IN  /\ p \in positions /\ p \in thread[t].closing /\ positions' = positions \ {p}
             /\ thread[t].pc = "remove" /\ botState' = botState
             /\ CloseAll(t, thread[t].closing \ {p}, thread[t].resume)
<1>1. thread[t].pc = "remove" /\ botState' = botState
  BY DEF RemovePosition, At, settings
<1> QED
  BY <1>1, ClosingFacts DEF RemovePosition, Closing

LEMMA RemoveKeepsSole ==
  ASSUME OneHandler, HandlerInv, SoleInv, NEW t \in Threads, RemovePosition(t)
  PROVE  SoleInv'
<1> DEFINE p == Newest(thread[t].closing)
           rest == thread[t].closing \ {p}
           r == thread[t].resume
           h == [thread[t] EXCEPT !.pc = IF rest = {} THEN r ELSE "close", !.closing = rest,
                   !.resume = IF rest = {} THEN "run" ELSE r]
<1>1. /\ p \in positions /\ p \in thread[t].closing /\ positions' = positions \ {p}
      /\ thread[t].pc = "remove" /\ botState' = botState /\ Become(t, h)
  BY RemoveFacts DEF CloseAll
<1>2. thread[t] \in HandlerState
  BY DEF HandlerInv, TypeOK
<1>3. SoleHandler(thread[t], botState, positions, orders)
  BY DEF SoleInv
<1> HIDE DEF p
<1>4. /\ thread[t].closing \subseteq positions /\ (r = "exitTake" => botState = "RUNNING")
      /\ botState = "EMERGENCY_STOPPED" => positions \subseteq thread[t].closing /\ r = "run"
      /\ r \in {"run", "exitTake"}
  BY <1>1, <1>2, <1>3 DEF SoleHandler, Closing, HandlerState
<1>5. rest \subseteq positions' /\ (botState = "EMERGENCY_STOPPED" => positions' \subseteq rest)
  BY <1>1, <1>4
<1>6. h.pc = (IF rest = {} THEN r ELSE "close") /\ h.closing = rest /\ (rest # {} => h.resume = r)
  BY <1>2 DEF HandlerState
<1> HIDE DEF h, rest, r
<1>7. SoleHandler(h, botState', positions', orders')
  BY <1>1, <1>4, <1>5, <1>6 DEF SoleHandler, Running, Closing, Opening
<1>8. OneSide' /\ OneEach'
  BY <1>1 DEF SoleInv, OneSide, OneEach
<1> QED
  BY <1>1, <1>7, <1>8, SoleMove

-----------------------------------------------------------------------------
(* run_once.                                                               *)

\* The moves between the writes of run_once.
LEMMA RunningMove ==
  ASSUME OneHandler, HandlerInv, SoleInv, NEW t \in Threads, NEW h, Become(t, h),
         thread[t].pc \notin Closing \cup {"snapshot"},
         h.pc \notin Closing \cup Opening, UNCHANGED <<botState, positions>>,
         h.pc \in Running => thread[t].pc \in Running \/ botState = "RUNNING"
  PROVE  SoleInv'
<1>1. h.pc \in Running => botState = "RUNNING"
  BY RunningFacts
<1>2. botState = "EMERGENCY_STOPPED" => positions = {}
  BY HaltedIsFlat
<1> QED
  BY <1>1, <1>2, CalmMove

LEMMA SkipSignal ==
  ASSUME OneHandler, HandlerInv, SoleInv, NEW t \in Threads, NextSignal(t),
         thread[t].pc \in Running, UNCHANGED <<botState, positions>>
  PROVE  SoleInv'
<1> DEFINE h == [thread[t] EXCEPT !.pc = "signal", !.pending = Tail(@)]
<1>1. Become(t, h) /\ h.pc = "signal"
  BY DEF NextSignal, HandlerInv, TypeOK, HandlerState
<1> HIDE DEF h
<1>2. thread[t].pc \notin Closing \cup {"snapshot"}
  BY DEF Running, Closing
<1>3. h.pc \notin Closing \cup Opening
  BY <1>1 DEF Closing, Opening
<1> QED
  BY <1>1, <1>2, <1>3, RunningMove

LEMMA GotoKeepsSole ==
  ASSUME OneHandler, HandlerInv, SoleInv, NEW t \in Threads, NEW l \in Labels,
         \/ Goto(t, l)
         \/ \E r : Become(t, [thread[t] EXCEPT !.pc = l, !.rounds = r])
         \/ \E q : Become(t, [thread[t] EXCEPT !.pc = l, !.pending = q])
         \/ \E q : Become(t, [thread[t] EXCEPT !.pc = l, !.price = q]),
         thread[t].pc \notin Closing \cup {"snapshot"},
         l \notin Closing \cup Opening, UNCHANGED <<botState, positions>>,
         l \in Running => thread[t].pc \in Running \/ botState = "RUNNING"
  PROVE  SoleInv'
<1>1. thread[t] \in HandlerState
  BY DEF HandlerInv, TypeOK
<1>2. \E h : Become(t, h) /\ h.pc = l
  <2>1. /\ [thread[t] EXCEPT !.pc = l].pc = l
        /\ \A r : [thread[t] EXCEPT !.pc = l, !.rounds = r].pc = l
        /\ \A q : [thread[t] EXCEPT !.pc = l, !.pending = q].pc = l
        /\ \A q : [thread[t] EXCEPT !.pc = l, !.price = q].pc = l
    BY <1>1 DEF HandlerState
  <2> QED
    BY <2>1 DEF Goto
<1>3. PICK h : Become(t, h) /\ h.pc = l
  BY <1>2
<1> QED
  BY <1>3, RunningMove

LEMMA AbortKeepsSole ==
  ASSUME OneHandler, HandlerInv, SoleInv, NEW t \in Threads, Become(t, Idle),
         thread[t].pc \notin Closing \cup {"snapshot"}, UNCHANGED <<botState, positions>>
  PROVE  SoleInv'
<1>1. Idle.pc \notin Closing \cup Opening \cup Running
  BY DEF Idle, Closing, Opening, Running
<1> QED
  BY <1>1, RunningMove

LEMMA LeadKeepsSole ==
  ASSUME OneHandler, HandlerInv, SoleInv, NEW t \in Threads, LeadCloses(t) \/ LeadPick(t)
  PROVE  SoleInv' /\ UNCHANGED <<botState, positions>>
<1>1. thread[t].pc \in {"leadCloses", "leadPick"} /\ UNCHANGED <<botState, positions>>
  BY DEF LeadCloses, LeadPick, At, settings, book
<1>2. thread[t].pc \notin Closing \cup {"snapshot"}
  BY <1>1 DEF Closing
<1>3. CASE LeadCloses(t)
  <2>1. PICK l \in {"run", "leadPick"} :
          Goto(t, l) \/ \E r : Become(t, [thread[t] EXCEPT !.pc = l, !.rounds = r])
    BY <1>3 DEF LeadCloses
  <2> QED
    BY <1>1, <1>2, <2>1, GotoKeepsSole DEF Labels, Closing, Opening, Running
<1>4. CASE LeadPick(t)
  <2>1. CASE positions = {}
    BY <1>1, <1>2, <1>4, <2>1, AbortKeepsSole DEF LeadPick, Abort
  <2>2. CASE positions # {}
    BY <1>1, <1>2, <1>4, <2>2, CloseFront DEF LeadPick
  <2> QED
    BY <2>1, <2>2
<1> QED
  BY <1>1, <1>3, <1>4

LEMMA RoundKeepsSole ==
  ASSUME OneHandler, HandlerInv, SoleInv, NEW t \in Threads,
         \/ RunOnce(t) \/ Reply(t) \/ NextCopySignal(t) \/ EmitCopySignal(t) \/ Evaluate(t)
         \/ EndOfSignals(t) \/ CheckDuplicate(t)
  PROVE  SoleInv' /\ UNCHANGED <<botState, positions>>
<1>1. UNCHANGED <<botState, positions>>
  BY DEF RunOnce, Reply, NextCopySignal, EmitCopySignal, Evaluate, EndOfSignals, CheckDuplicate,
         settings, book
<1>2. thread[t].pc \in {"run", "copy", "emit", "volume", "signal"}
  BY DEF RunOnce, Reply, NextCopySignal, EmitCopySignal, Evaluate, EndOfSignals, CheckDuplicate, At
<1>3. thread[t].pc \notin Closing \cup {"snapshot"} /\ (thread[t].pc # "run" => thread[t].pc \in Running)
  BY <1>2 DEF Closing, Running
<1>4. CASE RunOnce(t)
  <2> DEFINE l == IF botState = "RUNNING" THEN "copy" ELSE "run"
  <2>1. \E r : Become(t, [thread[t] EXCEPT !.pc = l, !.rounds = r])
    BY <1>4 DEF RunOnce
  <2>2. l \in Labels /\ l \notin Closing \cup Opening /\ (l \in Running => botState = "RUNNING")
    BY DEF Labels, Closing, Opening, Running
  <2> HIDE DEF l
  <2> QED
    BY <1>1, <1>3, <2>1, <2>2, GotoKeepsSole
<1>5. CASE Reply(t)
  BY <1>1, <1>3, <1>5, AbortKeepsSole DEF Reply
<1>6. CASE NextCopySignal(t) \/ EndOfSignals(t)
  <2>1. PICK l \in {"emit", "volume", "exit"} : Goto(t, l)
    BY <1>6 DEF NextCopySignal, EndOfSignals
  <2>2. thread[t].pc \in Running
    BY <1>3, <1>6 DEF NextCopySignal, EndOfSignals, At
  <2> QED
    BY <1>1, <1>3, <2>1, <2>2, GotoKeepsSole DEF Labels, Closing, Opening
<1>7. CASE EmitCopySignal(t) \/ Evaluate(t)
  <2>1. \/ Become(t, Idle)
        \/ \E l \in {"volume", "signal"} : \E q : Become(t, [thread[t] EXCEPT !.pc = l, !.pending = q])
    BY <1>7 DEF EmitCopySignal, Evaluate, Abort
  <2>2. thread[t].pc \in Running
    BY <1>3, <1>7 DEF EmitCopySignal, Evaluate, At
  <2> QED
    BY <1>1, <1>3, <2>1, <2>2, AbortKeepsSole, GotoKeepsSole DEF Labels, Closing, Opening
<1>8. CASE CheckDuplicate(t)
  <2>1. thread[t].pc \in Running
    BY <1>3, <1>8 DEF CheckDuplicate, At
  <2>2. NextSignal(t) \/ \E q : Become(t, [thread[t] EXCEPT !.pc = "approve", !.price = q])
    BY <1>8 DEF CheckDuplicate
  <2> QED
    BY <1>1, <1>3, <2>1, <2>2, SkipSignal, GotoKeepsSole DEF Labels, Closing, Opening
<1> QED
  BY <1>1, <1>4, <1>5, <1>6, <1>7, <1>8

LEMMA ExitKeepsSole ==
  ASSUME OneHandler, HandlerInv, SoleInv, NEW t \in Threads,
         ExitGate(t) \/ ExitStopLoss(t) \/ ExitTakeProfit(t)
  PROVE  SoleInv' /\ UNCHANGED <<botState, positions>>
<1>1. UNCHANGED <<botState, positions>> /\ thread[t].pc \in {"exit", "exitStop", "exitTake"}
  BY DEF ExitGate, ExitStopLoss, ExitTakeProfit, ExitOn, At, settings, book
<1>2. thread[t].pc \notin Closing \cup {"snapshot"} /\ thread[t].pc \in Running
  BY <1>1 DEF Closing, Running
<1>3. \/ \E l \in {"run", "exitStop", "exitTake"} : Goto(t, l)
      \/ Become(t, Idle)
      \/ \E r \in {"run", "exitTake"} : positions # {} /\ CloseAll(t, {Newest(positions)}, r)
  BY DEF ExitGate, ExitStopLoss, ExitTakeProfit, ExitOn, Abort
<1>4. CASE \E l \in {"run", "exitStop", "exitTake"} : Goto(t, l)
  BY <1>1, <1>2, <1>4, GotoKeepsSole DEF Labels, Closing, Opening
<1>5. CASE Become(t, Idle)
  BY <1>1, <1>2, <1>5, AbortKeepsSole
<1>6. CASE \E r \in {"run", "exitTake"} : positions # {} /\ CloseAll(t, {Newest(positions)}, r)
  BY <1>1, <1>2, <1>6, CloseFront
<1> QED
  BY <1>1, <1>3, <1>4, <1>5, <1>6

-----------------------------------------------------------------------------
(* Opening a position.                                                     *)

LEMMA ApproveKeepsSole ==
  ASSUME OneHandler, HandlerInv, SoleInv, NEW t \in Threads, ApproveState(t) \/ ApproveBook(t)
  PROVE  SoleInv' /\ UNCHANGED <<botState, positions>>
<1>1. UNCHANGED <<botState, positions>> /\ thread[t].pc \in {"approve", "approveBook"}
  BY DEF ApproveState, ApproveBook, At, settings, book
<1>2. thread[t].pc \notin Closing \cup {"snapshot"} /\ thread[t].pc \in Running
  BY <1>1 DEF Closing, Running
<1>3. CASE NextSignal(t)
  BY <1>1, <1>2, <1>3, SkipSignal
<1>4. CASE ApproveState(t) /\ ~NextSignal(t)
  <2>1. Goto(t, "approveBook")
    BY <1>4 DEF ApproveState, Reject
  <2> QED
    BY <1>1, <1>2, <2>1, GotoKeepsSole DEF Labels, Closing, Opening
<1>5. CASE ApproveBook(t) /\ ~NextSignal(t)
  <2> DEFINE h == [thread[t] EXCEPT !.pc = "place"]
             sig == Head(thread[t].pending)
  <2>1. Become(t, h) /\ ~Conflicts(sig)
    BY <1>5 DEF ApproveBook, Reject, Goto
  <2>2. h.pc = "place" /\ h.pending = thread[t].pending
    BY DEF HandlerInv, TypeOK, HandlerState
  <2> HIDE DEF h
  <2>3. botState = "RUNNING"
    BY <1>2, RunningFacts
  <2>4. SoleHandler(h, botState', positions', orders')
    BY <1>1, <2>1, <2>2, <2>3 DEF SoleHandler, Conflicts, Running, Closing, Opening
  <2>5. OneSide' /\ OneEach'
    BY <1>1 DEF SoleInv, OneSide, OneEach
  <2> QED
    BY <1>1, <2>1, <2>4, <2>5, SoleMove
<1> QED
  BY <1>1, <1>3, <1>4, <1>5

LEMMA PlaceKeepsSole ==
  ASSUME OneHandler, HandlerInv, SoleInv, NEW t \in Threads, PlaceOrder(t)
  PROVE  SoleInv' /\ UNCHANGED <<botState, positions>>
<1>1. UNCHANGED <<botState, positions>> /\ thread[t].pc = "place"
  BY DEF PlaceOrder, At, settings, book
<1>2. thread[t].pc \in Running
  BY <1>1 DEF Running
<1>3. CASE NextSignal(t)
  BY <1>1, <1>2, <1>3, SkipSignal
<1>4. CASE ~NextSignal(t)
  <2> DEFINE n == Len(orders) + 1
             sig == Head(thread[t].pending)
             o == [signal |-> sig, price |-> thread[t].price,
                   status |-> IF scenario = "ORDER_REJECTION" THEN "REJECTED" ELSE "FILLED"]
             h == [thread[t] EXCEPT !.pc = "open", !.order = n]
  <2>1. Become(t, h) /\ orders' = Append(orders, o)
    BY <1>4 DEF PlaceOrder
  <2>2. thread[t] \in HandlerState /\ orders \in Seq(Order)
    BY DEF HandlerInv, TypeOK
  <2>3. thread[t].pending # <<>>
    BY <1>1 DEF HandlerInv, CarriesSignal
  <2>4. o \in Order /\ o.signal = sig
    <3>1. sig \in Signals
      BY <2>3, CarriedSignal
    <3> QED
      BY <2>2, <3>1 DEF Order, HandlerState
  <2> HIDE DEF o
  <2>5. orders'[n] = o
    BY <2>1, <2>2, <2>4
  <2> HIDE DEF n
  <2>6. h.pc = "open" /\ h.pending = thread[t].pending /\ h.order = n
    BY <2>2 DEF HandlerState
  <2> HIDE DEF h
  <2>7. botState = "RUNNING"
    BY <1>2, RunningFacts
  <2>8. \A p \in positions : p.side = SideOf(sig)
    BY <1>1 DEF SoleInv, SoleHandler, Opening
  <2>9. SoleHandler(h, botState', positions', orders')
    BY <1>1, <2>4, <2>5, <2>6, <2>7, <2>8 DEF SoleHandler, Running, Closing, Opening
  <2>10. OneSide' /\ OneEach'
    BY <1>1 DEF SoleInv, OneSide, OneEach
  <2> QED
    BY <1>1, <2>1, <2>9, <2>10, SoleMove
<1> QED
  BY <1>1, <1>3, <1>4

LEMMA CheckKeepsSole ==
  ASSUME OneHandler, HandlerInv, SoleInv, NEW t \in Threads, CheckPosition(t)
  PROVE  SoleInv' /\ UNCHANGED <<botState, positions>>
<1>1. UNCHANGED <<botState, positions, orders>> /\ thread[t].pc = "open"
  BY DEF CheckPosition, At, settings, book
<1>2. thread[t].pc \in Running
  BY <1>1 DEF Running
<1>3. CASE NextSignal(t)
  BY <1>1, <1>2, <1>3, SkipSignal
<1>4. CASE ~NextSignal(t)
  <2> DEFINE h == [thread[t] EXCEPT !.pc = "insert"]
             sig == Head(thread[t].pending)
  <2>1. Become(t, h) /\ ~ \E p \in positions : p.strategy = StrategyOf(orders[thread[t].order].signal)
    BY <1>4 DEF CheckPosition, Goto
  <2>2. h.pc = "insert" /\ h.pending = thread[t].pending /\ h.order = thread[t].order
    BY DEF HandlerInv, TypeOK, HandlerState
  <2> HIDE DEF h
  <2>3. botState = "RUNNING"
    BY <1>2, RunningFacts
  <2>4. orders[thread[t].order].signal = sig /\ \A p \in positions : p.side = SideOf(sig)
    BY <1>1 DEF SoleInv, SoleHandler, Opening
  <2>5. SoleHandler(h, botState', positions', orders')
    BY <1>1, <2>1, <2>2, <2>3, <2>4 DEF SoleHandler, Running, Closing, Opening
  <2>6. OneSide' /\ OneEach'
    BY <1>1 DEF SoleInv, OneSide, OneEach
  <2> QED
    BY <1>1, <2>1, <2>5, <2>6, SoleMove
<1> QED
  BY <1>1, <1>3, <1>4

\* The new position is on the side of all others, and its strategy held none.
LEMMA InsertFacts ==
  ASSUME HandlerInv, SoleInv, NEW t \in Threads, InsertPosition(t)
  PROVE  LET p == NewPosition(thread[t].order)
         IN  /\ positions' = positions \cup {p} /\ botState' = botState /\ botState = "RUNNING"
             /\ p.strategy \in Strategies /\ p.side \in {"BUY", "SELL"}
             /\ \A q \in positions : q.side = p.side /\ q.strategy # p.strategy
             /\ thread[t].pc = "insert" /\ NextSignal(t)
<1> DEFINE n == thread[t].order
           sig == Head(thread[t].pending)
           p == NewPosition(n)
<1>1. /\ positions' = positions \cup {p} /\ botState' = botState /\ thread[t].pc = "insert"
      /\ NextSignal(t)
  BY DEF InsertPosition, At, settings
<1>2. botState = "RUNNING"
  BY <1>1, RunningFacts DEF Running
<1>3. /\ orders[n].signal = sig /\ \A q \in positions : q.side = SideOf(sig)
      /\ \A q \in positions : q.strategy # StrategyOf(sig)
  BY <1>1 DEF SoleInv, SoleHandler, Opening
<1>4. p.strategy = StrategyOf(sig) /\ p.side = SideOf(sig)
  BY <1>3 DEF NewPosition
<1>5. sig \in Signals
  <2>1. thread[t].pending # <<>>
    BY <1>1 DEF HandlerInv, CarriesSignal
  <2> QED
    BY <2>1, CarriedSignal
<1> QED
  BY <1>1, <1>2, <1>3, <1>4, <1>5, SignalFacts

LEMMA InsertKeepsSole ==
  ASSUME OneHandler, HandlerInv, SoleInv, NEW t \in Threads, InsertPosition(t)
  PROVE  SoleInv'
<1> DEFINE p == NewPosition(thread[t].order)
           h == [thread[t] EXCEPT !.pc = "signal", !.pending = Tail(@)]
<1>1. /\ positions' = positions \cup {p} /\ botState' = botState /\ botState = "RUNNING"
      /\ \A q \in positions : q.side = p.side /\ q.strategy # p.strategy
  BY InsertFacts
<1>2. Become(t, h) /\ h.pc = "signal"
  BY InsertFacts DEF NextSignal, HandlerInv, TypeOK, HandlerState
<1> HIDE DEF p, h
<1>3. OneSide' /\ OneEach'
  BY <1>1 DEF SoleInv, OneSide, OneEach
<1>4. SoleHandler(h, botState', positions', orders')
  BY <1>1, <1>2 DEF SoleHandler, Running, Closing, Opening
<1> QED
  BY <1>2, <1>3, <1>4, SoleMove

-----------------------------------------------------------------------------
(* The invariant, and the emergency stop.                                  *)

LEMMA SoleInit == Init => SoleInv
BY DEF Init, SoleInv, OneSide, OneEach, SoleHandler, Idle, Running, Closing, Opening

LEMMA SoleStep == OneHandler /\ HandlerInv /\ SoleInv /\ [Next]_vars => SoleInv'
<1> SUFFICES ASSUME OneHandler, HandlerInv, SoleInv, [Next]_vars
             PROVE  SoleInv'
  OBVIOUS
<1>1. ASSUME NEW t \in Threads, Request(t)
      PROVE  SoleInv'
  BY <1>1, RequestKeepsSole
<1>2. ASSUME NEW t \in Threads, Step(t)
      PROVE  SoleInv'
  BY <1>2, EmergencyKeepsSole, SnapshotKeepsSole, LeadKeepsSole, ClosePositionKeepsSole,
     RemoveKeepsSole, RoundKeepsSole, ApproveKeepsSole, PlaceKeepsSole, CheckKeepsSole,
     InsertKeepsSole, ExitKeepsSole DEF Step
<1>3. CASE UNCHANGED vars
  BY <1>3 DEF vars, settings, book, SoleInv, OneSide, OneEach, SoleHandler
<1> QED
  BY <1>1, <1>2, <1>3 DEF Next

\* With one handler at a time the engine holds nothing once it has been stopped by an
\* emergency and every request is answered (emergency_stop).
THEOREM SerialEmergencyIsFlat ==
  ASSUME OneHandler
  PROVE  Spec => []EmergencyMeansFlat
<1>1. SoleInv => EmergencyMeansFlat
  <2> SUFFICES ASSUME SoleInv, Quiet, botState = "EMERGENCY_STOPPED"
               PROVE  positions = {}
    BY DEF EmergencyMeansFlat
  <2>1. PICK t \in Threads : thread[t].pc = "idle"
    BY ThreadsAssumption DEF Quiet, At
  <2> QED
    BY <2>1, HaltedIsFlat DEF Closing
<1>2. HandlerInv /\ SoleInv /\ [Next]_vars => SoleInv'
  BY SoleStep
<1> QED
  BY HandlerInit, HandlerStep, SoleInit, <1>1, <1>2, PTL DEF Spec

-----------------------------------------------------------------------------
(* The abstract book.                                                      *)

\* HeldSide, of any set of positions.
SideIn(open, s) ==
  LET held == {p \in open : p.strategy = s}
  IN  CASE held = {} -> "NONE"
        [] Cardinality(held) = 1 -> (CHOOSE p \in held : TRUE).side
        [] OTHER -> "SEVERAL"

LEMMA SideOfNone ==
  ASSUME NEW open, NEW s, \A p \in open : p.strategy # s
  PROVE  SideIn(open, s) = "NONE"
<1> DEFINE held == {p \in open : p.strategy = s}
<1>1. held = {} /\ Cardinality(held) # 1
  BY FS_EmptySet
<1> HIDE DEF held
<1>2. SideIn(open, s) = CASE held = {} -> "NONE"
                          [] Cardinality(held) = 1 -> (CHOOSE p \in held : TRUE).side
                          [] OTHER -> "SEVERAL"
  BY DEF SideIn, held
<1> QED
  BY <1>1, <1>2

LEMMA SideOfOne ==
  ASSUME NEW open, NEW p \in open, \A q \in open : q.strategy = p.strategy => q = p
  PROVE  SideIn(open, p.strategy) = p.side
<1> DEFINE held == {q \in open : q.strategy = p.strategy}
<1>1. held = {p}
  OBVIOUS
<1>2. held # {} /\ Cardinality(held) = 1 /\ (CHOOSE q \in held : TRUE) = p
  BY <1>1, FS_Singleton
<1> HIDE DEF held
<1>3. SideIn(open, p.strategy) = CASE held = {} -> "NONE"
                                   [] Cardinality(held) = 1 -> (CHOOSE q \in held : TRUE).side
                                   [] OTHER -> "SEVERAL"
  BY DEF SideIn, held
<1> QED
  BY <1>2, <1>3

LEMMA SideElsewhere ==
  ASSUME NEW open, NEW p, NEW s, p.strategy # s
  PROVE  SideIn(open \ {p}, s) = SideIn(open, s) /\ SideIn(open \cup {p}, s) = SideIn(open, s)
<1>1. /\ {q \in open \ {p} : q.strategy = s} = {q \in open : q.strategy = s}
      /\ {q \in open \cup {p} : q.strategy = s} = {q \in open : q.strategy = s}
  OBVIOUS
<1> QED
  BY <1>1 DEF SideIn

Held(open) == [s \in Strategies |-> SideIn(open, s)]

LEMMA HeldFacts ==
  /\ [s \in Strategies |-> HeldSide(s)] = Held(positions)
  /\ [s \in Strategies |-> HeldSide(s)]' = Held(positions')
BY DEF HeldSide, SideIn, Held

\* A position that is closed was its strategy's only one.
LEMMA RemoveCloses ==
  ASSUME HandlerInv, SoleInv, NEW t \in Threads, RemovePosition(t)
  PROVE  \E s \in Strategies : Book!Close(s)
<1> DEFINE p == Newest(thread[t].closing)
<1>1. p \in positions /\ positions' = positions \ {p} /\ botState' = botState
  BY RemoveFacts
<1> HIDE DEF p
<1>2. p \in Position
  BY <1>1 DEF HandlerInv, TypeOK
<1> DEFINE s == p.strategy
<1>3. s \in Strategies /\ p.side \in {"BUY", "SELL"}
  BY <1>2 DEF Position
<1>4. SideIn(positions, s) = p.side
  BY <1>1, SideOfOne DEF SoleInv, OneEach
<1>5. SideIn(positions', s) = "NONE"
  BY <1>1, SideOfNone DEF SoleInv, OneEach
<1>6. \A r \in Strategies : r # s => SideIn(positions', r) = SideIn(positions, r)
  BY <1>1, SideElsewhere
<1>7. Held(positions') = [Held(positions) EXCEPT ![s] = "NONE"] /\ Held(positions)[s] # "NONE"
  BY <1>3, <1>4, <1>5, <1>6 DEF Held
<1> HIDE DEF s
<1>8. Book!Close(s)
  BY <1>1, <1>7, HeldFacts DEF Book!Close, Book!None
<1> QED
  BY <1>3, <1>8

\* A position that is opened is its strategy's first, on the side of all others.
LEMMA InsertOpens ==
  ASSUME HandlerInv, SoleInv, NEW t \in Threads, InsertPosition(t)
  PROVE  \E s \in Strategies, side \in {"BUY", "SELL"} : Book!Open(s, side)
<1> DEFINE p == NewPosition(thread[t].order)
<1>1. /\ positions' = positions \cup {p} /\ botState' = botState /\ botState = "RUNNING"
      /\ p.strategy \in Strategies /\ p.side \in {"BUY", "SELL"}
      /\ \A q \in positions : q.side = p.side /\ q.strategy # p.strategy
  BY InsertFacts
<1> HIDE DEF p
<1> DEFINE s == p.strategy
           side == p.side
<1>2. SideIn(positions, s) = "NONE"
  BY <1>1, SideOfNone
<1>3. SideIn(positions', s) = side
  <2>1. p \in positions' /\ \A q \in positions' : q.strategy = p.strategy => q = p
    BY <1>1
  <2> QED
    BY <2>1, SideOfOne
<1>4. \A r \in Strategies : r # s => SideIn(positions', r) = SideIn(positions, r)
  BY <1>1, SideElsewhere
<1>5. \A r \in Strategies : SideIn(positions, r) \in {"NONE", side}
  <2> SUFFICES ASSUME NEW r \in Strategies, SideIn(positions, r) # "NONE"
               PROVE  SideIn(positions, r) = side
    OBVIOUS
  <2>1. PICK q \in positions : q.strategy = r
    BY SideOfNone
  <2>2. SideIn(positions, r) = q.side
    BY <2>1, SideOfOne DEF SoleInv, OneEach
  <2> QED
    BY <1>1, <2>2
<1>6. /\ Held(positions') = [Held(positions) EXCEPT ![s] = side] /\ Held(positions)[s] = "NONE"
      /\ \A r \in Strategies : Held(positions)[r] \in {"NONE", side}
  BY <1>1, <1>2, <1>3, <1>4, <1>5 DEF Held
<1>7. s \in Strategies /\ side \in {"BUY", "SELL"}
  BY <1>1
<1> HIDE DEF s, side
<1>8. Book!Open(s, side)
  BY <1>1, <1>6, HeldFacts DEF Book!Open, Book!None
<1> QED
  BY <1>7, <1>8

\* The operator's requests and the emergency stop set the mode.
LEMMA ModeSteps ==
  ASSUME OneHandler, HandlerInv, SoleInv, NEW t \in Threads, Request(t) \/ EmergencyStop(t)
  PROVE  Book!SetMode(botState') \/ UNCHANGED Book!bookVars
<1>1. positions' = positions
  BY RequestKeepsSole, EmergencyKeepsSole
<1>2. UNCHANGED [s \in Strategies |-> HeldSide(s)]
  BY <1>1, HeldFacts
<1>3. botState = "EMERGENCY_STOPPED" /\ botState' # botState => positions = {}
  BY RequestKeepsSole DEF EmergencyStop
<1>4. positions = {} => \A s \in Strategies : Held(positions)[s] = "NONE"
  BY SideOfNone DEF Held
<1>5. CASE botState' = botState
  BY <1>2, <1>5 DEF Book!bookVars
<1>6. CASE botState' # botState
  BY <1>2, <1>3, <1>4, <1>6, HeldFacts DEF Book!SetMode, Book!Flat, Book!None
<1> QED
  BY <1>5, <1>6

LEMMA BookStep == OneHandler /\ HandlerInv /\ SoleInv /\ [Next]_vars => [Book!BookNext]_(Book!bookVars)
<1> SUFFICES ASSUME OneHandler, HandlerInv, SoleInv, [Next]_vars
             PROVE  [Book!BookNext]_(Book!bookVars)
  OBVIOUS
<1>1. ASSUME UNCHANGED <<botState, positions>>
      PROVE  UNCHANGED Book!bookVars
  BY <1>1, HeldFacts DEF Book!bookVars
<1>2. ASSUME NEW t \in Threads, Request(t) \/ EmergencyStop(t)
      PROVE  [Book!BookNext]_(Book!bookVars)
  <2>1. botState' \in {"RUNNING", "STOPPED", "EMERGENCY_STOPPED"}
    BY HandlerStep DEF HandlerInv, TypeOK
  <2> QED
    BY <1>2, <2>1, ModeSteps DEF Book!BookNext
<1>3. ASSUME NEW t \in Threads, RemovePosition(t)
      PROVE  Book!BookNext
  BY <1>3, RemoveCloses DEF Book!BookNext
<1>4. ASSUME NEW t \in Threads, InsertPosition(t)
      PROVE  Book!BookNext
  BY <1>4, InsertOpens DEF Book!BookNext
<1>5. ASSUME NEW t \in Threads, SnapshotPositions(t) \/ ClosePosition(t)
      PROVE  UNCHANGED <<botState, positions>>
  BY <1>5 DEF SnapshotPositions, ClosePosition, settings, book
<1>6. ASSUME NEW t \in Threads, Step(t)
      PROVE  [Book!BookNext]_(Book!bookVars)
  BY <1>1, <1>2, <1>3, <1>4, <1>5, <1>6, LeadKeepsSole, RoundKeepsSole, ApproveKeepsSole,
     PlaceKeepsSole, CheckKeepsSole, ExitKeepsSole DEF Step
<1>7. CASE UNCHANGED vars
  BY <1>1, <1>7 DEF vars, settings, book
<1> QED
  BY <1>2, <1>6, <1>7 DEF Next

\* With one handler at a time every behaviour of the engine is one of PositionBook, its
\* fairness apart: one position per strategy, one side, openings only while RUNNING, and no
\* way out of an emergency stop but over an empty book.
THEOREM SerialImplementsBook ==
  ASSUME OneHandler
  PROVE  Spec => Book!BookInit /\ [][Book!BookNext]_(Book!bookVars)
<1>1. Init => Book!BookInit
  <2> SUFFICES ASSUME Init
               PROVE  Book!BookInit
    OBVIOUS
  <2>1. positions = {} /\ botState = "RUNNING"
    BY DEF Init
  <2>2. Held(positions) = [s \in Strategies |-> "NONE"]
    BY <2>1, SideOfNone DEF Held
  <2> QED
    BY <2>1, <2>2, HeldFacts DEF Book!BookInit, Book!None
<1>2. HandlerInv /\ SoleInv /\ [Next]_vars => SoleInv' /\ [Book!BookNext]_(Book!bookVars)
  BY SoleStep, BookStep
<1> QED
  BY HandlerInit, HandlerStep, SoleInit, <1>1, <1>2, PTL DEF Spec

-----------------------------------------------------------------------------
(* Every signal once.                                                      *)

LEMMA FirstNaturals ==
  ASSUME NEW n \in Nat
  PROVE  IsFiniteSet(1..n) /\ Cardinality(1..n) = n
BY FS_Interval

\* There are no more signals than the window remembers.
LEMMA SignalsFitWindow == IsFiniteSet(Signals) /\ Cardinality(Signals) <= DedupWindow
<1> DEFINE f == [i \in 1..5 |-> CASE i = 1 -> "LEAD_TRADER_OPENS_LONG"
                                   [] i = 2 -> "LEAD_TRADER_OPENS_SHORT"
                                   [] i = 3 -> "LEAD_TRADER_CLOSES_POSITION"
                                   [] i = 4 -> "BULLISH_VOLUME_BREAKOUT"
                                   [] OTHER -> "BEARISH_VOLUME_BREAKDOWN"]
<1>1. f \in [1..5 -> Signals]
  BY DEF Signals, CopyScenarios, BreakoutScenarios
<1>2. /\ f[1] = "LEAD_TRADER_OPENS_LONG" /\ f[2] = "LEAD_TRADER_OPENS_SHORT"
      /\ f[3] = "LEAD_TRADER_CLOSES_POSITION" /\ f[4] = "BULLISH_VOLUME_BREAKOUT"
      /\ f[5] = "BEARISH_VOLUME_BREAKDOWN"
  OBVIOUS
<1> HIDE DEF f
<1>3. \A s \in Signals : s \in {f[1], f[2], f[3], f[4], f[5]}
  BY <1>2 DEF Signals, CopyScenarios, BreakoutScenarios
<1>4. \A s \in Signals : \E i \in 1..5 : f[i] = s
  BY <1>3
<1>5. f \in Surjection(1..5, Signals)
  BY <1>1, <1>4 DEF Surjection
<1>6. IsFiniteSet(1..5) /\ Cardinality(1..5) = 5
  BY FirstNaturals, 5 \in Nat, Zenon
<1>7. IsFiniteSet(Signals) /\ Cardinality(Signals) <= Cardinality(1..5)
  BY <1>5, <1>6, FS_Surjection
<1> QED
  BY <1>6, <1>7 DEF DedupWindow

\* A history without repetitions is inside the window.
LEMMA HistoryFitsWindow ==
  ASSUME signals \in Seq(Signals), SignalsNeverRepeat
  PROVE  Len(signals) \in Nat /\ Len(signals) <= DedupWindow
<1> DEFINE n == Len(signals)
<1>1. n \in Nat
  OBVIOUS
<1>2. signals \in [1..n -> Signals]
  OBVIOUS
<1>3. \A i, j \in 1..n : signals[i] = signals[j] => i = j
  BY DEF SignalsNeverRepeat
<1>4. IsFiniteSet(1..n) /\ Cardinality(1..n) = n
  BY <1>1, FirstNaturals
<1>5. IsFiniteSet(Signals) /\ Cardinality(Signals) <= 5 /\ Cardinality(Signals) \in Nat
  BY SignalsFitWindow, FS_CardinalityType DEF DedupWindow
<1> HIDE DEF n
<1>6. signals \in Injection(1..n, Signals)
  BY <1>2, <1>3 DEF Injection, IsInjective
<1>7. Cardinality(1..n) <= Cardinality(Signals)
  BY <1>5, <1>6, FS_Injection
<1> QED
  BY <1>1, <1>4, <1>5, <1>7 DEF n, DedupWindow

Seen(sig) == \E i \in 1..Len(signals) : signals[i] = sig

\* The signal before the risk manager has never been recorded.
OnceInv ==
  /\ SignalsNeverRepeat
  /\ \A t \in Threads : thread[t].pc \in {"approve", "approveBook"} => ~Seen(Head(thread[t].pending))

LEMMA OnceInit == Init => OnceInv
BY DEF Init, OnceInv, SignalsNeverRepeat, Idle

\* The only handler goes on, and records nothing.
LEMMA OnceMove ==
  ASSUME OneHandler, HandlerInv, OnceInv, NEW t \in Threads, NEW h, Become(t, h),
         signals' = signals, h.pc \in {"approve", "approveBook"} => ~Seen(Head(h.pending))
  PROVE  OnceInv'
<1>1. thread'[t] = h /\ \A u \in Threads : u = t
  BY OnlyHandler DEF Become, HandlerInv, TypeOK
<1> QED
  BY <1>1 DEF OnceInv, SignalsNeverRepeat, Seen

\* It records the signal it carries.
LEMMA OnceRecord ==
  ASSUME OneHandler, HandlerInv, OnceInv, NEW t \in Threads, NEW h, Become(t, h),
         thread[t].pc \in {"approve", "approveBook"},
         signals' = Append(signals, Head(thread[t].pending)),
         h.pc \notin {"approve", "approveBook"}
  PROVE  OnceInv'
<1> DEFINE sig == Head(thread[t].pending)
<1>1. signals \in Seq(Signals) /\ sig \in Signals
  BY CarriedSignal DEF HandlerInv, TypeOK, CarriesSignal
<1>2. ~Seen(sig)
  BY DEF OnceInv
<1> HIDE DEF sig
<1>3. /\ Len(signals) \in Nat /\ Len(signals') = Len(signals) + 1
      /\ signals'[Len(signals) + 1] = sig
      /\ \A i \in 1..Len(signals) : signals'[i] = signals[i]
  BY <1>1 DEF sig
<1>4. \A i \in 1..Len(signals') : i \in 1..Len(signals) \/ i = Len(signals) + 1
  BY <1>3
<1>5. SignalsNeverRepeat'
  BY <1>2, <1>3, <1>4 DEF OnceInv, SignalsNeverRepeat, Seen
<1>6. thread'[t] = h /\ \A u \in Threads : u = t
  BY OnlyHandler DEF Become, HandlerInv, TypeOK
<1> QED
  BY <1>5, <1>6 DEF OnceInv

LEMMA DuplicateKeepsOnce ==
  ASSUME OneHandler, HandlerInv, OnceInv, NEW t \in Threads, CheckDuplicate(t)
  PROVE  OnceInv'
<1> DEFINE sig == Head(thread[t].pending)
           next == [thread[t] EXCEPT !.pc = "signal", !.pending = Tail(@)]
           h == [thread[t] EXCEPT !.pc = "approve", !.price = Price(scenario)]
<1>1. thread[t] \in HandlerState /\ signals' = signals
  BY DEF CheckDuplicate, HandlerInv, TypeOK
<1>2. CASE IsDuplicateSignal(sig)
  <2>1. Become(t, next)
    BY <1>2 DEF CheckDuplicate, NextSignal
  <2>2. next.pc = "signal"
    BY <1>1 DEF HandlerState
  <2> HIDE DEF next
  <2> QED
    BY <1>1, <2>1, <2>2, OnceMove
<1>3. CASE ~IsDuplicateSignal(sig)
  <2>1. Become(t, h)
    BY <1>3 DEF CheckDuplicate
  <2>2. Len(signals) \in Nat /\ Len(signals) <= DedupWindow
    BY HistoryFitsWindow DEF HandlerInv, TypeOK, OnceInv
  <2>3. ~Seen(sig)
    BY <1>3, <2>2 DEF IsDuplicateSignal, Seen, DedupWindow
  <2>4. h.pc = "approve" /\ h.pending = thread[t].pending
    BY <1>1 DEF HandlerState
  <2> HIDE DEF h
  <2> QED
    BY <1>1, <2>1, <2>3, <2>4, OnceMove
<1> QED
  BY <1>2, <1>3

LEMMA ApproveKeepsOnce ==
  ASSUME OneHandler, HandlerInv, OnceInv, NEW t \in Threads, ApproveState(t) \/ ApproveBook(t)
  PROVE  OnceInv'
<1> DEFINE next == [thread[t] EXCEPT !.pc = "signal", !.pending = Tail(@)]
           checked == [thread[t] EXCEPT !.pc = "approveBook"]
           approved == [thread[t] EXCEPT !.pc = "place"]
<1>1. thread[t].pc \in {"approve", "approveBook"}
  BY DEF ApproveState, ApproveBook, At
<1>2. /\ next.pc = "signal" /\ approved.pc = "place"
      /\ checked.pc = "approveBook" /\ checked.pending = thread[t].pending
  BY DEF HandlerInv, TypeOK, HandlerState
<1>3. \/ signals' = Append(signals, Head(thread[t].pending)) /\ Become(t, next)
      \/ signals' = Append(signals, Head(thread[t].pending)) /\ Become(t, approved)
      \/ signals' = signals /\ Become(t, checked)
  BY DEF ApproveState, ApproveBook, Reject, NextSignal, Goto
<1> HIDE DEF next, checked, approved
<1>4. CASE signals' = signals /\ Become(t, checked)
  <2>1. ~Seen(Head(checked.pending))
    BY <1>1, <1>2 DEF OnceInv
  <2> QED
    BY <1>4, <2>1, OnceMove
<1>5. CASE \E h \in {next, approved} :
             signals' = Append(signals, Head(thread[t].pending)) /\ Become(t, h)
  BY <1>1, <1>2, <1>5, OnceRecord
<1> QED
  BY <1>3, <1>4, <1>5

\* Every other step records nothing and leads to no check of the risk manager.
LEMMA OthersKeepOnce ==
  ASSUME OneHandler, HandlerInv, OnceInv, NEW t \in Threads, Request(t) \/ Step(t),
         ~CheckDuplicate(t), ~ApproveState(t), ~ApproveBook(t)
  PROVE  OnceInv'
<1>1. signals' = signals
  BY DEF Request, ApplyScenario, Start, Stop, PauseStrategy, ResumeStrategy, SetStrategyState,
         EmergencyCloseAll, DashboardSnapshot, Step, EmergencyStop, SnapshotPositions, LeadCloses,
         LeadPick, ClosePosition, RemovePosition, RunOnce, Reply, NextCopySignal, EmitCopySignal,
         Evaluate, EndOfSignals, PlaceOrder, CheckPosition, InsertPosition, ExitGate, ExitStopLoss,
         ExitTakeProfit, ExitOn
<1>2. \E h : Become(t, h) /\ h.pc \notin {"approve", "approveBook"}
  <2>1. CASE Request(t)
    <3>1. \E l, r : l \notin {"approve", "approveBook"} /\ Begin(t, l, r)
      <4>1. ASSUME NEW s \in Scenarios, ApplyScenario(t, s)
            PROVE  \E l, r : l \notin {"approve", "approveBook"} /\ Begin(t, l, r)
        <5> DEFINE l == CASE s = "EMERGENCY_STOP" -> "emergency"
                          [] s = "LEAD_TRADER_CLOSES_POSITION" -> "leadCloses"
                          [] OTHER -> "run"
        <5>1. l \notin {"approve", "approveBook"}
          OBVIOUS
        <5>2. Begin(t, l, 2)
          BY <4>1 DEF ApplyScenario
        <5> HIDE DEF l
        <5> QED
          BY <5>1, <5>2
      <4>2. ASSUME ~ \E s \in Scenarios : ApplyScenario(t, s)
            PROVE  Begin(t, "run", 1) \/ Begin(t, "emergency", 1)
        BY <2>1, <4>2 DEF Request, Start, Stop, PauseStrategy, ResumeStrategy, SetStrategyState,
               EmergencyCloseAll, DashboardSnapshot
      <4>3. "run" \notin {"approve", "approveBook"} /\ "emergency" \notin {"approve", "approveBook"}
        OBVIOUS
      <4> QED
        BY <4>1, <4>2, <4>3, Zenon
    <3>2. PICK l, r : l \notin {"approve", "approveBook"} /\ Begin(t, l, r)
      BY <3>1
    <3>3. [Idle EXCEPT !.pc = l, !.rounds = r].pc = l
      BY DEF Idle
    <3> QED
      BY <3>2, <3>3 DEF Begin
  <2>2. ASSUME NEW l, l \notin {"approve", "approveBook"},
               \/ Goto(t, l)
               \/ \E r : Become(t, [thread[t] EXCEPT !.pc = l, !.rounds = r])
               \/ \E q : Become(t, [thread[t] EXCEPT !.pc = l, !.pending = q])
               \/ \E n : Become(t, [thread[t] EXCEPT !.pc = l, !.order = n])
               \/ \E c, r : Become(t, [thread[t] EXCEPT !.pc = l, !.closing = c, !.resume = r])
        PROVE  \E h : Become(t, h) /\ h.pc \notin {"approve", "approveBook"}
    <3>1. thread[t] \in HandlerState
      BY DEF HandlerInv, TypeOK
    <3>2. /\ [thread[t] EXCEPT !.pc = l].pc = l
          /\ \A r : [thread[t] EXCEPT !.pc = l, !.rounds = r].pc = l
          /\ \A q : [thread[t] EXCEPT !.pc = l, !.pending = q].pc = l
          /\ \A n : [thread[t] EXCEPT !.pc = l, !.order = n].pc = l
          /\ \A c, r : [thread[t] EXCEPT !.pc = l, !.closing = c, !.resume = r].pc = l
      BY <3>1 DEF HandlerState
    <3> QED
      BY <2>2, <3>2 DEF Goto
  <2>3. Idle.pc = "idle"
    BY DEF Idle
  <2>4. CASE EmergencyStop(t) \/ LeadCloses(t) \/ NextCopySignal(t) \/ EndOfSignals(t) \/ ExitGate(t)
    <3>1. \E l \in {"snapshot", "run", "leadPick", "emit", "volume", "exit", "exitStop"} :
            Goto(t, l) \/ \E r : Become(t, [thread[t] EXCEPT !.pc = l, !.rounds = r])
      BY <2>4 DEF EmergencyStop, LeadCloses, NextCopySignal, EndOfSignals, ExitGate
    <3> QED
      BY <2>2, <3>1
  <2>5. ASSUME NEW c, NEW r \in {"run", "exitTake"}, CloseAll(t, c, r)
        PROVE  \E h : Become(t, h) /\ h.pc \notin {"approve", "approveBook"}
    <3> DEFINE l == IF c = {} THEN r ELSE "close"
               resume == IF c = {} THEN "run" ELSE r
    <3>1. l \notin {"approve", "approveBook"}
      OBVIOUS
    <3>2. Become(t, [thread[t] EXCEPT !.pc = l, !.closing = c, !.resume = resume])
      BY <2>5 DEF CloseAll
    <3> HIDE DEF l, resume
    <3> QED
      BY <2>2, <3>1, <3>2
  <2>6. CASE SnapshotPositions(t) \/ LeadPick(t) \/ ClosePosition(t) \/ RemovePosition(t)
             \/ ExitStopLoss(t) \/ ExitTakeProfit(t)
    <3>1. thread[t].resume \in {"run", "exitTake"}
      BY DEF HandlerInv, TypeOK, HandlerState
    <3>2. \/ \E c : CloseAll(t, c, "run") \/ CloseAll(t, c, "exitTake") \/ CloseAll(t, c, thread[t].resume)
          \/ Become(t, Idle)
          \/ \E l \in {"remove", "run", "exitTake"} : Goto(t, l)
      BY <2>6 DEF SnapshotPositions, LeadPick, ClosePosition, RemovePosition, ExitStopLoss,
             ExitTakeProfit, ExitOn, Abort
    <3>3. CASE Become(t, Idle)
      BY <2>3, <3>3
    <3>4. CASE \E l \in {"remove", "run", "exitTake"} : Goto(t, l)
      BY <2>2, <3>4
    <3>5. CASE \E c : CloseAll(t, c, "run") \/ CloseAll(t, c, "exitTake") \/ CloseAll(t, c, thread[t].resume)
      BY <2>5, <3>1, <3>5
    <3> QED
      BY <3>2, <3>3, <3>4, <3>5
  <2>7. CASE RunOnce(t) \/ Reply(t) \/ EmitCopySignal(t) \/ Evaluate(t)
    <3>1. \/ Become(t, Idle)
          \/ \E l \in {"copy", "run"} : \E r : Become(t, [thread[t] EXCEPT !.pc = l, !.rounds = r])
          \/ \E l \in {"volume", "signal"} : \E q : Become(t, [thread[t] EXCEPT !.pc = l, !.pending = q])
      <4>1. CASE RunOnce(t)
        <5> DEFINE l == IF botState = "RUNNING" THEN "copy" ELSE "run"
        <5>1. l \in {"copy", "run"} /\ \E r : Become(t, [thread[t] EXCEPT !.pc = l, !.rounds = r])
          BY <4>1 DEF RunOnce
        <5> HIDE DEF l
        <5> QED
          BY <5>1
      <4>2. CASE Reply(t) \/ EmitCopySignal(t) \/ Evaluate(t)
        BY <4>2 DEF Reply, EmitCopySignal, Evaluate, Abort
      <4> QED
        BY <2>7, <4>1, <4>2
    <3> QED
      BY <2>2, <2>3, <3>1
  <2>8. CASE PlaceOrder(t) \/ CheckPosition(t) \/ InsertPosition(t)
    <3>1. \/ \E l \in {"signal"} : \E q : Become(t, [thread[t] EXCEPT !.pc = l, !.pending = q])
          \/ \E l \in {"open"} : \E n : Become(t, [thread[t] EXCEPT !.pc = l, !.order = n])
          \/ \E l \in {"insert"} : Goto(t, l)
      BY <2>8 DEF PlaceOrder, CheckPosition, InsertPosition, NextSignal
    <3> QED
      BY <2>2, <3>1
  <2> QED
    BY <2>1, <2>4, <2>6, <2>7, <2>8 DEF Step
<1>3. PICK h : Become(t, h) /\ h.pc \notin {"approve", "approveBook"}
  BY <1>2
<1> QED
  BY <1>1, <1>3, OnceMove

LEMMA OnceStep == OneHandler /\ HandlerInv /\ OnceInv /\ [Next]_vars => OnceInv'
<1> SUFFICES ASSUME OneHandler, HandlerInv, OnceInv, [Next]_vars
             PROVE  OnceInv'
  OBVIOUS
<1>1. ASSUME NEW t \in Threads, Request(t) \/ Step(t)
      PROVE  OnceInv'
  BY <1>1, DuplicateKeepsOnce, ApproveKeepsOnce, OthersKeepOnce
<1>2. CASE UNCHANGED vars
  BY <1>2 DEF vars, OnceInv, SignalsNeverRepeat, Seen
<1> QED
  BY <1>1, <1>2 DEF Next

\* With one handler at a time no signal is recorded twice in the life of the process: the
\* built-in signals all fit into the window of the duplicate check (_is_duplicate_signal).
THEOREM SerialSignalsOnce ==
  ASSUME OneHandler
  PROVE  Spec => []SignalsNeverRepeat
<1>1. OnceInv => SignalsNeverRepeat
  BY DEF OnceInv
<1>2. HandlerInv /\ OnceInv /\ [Next]_vars => OnceInv'
  BY OnceStep
<1> QED
  BY HandlerInit, HandlerStep, OnceInit, <1>1, <1>2, PTL DEF Spec

=============================================================================
