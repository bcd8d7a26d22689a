------------------------ MODULE MCTradingSequential ------------------------
(***************************************************************************)
(* The trading engine with one handler at a time.  The engine emits at     *)
(* most five signals in its life, so the bound on signals is never met and *)
(* the state space is finite by itself.                                    *)
(***************************************************************************)
EXTENDS TradingPlatform

\* The scenarios that move the sequential engine.  The other seven emit no
\* signal and close nothing, like any scenario once its signal was executed.
MovingScenarios ==
  {"BULLISH_VOLUME_BREAKOUT", "BEARISH_VOLUME_BREAKDOWN", "LEAD_TRADER_OPENS_LONG",
   "LEAD_TRADER_OPENS_SHORT", "LEAD_TRADER_CLOSES_POSITION", "TAKE_PROFIT_HIT",
   "EMERGENCY_STOP"}

=============================================================================
