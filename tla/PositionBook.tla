---------------------------- MODULE PositionBook ----------------------------
(***************************************************************************)
(* What the trading engine promises its operator, with no handler, signal  *)
(* or order in sight: each strategy holds at most one position, all open   *)
(* positions are on one side, a position is opened only while the engine   *)
(* is RUNNING, and an emergency stop empties the book before the engine    *)
(* can be put in any other state.  TradingPlatform implements it when its  *)
(* handlers run one at a time.                                             *)
(***************************************************************************)
CONSTANTS Strategies, Sides

None == "NONE"

VARIABLES
  mode,  \* the engine's state
  held   \* the side held by each strategy, or None

bookVars == <<mode, held>>

Flat == \A s \in Strategies : held[s] = None

BookInit ==
  /\ mode = "RUNNING"
  /\ held = [s \in Strategies |-> None]

\* The operator may always change the engine's state, except that a halted
\* engine is first emptied.
SetMode(m) ==
  /\ mode = "EMERGENCY_STOPPED" => Flat
  /\ mode' = m
  /\ UNCHANGED held

Open(s, side) ==
  /\ mode = "RUNNING"
  /\ held[s] = None
  /\ \A r \in Strategies : held[r] \in {None, side}
  /\ held' = [held EXCEPT ![s] = side]
  /\ UNCHANGED mode

Close(s) ==
  /\ held[s] # None
  /\ held' = [held EXCEPT ![s] = None]
  /\ UNCHANGED mode

CloseHalted == mode = "EMERGENCY_STOPPED" /\ \E s \in Strategies : Close(s)

BookNext ==
  \/ \E m \in {"RUNNING", "STOPPED", "EMERGENCY_STOPPED"} : SetMode(m)
  \/ \E s \in Strategies : Close(s) \/ \E side \in Sides : Open(s, side)

\* A halted engine goes on closing until nothing is held.
BookSpec == BookInit /\ [][BookNext]_bookVars /\ WF_bookVars(CloseHalted)

=============================================================================
