----------------------------- MODULE CopyTrading -----------------------------
(***************************************************************************)
(* Copy instructions (services/copy.py): an instruction is sized after the *)
(* master's trade, may be validated against the risk profile, and is moved *)
(* through the states of CopyStateMachine by whoever submits the order and *)
(* follows it.  That part is external: the repository has no caller of     *)
(* transition but validate.                                                *)
(***************************************************************************)
EXTENDS OrderSizing

CONSTANTS
  MasterQuantities, Multipliers, Step,   \* what instructions are sized by
  Prices, Profiles,                      \* what they are validated against
  NoInstruction

VARIABLES
  instruction,   \* the instruction, or NoInstruction
  submissions    \* how often it was moved to SUBMITTING

copyVars == <<instruction, submissions>>

CopyStates ==
  {"RECEIVED", "VALIDATING", "RISK_REJECTED", "READY", "SUBMITTING", "SUBMITTED",
   "PARTIALLY_FILLED", "FILLED", "CANCELLED", "FAILED", "RECONCILIATION_REQUIRED"}

\* An order that failed to go out is submitted again.
FaultyAllowed(state) ==
  CASE state = "RECEIVED"         -> {"VALIDATING"}
    [] state = "VALIDATING"       -> {"READY", "RISK_REJECTED", "FAILED"}
    [] state = "READY"            -> {"SUBMITTING"}
    [] state = "SUBMITTING"       -> {"SUBMITTED", "FAILED", "RECONCILIATION_REQUIRED", "READY"}
    [] state = "SUBMITTED"        -> {"PARTIALLY_FILLED", "FILLED", "CANCELLED", "RECONCILIATION_REQUIRED"}
    [] state = "PARTIALLY_FILLED" -> {"FILLED", "CANCELLED", "RECONCILIATION_REQUIRED"}
    [] OTHER                      -> {}

\* CopyStateMachine.allowed
Allowed(state) ==
  CASE state = "RECEIVED"         -> {"VALIDATING"}
    [] state = "VALIDATING"       -> {"READY", "RISK_REJECTED", "FAILED"}
    [] state = "READY"            -> {"SUBMITTING"}
    [] state = "SUBMITTING"       -> {"SUBMITTED", "FAILED", "RECONCILIATION_REQUIRED"}
    [] state = "SUBMITTED"        -> {"PARTIALLY_FILLED", "FILLED", "CANCELLED", "RECONCILIATION_REQUIRED"}
    [] state = "PARTIALLY_FILLED" -> {"FILLED", "CANCELLED", "RECONCILIATION_REQUIRED"}
    [] OTHER                      -> {}

Instructions ==
  [state : CopyStates, quantity : Int, price : Int, profile : {0} \cup DOMAIN Profiles]

ASSUME SizesAssumption ==
  MasterQuantities \subseteq Int /\ Multipliers \subseteq Int /\ Step \in Int /\ Prices \subseteq Int
ASSUME ProfilesAssumption == \A p \in DOMAIN Profiles : Profiles[p].max_order_value \in Int
ASSUME NoInstructionAssumption == NoInstruction \notin Instructions

CopyInit ==
  /\ instruction = NoInstruction
  /\ submissions = 0

\* quantize_down raises where the step is not positive.
CreateInstruction(master, multiplier) ==
  /\ instruction = NoInstruction
  /\ Step > 0
  /\ instruction' = [state |-> "RECEIVED", quantity |-> QuantizeDown(master * multiplier, 1, Step),
                     price |-> 0, profile |-> 0]
  /\ UNCHANGED submissions

\* The whole of validate: from RECEIVED over VALIDATING to the outcome of the risk check.  In
\* any other state transition raises ValueError and nothing changes.
ValidateInstruction(price, p) ==
  LET order   == [symbol |-> "BTC", quantity |-> instruction.quantity, price |-> price,
                  leverage |-> 1, equity |-> 1]
      outcome == IF Evaluate(order, Profiles[p]) = "ACCEPTED" THEN "READY" ELSE "RISK_REJECTED"
  IN  /\ instruction # NoInstruction
      /\ "VALIDATING" \in Allowed(instruction.state)
      /\ outcome \in Allowed("VALIDATING")
      /\ instruction' = [instruction EXCEPT !.state = outcome, !.price = price, !.profile = p]
      /\ UNCHANGED submissions

\* transition, by whoever has the instruction: only the table is looked at.
Transition(state) ==
  /\ instruction # NoInstruction
  /\ state \in Allowed(instruction.state)
  /\ instruction' = [instruction EXCEPT !.state = state]
  /\ submissions' = IF state = "SUBMITTING" THEN submissions + 1 ELSE submissions

CopyNext ==
  \/ \E master \in MasterQuantities, multiplier \in Multipliers : CreateInstruction(master, multiplier)
  \/ \E price \in Prices, p \in DOMAIN Profiles : ValidateInstruction(price, p)
  \/ \E state \in CopyStates : Transition(state)

CopySpec == CopyInit /\ [][CopyNext]_copyVars

-----------------------------------------------------------------------------

\* However its submitter retries, an instruction is submitted at most once.  A verdict of the
\* risk check is final: an instruction that was checked is submitted only if its order was
\* within the profile and the profile's switches were off, and a rejected one never is,
\* whatever transitions are tried.  Nothing is said of an instruction that was not checked:
\* its holder may move it to READY over VALIDATING, and from there validate raises an error
\* (CopyStateMachine.allowed, transition, validate).
VerdictsAreFinal ==
  /\ submissions <= 1
  /\ instruction.state = "RISK_REJECTED" => submissions = 0
  /\ submissions = 1 /\ instruction.profile # 0 =>
       LET profile == Profiles[instruction.profile]
       IN  /\ ~profile.org_kill_switch /\ ~profile.account_kill_switch
           /\ instruction.quantity * instruction.price <= profile.max_order_value

=============================================================================
