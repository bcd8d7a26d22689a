----------------------------- MODULE MCServices -----------------------------
(***************************************************************************)
(* The services that share nothing but the clock.  A behaviour of this     *)
(* module is one of a single guard, of one copy instruction, or about one  *)
(* input of one function of OrderSizing, while the others are not used.    *)
(***************************************************************************)
EXTENDS RateLimiter, CircuitBreaker, TradingRulesCache, MarketDataCache, TimeSynchronizer,
        CopyTrading

CONSTANTS
  OrderInputs,    \* the inputs of validate_and_normalize,
  TwapInputs,     \* of build_slices,
  VolumeInputs    \* and of build_child_orders

ASSUME InputsAssumption ==
  /\ OrderInputs \subseteq [order : OrderRequests, rules : SymbolRules, reference : Int]
  /\ TwapInputs \subseteq [plan : TwapPlans, step : Int]
  /\ VolumeInputs \subseteq [plan : VolumePlans, step : Int]

VARIABLES
  focus,    \* the service in use
  input,    \* the input of a function of OrderSizing, or NoInput
  verdict   \* the reason it answers with, or "none"

\* The server's clock is behind or ahead of the client's, or agrees with it.
BehindAndAhead == {-3, 0, 5}

Orders ==
  [quantity : 0..5, price : {Absent} \cup 0..4, trigger : {Absent, 0, 1, 3}, side : {"BUY", "SELL"}]
Rules ==
  [active : {TRUE}, step : 0..2, tick : 1..2, min_quantity : {0, 2}, max_quantity : {Absent, 3},
   min_notional : {0, 4}]
Untradable ==
  [active : {FALSE}, step : {1}, tick : {1}, min_quantity : {0}, max_quantity : {Absent},
   min_notional : {0}]
SmallOrders == [order : Orders, rules : Rules \cup Untradable, reference : {Absent, 2}]

SmallTwapPlans ==
  [plan : [total : {-3} \cup 0..9, slices : 0..4, min_slice : 0..2, max_slice : 0..4,
           objective : BOOLEAN],
   step : 0..2]
SmallVolumePlans ==
  [plan : [target : 0..6, slices : 0..3, volume : {0, 20, 50}, rate : {0, 5, 20, 21},
           min_child : 0..2, max_child : {Absent, 1, 3}, objective : BOOLEAN],
   step : 0..2]

\* A profile that accepts small orders, and one with each check of evaluate failing.
AccountProfile(org, account, blocked, equity, leverage) ==
  [org_kill_switch |-> org, account_kill_switch |-> account, allowed |-> {"BTC"},
   blocked |-> blocked, min_equity |-> equity, max_leverage |-> leverage, max_order_value |-> 6]
AccountProfiles ==
  << AccountProfile(FALSE, FALSE, {}, 1, 1),
     AccountProfile(TRUE, FALSE, {}, 1, 1),
     AccountProfile(FALSE, TRUE, {}, 1, 1),
     AccountProfile(FALSE, FALSE, {"BTC"}, 1, 1),
     AccountProfile(FALSE, FALSE, {}, 2, 1),
     AccountProfile(FALSE, FALSE, {}, 1, 0) >>

Uninstructed == [state |-> "NONE", quantity |-> 0, price |-> 0, profile |-> 0]

NoInput == [none |-> 0]

-----------------------------------------------------------------------------

Guards == {"limiter", "breaker", "rules", "market", "clock", "copy"}

Choose ==
  \/ focus \in Guards /\ input = NoInput
  \/ focus = "order" /\ input \in OrderInputs
  \/ focus = "twap" /\ input \in TwapInputs
  \/ focus = "volume" /\ input \in VolumeInputs

Init ==
  /\ Choose
  /\ ClockInit
  /\ LimiterInit /\ BreakerInit /\ RulesInit /\ MarketInit /\ CopyInit /\ SyncInit
  /\ focus # "clock" => skew = 0
  /\ verdict = "none"

Answer(reason) ==
  /\ verdict = "none"
  /\ verdict' = reason

guardVars == <<now, limiterVars, breakerVars, rulesVars, marketVars, syncVars, copyVars>>
vars == <<guardVars, focus, input, verdict>>

Calculate ==
  /\ \/ focus = "order" /\ Answer(Validate(input.order, input.rules, input.reference))
     \/ focus = "twap" /\ Answer(TwapVerdict(input.plan, input.step))
     \/ focus = "volume" /\ Answer(VolumeVerdict(input.plan, input.step))
  /\ UNCHANGED guardVars

Use ==
  /\ \/ /\ focus = "limiter" /\ LimiterNext
        /\ UNCHANGED <<breakerVars, rulesVars, marketVars, syncVars, copyVars>>
     \/ /\ focus = "breaker" /\ BreakerNext
        /\ UNCHANGED <<limiterVars, rulesVars, marketVars, syncVars, copyVars>>
     \/ /\ focus = "rules" /\ RulesNext
        /\ UNCHANGED <<limiterVars, breakerVars, marketVars, syncVars, copyVars>>
     \/ /\ focus = "market" /\ MarketNext
        /\ UNCHANGED <<limiterVars, breakerVars, rulesVars, syncVars, copyVars>>
     \/ /\ focus = "clock" /\ SyncNext
        /\ UNCHANGED <<limiterVars, breakerVars, rulesVars, marketVars, copyVars>>
     \/ /\ focus = "copy" /\ CopyNext
        /\ UNCHANGED <<now, limiterVars, breakerVars, rulesVars, marketVars, syncVars>>
  /\ UNCHANGED verdict

Next == (Calculate \/ Use) /\ UNCHANGED <<focus, input>>

\* Time passes, and the event loop goes on with every call of acquire.
Fairness ==
  /\ WF_vars(Tick /\ Next)
  /\ \A c \in Clients : WF_vars(LimiterStep(c) /\ Next)

Spec == Init /\ [][Next]_vars /\ Fairness

-----------------------------------------------------------------------------

\* NormalizationSafe and PlansWithinBounds are the two halves of SizesWithinBounds.
\*
\* What SafeOrder says of an order that is accepted (validate_and_normalize).
NormalizationSafe ==
  focus = "order" /\ verdict = "ACCEPTED" => SafeOrder(input.order, input.rules, input.reference)

\* What SlicesWithinBounds and ChildrenWithinBounds say of a plan that is accepted
\* (build_slices, build_child_orders).
PlansWithinBounds ==
  /\ focus = "twap" /\ verdict = "ACCEPTED" => SlicesWithinBounds(input.plan, input.step)
  /\ focus = "volume" /\ verdict = "ACCEPTED" => ChildrenWithinBounds(input.plan, input.step)

\* An order that is accepted has a positive trigger price, if it has one ("trigger price must be
\* positive", safety.py).
TriggersArePositive ==
  focus = "order" /\ verdict = "ACCEPTED" => Normalized(input.order, input.rules).trigger # 0

\* The child orders of an accepted volume plan never exceed its participation rate
\* (VolumeExecutionStrategy; docs/progress.md).
VolumeIsCapped ==
  focus = "volume" /\ verdict = "ACCEPTED" =>
    LET plan == input.plan
    IN  100 * plan.slices * VolumeChild(plan, input.step) <= Participation(plan)

\* Whatever is rounded, an accepted order and the parts of an accepted plan exceed neither
\* what was asked for nor the limits, up to the minima that the plan itself demands
\* (validate_and_normalize, build_slices, build_child_orders).
SizesWithinBounds == NormalizationSafe /\ PlansWithinBounds

=============================================================================
