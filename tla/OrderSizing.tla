----------------------------- MODULE OrderSizing -----------------------------
(***************************************************************************)
(* The arithmetic that turns a wish to trade into orders: quantize_down    *)
(* (domain/types.py), the normalization of an order to the rules of its    *)
(* symbol (exchanges/safety.py), the slices of a TWAP plan                 *)
(* (services/twap.py), the child orders of a volume plan                   *)
(* (services/volume_execution.py) and the pre-trade risk check             *)
(* (services/risk.py).                                                     *)
(*                                                                         *)
(* Quantities and prices are whole numbers of some unit.  Where the code   *)
(* divides, the quotient is kept as a fraction until it is quantized; that *)
(* Decimal rounds it at its 28th digit is dropped.  A function answers     *)
(* with the reason of the first check that fails, which the code raises or *)
(* returns, or with "ACCEPTED".                                            *)
(***************************************************************************)
EXTENDS Integers, Sequences

Absent == -1     \* None, where a price or a limit is optional

Least(a, b) == IF a < b THEN a ELSE b
Greatest(a, b) == IF a < b THEN b ELSE a

\* checks is a sequence of <<whether the check fails, the reason>>.
FirstFailing(checks) ==
  LET failing == {i \in DOMAIN checks : checks[i][1]}
  IN  IF failing = {} THEN "ACCEPTED"
      ELSE checks[CHOOSE i \in failing : \A j \in failing : i <= j][2]

\* Rounded up.
FaultyQuantizeDown(n, d, step) == ((n + d * step - 1) \div (d * step)) * step

\* The fraction n/d, cut to a multiple of step: towards zero, as ROUND_DOWN does.
QuantizeDown(n, d, step) ==
  IF n >= 0 THEN (n \div (d * step)) * step ELSE -((-n \div (d * step)) * step)

-----------------------------------------------------------------------------
(* OrderValidationService                                                  *)

OrderRequests == [quantity : Int, price : Int, trigger : Int, side : {"BUY", "SELL"}]
SymbolRules ==
  [active : BOOLEAN, step : Int, tick : Int, min_quantity : Int, max_quantity : Int,
   min_notional : Int]

\* _price_risk_safe: down for a BUY, up for a SELL.
PriceRiskSafe(value, tick, side) ==
  IF side = "BUY" THEN QuantizeDown(value, 1, tick)
                  ELSE QuantizeDown(value + tick - 1, 1, tick)

NormalPrice(price, rules, side) ==
  IF price = Absent THEN Absent ELSE PriceRiskSafe(price, rules.tick, side)

\* The request with its quantity and prices normalized.
Normalized(request, rules) ==
  [request EXCEPT !.quantity = QuantizeDown(@, 1, rules.step),
                  !.price = NormalPrice(@, rules, request.side),
                  !.trigger = NormalPrice(@, rules, request.side)]

\* The checks of validate_and_normalize that need no arithmetic on the rules.  The rules are
\* those of the order's symbol.
Preflight(request, rules) ==
  FirstFailing(<<
    <<~rules.active, "SYMBOL_NOT_TRADABLE">>,
    <<request.quantity <= 0, "INVALID_QUANTITY">>,
    <<rules.step <= 0 \/ rules.tick <= 0, "INVALID_TRADING_RULES">> >>)

\* validate_and_normalize.  The notional is valued at the normalized price, or at the
\* reference price of an order without one.
Validate(request, rules, reference) ==
  IF Preflight(request, rules) # "ACCEPTED" THEN Preflight(request, rules)
  ELSE LET order     == Normalized(request, rules)
           valuation == IF order.price = Absent THEN reference ELSE order.price
       IN  FirstFailing(<<
             <<order.quantity < rules.min_quantity, "MIN_QUANTITY">>,
             <<rules.max_quantity # Absent /\ order.quantity > rules.max_quantity, "MAX_QUANTITY">>,
             <<request.price # Absent /\ (request.price <= 0 \/ order.price <= 0), "INVALID_PRICE">>,
             <<request.trigger # Absent /\ request.trigger <= 0, "INVALID_TRIGGER_PRICE">>,
             <<rules.min_notional > 0 /\ valuation = Absent, "REFERENCE_PRICE_REQUIRED">>,
             <<valuation # Absent /\ order.quantity * valuation < rules.min_notional, "MIN_NOTIONAL">> >>)

-----------------------------------------------------------------------------
(* TWAP and volume plans.  Their limits are quantities; the code does not  *)
(* look at the sign of a total.                                            *)

TwapPlans ==
  [total : Int, slices : Int, min_slice : Nat, max_slice : Nat, objective : BOOLEAN]

\* The last check is that of quantize_down.
TwapVerdict(plan, step) ==
  FirstFailing(<<
    <<~plan.objective, "OBJECTIVE">>,
    <<plan.slices <= 0, "SLICES">>,
    <<step <= 0, "STEP">> >>)

\* The quantity of each of the plan's slices: what is built is that many equal slices.
TwapSlice(plan, step) ==
  LET wanted == Greatest(plan.total, plan.min_slice * plan.slices)
  IN  QuantizeDown(Least(wanted, plan.max_slice * plan.slices), plan.slices, step)

VolumePlans ==
  [target : Int, slices : Int, volume : Int, rate : Int, min_child : Int,
   max_child : Nat \cup {Absent}, objective : BOOLEAN]

\* The participation rate is a whole number of percent: at most a fifth.
VolumeVerdict(plan, step) ==
  FirstFailing(<<
    <<~plan.objective, "OBJECTIVE">>,
    <<plan.slices <= 0, "SLICES">>,
    <<plan.target <= 0, "TARGET">>,
    <<plan.volume <= 0, "VOLUME">>,
    <<plan.rate <= 0 \/ plan.rate > 20, "PARTICIPATION">>,
    <<step <= 0, "STEP">> >>)

\* 100 * slices times the share of the observed volume that a slice may take.
Participation(plan) == plan.volume * plan.rate

\* The quantity of each of the plan's child orders.
VolumeChild(plan, step) ==
  LET parts  == 100 * plan.slices
      capped == Least(100 * plan.target, Participation(plan))
      within == IF plan.max_child = Absent THEN capped ELSE Least(capped, plan.max_child * parts)
  IN  QuantizeDown(Greatest(within, plan.min_child * parts), parts, step)

-----------------------------------------------------------------------------
(* RiskEngine                                                              *)

Evaluate(order, profile) ==
  FirstFailing(<<
    <<profile.org_kill_switch, "ORG_KILL_SWITCH">>,
    <<profile.account_kill_switch, "ACCOUNT_KILL_SWITCH">>,
    <<order.symbol \in profile.blocked \/ order.symbol \notin profile.allowed, "SYMBOL_NOT_ALLOWED">>,
    <<order.equity < profile.min_equity, "MIN_EQUITY">>,
    <<order.leverage > profile.max_leverage, "LEVERAGE_LIMIT">>,
    <<order.price * order.quantity > profile.max_order_value, "ORDER_VALUE_LIMIT">> >>)

-----------------------------------------------------------------------------
(* What the answers promise, for one input each; MCServices asks for them. *)

Multiple(n, step) == n % step = 0

\* An order that is accepted exposes its owner to no more than was asked for: its quantity
\* is the largest multiple of the step that was asked for, within the limits, a BUY is not
\* dearer and a SELL not cheaper, nor is either triggered at such a price.  Normalizing it
\* again changes nothing, and it is accepted again exactly if no rounding took it to zero,
\* which happens to a quantity below a step and to the trigger price of a BUY below a tick
\* (validate_and_normalize).
SafeOrder(asked, rules, reference) ==
  LET order == Normalized(asked, rules)
  IN  /\ Multiple(order.quantity, rules.step)
      /\ order.quantity <= asked.quantity /\ asked.quantity < order.quantity + rules.step
      /\ rules.max_quantity = Absent \/ order.quantity <= rules.max_quantity
      /\ order.price # Absent =>
           IF order.side = "BUY" THEN order.price \in 1..asked.price ELSE order.price >= asked.price
      /\ order.price # Absent => order.quantity * order.price >= rules.min_notional
      /\ order.trigger # Absent =>
           IF order.side = "BUY" THEN order.trigger \in 0..asked.trigger ELSE order.trigger >= asked.trigger
      /\ order.quantity = 0 <=> asked.quantity < rules.step
      /\ order.trigger = 0 <=> order.side = "BUY" /\ asked.trigger \in 1..(rules.tick - 1)
      /\ Normalized(order, rules) = order
      /\ Validate(order, rules, reference) = "ACCEPTED" <=> order.quantity # 0 /\ order.trigger # 0

\* The slices of a TWAP plan are within its limits, and together never more than its total
\* unless its minimum slice asks for more; they fall short of it by less than a step for
\* each slice, unless its maximum slice cuts them (build_slices).
SlicesWithinBounds(plan, step) ==
  LET slice == TwapSlice(plan, step)
      all   == plan.slices * slice
  IN  /\ slice <= plan.max_slice
      /\ all <= plan.total \/ slice <= plan.min_slice
      /\ plan.total < all + plan.slices * step \/ plan.max_slice < slice + step

\* The child orders of a volume plan take no more than its participation and its target, or
\* else no more than its minimum child order, to which they are lifted after the cap is
\* applied (build_child_orders).
ChildrenWithinBounds(plan, step) ==
  LET child == VolumeChild(plan, step)
      all   == plan.slices * child
  IN  /\ child <= plan.min_child \/ (all <= plan.target /\ 100 * all <= Participation(plan))
      /\ plan.max_child # Absent => child <= Greatest(plan.max_child, plan.min_child)

=============================================================================
