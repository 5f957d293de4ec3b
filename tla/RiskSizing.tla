------------------------------ MODULE RiskSizing ------------------------------
(***************************************************************************)
(* The risk check turns the advice of a strategy or an agent into a final  *)
(* action and a whole number of shares, from the portfolio row it has read *)
(* and a price.  backend/app/modules/execution/risk.py, and the fixed lot  *)
(* of the smoke test in paper_step_runner.py.                              *)
(*                                                                         *)
(* Amounts are integers in the smallest unit of the account.  A portfolio  *)
(* is a record [cash, position, price, value]; value is the stored         *)
(* current_portfolio_value, which may be older than the price of the check.*)
(* A target exposure is in units of 1/Scale of the portfolio value.        *)
(***************************************************************************)
EXTENDS Integers

CONSTANTS
    Scale,          \* target exposure of 100 %: max_exposure_pct
    NoTarget        \* the decision carries no target exposure

ASSUME ScaleAssumption == Scale \in Nat \ {0}

ASSUME NoTargetAssumption == NoTarget \notin Int

TradeAction == {"BUY", "SELL", "HOLD"}

Portfolios == [cash : Int, position : Int, price : Int, value : Int]

Hold == [action |-> "HOLD", quantity |-> 0]
Buy(q) == [action |-> "BUY", quantity |-> q]
Sell(q) == [action |-> "SELL", quantity |-> q]

Smaller(a, b) == IF a <= b THEN a ELSE b
Absolute(a) == IF a < 0 THEN -a ELSE a
Clamp(target) == IF target < 0 THEN 0 ELSE Smaller(target, Scale)

\* Mutant of BuyOrHold: one share more than the cash pays for.
BuyRoundedUp(q) == IF q < 0 THEN Hold ELSE Buy(q + 1)

\* A quantity below one share is a HOLD.
BuyOrHold(q) == IF q < 1 THEN Hold ELSE Buy(q)
SellOrHold(q) == IF q < 1 THEN Hold ELSE Sell(q)

\* _floor_whole_shares of an amount.
WholeShares(amount, price) == amount \div price

\* evaluate: SELL is the whole position, BUY all the cash can pay for.
Evaluate(action, p, price) ==
    IF price <= 0 \/ action = "HOLD" THEN Hold
    ELSE IF action = "SELL" THEN SellOrHold(p.position)
    ELSE BuyOrHold(WholeShares(p.cash, price))

PortfolioValue(p, price) ==
    IF p.value > 0 THEN p.value ELSE p.cash + p.position * price

\* delta_value, in units of 1/Scale: what the target is away from the position.
TargetDelta(target, p, price) ==
    PortfolioValue(p, price) * Clamp(target) - p.position * price * Scale

\* The direction follows the target alone; the action only matters when it
\* is HOLD.
EvaluateTargetExposure(action, target, p, price) ==
    LET delta == TargetDelta(target, p, price)
        shares == WholeShares(Absolute(delta), price * Scale)
    IN  IF price <= 0 THEN Hold
        ELSE IF target = NoTarget THEN Evaluate(action, p, price)
        ELSE IF \/ PortfolioValue(p, price) <= 0
                \/ action = "HOLD"
                \/ Absolute(delta) < price * Scale
             THEN Hold
        ELSE IF delta > 0 THEN BuyOrHold(Smaller(shares, WholeShares(p.cash, price)))
        ELSE SellOrHold(Smaller(shares, p.position))

\* _smoke_test_risk_result: one share at a time.
SmokeTestRiskResult(action, p, price) ==
    IF action = "SELL" THEN SellOrHold(p.position)
    ELSE IF action = "BUY" /\ p.cash >= price THEN Buy(1)
    ELSE Hold

=============================================================================
