-------------------------- MODULE AgentPipelineProofs --------------------------
(***************************************************************************)
(* One agentic decision, for every number of analysts, portfolio, price,   *)
(* threshold and confidence, and every answer of the model.                *)
(***************************************************************************)
EXTENDS AgentPipeline, TLAPS

Silent == [malformed |-> 0, last |-> "none"]

\* A log entry that says what the model did in the stage.
Fits(entry, a) ==
    /\ entry.status = "SUCCESS" <=> a = [malformed |-> 0, last |-> "valid"]
    /\ entry.status = "REPAIRED" <=> a.last = "valid" /\ a.malformed > 0
    /\ entry.reason = "PROVIDER_COMPLETE_EXCEPTION" <=> a = [malformed |-> 0, last |-> "raised"]
    /\ entry.reason = "REPAIR_PARSE_FAILED" <=> a.malformed = MaxRepairs + 1

\* Stages that have ended have a log entry, those to come have none, and the one
\* in between has been told as many malformed answers as it has asked for repairs.
StageInv ==
    /\ \A s \in Stages : s > stage => told[s] = Silent /\ log[s] = NotRun
    /\ \A s \in Stages : s < stage => log[s].status \in ParsingStatus /\ Fits(log[s], told[s])
    /\ pc \in {"load", "complete"} => told[stage] = Silent /\ log[stage] = NotRun
    /\ pc = "repair" =>
          /\ told[stage] = [malformed |-> repairs + 1, last |-> "malformed"]
          /\ log[stage] = NotRun
    /\ pc = "raised" =>
          /\ log[stage] = NotRun
          /\ told[stage].last \in {"none", "malformed"}
          /\ told[stage].malformed <= MaxRepairs
    /\ pc \in {"gate", "done"} =>
          /\ stage = LastStage
          /\ log[stage].status \in ParsingStatus /\ Fits(log[stage], told[stage])

\* A risk below HIGH comes from the risk manager.
RiskInv ==
    mode = "PIPELINE" /\ stage > RiskStage /\ risk # "HIGH" =>
        log[RiskStage].status # "FAILED"

\* What the gate has judged, and what became of it.
Advice == IF log[LastStage].status = "FAILED" THEN FallbackDecision ELSE proposed

DoneInv ==
    pc = "done" =>
        /\ decision = [action |-> FinalAction(Advice), target |-> FinalTarget(Advice),
                       fallbackUsed |-> Refused(Advice) \/ Degraded # {}]
        /\ order = EvaluateTargetExposure(FinalAction(Advice), FinalTarget(Advice),
                                          portfolio, price)

IInv == TypeOK /\ StageInv /\ RiskInv /\ DoneInv

-----------------------------------------------------------------------------
(***************************************************************************)
(* The risk check (RiskSizing)                                             *)
(***************************************************************************)

\* Whole shares cost at most the amount, and one share more would cost more.
LEMMA WholeSharesCost ==
    ASSUME NEW a \in Int, NEW p \in Nat \ {0}
    PROVE  /\ WholeShares(a, p) \in Int
           /\ WholeShares(a, p) * p <= a
           /\ a < (WholeShares(a, p) + 1) * p
  BY DEF WholeShares

\* Fewer shares cost less.
LEMMA FewerSharesCostLess ==
    ASSUME NEW q \in Int, NEW r \in Int, NEW p \in Nat, q <= r
    PROVE  q * p <= r * p
  <1>1. r - q \in Nat
    OBVIOUS
  <1>2. (r - q) * p >= 0
    BY <1>1
  <1>3. (r - q) * p = r * p - q * p
    OBVIOUS
  <1> QED
    BY <1>2, <1>3

\* BR-044, rules: a BUY is at least one share and never costs more than the cash
\* of the portfolio at the price of the check; a SELL never exceeds the position.
THEOREM EvaluateIsCovered ==
    ASSUME NEW action \in TradeAction, NEW p \in Portfolios, NEW quote \in Int,
           NEW r, r = Evaluate(action, p, quote)
    PROVE  /\ r.action = "BUY" => r.quantity >= 1 /\ r.quantity * quote <= p.cash
           /\ r.action = "SELL" => r.quantity >= 1 /\ r.quantity <= p.position
  <1>1. CASE quote <= 0
    BY <1>1 DEF Evaluate, Hold
  <1>2. CASE quote > 0
    <2>1. quote \in Nat \ {0} /\ p.cash \in Int /\ p.position \in Int
      BY <1>2 DEF Portfolios
    <2>2. /\ WholeShares(p.cash, quote) \in Int
          /\ WholeShares(p.cash, quote) * quote <= p.cash
      BY <2>1, WholeSharesCost
    <2> QED
      BY <2>1, <2>2 DEF Evaluate, Hold, Buy, Sell, BuyOrHold, SellOrHold
  <1> QED
    BY <1>1, <1>2

\* The same of a target exposure: whatever the agent asks for, the shares are
\* paid for by the cash and covered by the position (rules: never a short
\* position), even when the stored portfolio value is out of date.
THEOREM TargetExposureIsCovered ==
    ASSUME NEW action \in TradeAction, NEW target \in Int \cup {NoTarget},
           NEW p \in Portfolios, NEW quote \in Int,
           NEW r, r = EvaluateTargetExposure(action, target, p, quote)
    PROVE  /\ r.action = "BUY" => r.quantity >= 1 /\ r.quantity * quote <= p.cash
           /\ r.action = "SELL" => r.quantity >= 1 /\ r.quantity <= p.position
  <1>1. CASE quote <= 0
    BY <1>1 DEF EvaluateTargetExposure, Hold
  <1>2. CASE quote > 0 /\ target = NoTarget
    <2>1. r = Evaluate(action, p, quote)
      BY <1>2 DEF EvaluateTargetExposure
    <2> QED
      BY <2>1, EvaluateIsCovered
  <1>3. CASE quote > 0 /\ target # NoTarget
    <2>1. /\ target \in Int /\ quote \in Nat \ {0} /\ quote * Scale \in Nat \ {0}
          /\ p.cash \in Int /\ p.position \in Int /\ p.value \in Int
      BY <1>3, ScaleAssumption DEF Portfolios
    <2> DEFINE delta == TargetDelta(target, p, quote)
               shares == WholeShares(Absolute(delta), quote * Scale)
               affordable == WholeShares(p.cash, quote)
    <2>2. Clamp(target) \in Int /\ PortfolioValue(p, quote) \in Int
      BY <2>1, ScaleAssumption DEF Clamp, Smaller, PortfolioValue
    <2>3. delta \in Int /\ Absolute(delta) \in Int
      BY <2>1, <2>2, ScaleAssumption DEF TargetDelta, Absolute
    <2>4. affordable \in Int /\ affordable * quote <= p.cash
      BY <2>1, WholeSharesCost
    <2>5. shares \in Int
      BY <2>1, <2>3, WholeSharesCost
    <2> HIDE DEF delta, shares, affordable
    <2>6. \/ r = Hold
          \/ r = BuyOrHold(Smaller(shares, affordable))
          \/ r = SellOrHold(Smaller(shares, p.position))
      BY <1>3 DEF EvaluateTargetExposure, delta, shares, affordable
    <2>7. Smaller(shares, affordable) * quote <= affordable * quote
      BY <2>1, <2>4, <2>5, FewerSharesCostLess DEF Smaller
    <2> QED
      BY <2>1, <2>4, <2>5, <2>6, <2>7
      DEF Hold, Buy, Sell, BuyOrHold, SellOrHold, Smaller
  <1> QED
    BY <1>1, <1>2, <1>3

\* BR-027B: a trade never goes past the target exposure; what it moves is worth
\* at most the distance between position and target.
THEOREM TargetIsNotOvershot ==
    ASSUME NEW action \in TradeAction, NEW target \in Int,
           NEW p \in Portfolios, NEW quote \in Nat \ {0},
           NEW r, r = EvaluateTargetExposure(action, target, p, quote)
    PROVE  LET delta == TargetDelta(target, p, quote)
           IN  /\ r.action = "BUY" => r.quantity * (quote * Scale) <= delta
               /\ r.action = "SELL" => r.quantity * (quote * Scale) <= -delta
  <1> DEFINE delta == TargetDelta(target, p, quote)
             shares == WholeShares(Absolute(delta), quote * Scale)
             affordable == WholeShares(p.cash, quote)
  <1>1. /\ quote * Scale \in Nat \ {0} /\ target # NoTarget
        /\ p.cash \in Int /\ p.position \in Int /\ p.value \in Int
    BY ScaleAssumption, NoTargetAssumption DEF Portfolios
  <1>2. Clamp(target) \in Int /\ PortfolioValue(p, quote) \in Int
    BY <1>1, ScaleAssumption DEF Clamp, Smaller, PortfolioValue
  <1>3. delta \in Int /\ Absolute(delta) \in Int
    BY <1>1, <1>2, ScaleAssumption DEF TargetDelta, Absolute
  <1>4. affordable \in Int
    BY <1>1, WholeSharesCost
  <1>5. shares \in Int /\ shares * (quote * Scale) <= Absolute(delta)
    BY <1>1, <1>3, WholeSharesCost
  <1> HIDE DEF delta, shares, affordable
  <1>6. \/ r = Hold
        \/ delta > 0 /\ r = BuyOrHold(Smaller(shares, affordable))
        \/ ~(delta > 0) /\ r = SellOrHold(Smaller(shares, p.position))
    BY <1>1, quote > 0 DEF EvaluateTargetExposure, delta, shares, affordable
  <1>7. /\ Smaller(shares, affordable) * (quote * Scale) <= shares * (quote * Scale)
        /\ Smaller(shares, p.position) * (quote * Scale) <= shares * (quote * Scale)
    BY <1>1, <1>4, <1>5, FewerSharesCostLess DEF Smaller
  <1>8. /\ Smaller(shares, affordable) * (quote * Scale) \in Int
        /\ Smaller(shares, p.position) * (quote * Scale) \in Int
        /\ shares * (quote * Scale) \in Int
    BY <1>1, <1>4, <1>5 DEF Smaller
  <1>9. CASE r = Hold
    BY <1>9 DEF Hold
  <1>10. CASE delta > 0 /\ r = BuyOrHold(Smaller(shares, affordable))
    <2>1. Absolute(delta) = delta
      BY <1>3, <1>10 DEF Absolute
    <2>2. r.action = "BUY" => r.quantity = Smaller(shares, affordable)
      BY <1>10 DEF BuyOrHold, Buy, Hold
    <2>3. r.action # "SELL"
      BY <1>10 DEF BuyOrHold, Buy, Hold
    <2> QED
      BY <1>3, <1>5, <1>7, <1>8, <2>1, <2>2, <2>3 DEF delta
  <1>11. CASE ~(delta > 0) /\ r = SellOrHold(Smaller(shares, p.position))
    <2>1. Absolute(delta) = -delta
      BY <1>3, <1>11 DEF Absolute
    <2>2. r.action = "SELL" => r.quantity = Smaller(shares, p.position)
      BY <1>11 DEF SellOrHold, Sell, Hold
    <2>3. r.action # "BUY"
      BY <1>11 DEF SellOrHold, Sell, Hold
    <2> QED
      BY <1>3, <1>5, <1>7, <1>8, <2>1, <2>2, <2>3 DEF delta
  <1> QED
    BY <1>6, <1>9, <1>10, <1>11

-----------------------------------------------------------------------------
(***************************************************************************)
(* Exposure and order                                                      *)
(***************************************************************************)

\* Rounding gives one of the two neighbours.
LEMMA RoundingIsNear ==
    ASSUME NEW n \in Int, NEW d \in Nat \ {0}
    PROVE  \E q \in Int :
              /\ q * d <= n /\ n < (q + 1) * d
              /\ RoundHalfEven(n, d) \in {q, q + 1}
  <1> DEFINE q == n \div d
  <1>1. q \in Int /\ q * d <= n /\ n < (q + 1) * d
    BY WholeSharesCost DEF WholeShares
  <1>2. RoundHalfEven(n, d) \in {q, q + 1}
    BY DEF RoundHalfEven
  <1> HIDE DEF q
  <1> QED
    BY <1>1, <1>2

\* Less than the rounded quotient is at most the quotient, more is more.
LEMMA RoundingKeepsOrder ==
    ASSUME NEW n \in Int, NEW d \in Nat \ {0}, NEW target \in Int
    PROVE  /\ RoundHalfEven(n, d) \in Int
           /\ target > RoundHalfEven(n, d) => d * target > n
           /\ target < RoundHalfEven(n, d) => d * target <= n
  <1> DEFINE k == RoundHalfEven(n, d)
  <1>1. PICK q \in Int : q * d <= n /\ n < (q + 1) * d /\ k \in {q, q + 1}
    BY RoundingIsNear
  <1> HIDE DEF k
  <1>2. ASSUME target > k PROVE d * target > n
    <2>1. q + 1 <= target
      BY <1>1, <1>2
    <2>2. (q + 1) * d <= target * d
      BY <1>1, <2>1, FewerSharesCostLess
    <2>3. target * d = d * target /\ target * d \in Int /\ (q + 1) * d \in Int
      BY <1>1
    <2> QED
      BY <1>1, <2>2, <2>3
  <1>3. ASSUME target < k PROVE d * target <= n
    <2>1. target <= q
      BY <1>1, <1>3
    <2>2. target * d <= q * d
      BY <1>1, <2>1, FewerSharesCostLess
    <2>3. target * d = d * target /\ target * d \in Int /\ q * d \in Int
      BY <1>1
    <2> QED
      BY <1>1, <2>2, <2>3
  <1> QED
    BY <1>1, <1>2, <1>3 DEF k

\* The risk check's order points where the target is.
LEMMA OrderPointsToTarget ==
    ASSUME NEW action \in TradeAction, NEW target \in 0..Scale, NEW p \in Portfolios,
           NEW c \in Nat \ {0}, NEW r, r = EvaluateTargetExposure(action, target, p, c)
    PROVE  LET delta == PortfolioValue(p, c) * target - p.position * c * Scale
           IN  /\ r \in [action : TradeAction, quantity : Int]
               /\ r.action = "BUY" =>
                     action # "HOLD" /\ PortfolioValue(p, c) > 0 /\ delta > 0
               /\ r.action = "SELL" =>
                     action # "HOLD" /\ PortfolioValue(p, c) > 0 /\ ~(delta > 0)
  <1> DEFINE delta == TargetDelta(target, p, c)
             shares == WholeShares(Absolute(delta), c * Scale)
             affordable == WholeShares(p.cash, c)
  <1>1. /\ c * Scale \in Nat \ {0} /\ target # NoTarget /\ target \in Int
        /\ p.cash \in Int /\ p.position \in Int /\ p.value \in Int
    BY ScaleAssumption, NoTargetAssumption DEF Portfolios
  <1>2. Clamp(target) = target /\ PortfolioValue(p, c) \in Int
    BY <1>1, ScaleAssumption DEF Clamp, Smaller, PortfolioValue
  <1>3. delta = PortfolioValue(p, c) * target - p.position * c * Scale
    BY <1>2 DEF TargetDelta
  <1>4. delta \in Int /\ Absolute(delta) \in Int
    BY <1>1, <1>2, <1>3, ScaleAssumption DEF Absolute
  <1>5. shares \in Int /\ affordable \in Int
    BY <1>1, <1>4, WholeSharesCost
  <1> HIDE DEF delta, shares, affordable
  <1>6. \/ r = Hold
        \/ /\ action # "HOLD" /\ ~(PortfolioValue(p, c) <= 0)
           /\ \/ delta > 0 /\ r = BuyOrHold(Smaller(shares, affordable))
              \/ ~(delta > 0) /\ r = SellOrHold(Smaller(shares, p.position))
    BY <1>1, c > 0 DEF EvaluateTargetExposure, delta, shares, affordable
  <1>7. Smaller(shares, affordable) \in Int /\ Smaller(shares, p.position) \in Int
    BY <1>1, <1>5 DEF Smaller
  <1>8. r \in [action : TradeAction, quantity : Int]
    BY <1>6, <1>7 DEF BuyOrHold, SellOrHold, Buy, Sell, Hold, TradeAction
  <1>9. /\ r.action = "BUY" => action # "HOLD" /\ ~(PortfolioValue(p, c) <= 0) /\ delta > 0
        /\ r.action = "SELL" => action # "HOLD" /\ ~(PortfolioValue(p, c) <= 0) /\ ~(delta > 0)
    BY <1>6 DEF BuyOrHold, SellOrHold, Buy, Sell, Hold
  <1> QED
    BY <1>2, <1>3, <1>8, <1>9

-----------------------------------------------------------------------------
(***************************************************************************)
(* The gate                                                                *)
(***************************************************************************)

LEMMA BookTypes ==
    ASSUME TypeOK
    PROVE  /\ portfolio \in Portfolios /\ portfolio.position \in Nat
           /\ price \in Nat \ {0}
           /\ PortfolioValue(portfolio, price) \in Int
  <1>1. portfolio \in [cash : Int, position : Nat, price : Int, value : Int]
        /\ price \in Nat \ {0}
    BY AgentAssumption DEF TypeOK
  <1> QED
    BY <1>1 DEF Portfolios, PortfolioValue

LEMMA ExposureTypes ==
    ASSUME TypeOK
    PROVE  CurrentExposure \in Int
  <1> DEFINE v == PortfolioValue(portfolio, price)
             n == portfolio.position * price * Scale
  <1>1. v \in Int /\ n \in Int
    BY BookTypes, ScaleAssumption
  <1>2. CurrentExposure = IF v <= 0 THEN 0 ELSE RoundHalfEven(n, v)
    BY DEF CurrentExposure
  <1> HIDE DEF v, n
  <1>3. ~(v <= 0) => v \in Nat \ {0}
    BY <1>1
  <1>4. ~(v <= 0) => RoundHalfEven(n, v) \in Int
    BY <1>1, <1>3, 0 \in Int, RoundingKeepsOrder
  <1> QED
    BY <1>2, <1>4

\* What the gate lets pass as an order has its target on the right side of the
\* exposure; a HOLD keeps the exposure.
LEMMA GateTypes ==
    ASSUME TypeOK, NEW a \in ParsedAgentOutput
    PROVE  /\ FinalAction(a) \in TradeAction
           /\ FinalTarget(a) \in Int
           /\ FinalAction(a) # "HOLD" =>
                 /\ ~Refused(a) /\ FinalAction(a) = a.action
                 /\ FinalTarget(a) = a.target /\ a.target \in 0..Scale
           /\ FinalAction(a) = "BUY" => a.target > CurrentExposure
           /\ FinalAction(a) = "SELL" => a.target < CurrentExposure
  <1>1. a.action \in TradeAction /\ a.target \in 0..Scale /\ Smaller(a.target, Scale) = a.target
    BY ScaleAssumption DEF ParsedAgentOutput, Smaller
  <1>2. CurrentExposure \in Int
    BY ExposureTypes
  <1>3. FinalAction(a) = IF Refused(a) THEN "HOLD" ELSE a.action
    BY DEF FinalAction
  <1>4. FinalTarget(a) = IF FinalAction(a) = "HOLD" THEN CurrentExposure ELSE a.target
    BY <1>1 DEF FinalTarget
  <1>5. FinalAction(a) = "BUY" => ~(a.target <= CurrentExposure)
    BY <1>1, <1>3 DEF Refused, BuyRefused
  <1>6. FinalAction(a) = "SELL" => ~(a.target >= CurrentExposure)
    BY <1>1, <1>3 DEF Refused, SellRefused
  <1>7. FinalAction(a) \in TradeAction
    BY <1>1, <1>3 DEF TradeAction
  <1>8. FinalTarget(a) \in Int
    BY <1>1, <1>2, <1>4, ScaleAssumption
  <1> QED
    BY <1>1, <1>2, <1>3, <1>4, <1>5, <1>6, <1>7, <1>8, ScaleAssumption

\* The order of a decision that went through gate and risk check.
LEMMA GateAndRiskAgree ==
    ASSUME TypeOK, NEW a \in ParsedAgentOutput,
           NEW r, r = EvaluateTargetExposure(FinalAction(a), FinalTarget(a), portfolio, price)
    PROVE  /\ r \in [action : TradeAction, quantity : Int]
           /\ r.action \in {"HOLD", FinalAction(a)}
  <1> DEFINE v == PortfolioValue(portfolio, price)
             n == portfolio.position * price * Scale
             f == FinalAction(a)
  <1>1. /\ f \in TradeAction
        /\ v \in Int /\ n \in Int /\ portfolio \in Portfolios /\ price \in Nat \ {0}
    BY GateTypes, BookTypes, ScaleAssumption
  <1>2. CASE f = "HOLD"
    <2>1. FinalTarget(a) # NoTarget
      BY GateTypes, NoTargetAssumption
    <2>2. r = Hold
      BY <1>2, <2>1 DEF EvaluateTargetExposure
    <2> QED
      BY <2>2 DEF Hold, TradeAction
  <1>3. CASE f # "HOLD"
    <2>1. FinalTarget(a) = a.target /\ a.target \in 0..Scale
      BY <1>3, GateTypes
    <2>2. /\ r \in [action : TradeAction, quantity : Int]
          /\ r.action = "BUY" => v > 0 /\ v * a.target - n > 0
          /\ r.action = "SELL" => v > 0 /\ ~(v * a.target - n > 0)
      BY <1>1, <2>1, OrderPointsToTarget
    <2>3. ASSUME v > 0
          PROVE  /\ f = "BUY" => v * a.target > n
                 /\ f = "SELL" => v * a.target <= n
      <3>1. CurrentExposure = RoundHalfEven(n, v)
        BY <1>1, <2>3 DEF CurrentExposure
      <3>2. v \in Nat \ {0} /\ a.target \in Int
        BY <1>1, <2>1, <2>3
      <3>3. /\ f = "BUY" => a.target > RoundHalfEven(n, v)
            /\ f = "SELL" => a.target < RoundHalfEven(n, v)
        BY <3>1, GateTypes
      <3> HIDE DEF v, n, f
      <3> QED
        BY <1>1, <3>2, <3>3, RoundingKeepsOrder
    <2>4. v * a.target \in Int
      BY <1>1, <2>1
    <2> HIDE DEF v, n, f
    <2>5. /\ f = "BUY" => r.action # "SELL"
          /\ f = "SELL" => r.action # "BUY"
      BY <1>1, <2>2, <2>3, <2>4
    <2> QED
      BY <1>1, <1>3, <2>2, <2>5 DEF TradeAction, f
  <1> QED
    BY <1>2, <1>3

-----------------------------------------------------------------------------
(***************************************************************************)
(* Stages                                                                  *)
(***************************************************************************)

LEMMA StageTypes ==
    ASSUME TypeOK
    PROVE  /\ NumAnalysts \in Nat /\ LastStage \in Nat /\ LastStage <= NumAnalysts + 2
           /\ stage \in Nat /\ 1 <= stage /\ stage <= LastStage /\ stage \in Stages
           /\ MaxRepairs \in 1..2 /\ LastStage \in Stages
           /\ mode = "PIPELINE" => RiskStage \in Stages /\ RiskStage < LastStage
  BY AgentAssumption DEF TypeOK, LastStage, RiskStage, MaxRepairs, Stages, AgentMode

\* A stage ends with an entry that fits what the model did.
LEMMA EndStageInv ==
    ASSUME TypeOK, StageInv, RiskInv, pc \in {"complete", "repair"},
           NEW status \in ParsingStatus, NEW reason \in FallbackReason \cup {"NONE"},
           NEW level \in RiskLevel, NEW output \in ParsedAgentOutput,
           NEW a \in [malformed : 0..3, last : Answer],
           told' = [told EXCEPT ![stage] = a],
           EndStage(status, reason, level, output),
           Fits([status |-> status, reason |-> reason], a),
           status = "FAILED" => level = "HIGH"
    PROVE  TypeOK' /\ StageInv' /\ RiskInv' /\ DoneInv'
  <1> DEFINE e == [status |-> status, reason |-> reason]
  <1>1. /\ log' = [log EXCEPT ![stage] = e]
        /\ risk' = IF Assesses(stage) THEN level ELSE risk
        /\ proposed' = IF Decides(stage) THEN output ELSE proposed
        /\ repairs' = 0
        /\ stage' = IF stage = LastStage THEN stage ELSE stage + 1
        /\ pc' = IF stage = LastStage THEN "gate" ELSE "complete"
        /\ UNCHANGED <<context, decision, order>>
    BY DEF EndStage, Decides
  <1>2. UNCHANGED <<mode, LastStage, MaxRepairs>>
    BY <1>1 DEF context, LastStage, MaxRepairs
  <1>3. e \in StageLog /\ e.status = status /\ e.status \in ParsingStatus
    BY DEF StageLog
  <1>4. Fits(e, a)
    OBVIOUS
  <1> HIDE DEF e
  <1>5. TypeOK'
    <2>1. log' \in [Stages -> StageLog] /\ told' \in [Stages -> [malformed : 0..3, last : Answer]]
      BY <1>1, <1>3 DEF TypeOK
    <2>2. risk' \in RiskLevel \cup {NoLevel} /\ proposed' \in ParsedAgentOutput
      BY <1>1 DEF TypeOK
    <2>3. stage' \in 1..LastStage' /\ repairs' \in 0..(MaxRepairs' - 1)
      BY <1>1, <1>2, StageTypes
    <2> QED
      BY <1>1, <2>1, <2>2, <2>3 DEF TypeOK, context
  <1>6. \A s \in Stages : /\ log'[s] = IF s = stage THEN e ELSE log[s]
                          /\ told'[s] = IF s = stage THEN a ELSE told[s]
    BY <1>1 DEF TypeOK
  <1>7. \A x, y : Fits(x, y) <=> Fits(x, y)'
    BY <1>2 DEF Fits
  <1>8. StageInv'
    <2>1. CASE stage = LastStage
      <3>1. stage' = stage /\ pc' = "gate"
        BY <1>1, <2>1
      <3>2. \A s \in Stages : s > stage' => told'[s] = Silent /\ log'[s] = NotRun
        BY <1>6, <3>1, StageTypes DEF StageInv
      <3>3. \A s \in Stages : s < stage' => log'[s].status \in ParsingStatus /\ Fits(log'[s], told'[s])
        BY <1>6, <3>1, StageTypes DEF StageInv
      <3>4. log'[stage].status \in ParsingStatus /\ Fits(log'[stage], told'[stage])
        BY <1>3, <1>4, <1>6, StageTypes
      <3> QED
        BY <1>2, <2>1, <3>1, <3>2, <3>3, <3>4 DEF StageInv, Fits
    <2>2. CASE stage # LastStage
      <3>1. stage' = stage + 1 /\ pc' = "complete" /\ stage + 1 \in Stages
        BY <1>1, <2>2, StageTypes DEF Stages
      <3>2. \A s \in Stages : s >= stage' => told'[s] = Silent /\ log'[s] = NotRun
        BY <1>6, <3>1, StageTypes DEF StageInv, Stages
      <3>3. \A s \in Stages : s < stage' => log'[s].status \in ParsingStatus /\ Fits(log'[s], told'[s])
        BY <1>3, <1>4, <1>6, <3>1, StageTypes DEF StageInv, Stages
      <3> QED
        BY <1>2, <3>1, <3>2, <3>3, StageTypes DEF StageInv, Fits, Stages
    <2> QED
      BY <2>1, <2>2
  <1>9. RiskInv'
    <2> SUFFICES ASSUME mode' = "PIPELINE", stage' > RiskStage, risk' # "HIGH"
                 PROVE  log'[RiskStage].status # "FAILED"
      BY DEF RiskInv, RiskStage
    <2>1. mode = "PIPELINE" /\ RiskStage \in Stages /\ RiskStage < LastStage
      BY <1>2, StageTypes
    <2>2. CASE stage = RiskStage
      <3>1. risk' = level
        BY <1>1, <2>1, <2>2 DEF Assesses
      <3> QED
        BY <1>3, <1>6, <2>1, <2>2, <3>1
    <2>3. CASE stage # RiskStage
      <3>1. risk' = risk /\ stage > RiskStage
        BY <1>1, <2>1, <2>3, StageTypes DEF Assesses, RiskStage
      <3> QED
        BY <1>6, <2>1, <2>3, <3>1 DEF RiskInv
    <2> QED
      BY <2>2, <2>3
  <1>10. DoneInv'
    BY <1>1 DEF DoneInv
  <1> QED
    BY <1>5, <1>8, <1>9, <1>10

LEMMA FallbackTypes == FallbackDecision \in ParsedAgentOutput
  BY ScaleAssumption DEF FallbackDecision, ParsedAgentOutput, TradeAction

\* A stage that falls back, after the answer Tell has noted.
LEMMA FallBackInv ==
    ASSUME TypeOK, StageInv, RiskInv, pc \in {"complete", "repair"},
           NEW reason \in FallbackReason, NEW answer \in Answer \ {"valid"},
           Tell(answer), FallBack(reason),
           LET n == told[stage].malformed + (IF answer = "malformed" THEN 1 ELSE 0)
           IN  /\ n \in 0..3
               /\ reason = "PROVIDER_COMPLETE_EXCEPTION" <=> n = 0 /\ answer = "raised"
               /\ reason = "REPAIR_PARSE_FAILED" <=> n = MaxRepairs + 1
    PROVE  TypeOK' /\ StageInv' /\ RiskInv' /\ DoneInv'
  <1> DEFINE n == told[stage].malformed + (IF answer = "malformed" THEN 1 ELSE 0)
             a == [malformed |-> n, last |-> answer]
  <1>1. stage \in Stages
    BY StageTypes
  <1>2. told' = [told EXCEPT ![stage] = a]
    BY <1>1 DEF Tell, TypeOK
  <1>3. a \in [malformed : 0..3, last : Answer]
    OBVIOUS
  <1>4. Fits([status |-> "FAILED", reason |-> reason], a)
    BY DEF Fits
  <1>5. EndStage("FAILED", reason, "HIGH", FallbackDecision)
    BY DEF FallBack
  <1> HIDE DEF a
  <1>6. "FAILED" \in ParsingStatus /\ "HIGH" \in RiskLevel
    BY DEF ParsingStatus, RiskLevel
  <1> QED
    BY <1>2, <1>3, <1>4, <1>5, <1>6, FallbackTypes, EndStageInv

\* What the stage at hand has been told.
LEMMA ToldSoFar ==
    ASSUME TypeOK, StageInv
    PROVE  /\ pc = "complete" => told[stage].malformed = 0 /\ told[stage].last = "none"
           /\ pc = "repair" =>
                 /\ told[stage].malformed = repairs + 1 /\ told[stage].last = "malformed"
                 /\ repairs \in Nat /\ repairs + 1 <= MaxRepairs
  <1>1. repairs \in 0..(MaxRepairs - 1)
    BY DEF TypeOK
  <1> QED
    BY <1>1, StageTypes DEF StageInv, Silent

LEMMA CallModelInv ==
    ASSUME TypeOK, StageInv, RiskInv, CallModel
    PROVE  TypeOK' /\ StageInv' /\ RiskInv' /\ DoneInv'
  <1>0. /\ MaxRepairs \in 1..2 /\ stage \in Stages
        /\ "raised" \in Answer \ {"valid"} /\ "unavailable" \in Answer \ {"valid"}
        /\ "malformed" \in Answer \ {"valid"}
    BY StageTypes DEF Answer
  <1>1. CASE CompleteRaises
    <2>1. "PROVIDER_COMPLETE_EXCEPTION" \in FallbackReason
      BY DEF FallbackReason
    <2>2. told[stage].malformed = 0 /\ pc = "complete"
      BY <1>1, ToldSoFar DEF CompleteRaises
    <2> QED
      BY <1>0, <1>1, <2>1, <2>2, FallBackInv DEF CompleteRaises
  <1>2. CASE RepairRaises
    <2>1. "PROVIDER_REPAIR_EXCEPTION" \in FallbackReason
      BY DEF FallbackReason
    <2>2. /\ told[stage].malformed \in Nat /\ told[stage].malformed > 0
          /\ told[stage].malformed <= MaxRepairs /\ pc = "repair"
      BY <1>2, ToldSoFar DEF RepairRaises
    <2> QED
      BY <1>0, <1>2, <2>1, <2>2, FallBackInv DEF RepairRaises
  <1>3. CASE RepairUnavailable
    <2>1. "REPAIR_UNAVAILABLE" \in FallbackReason
      BY DEF FallbackReason
    <2>2. /\ told[stage].malformed \in Nat /\ told[stage].malformed > 0
          /\ told[stage].malformed <= MaxRepairs /\ pc = "repair"
      BY <1>3, ToldSoFar DEF RepairUnavailable
    <2> QED
      BY <1>0, <1>3, <2>1, <2>2, FallBackInv DEF RepairUnavailable
  <1>4. CASE ValidAnswer
    <2> DEFINE status == IF pc = "repair" THEN "REPAIRED" ELSE "SUCCESS"
               a == [malformed |-> told[stage].malformed, last |-> "valid"]
    <2>1. PICK level \in RiskLevel, output \in ParsedAgentOutput :
             EndStage(status, "NONE", level, output)
      BY <1>4 DEF ValidAnswer
    <2>2. pc \in {"complete", "repair"} /\ Tell("valid")
      BY <1>4 DEF ValidAnswer
    <2>3. /\ told[stage].malformed \in 0..3 /\ told[stage].malformed <= MaxRepairs
          /\ pc = "repair" => told[stage].malformed > 0
          /\ pc = "complete" => told[stage].malformed = 0
      BY <1>0, <2>2, ToldSoFar
    <2>4. told' = [told EXCEPT ![stage] = a]
      <3>1. told[stage].malformed + (IF "valid" = "malformed" THEN 1 ELSE 0) = told[stage].malformed
        BY <2>3
      <3>2. told' = [told EXCEPT ![stage] =
               [malformed |-> told[stage].malformed + (IF "valid" = "malformed" THEN 1 ELSE 0),
                last |-> "valid"]]
        BY <1>0, <2>2 DEF Tell, TypeOK
      <3> QED
        BY <3>1, <3>2
    <2>5. a \in [malformed : 0..3, last : Answer]
      BY <2>3 DEF Answer
    <2>6. Fits([status |-> status, reason |-> "NONE"], a)
      BY <1>0, <2>2, <2>3 DEF Fits
    <2>7. status \in ParsingStatus /\ status # "FAILED"
      BY DEF ParsingStatus
    <2> HIDE DEF a, status
    <2> QED
      BY <2>1, <2>2, <2>4, <2>5, <2>6, <2>7, EndStageInv
  <1>5. CASE MalformedAnswer
    <2>1. pc \in {"complete", "repair"} /\ Tell("malformed")
      BY <1>5 DEF MalformedAnswer
    <2>2. CASE pc = "repair" /\ repairs + 1 = MaxRepairs
      <3>1. FallBack("REPAIR_PARSE_FAILED") /\ "REPAIR_PARSE_FAILED" \in FallbackReason
        BY <1>5, <2>2 DEF MalformedAnswer, FallbackReason
      <3>2. told[stage].malformed = MaxRepairs
        BY <2>2, ToldSoFar
      <3> QED
        BY <1>0, <2>1, <3>1, <3>2, FallBackInv
    <2>3. CASE ~(pc = "repair" /\ repairs + 1 = MaxRepairs)
      <3> DEFINE r == IF pc = "repair" THEN repairs + 1 ELSE 0
                 a == [malformed |-> r + 1, last |-> "malformed"]
      <3>1. /\ pc' = "repair" /\ repairs' = r
            /\ UNCHANGED <<context, stage, log, risk, proposed, decision, order>>
        BY <1>5, <2>3 DEF MalformedAnswer
      <3>2. r \in 0..(MaxRepairs - 1)
        BY <1>0, <2>1, <2>3, ToldSoFar
      <3>3. told[stage].malformed + 1 = r + 1
        BY <2>1, ToldSoFar
      <3>4. told' = [told EXCEPT ![stage] = a]
        BY <1>0, <2>1, <3>3 DEF Tell, TypeOK
      <3>5. a \in [malformed : 0..3, last : Answer]
        BY <1>0, <3>2 DEF Answer
      <3>6. log[stage] = NotRun
        BY <2>1 DEF StageInv
      <3>7. UNCHANGED <<mode, LastStage, MaxRepairs>>
        BY <3>1 DEF context, LastStage, MaxRepairs
      <3> HIDE DEF a
      <3>8. told' \in [Stages -> [malformed : 0..3, last : Answer]]
        BY <3>4, <3>5 DEF TypeOK
      <3>9. told'[stage] = a /\ \A s \in Stages : s # stage => told'[s] = told[s]
        BY <1>0, <3>4 DEF TypeOK
      <3>10. TypeOK'
        BY <3>1, <3>2, <3>7, <3>8 DEF TypeOK, context
      <3>11. StageInv'
        BY <3>1, <3>6, <3>7, <3>9, StageTypes DEF StageInv, Fits, a, Stages
      <3> QED
        BY <3>1, <3>7, <3>10, <3>11 DEF RiskInv, DoneInv, RiskStage
    <2> QED
      BY <2>2, <2>3
  <1>6. CASE ParserRaises
    <2>1. /\ pc \in {"complete", "repair"} /\ pc' = "raised"
          /\ UNCHANGED <<mode, stage, repairs, told, log, risk, LastStage, MaxRepairs>>
      BY <1>6 DEF ParserRaises, context, stageVars, LastStage, MaxRepairs
    <2>2. /\ log[stage] = NotRun
          /\ told[stage].last \in {"none", "malformed"} /\ told[stage].malformed <= MaxRepairs
      BY <1>0, <2>1, ToldSoFar DEF StageInv
    <2>3. TypeOK'
      BY <1>6, <2>1 DEF ParserRaises, TypeOK, context, stageVars
    <2>4. StageInv'
      BY <2>1, <2>2 DEF StageInv, Fits
    <2> QED
      BY <2>1, <2>3, <2>4 DEF RiskInv, DoneInv, RiskStage
  <1> QED
    BY <1>1, <1>2, <1>3, <1>4, <1>5, <1>6 DEF CallModel

-----------------------------------------------------------------------------
(***************************************************************************)
(* The decision                                                            *)
(***************************************************************************)

LEMMA AdviceTypes ==
    ASSUME TypeOK
    PROVE  Advice \in ParsedAgentOutput
  BY FallbackTypes DEF Advice, TypeOK

LEMMA DecideInv ==
    ASSUME TypeOK, StageInv, RiskInv, Decide
    PROVE  TypeOK' /\ StageInv' /\ RiskInv' /\ DoneInv'
  <1>1. /\ pc = "gate" /\ pc' = "done" /\ UNCHANGED <<context, stageVars>>
        /\ decision' = [action |-> FinalAction(Advice), target |-> FinalTarget(Advice),
                        fallbackUsed |-> Refused(Advice) \/ Degraded # {}]
        /\ order' = EvaluateTargetExposure(FinalAction(Advice), FinalTarget(Advice),
                                           portfolio, price)
    BY DEF Decide, Advice
  <1>2. UNCHANGED <<mode, portfolio, price, threshold, stage, repairs, told, log, risk, proposed>>
    BY <1>1 DEF context, stageVars
  <1>3. /\ order' \in [action : TradeAction, quantity : Int]
        /\ FinalAction(Advice) \in TradeAction /\ FinalTarget(Advice) \in Int
    BY <1>1, AdviceTypes, GateTypes, GateAndRiskAgree
  <1>4. (Refused(Advice) \/ Degraded # {}) \in BOOLEAN
    BY DEF Refused
  <1>5. decision' \in [action : TradeAction, target : Int, fallbackUsed : BOOLEAN]
    BY <1>1, <1>3, <1>4
  <1>6. UNCHANGED <<LastStage, MaxRepairs, CurrentExposure, Degraded>>
    BY <1>2 DEF LastStage, MaxRepairs, CurrentExposure, Degraded
  <1>7. TypeOK'
    BY <1>1, <1>2, <1>3, <1>5, <1>6 DEF TypeOK
  <1>8. StageInv' /\ RiskInv'
    BY <1>1, <1>2, <1>6 DEF StageInv, RiskInv, Fits, RiskStage
  <1>9. UNCHANGED <<Advice, Refused(Advice), FinalAction(Advice), FinalTarget(Advice)>>
    BY <1>2, <1>6 DEF Advice, Refused, BelowThreshold, BuyRefused, SellRefused, FinalAction,
                      FinalTarget
  <1>10. DoneInv'
    BY <1>1, <1>2, <1>6, <1>9 DEF DoneInv
  <1> QED
    BY <1>7, <1>8, <1>10

LEMMA InitInv == Init => IInv
  <1> SUFFICES ASSUME Init PROVE IInv
    OBVIOUS
  <1>1. MaxRepairs \in 1..2 /\ LastStage \in Nat /\ 1 <= LastStage
    BY AgentAssumption DEF MaxRepairs, LastStage
  <1>2. TypeOK
    BY <1>1, FallbackTypes
    DEF Init, TypeOK, StageLog, Answer, TradeAction, Hold
  <1>3. StageInv
    BY <1>1, AgentAssumption DEF Init, StageInv, Silent, Stages
  <1>4. RiskInv
    BY AgentAssumption DEF Init, RiskInv, RiskStage
  <1> QED
    BY <1>2, <1>3, <1>4 DEF IInv, DoneInv, Init

LEMMA NextInv == IInv /\ [Next]_vars => IInv'
  <1> SUFFICES ASSUME IInv, [Next]_vars PROVE IInv'
    OBVIOUS
  <1>0. TypeOK /\ StageInv /\ RiskInv /\ DoneInv
    BY DEF IInv
  <1>1. CASE LoadContext \/ LoadRaises
    <2>1. /\ pc = "load" /\ pc' \in {"complete", "raised"}
          /\ UNCHANGED <<mode, portfolio, price, threshold, stage, repairs, told, log, risk,
                         proposed, decision, order, LastStage, MaxRepairs>>
      BY <1>1 DEF LoadContext, LoadRaises, context, stageVars, LastStage, MaxRepairs
    <2>2. TypeOK'
      BY <1>0, <2>1 DEF TypeOK
    <2>3. StageInv'
      BY <1>0, <2>1, StageTypes DEF StageInv, Fits, Silent
    <2> QED
      BY <1>0, <2>1, <2>2, <2>3 DEF IInv, RiskInv, DoneInv, RiskStage
  <1>2. CASE CallModel
    BY <1>0, <1>2, CallModelInv DEF IInv
  <1>3. CASE Decide
    BY <1>0, <1>3, DecideInv DEF IInv
  <1>4. CASE UNCHANGED vars
    <2>1. UNCHANGED <<mode, portfolio, price, threshold, pc, stage, repairs, told, log, risk,
                      proposed, decision, order>>
      BY <1>4 DEF vars, context, stageVars
    <2>2. UNCHANGED <<LastStage, MaxRepairs, CurrentExposure, Degraded, Advice>>
      BY <2>1 DEF LastStage, MaxRepairs, CurrentExposure, Degraded, Advice
    <2>3. UNCHANGED <<Refused(Advice), FinalAction(Advice), FinalTarget(Advice)>>
      BY <2>1, <2>2 DEF Refused, BelowThreshold, BuyRefused, SellRefused, FinalAction, FinalTarget
    <2>4. TypeOK'
      BY <1>0, <2>1, <2>2 DEF TypeOK
    <2>5. StageInv' /\ RiskInv'
      BY <1>0, <2>1, <2>2 DEF StageInv, RiskInv, Fits, RiskStage
    <2>6. DoneInv'
      BY <1>0, <2>1, <2>2, <2>3 DEF DoneInv
    <2> QED
      BY <2>4, <2>5, <2>6 DEF IInv
  <1> QED
    BY <1>1, <1>2, <1>3, <1>4 DEF Next

-----------------------------------------------------------------------------
(***************************************************************************)
(* Theorems                                                                *)
(***************************************************************************)

\* Every variable of a decision stays in its type; a stage has at most as many
\* malformed answers as repairs and one.
THEOREM TypeCorrect == Spec => []TypeOK
  <1>1. IInv => TypeOK
    BY DEF IInv
  <1> QED
    BY <1>1, InitInv, NextInv, PTL DEF Spec

\* Gate and risk check never disagree about the direction of an order.
THEOREM OrdersFollowDecisions == Spec => []OrderFollowsDecision
  <1>1. IInv => OrderFollowsDecision
    <2> SUFFICES ASSUME IInv, pc = "done" PROVE order.action \in {"HOLD", decision.action}
      BY DEF OrderFollowsDecision
    <2>1. decision.action = FinalAction(Advice)
      BY DEF IInv, DoneInv
    <2>2. order.action \in {"HOLD", FinalAction(Advice)}
      BY AdviceTypes, GateAndRiskAgree DEF IInv, DoneInv
    <2> QED
      BY <2>1, <2>2
  <1> QED
    BY <1>1, InitInv, NextInv, PTL DEF Spec

\* BR-027: every order goes back to an answer that parsed and passed the gate.
THEOREM OrdersAreAdvised == Spec => []OrderIsAdvised
  <1>1. IInv => OrderIsAdvised
    <2> SUFFICES ASSUME IInv, pc = "done", order.action # "HOLD"
                 PROVE  /\ told[LastStage].last = "valid"
                        /\ threshold # NoThreshold => proposed.confidence >= threshold
                        /\ order.action = "BUY" =>
                              /\ proposed.newInformation
                              /\ mode = "PIPELINE" => told[RiskStage].last = "valid" /\ risk # "HIGH"
      BY DEF OrderIsAdvised
    <2>0. TypeOK /\ StageInv /\ RiskInv
      BY DEF IInv
    <2>1. order.action = FinalAction(Advice)
      BY AdviceTypes, GateAndRiskAgree DEF IInv, DoneInv
    <2>2. ~Refused(Advice) /\ Advice.action = order.action
      BY <2>0, <2>1, AdviceTypes, GateTypes
    <2>3. Advice.action # "HOLD"
      BY <2>2
    <2>4. log[LastStage].status # "FAILED" /\ Advice = proposed
      BY <2>3 DEF Advice, FallbackDecision
    <2>5. stage = LastStage /\ log[stage].status \in ParsingStatus /\ Fits(log[stage], told[stage])
      BY <2>0 DEF StageInv
    <2>6. told[LastStage].last = "valid"
      BY <2>4, <2>5 DEF Fits, ParsingStatus
    <2>7. threshold # NoThreshold => proposed.confidence >= threshold
      <3>1. proposed.confidence \in Int
        <4>1. proposed \in ParsedAgentOutput
          BY <2>0 DEF TypeOK
        <4>2. proposed.confidence \in Confidences \cup {0}
          BY <4>1 DEF ParsedAgentOutput
        <4>3. Confidences \subseteq 0..Scale
          BY AgentAssumption
        <4> DEFINE c == proposed.confidence
        <4>4. c \in 0..Scale \/ c = 0
          BY <4>2, <4>3
        <4> HIDE DEF c
        <4>5. c \in Int
          BY <4>4
        <4> QED
          BY <4>5 DEF c
      <3>2. threshold # NoThreshold => threshold \in Int
        BY <2>0, AgentAssumption DEF TypeOK
      <3>3. ~BelowThreshold(proposed)
        BY <2>2, <2>4 DEF Refused
      <3> QED
        BY <3>1, <3>2, <3>3 DEF BelowThreshold
    <2>8. ASSUME order.action = "BUY"
          PROVE  /\ proposed.newInformation
                 /\ mode = "PIPELINE" => told[RiskStage].last = "valid" /\ risk # "HIGH"
      <3>1. ~BuyRefused(proposed)
        BY <2>2, <2>4, <2>8 DEF Refused
      <3>2. proposed.newInformation /\ risk # "HIGH"
        BY <3>1 DEF BuyRefused
      <3>3. ASSUME mode = "PIPELINE" PROVE told[RiskStage].last = "valid"
        <4>1. RiskStage \in Stages /\ RiskStage < stage /\ stage > RiskStage
          BY <2>0, <2>5, <3>3, StageTypes DEF RiskStage
        <4>2. log[RiskStage].status # "FAILED"
          BY <2>0, <3>2, <3>3, <4>1 DEF RiskInv
        <4>3. log[RiskStage].status \in ParsingStatus /\ Fits(log[RiskStage], told[RiskStage])
          BY <2>0, <4>1 DEF StageInv
        <4> QED
          BY <4>2, <4>3 DEF Fits, ParsingStatus
      <3> QED
        BY <3>2, <3>3
    <2> QED
      BY <2>6, <2>7, <2>8
  <1> QED
    BY <1>1, InitInv, NextInv, PTL DEF Spec

\* BR-025, BR-027: the logs and the fallback mark are true of what the model did.
THEOREM AuditStaysTrue == Spec => []AuditIsTrue
  <1>1. IInv => AuditIsTrue
    <2> SUFFICES ASSUME IInv PROVE AuditIsTrue
      OBVIOUS
    <2>0. TypeOK /\ StageInv /\ MaxRepairs \in 1..2 /\ stage \in Nat
      BY StageTypes DEF IInv
    <2>1. ASSUME NEW s \in Stages PROVE Fits(log[s], told[s])
      <3>1. s \in Nat
        BY AgentAssumption DEF Stages
      <3>2. CASE s < stage \/ (s = stage /\ pc \in {"gate", "done"})
        BY <2>0, <3>2 DEF StageInv
      <3>3. CASE s > stage \/ (s = stage /\ pc \notin {"gate", "done"})
        <4>1. /\ log[s] = NotRun /\ told[s].last \in {"none", "malformed"}
              /\ told[s].malformed <= MaxRepairs /\ told[s].malformed \in Nat
          <5>1. told[s] \in [malformed : 0..3, last : Answer]
            BY <2>0 DEF TypeOK
          <5>2. repairs \in 0..(MaxRepairs - 1)
            BY <2>0 DEF TypeOK
          <5>3. pc \in {"load", "complete", "repair", "gate", "done", "raised"}
            BY <2>0 DEF TypeOK
          <5> QED
            BY <2>0, <3>3, <5>1, <5>2, <5>3 DEF StageInv, Silent
        <4> QED
          BY <2>0, <4>1 DEF Fits, NotRun
      <3> QED
        BY <2>0, <3>1, <3>2, <3>3
    <2>2. ASSUME pc = "done", ~decision.fallbackUsed
          PROVE  /\ \A s \in 1..LastStage : told[s].last = "valid"
                 /\ decision.action = proposed.action
                 /\ decision.action # "HOLD" => decision.target = proposed.target
      <3>1. /\ decision.action = FinalAction(Advice) /\ decision.target = FinalTarget(Advice)
            /\ ~Refused(Advice) /\ Degraded = {}
        <4>1. decision = [action |-> FinalAction(Advice), target |-> FinalTarget(Advice),
                          fallbackUsed |-> Refused(Advice) \/ Degraded # {}]
          BY <2>2 DEF IInv, DoneInv
        <4>2. decision.fallbackUsed = (Refused(Advice) \/ Degraded # {})
          BY <4>1, Zenon
        <4>3. decision.action = FinalAction(Advice) /\ decision.target = FinalTarget(Advice)
          BY <4>1
        <4> QED
          BY <2>2, <4>2, <4>3, Zenon
      <3>2. stage = LastStage /\ LastStage \in Stages /\ LastStage \in 1..LastStage
            /\ 1..LastStage \subseteq Stages
        BY <2>0, <2>2, StageTypes DEF StageInv, Stages
      <3>3. \A s \in 1..LastStage : log[s].status # "FAILED" /\ log[s].status \in ParsingStatus
        BY <2>0, <2>2, <3>1, <3>2 DEF Degraded, StageInv, Stages
      <3>4. \A s \in 1..LastStage : told[s].last = "valid"
        BY <2>1, <3>2, <3>3 DEF Fits, ParsingStatus
      <3>5. Advice = proposed
        BY <3>2, <3>3 DEF Advice
      <3>6. decision.action = proposed.action
        BY <3>1, <3>5 DEF FinalAction
      <3>7. decision.action # "HOLD" => decision.target = proposed.target
        BY <2>0, <3>1, <3>5, AdviceTypes, GateTypes
      <3> QED
        BY <3>4, <3>6, <3>7
    <2> QED
      BY <2>1, <2>2 DEF AuditIsTrue, Fits
  <1> QED
    BY <1>1, InitInv, NextInv, PTL DEF Spec

=============================================================================
