------------------------ MODULE PaperAccountingProofs ------------------------
(***************************************************************************)
(* The books of a paper-trading experiment, for any number of orders, any  *)
(* prices and targets, and every interleaving of the step runner, the      *)
(* synchronisation job, the broker and crashes.                            *)
(***************************************************************************)
EXTENDS PaperAccounting, TLAPS

\* What exists of an order at the broker and in the database.
OrderInv ==
    \A o \in Orders :
        /\ broker[o].status = "none" => order[o] = "NONE"
        /\ order[o] = "NONE" => traded[o] = 0
        /\ order[o] \in Terminal => broker[o].status \in Done

\* An answer is a past state of the order, and a final one its last.
Reported(a, o) ==
    /\ a.filled <= broker[o].filled
    /\ a.status \in Done =>
           broker[o].status = a.status /\ a.filled = broker[o].filled

\* The risk check that was approved; the order that was placed and not recorded yet.
RunnerInv ==
    /\ runner = "broker" => risk.action \in {"BUY", "SELL"}
    /\ runner = "record" =>
        /\ oid \in Orders /\ order[oid] = "NONE" /\ broker[oid].status # "none"
        /\ Reported(reply, oid)

\* The listed orders are still open in the database: only the job closes them.
SyncInv ==
    /\ \A o \in queue : order[o] = "SUBMITTED"
    /\ sync = "commit" => \A o \in queue : IsFirst(o) => Reported(answer, o)

\* Loaded copies are portfolios that were in the database.
CopyInv == rcopy.position >= 0 /\ scopy.position >= 0

-----------------------------------------------------------------------------
(***************************************************************************)
(* Bookkeeping                                                             *)
(***************************************************************************)

\* The average price times the new shares is a natural number.
LEMMA FillValueType ==
    ASSUME NEW delta \in Nat, NEW a \in Answers, a.filled > 0
    PROVE  FillValue(delta, a) \in Nat
  <1>1. a.filled \in Nat /\ a.notional \in Nat
    BY DEF Answers
  <1>2. delta * a.notional \in Nat
    BY <1>1
  <1> DEFINE n == delta * a.notional
             d == a.filled
  <1>3. n \in Nat /\ d \in Nat /\ d > 0
    BY <1>1, <1>2
  <1>4. n \div d \in Nat
    <2> HIDE DEF n, d
    <2> QED
      BY <1>3
  <1> QED
    BY <1>4 DEF FillValue

\* A SELL leaves no less than nothing.
LEMMA RemainingIsNatural ==
    ASSUME NEW k \in Int, NEW q \in Int
    PROVE  Remaining(k, q) \in Nat /\ Remaining(k, q) >= k - q
  BY DEF Remaining

\* What a fill does to the portfolio.
LEMMA ApplyFillFacts ==
    ASSUME NEW p \in Portfolios, NEW s, NEW q \in Nat, NEW v \in Nat
    PROVE  /\ ApplyFill(p, s, q, v) \in Portfolios
           /\ ApplyFill(p, s, q, v).cash = IF s = "BUY" THEN p.cash - v ELSE p.cash + v
           /\ ApplyFill(p, s, q, v).position =
                 IF s = "BUY" THEN p.position + q ELSE Remaining(p.position, q)
  <1> DEFINE c == IF s = "BUY" THEN p.cash - v ELSE p.cash + v
             k == IF s = "BUY" THEN p.position + q ELSE Remaining(p.position, q)
             after == ApplyFill(p, s, q, v)
  <1>1. p.cash \in Int /\ p.position \in Int
    BY DEF Portfolios
  <1>2. c \in Int /\ k \in Int
    <2>1. Remaining(p.position, q) \in Int
      BY <1>1 DEF Remaining
    <2> QED
      BY <1>1, <2>1
  <1>3. after = [p EXCEPT !.cash = c, !.position = k]
    BY DEF ApplyFill
  <1>4. after \in Portfolios /\ after.cash = c /\ after.position = k
    <2> HIDE DEF c, k, after
    <2> QED
      BY <1>2, <1>3 DEF Portfolios
  <1> QED
    BY <1>4

\* What valuing does to the portfolio.
LEMMA ValuedFacts ==
    ASSUME NEW p \in Portfolios, NEW price \in Int
    PROVE  /\ Valued(p, price) \in Portfolios
           /\ Valued(p, price).cash = p.cash
           /\ Valued(p, price).position = p.position
           /\ Valued(p, price).price = price
           /\ Valued(p, price).value = p.cash + p.position * price
  <1> DEFINE v == p.cash + p.position * price
             after == Valued(p, price)
  <1>1. p.cash \in Int /\ p.position \in Int
    BY DEF Portfolios
  <1>2. v \in Int
    BY <1>1
  <1>3. after = [p EXCEPT !.price = price, !.value = v]
    BY DEF Valued
  <1>4. /\ after \in Portfolios
        /\ after.cash = p.cash /\ after.position = p.position
        /\ after.price = price /\ after.value = v
    <2> HIDE DEF v, after
    <2>1. after \in Portfolios
      BY <1>2, <1>3 DEF Portfolios
    <2>2. after.cash = p.cash /\ after.position = p.position
      BY <1>3 DEF Portfolios
    <2>3. after.price = price /\ after.value = v
      BY <1>3 DEF Portfolios
    <2> QED
      BY <2>1, <2>2, <2>3
  <1> QED
    BY <1>4

\* A flush writes a portfolio; from a copy that is up to date, all of it.
LEMMA WriteFacts ==
    ASSUME NEW copy \in Portfolios, NEW new \in Portfolios, portfolio \in Portfolios,
           WritePortfolio(copy, new)
    PROVE  /\ portfolio' \in Portfolios
           /\ portfolio'.cash = Column(copy.cash, new.cash, portfolio.cash)
           /\ portfolio'.position = Column(copy.position, new.position, portfolio.position)
           /\ copy = portfolio => portfolio' = new
  <1> DEFINE c == Column(copy.cash, new.cash, portfolio.cash)
             k == Column(copy.position, new.position, portfolio.position)
             p == Column(copy.price, new.price, portfolio.price)
             v == Column(copy.value, new.value, portfolio.value)
             after == portfolio'
  <1>1. after = [cash |-> c, position |-> k, price |-> p, value |-> v]
    BY DEF WritePortfolio
  <1>2. c \in Int /\ k \in Int /\ p \in Int /\ v \in Int
    BY DEF Column, Portfolios
  <1>3. after \in Portfolios /\ after.cash = c /\ after.position = k
    <2> HIDE DEF c, k, p, v, after
    <2> QED
      BY <1>1, <1>2 DEF Portfolios
  <1>4. copy = portfolio => c = new.cash /\ k = new.position /\ p = new.price /\ v = new.value
    BY DEF Column
  <1>5. copy = portfolio => after = new
    <2> HIDE DEF c, k, p, v, after
    <2> QED
      BY <1>1, <1>4 DEF Portfolios
  <1> QED
    BY <1>3, <1>5

\* A trade row for order o.
LEMMA RecordTradeFacts ==
    ASSUME TypeOK, NEW o \in Orders, NEW q \in Nat, NEW v \in Nat, NEW pos \in Int,
           RecordTrade(o, q, v, pos)
    PROVE  /\ traded' \in [Orders -> Nat] /\ paid' \in [Orders -> Nat]
           /\ traded'[o] = traded[o] + q
           /\ \A p \in Orders : p # o => traded'[p] = traded[p]
           /\ net' \in [cash : Int, shares : Int, clamped : Nat]
           /\ net'.cash = IF side[o] = "BUY" THEN net.cash - v ELSE net.cash + v
           /\ net'.shares + net'.clamped =
                 IF side[o] = "BUY" THEN net.shares + net.clamped + q
                 ELSE (net.shares + net.clamped) - pos + Remaining(pos, q)
  <1>1. traded \in [Orders -> Nat] /\ paid \in [Orders -> Nat]
    BY DEF TypeOK
  <1>2. /\ traded' = [traded EXCEPT ![o] = traded[o] + q]
        /\ paid' = [paid EXCEPT ![o] = paid[o] + v]
    BY DEF RecordTrade
  <1>3. traded' \in [Orders -> Nat] /\ paid' \in [Orders -> Nat]
    BY <1>1, <1>2
  <1>4. traded'[o] = traded[o] + q /\ \A p \in Orders : p # o => traded'[p] = traded[p]
    BY <1>1, <1>2
  <1>5. net \in [cash : Int, shares : Int, clamped : Nat]
    BY DEF TypeOK
  <1>6. Remaining(pos, q) \in Int /\ Remaining(pos, q) - (pos - q) \in Nat
    BY DEF Remaining
  <1>7. CASE side[o] = "BUY"
    <2> DEFINE c == net.cash - v
               k == net.shares + q
    <2>1. net' = [net EXCEPT !.cash = c, !.shares = k]
      BY <1>7 DEF RecordTrade
    <2>2. c \in Int /\ k \in Int
      BY <1>5
    <2>3. /\ net' \in [cash : Int, shares : Int, clamped : Nat]
          /\ net'.cash = c /\ net'.shares = k /\ net'.clamped = net.clamped
      <3> HIDE DEF c, k
      <3> QED
        BY <1>5, <2>1, <2>2
    <2> QED
      BY <1>3, <1>4, <1>5, <1>7, <2>3
  <1>8. CASE side[o] # "BUY"
    <2> DEFINE c == net.cash + v
               k == net.shares - q
               d == net.clamped + Remaining(pos, q) - (pos - q)
    <2>1. net' = [net EXCEPT !.cash = c, !.shares = k, !.clamped = d]
      BY <1>8 DEF RecordTrade
    <2>2. c \in Int /\ k \in Int /\ d \in Nat
      BY <1>5, <1>6
    <2>3. /\ net' \in [cash : Int, shares : Int, clamped : Nat]
          /\ net'.cash = c /\ net'.shares = k /\ net'.clamped = d
      <3> HIDE DEF c, k, d
      <3> QED
        BY <1>5, <2>1, <2>2
    <2>4. net'.shares + net'.clamped = (net.shares + net.clamped) - pos + Remaining(pos, q)
      BY <1>5, <1>6, <2>3
    <2> QED
      BY <1>3, <1>4, <1>8, <2>3, <2>4
  <1> QED
    BY <1>7, <1>8

LEMMA WholeSharesType ==
    ASSUME NEW a \in Int, NEW p \in Nat \ {0}
    PROVE  WholeShares(a, p) \in Int
  BY DEF WholeShares

\* A risk check answers HOLD, or an order for a natural number of shares.
Answered(r) == r # Hold => r.action \in {"BUY", "SELL"} /\ r.quantity \in Nat

LEMMA RiskResultType ==
    ASSUME NEW p \in Portfolios, NEW price \in Nat \ {0}, NEW action \in TradeAction,
           NEW target \in Int
    PROVE  /\ Answered(Evaluate(action, p, price))
           /\ Answered(SmokeTestRiskResult(action, p, price))
           /\ Answered(EvaluateTargetExposure(action, target, p, price))
  <1>1. p.cash \in Int /\ p.position \in Int /\ p.value \in Int
    BY DEF Portfolios
  <1>2. \A q \in Int : Answered(BuyOrHold(q)) /\ Answered(SellOrHold(q))
    BY DEF BuyOrHold, SellOrHold, Buy, Sell, Answered
  <1>3. Answered(Hold)
    BY DEF Answered
  <1>4. WholeShares(p.cash, price) \in Int
    BY <1>1, WholeSharesType
  <1>5. Answered(Evaluate(action, p, price))
    BY <1>1, <1>2, <1>3, <1>4 DEF Evaluate
  <1>6. Answered(SmokeTestRiskResult(action, p, price))
    <2>1. Answered(Buy(1))
      BY DEF Answered, Buy
    <2> QED
      BY <1>1, <1>2, <1>3, <2>1 DEF SmokeTestRiskResult
  <1>7. Answered(EvaluateTargetExposure(action, target, p, price))
    <2> DEFINE delta == TargetDelta(target, p, price)
               shares == WholeShares(Absolute(delta), price * Scale)
    <2>1. price * Scale \in Nat \ {0} /\ Scale \in Nat
      BY ScaleAssumption
    <2>2. delta \in Int
      <3>1. PortfolioValue(p, price) \in Int /\ Clamp(target) \in Int
        BY <1>1, <2>1 DEF PortfolioValue, Clamp, Smaller
      <3>2. PortfolioValue(p, price) * Clamp(target) \in Int
        BY <3>1
      <3>3. p.position * price * Scale \in Int
        BY <1>1, <2>1
      <3> QED
        BY <3>2, <3>3 DEF TargetDelta
    <2>3. Absolute(delta) \in Int
      <3> HIDE DEF delta
      <3> QED
        BY <2>2 DEF Absolute
    <2>4. shares \in Int
      BY <2>1, <2>3, WholeSharesType
    <2>5. Smaller(shares, WholeShares(p.cash, price)) \in Int /\ Smaller(shares, p.position) \in Int
      <3> HIDE DEF shares
      <3> QED
        BY <1>1, <1>4, <2>4 DEF Smaller
    <2> HIDE DEF delta, shares
    <2>6. EvaluateTargetExposure(action, target, p, price) \in
              {Hold, Evaluate(action, p, price),
               BuyOrHold(Smaller(shares, WholeShares(p.cash, price))),
               SellOrHold(Smaller(shares, p.position))}
      BY DEF EvaluateTargetExposure, delta, shares
    <2> QED
      BY <1>2, <1>3, <1>5, <2>5, <2>6
  <1> QED
    BY <1>5, <1>6, <1>7

\* What the transaction after the risk check trades.
LEMMA RiskResultsType ==
    ASSUME TypeOK, NEW price \in Prices, NEW r \in RiskResults(price)
    PROVE  Answered(r)
  <1>1. rcopy \in Portfolios /\ price \in Nat \ {0} /\ Targets \subseteq Int /\ 0 \in Int
    BY AccountingAssumption DEF TypeOK
  <1>2. PICK a \in TradeAction :
           \/ r = Evaluate(a, rcopy, price)
           \/ r = SmokeTestRiskResult(a, rcopy, price)
           \/ \E t \in Targets : r = EvaluateTargetExposure(a, t, rcopy, price)
    BY DEF RiskResults
  <1>3. CASE r = Evaluate(a, rcopy, price) \/ r = SmokeTestRiskResult(a, rcopy, price)
    BY <1>1, <1>3, RiskResultType
  <1>4. CASE \E t \in Targets : r = EvaluateTargetExposure(a, t, rcopy, price)
    BY <1>1, <1>4, RiskResultType
  <1> QED
    BY <1>2, <1>3, <1>4

-----------------------------------------------------------------------------
(***************************************************************************)
(* Types                                                                   *)
(***************************************************************************)

\* The local variables of threads that do nothing.
LEMMA IdleTypes ==
    /\ InitialPortfolio \in Portfolios
    /\ NoAnswer \in Answers
    /\ NoRisk \in [action : TradeAction, quantity : Nat, price : Nat]
    /\ NoOrder \in Orders \cup {NoOrder}
  BY AccountingAssumption
     DEF InitialPortfolio, Portfolios, NoAnswer, Answers, AveragePrice, NoRisk, TradeAction

\* What the broker reports of a typed order.
LEMMA ReportType ==
    ASSUME NEW b \in BrokerOrders, b.status # "none", NEW a \in Reports(b)
    PROVE  /\ a \in Answers
           /\ a.filled = b.filled /\ a.notional = b.notional
           /\ a.status \in Done => b.status = a.status
  <1>1. /\ b.status \in {"open", "filled", "canceled", "rejected"}
        /\ b.filled \in Nat /\ b.notional \in Nat
    BY DEF BrokerOrders
  <1>2. PICK s \in (IF b.status = "open" THEN {"open", "unknown"} ELSE {b.status}),
             n \in (IF b.filled > 0 THEN AveragePrice ELSE {"null"}) :
           a = [status |-> s, filled |-> b.filled, notional |-> b.notional, average |-> n]
    BY DEF Reports
  <1>3. s \in {"open", "filled", "canceled", "rejected", "unknown"}
    BY <1>1, <1>2
  <1>4. s \in Done => b.status = s
    BY <1>1, <1>2 DEF Done
  <1>5. n \in AveragePrice
    BY <1>2 DEF AveragePrice
  <1> QED
    BY <1>1, <1>2, <1>3, <1>4, <1>5 DEF Answers

\* A fresh order at the broker.
LEMMA PlacedType ==
    ASSUME NEW q \in Nat, NEW b \in Placed(q)
    PROVE  b \in BrokerOrders /\ b.status # "none"
  <1>1. \A p \in Prices : p \in Nat
    BY AccountingAssumption
  <1>2. CASE \E n \in 0 .. (q - 1), p \in Prices :
                b = [status |-> "open", filled |-> n, notional |-> n * p]
    <2>1. PICK n \in 0 .. (q - 1), p \in Prices :
             b = [status |-> "open", filled |-> n, notional |-> n * p]
      BY <1>2
    <2>2. n \in Nat /\ n * p \in Nat
      BY <1>1
    <2> QED
      BY <2>1, <2>2 DEF BrokerOrders
  <1>3. CASE \E p \in Prices : b = [status |-> "filled", filled |-> q, notional |-> q * p]
    <2>1. PICK p \in Prices : b = [status |-> "filled", filled |-> q, notional |-> q * p]
      BY <1>3
    <2>2. q * p \in Nat
      BY <1>1
    <2> QED
      BY <2>1, <2>2 DEF BrokerOrders
  <1>4. CASE \E s \in {"canceled", "rejected"} : b = [status |-> s, filled |-> 0, notional |-> 0]
    BY <1>4 DEF BrokerOrders
  <1> QED
    BY <1>2, <1>3, <1>4 DEF Placed

\* The status of an answer becomes a status of the row.
LEMMA MapType ==
    ASSUME NEW a \in Answers
    PROVE  /\ MapOrderStatus(a.status) \in OrderStatus \ {"NONE"}
           /\ MapOrderStatus(a.status) \in Terminal <=> a.status \in Done
  <1>1. a.status \in {"open", "filled", "canceled", "rejected", "unknown"}
    BY DEF Answers
  <1> QED
    BY <1>1 DEF MapOrderStatus, OrderStatus, Terminal, Done

\* What an approved risk check records.
LEMMA ApprovedType ==
    ASSUME TypeOK, NEW price \in Prices, ApproveOrder(price)
    PROVE  /\ risk' \in [action : TradeAction, quantity : Nat, price : Nat]
           /\ risk'.action \in {"BUY", "SELL"}
  <1>1. price \in Nat
    BY AccountingAssumption
  <1>2. PICK r \in RiskResults(price) \ {Hold} :
           risk' = [action |-> r.action, quantity |-> r.quantity, price |-> price]
    BY DEF ApproveOrder
  <1>3. r.action \in {"BUY", "SELL"} /\ r.quantity \in Nat
    BY <1>2, RiskResultsType DEF Answered
  <1> QED
    BY <1>1, <1>2, <1>3 DEF TradeAction

\* What a placed order changes.
LEMMA PlaceFacts ==
    ASSUME TypeOK, RunnerInv, OrderInv, NEW o \in Orders, PlaceOrder(o)
    PROVE  /\ broker[o].status = "none" /\ order[o] = "NONE" /\ traded[o] = 0
           /\ broker' \in [Orders -> BrokerOrders] /\ broker'[o].status # "none"
           /\ \A p \in Orders : p # o => broker'[p] = broker[p]
           /\ reply' \in Answers
           /\ reply'.filled = broker'[o].filled
           /\ reply'.status \in Done => broker'[o].status = reply'.status
           /\ side' \in [Orders -> {"NONE", "BUY", "SELL"}]
           /\ quantity' \in [Orders -> Nat]
  <1>1. /\ broker \in [Orders -> BrokerOrders] /\ side \in [Orders -> {"NONE", "BUY", "SELL"}]
        /\ quantity \in [Orders -> Nat] /\ risk.quantity \in Nat
    BY DEF TypeOK
  <1>2. risk.action \in {"BUY", "SELL"}
    BY DEF PlaceOrder, RunnerInv
  <1>3. broker[o].status = "none"
    BY DEF PlaceOrder, Orders
  <1>4. order[o] = "NONE" /\ traded[o] = 0
    BY <1>3 DEF OrderInv
  <1>5. PICK b \in Placed(risk.quantity) :
           broker' = [broker EXCEPT ![o] = b] /\ reply' \in Reports(b)
    BY DEF PlaceOrder
  <1>6. b \in BrokerOrders /\ b.status # "none"
    BY <1>1, <1>5, PlacedType
  <1>7. /\ broker' \in [Orders -> BrokerOrders] /\ broker'[o] = b
        /\ \A p \in Orders : p # o => broker'[p] = broker[p]
    BY <1>1, <1>5, <1>6
  <1>8. /\ reply' \in Answers /\ reply'.filled = b.filled
        /\ reply'.status \in Done => b.status = reply'.status
    BY <1>5, <1>6, ReportType
  <1>9. side' \in [Orders -> {"NONE", "BUY", "SELL"}] /\ quantity' \in [Orders -> Nat]
    BY <1>1, <1>2 DEF PlaceOrder
  <1> QED
    BY <1>3, <1>4, <1>6, <1>7, <1>8, <1>9


-----------------------------------------------------------------------------
(***************************************************************************)
(* What a commit writes                                                    *)
(***************************************************************************)

\* The consequents of BooksBalance and ValueIsCurrent.
Balanced ==
    /\ portfolio.cash = InitialCash + net.cash
    /\ portfolio.position = net.shares + net.clamped

Current == portfolio.value = portfolio.cash + portfolio.position * portfolio.price

\* A commit that only values the portfolio leaves cash and position alone.
LEMMA ValueWritten ==
    ASSUME portfolio \in Portfolios, NEW copy \in Portfolios, NEW price \in Int,
           WritePortfolio(copy, Valued(copy, price))
    PROVE  /\ portfolio' \in Portfolios
           /\ portfolio'.cash = portfolio.cash /\ portfolio'.position = portfolio.position
           /\ copy = portfolio => Current'
  <1> DEFINE new == Valued(copy, price)
  <1>1. /\ new \in Portfolios
        /\ new.cash = copy.cash /\ new.position = copy.position
        /\ new.price = price /\ new.value = copy.cash + copy.position * price
    BY ValuedFacts
  <1>2. WritePortfolio(copy, new)
    OBVIOUS
  <1> HIDE DEF new
  <1>3. /\ portfolio' \in Portfolios
        /\ portfolio'.cash = Column(copy.cash, new.cash, portfolio.cash)
        /\ portfolio'.position = Column(copy.position, new.position, portfolio.position)
        /\ copy = portfolio => portfolio' = new
    BY <1>1, <1>2, WriteFacts
  <1>4. portfolio'.cash = portfolio.cash /\ portfolio'.position = portfolio.position
    BY <1>1, <1>3 DEF Column
  <1>5. copy = portfolio => Current'
    BY <1>1, <1>3 DEF Current
  <1> QED
    BY <1>3, <1>4, <1>5

\* A commit that books a fill of an order.
LEMMA FillWritten ==
    ASSUME TypeOK, NEW o \in Orders, NEW copy \in Portfolios,
           NEW q \in Nat, NEW v \in Nat, NEW price \in Int,
           copy.position >= 0, PositionNotNegative,
           RecordTrade(o, q, v, copy.position),
           WritePortfolio(copy, Valued(ApplyFill(copy, side[o], q, v), price))
    PROVE  /\ portfolio' \in Portfolios
           /\ PositionNotNegative'
           /\ copy = portfolio => Current'
           /\ copy = portfolio /\ Balanced => Balanced'
  <1> DEFINE filled == ApplyFill(copy, side[o], q, v)
             new == Valued(filled, price)
  <1>1. portfolio \in Portfolios /\ portfolio.position \in Int /\ portfolio.cash \in Int
    BY DEF TypeOK, Portfolios
  <1>2. /\ copy.position \in Int /\ copy.cash \in Int
        /\ Remaining(copy.position, q) \in Nat
    <2>1. copy.position \in Int /\ copy.cash \in Int /\ q \in Int
      BY DEF Portfolios
    <2> QED
      BY <2>1, RemainingIsNatural
  <1>3. /\ filled \in Portfolios
        /\ filled.cash = IF side[o] = "BUY" THEN copy.cash - v ELSE copy.cash + v
        /\ filled.position = IF side[o] = "BUY" THEN copy.position + q
                             ELSE Remaining(copy.position, q)
    BY ApplyFillFacts
  <1>4. WritePortfolio(copy, new)
    OBVIOUS
  <1>5. /\ new \in Portfolios
        /\ new.cash = filled.cash /\ new.position = filled.position
        /\ new.price = price /\ new.value = filled.cash + filled.position * price
    <2> HIDE DEF filled
    <2> QED
      BY <1>3, ValuedFacts
  <1> HIDE DEF filled, new
  <1>6. /\ portfolio' \in Portfolios
        /\ portfolio'.position = Column(copy.position, new.position, portfolio.position)
        /\ copy = portfolio => portfolio' = new
    BY <1>1, <1>4, <1>5, WriteFacts
  <1>7. new.position >= 0
    BY <1>2, <1>3, <1>5
  <1>8. PositionNotNegative'
    BY <1>6, <1>7 DEF Column, PositionNotNegative
  <1>9. copy = portfolio => Current'
    BY <1>5, <1>6 DEF Current
  <1>10. /\ net.cash \in Int /\ net.shares + net.clamped \in Int
    BY DEF TypeOK
  <1>11. /\ net'.cash = IF side[o] = "BUY" THEN net.cash - v ELSE net.cash + v
         /\ net'.shares + net'.clamped =
               IF side[o] = "BUY" THEN net.shares + net.clamped + q
               ELSE (net.shares + net.clamped) - copy.position + Remaining(copy.position, q)
    <2> DEFINE pos == copy.position
    <2>1. pos \in Int /\ RecordTrade(o, q, v, pos)
      BY <1>2
    <2> HIDE DEF pos
    <2>2. /\ net'.cash = IF side[o] = "BUY" THEN net.cash - v ELSE net.cash + v
          /\ net'.shares + net'.clamped =
                IF side[o] = "BUY" THEN net.shares + net.clamped + q
                ELSE (net.shares + net.clamped) - pos + Remaining(pos, q)
      BY <2>1, RecordTradeFacts
    <2> QED
      BY <2>2 DEF pos
  <1>12. copy = portfolio /\ Balanced => Balanced'
    <2> SUFFICES ASSUME copy = portfolio, Balanced
                 PROVE  Balanced'
      OBVIOUS
    <2>1. portfolio' = new /\ InitialCash \in Nat /\ InitialCash' = InitialCash
      BY <1>6, AccountingAssumption
    <2>2. copy.cash = InitialCash + net.cash /\ copy.position = net.shares + net.clamped
      BY DEF Balanced
    <2>3. portfolio'.cash = InitialCash + net'.cash
      BY <1>2, <1>3, <1>5, <1>10, <1>11, <2>1, <2>2
    <2>4. portfolio'.position = net'.shares + net'.clamped
      <3> DEFINE held == net.shares + net.clamped
                 rest == Remaining(copy.position, q)
      <3>1. net'.shares + net'.clamped =
               IF side[o] = "BUY" THEN held + q ELSE held - copy.position + rest
        BY <1>11, Zenon
      <3>2. held = copy.position /\ held \in Int /\ rest \in Int
        BY <1>2, <1>10, <2>2
      <3>3. portfolio'.position = IF side[o] = "BUY" THEN copy.position + q ELSE rest
        BY <1>3, <1>5, <2>1
      <3> HIDE DEF held, rest
      <3> QED
        BY <1>2, <3>1, <3>2, <3>3
    <2> QED
      BY <2>3, <2>4 DEF Balanced
  <1> QED
    BY <1>6, <1>8, <1>9, <1>12

\* What recording a placed order does to the orders.
LEMMA RecordOrderFacts ==
    ASSUME TypeOK, OrderInv, RunnerInv, RecordOrder
    PROVE  /\ oid \in Orders /\ order[oid] = "NONE" /\ traded[oid] = 0
           /\ broker[oid].status # "none" /\ Reported(reply, oid)
           /\ order' \in [Orders -> OrderStatus]
           /\ order'[oid] = MapOrderStatus(reply.status)
           /\ \A p \in Orders : p # oid => order'[p] = order[p] /\ traded'[p] = traded[p]
           /\ average' \in [Orders -> AveragePrice] /\ average'[oid] = reply.average
           /\ \A p \in Orders : p # oid => average'[p] = average[p]
           /\ traded' \in [Orders -> Nat] /\ paid' \in [Orders -> Nat]
           /\ traded'[oid] = IF reply.average = "known" THEN reply.filled ELSE 0
           /\ net' \in [cash : Int, shares : Int, clamped : Nat]
  <1>1. /\ oid \in Orders /\ order[oid] = "NONE" /\ traded[oid] = 0
        /\ broker[oid].status # "none" /\ Reported(reply, oid)
    BY DEF RecordOrder, RunnerInv, OrderInv
  <1>2. reply \in Answers /\ reply.filled \in Nat /\ reply.average \in AveragePrice
    BY DEF TypeOK, Answers
  <1>3. /\ order' \in [Orders -> OrderStatus]
        /\ order'[oid] = MapOrderStatus(reply.status)
        /\ average' \in [Orders -> AveragePrice] /\ average'[oid] = reply.average
        /\ \A p \in Orders : p # oid => order'[p] = order[p] /\ average'[p] = average[p]
    <2>1. MapOrderStatus(reply.status) \in OrderStatus
      BY <1>2, MapType DEF OrderStatus
    <2>2. /\ order \in [Orders -> OrderStatus] /\ average \in [Orders -> AveragePrice]
          /\ order' = [order EXCEPT ![oid] = MapOrderStatus(reply.status)]
          /\ average' = [average EXCEPT ![oid] = reply.average]
      BY DEF RecordOrder, TypeOK
    <2> QED
      BY <1>1, <1>2, <2>1, <2>2
  <1>4. CASE Bookable(reply.filled, reply)
    <2> DEFINE v == FillValue(reply.filled, reply)
    <2>1. v \in Nat
      BY <1>2, <1>4, FillValueType DEF Bookable
    <2>2. rcopy.position \in Int
      BY DEF TypeOK, Portfolios
    <2>3. RecordTrade(oid, reply.filled, v, rcopy.position)
      BY <1>4 DEF RecordOrder
    <2> HIDE DEF v
    <2>4. /\ traded' \in [Orders -> Nat] /\ paid' \in [Orders -> Nat]
          /\ traded'[oid] = traded[oid] + reply.filled
          /\ \A p \in Orders : p # oid => traded'[p] = traded[p]
          /\ net' \in [cash : Int, shares : Int, clamped : Nat]
      BY <1>1, <1>2, <2>1, <2>2, <2>3, RecordTradeFacts
    <2>5. traded'[oid] = reply.filled
      BY <1>1, <1>2, <2>4
    <2> QED
      BY <1>1, <1>3, <1>4, <2>4, <2>5 DEF Bookable
  <1>5. CASE ~Bookable(reply.filled, reply)
    <2>1. (reply.filled = 0 \/ reply.average # "known") /\ UNCHANGED <<traded, paid, net>>
      BY <1>2, <1>5 DEF RecordOrder, Bookable
    <2> QED
      BY <1>1, <1>3, <2>1 DEF TypeOK
  <1> QED
    BY <1>4, <1>5

\* What it does to the money.
LEMMA RecordOrderMoney ==
    ASSUME TypeOK, OrderInv, RunnerInv, CopyInv, PositionNotNegative, RecordOrder
    PROVE  /\ portfolio' \in Portfolios
           /\ PositionNotNegative'
           /\ ~staleWrite' => Current'
           /\ (~lostFill => Balanced) => (~lostFill' => Balanced')
  <1>1. /\ reply \in Answers /\ reply.filled \in Nat /\ rcopy \in Portfolios
        /\ portfolio \in Portfolios /\ risk.price \in Int /\ oid \in Orders
    BY DEF TypeOK, Answers, RecordOrder, RunnerInv
  <1>2. CASE Bookable(reply.filled, reply)
    <2> DEFINE v == FillValue(reply.filled, reply)
    <2>1. v \in Nat
      BY <1>1, <1>2, FillValueType DEF Bookable
    <2>2. /\ RecordTrade(oid, reply.filled, v, rcopy.position)
          /\ WritePortfolio(rcopy, Valued(ApplyFill(rcopy, side[oid], reply.filled, v), risk.price))
          /\ lostFill' = (lostFill \/ rcopy # portfolio)
      BY <1>2 DEF RecordOrder
    <2> HIDE DEF v
    <2>3. /\ portfolio' \in Portfolios /\ PositionNotNegative'
          /\ rcopy = portfolio => Current'
          /\ rcopy = portfolio /\ Balanced => Balanced'
      BY <1>1, <2>1, <2>2, FillWritten DEF CopyInv
    <2>4. staleWrite' = (staleWrite \/ rcopy # portfolio)
      BY DEF RecordOrder
    <2> QED
      BY <2>2, <2>3, <2>4, Zenon
  <1>3. CASE ~Bookable(reply.filled, reply)
    <2>1. /\ WritePortfolio(rcopy, Valued(rcopy, risk.price))
          /\ UNCHANGED <<net, lostFill>>
          /\ staleWrite' = (staleWrite \/ rcopy # portfolio)
      BY <1>3 DEF RecordOrder
    <2>2. /\ portfolio' \in Portfolios
          /\ portfolio'.cash = portfolio.cash /\ portfolio'.position = portfolio.position
          /\ rcopy = portfolio => Current'
      BY <1>1, <2>1, ValueWritten
    <2>3. PositionNotNegative' /\ (Balanced => Balanced')
      BY <2>1, <2>2 DEF PositionNotNegative, Balanced
    <2> QED
      BY <2>1, <2>2, <2>3, Zenon
  <1> QED
    BY <1>2, <1>3

\* What a synchronisation knows and does to the orders.
LEMMA SyncCommitFacts ==
    ASSUME TypeOK, OrderInv, SyncInv, NoDoubleFill, NEW o \in Orders, SyncCommit(o)
    PROVE  /\ order[o] = "SUBMITTED" /\ broker[o].status # "none" /\ Reported(answer, o)
           /\ order' \in [Orders -> OrderStatus]
           /\ average' \in [Orders -> AveragePrice]
           /\ traded' \in [Orders -> Nat] /\ paid' \in [Orders -> Nat]
           /\ \A p \in Orders : p # o => /\ order'[p] = order[p] /\ average'[p] = average[p]
                                        /\ traded'[p] = traded[p]
           /\ order'[o] \in {order[o], MapOrderStatus(answer.status)}
           /\ answer.status = "unknown" => order'[o] = order[o]
           /\ traded[o] <= traded'[o] /\ traded'[o] <= broker[o].filled
           /\ order'[o] \in Terminal =>
                 traded'[o] = IF average'[o] = "known" THEN broker[o].filled ELSE traded[o]
           /\ net' \in [cash : Int, shares : Int, clamped : Nat]
  <1>1. order[o] = "SUBMITTED" /\ broker[o].status # "none" /\ Reported(answer, o)
    BY DEF SyncCommit, IsFirst, SyncInv, OrderInv
  <1>2. /\ answer \in Answers /\ answer.filled \in Nat /\ traded[o] \in Nat
        /\ answer.average \in AveragePrice
        /\ broker[o].filled \in Nat /\ traded[o] <= broker[o].filled
        /\ order \in [Orders -> OrderStatus] /\ average \in [Orders -> AveragePrice]
        /\ traded \in [Orders -> Nat] /\ paid \in [Orders -> Nat]
        /\ net \in [cash : Int, shares : Int, clamped : Nat]
    BY DEF TypeOK, Answers, NoDoubleFill, BrokerOrders
  <1>3. CASE answer.status = "unknown"
    <2>1. UNCHANGED <<order, average, traded, paid, net>>
      BY <1>3 DEF SyncCommit, history
    <2> QED
      BY <1>1, <1>2, <2>1 DEF Terminal, Done
  <1>4. CASE answer.status # "unknown"
    <2> DEFINE q == NewShares(o, answer)
               v == FillValue(q, answer)
    <2>1. /\ order' = [order EXCEPT ![o] = MapOrderStatus(answer.status)]
          /\ average' = [average EXCEPT ![o] = answer.average]
      BY <1>4 DEF SyncCommit
    <2>2. MapOrderStatus(answer.status) \in OrderStatus
      BY <1>2, MapType DEF OrderStatus
    <2>3. /\ order' \in [Orders -> OrderStatus]
          /\ order'[o] = MapOrderStatus(answer.status)
          /\ average' \in [Orders -> AveragePrice] /\ average'[o] = answer.average
          /\ \A p \in Orders : p # o => order'[p] = order[p] /\ average'[p] = average[p]
      BY <1>2, <2>1, <2>2
    <2>4. q = answer.filled - traded[o]
      BY DEF NewShares
    <2>5. order'[o] \in Terminal => answer.filled = broker[o].filled
      BY <1>1, <1>2, <2>3, MapType DEF Reported
    <2>6. answer.filled <= broker[o].filled
      BY <1>1 DEF Reported
    <2>7. CASE Bookable(q, answer)
      <3>1. q \in Nat /\ answer.filled > 0
        <4> HIDE DEF q
        <4> QED
          BY <1>2, <2>4, <2>7 DEF Bookable
      <3>2. v \in Nat
        <4> HIDE DEF q
        <4> QED
          BY <1>2, <3>1, FillValueType
      <3>3. RecordTrade(o, q, v, scopy.position) /\ scopy.position \in Int
        BY <1>4, <2>7 DEF SyncCommit, TypeOK, Portfolios
      <3> HIDE DEF q, v
      <3>4. /\ traded' \in [Orders -> Nat] /\ paid' \in [Orders -> Nat]
            /\ traded'[o] = traded[o] + q
            /\ \A p \in Orders : p # o => traded'[p] = traded[p]
            /\ net' \in [cash : Int, shares : Int, clamped : Nat]
        BY <3>1, <3>2, <3>3, RecordTradeFacts
      <3>5. traded'[o] = answer.filled /\ traded[o] <= traded'[o]
        BY <1>2, <2>4, <3>1, <3>4
      <3> QED
        BY <1>1, <1>4, <2>3, <2>5, <2>6, <2>7, <3>4, <3>5 DEF Bookable
    <2>8. CASE ~Bookable(q, answer)
      <3>1. UNCHANGED <<traded, paid, net>>
        BY <1>4, <2>8 DEF SyncCommit, history
      <3>2. answer.average = "known" => traded[o] >= answer.filled
        <4> HIDE DEF q
        <4> QED
          BY <1>2, <2>4, <2>8 DEF Bookable
      <3>3. order'[o] \in Terminal =>
               traded'[o] = IF average'[o] = "known" THEN broker[o].filled ELSE traded[o]
        BY <1>2, <2>3, <2>5, <3>1, <3>2
      <3> QED
        BY <1>1, <1>2, <1>4, <2>3, <3>1, <3>3
    <2> QED
      BY <2>7, <2>8
  <1> QED
    BY <1>3, <1>4

\* What it does to the money.
LEMMA SyncCommitMoney ==
    ASSUME TypeOK, CopyInv, PositionNotNegative, NEW o \in Orders, SyncCommit(o)
    PROVE  /\ portfolio' \in Portfolios
           /\ PositionNotNegative'
           /\ (~staleWrite => Current) => (~staleWrite' => Current')
           /\ (~lostFill => Balanced) => (~lostFill' => Balanced')
           /\ staleWrite' \in BOOLEAN /\ lostFill' \in BOOLEAN
  <1> DEFINE q == NewShares(o, answer)
             v == FillValue(q, answer)
             price == answer.notional \div answer.filled
  <1>1. /\ portfolio \in Portfolios /\ scopy \in Portfolios /\ answer \in Answers
        /\ answer.filled \in Nat /\ answer.notional \in Nat /\ traded[o] \in Nat
        /\ staleWrite \in BOOLEAN /\ lostFill \in BOOLEAN
    BY DEF TypeOK, Answers
  <1>2. CASE answer.status = "unknown" \/ ~Bookable(q, answer)
    <2>1. UNCHANGED <<portfolio, net, staleWrite, lostFill>>
      BY <1>2 DEF SyncCommit, history
    <2> QED
      BY <1>1, <2>1 DEF Balanced, Current, PositionNotNegative
  <1>3. CASE answer.status # "unknown" /\ Bookable(q, answer)
    <2>1. /\ RecordTrade(o, q, v, scopy.position)
          /\ WritePortfolio(scopy, Valued(ApplyFill(scopy, side[o], q, v), price))
          /\ staleWrite' = (staleWrite \/ scopy # portfolio)
          /\ lostFill' = (lostFill \/ scopy # portfolio)
      BY <1>3 DEF SyncCommit
    <2>2. q \in Nat /\ answer.filled > 0
      <3>1. q = answer.filled - traded[o]
        BY DEF NewShares
      <3> HIDE DEF q
      <3> QED
        BY <1>1, <1>3, <3>1 DEF Bookable
    <2>3. v \in Nat
      <3> HIDE DEF q
      <3> QED
        BY <1>1, <2>2, FillValueType
    <2>4. price \in Int
      BY <1>1, <2>2
    <2> HIDE DEF q, v, price
    <2>5. /\ portfolio' \in Portfolios /\ PositionNotNegative'
          /\ scopy = portfolio => Current'
          /\ scopy = portfolio /\ Balanced => Balanced'
      BY <1>1, <2>1, <2>2, <2>3, <2>4, FillWritten DEF CopyInv
    <2> QED
      BY <1>1, <2>1, <2>5, Zenon
  <1> QED
    BY <1>2, <1>3

-----------------------------------------------------------------------------
(***************************************************************************)
(* The inductive invariant, part by part                                   *)
(***************************************************************************)

\* What the actions leave the threads with.
LEMMA ThreadTypes ==
    ASSUME TypeOK
    PROVE  /\ RunnerIdle => /\ runner' = "idle" /\ rcopy' \in Portfolios /\ reply' \in Answers
                            /\ risk' \in [action : TradeAction, quantity : Nat, price : Nat]
                            /\ oid' \in Orders \cup {NoOrder}
           /\ \A o \in Orders :
                 NextOrder(o) => /\ queue' \subseteq Orders /\ sync' \in {"idle", "loop"}
                                 /\ scopy' \in Portfolios /\ answer' \in Answers
  BY IdleTypes DEF RunnerIdle, NextOrder, TypeOK

\* Types.
LEMMA TypeStep ==
    ASSUME TypeOK, OrderInv, RunnerInv, SyncInv, CopyInv, NoDoubleFill, PositionNotNegative,
           [Next]_vars
    PROVE  TypeOK'
  <1>1. CASE LoadPortfolio
    BY <1>1 DEF LoadPortfolio, TypeOK, orderVars, syncVars, history
  <1>2. ASSUME NEW price \in Prices, HoldStep(price)
        PROVE  TypeOK'
    <2>1. price \in Int /\ rcopy \in Portfolios /\ portfolio \in Portfolios
      BY AccountingAssumption DEF TypeOK
    <2>2. portfolio' \in Portfolios
      BY <1>2, <2>1, ValueWritten DEF HoldStep
    <2>3. staleWrite' \in BOOLEAN
      BY <1>2 DEF HoldStep
    <2>4. RunnerIdle
      BY <1>2 DEF HoldStep
    <2> QED
      BY <1>2, <2>2, <2>3, <2>4, ThreadTypes DEF HoldStep, TypeOK, orderVars, syncVars
  <1>3. ASSUME NEW price \in Prices, ApproveOrder(price)
        PROVE  TypeOK'
    <2>1. risk' \in [action : TradeAction, quantity : Nat, price : Nat]
      BY <1>3, ApprovedType
    <2> QED
      BY <1>3, <2>1, IdleTypes DEF ApproveOrder, TypeOK, orderVars, syncVars, history
  <1>4. ASSUME NEW o \in Orders, PlaceOrder(o)
        PROVE  TypeOK'
    <2>1. /\ broker' \in [Orders -> BrokerOrders] /\ reply' \in Answers
          /\ side' \in [Orders -> {"NONE", "BUY", "SELL"}] /\ quantity' \in [Orders -> Nat]
      BY <1>4, PlaceFacts
    <2> QED
      BY <1>4, <2>1 DEF PlaceOrder, TypeOK, syncVars, history
  <1>5. CASE PlaceOrderRaises \/ RecordFails
    <2>1. RunnerIdle
      BY <1>5 DEF PlaceOrderRaises, RecordFails
    <2> QED
      BY <1>5, <2>1, ThreadTypes
         DEF PlaceOrderRaises, RecordFails, TypeOK, orderVars, syncVars, history
  <1>6. CASE RecordOrder
    <2>1. /\ order' \in [Orders -> OrderStatus]
          /\ traded' \in [Orders -> Nat] /\ paid' \in [Orders -> Nat]
          /\ net' \in [cash : Int, shares : Int, clamped : Nat]
          /\ average' \in [Orders -> AveragePrice]
      BY <1>6, RecordOrderFacts
    <2>2. portfolio' \in Portfolios
      BY <1>6, RecordOrderMoney
    <2>3. staleWrite' \in BOOLEAN /\ lostFill' \in BOOLEAN /\ active' \in BOOLEAN
      BY <1>6 DEF RecordOrder, TypeOK
    <2>4. RunnerIdle /\ UNCHANGED <<side, quantity, broker, sync, queue, scopy, answer, crashes>>
      BY <1>6 DEF RecordOrder, syncVars
    <2> QED
      BY <2>1, <2>2, <2>3, <2>4, ThreadTypes DEF TypeOK
  <1>7. CASE ListOpenOrders
    BY <1>7 DEF ListOpenOrders, TypeOK, orderVars, runnerVars, history
  <1>8. ASSUME NEW o \in Orders, FetchStatus(o)
        PROVE  TypeOK'
    <2>1. broker[o] \in BrokerOrders /\ broker[o].status # "none"
      BY <1>8 DEF FetchStatus, IsFirst, SyncInv, OrderInv, TypeOK
    <2>2. answer' \in Answers
      BY <1>8, <2>1, ReportType DEF FetchStatus
    <2> QED
      BY <1>8, <2>2 DEF FetchStatus, TypeOK, orderVars, runnerVars, history
  <1>9. ASSUME NEW o \in Orders, FetchFails(o)
        PROVE  TypeOK'
    <2>1. NextOrder(o)
      BY <1>9 DEF FetchFails
    <2> QED
      BY <1>9, <2>1, ThreadTypes DEF FetchFails, TypeOK, orderVars, runnerVars, history
  <1>10. ASSUME NEW o \in Orders, SyncCommit(o)
         PROVE  TypeOK'
    <2>1. /\ order' \in [Orders -> OrderStatus]
          /\ traded' \in [Orders -> Nat] /\ paid' \in [Orders -> Nat]
          /\ net' \in [cash : Int, shares : Int, clamped : Nat]
          /\ average' \in [Orders -> AveragePrice]
      BY <1>10, SyncCommitFacts
    <2>2. portfolio' \in Portfolios /\ staleWrite' \in BOOLEAN /\ lostFill' \in BOOLEAN
      BY <1>10, SyncCommitMoney
    <2>3. /\ NextOrder(o)
          /\ UNCHANGED <<side, quantity, broker, active, runner, rcopy, risk, oid, reply, crashes>>
      BY <1>10 DEF SyncCommit, runnerVars
    <2> QED
      BY <2>1, <2>2, <2>3, ThreadTypes DEF TypeOK
  <1>11. ASSUME NEW o \in Orders, BrokerCancels(o)
         PROVE  TypeOK'
    <2>1. broker' \in [Orders -> BrokerOrders]
      BY <1>11 DEF BrokerCancels, TypeOK, BrokerOrders
    <2> QED
      BY <1>11, <2>1 DEF BrokerCancels, TypeOK, orderVars, runnerVars, syncVars, history
  <1>12. ASSUME NEW o \in Orders, NEW p \in Prices, BrokerFills(o, p)
         PROVE  TypeOK'
    <2>1. p \in Nat
      BY AccountingAssumption
    <2>2. broker' \in [Orders -> BrokerOrders]
      BY <1>12, <2>1 DEF BrokerFills, TypeOK, BrokerOrders
    <2> QED
      BY <1>12, <2>2 DEF BrokerFills, TypeOK, orderVars, runnerVars, syncVars, history
  <1>13. CASE Crash
    <2>1. RunnerIdle
      BY <1>13 DEF Crash
    <2>2. crashes' \in 0..MaxCrashes
      BY <1>13, AccountingAssumption DEF Crash, TypeOK
    <2> QED
      BY <1>13, <2>1, <2>2, ThreadTypes, IdleTypes DEF Crash, TypeOK, orderVars, history
  <1>14. CASE UNCHANGED vars
    BY <1>14 DEF vars, TypeOK, orderVars, runnerVars, syncVars, history
  <1> QED
    BY <1>1, <1>2, <1>3, <1>4, <1>5, <1>6, <1>7, <1>8, <1>9, <1>10, <1>11, <1>12, <1>13, <1>14
       DEF Next, RunnerNext, SyncNext, BrokerNext

\* The money of a state is right.
Money ==
    /\ PositionNotNegative
    /\ ~lostFill => Balanced
    /\ ~staleWrite => Current

\* Steps that leave the portfolio row and the history alone.
LEMMA MoneyFrame ==
    ASSUME Money, UNCHANGED <<portfolio, net, staleWrite, lostFill>>
    PROVE  Money'
  BY DEF Money, PositionNotNegative, Balanced, Current

\* Threads load the portfolio of the database or nothing.
LEMMA CopyStep ==
    ASSUME TypeOK, CopyInv, PositionNotNegative, [Next]_vars
    PROVE  CopyInv'
  <1>1. InitialPortfolio.position >= 0
    BY DEF InitialPortfolio
  <1>2. /\ rcopy' \in {rcopy, portfolio, InitialPortfolio}
        /\ scopy' \in {scopy, portfolio, InitialPortfolio}
    BY DEF Next, RunnerNext, SyncNext, BrokerNext, vars, runnerVars, syncVars, LoadPortfolio,
           HoldStep, ApproveOrder, PlaceOrder, PlaceOrderRaises, RecordOrder, RecordFails,
           RunnerIdle, ListOpenOrders, FetchStatus, FetchFails, SyncCommit, NextOrder,
           BrokerCancels, BrokerFills, Crash
  <1> QED
    BY <1>1, <1>2 DEF CopyInv, PositionNotNegative

\* Only the three commits touch the money.
LEMMA MoneyStep ==
    ASSUME TypeOK, OrderInv, RunnerInv, SyncInv, CopyInv, Money, [Next]_vars
    PROVE  Money'
  <1>1. ASSUME NEW price \in Prices, HoldStep(price)
        PROVE  Money'
    <2>1. price \in Int /\ rcopy \in Portfolios /\ portfolio \in Portfolios
      BY AccountingAssumption DEF TypeOK
    <2>2. /\ WritePortfolio(rcopy, Valued(rcopy, price))
          /\ staleWrite' = (staleWrite \/ rcopy # portfolio)
          /\ UNCHANGED <<net, lostFill>>
      BY <1>1 DEF HoldStep
    <2>3. /\ portfolio'.cash = portfolio.cash /\ portfolio'.position = portfolio.position
          /\ rcopy = portfolio => Current'
      BY <2>1, <2>2, ValueWritten
    <2>4. PositionNotNegative' /\ (~lostFill' => Balanced')
      BY <2>2, <2>3 DEF Money, PositionNotNegative, Balanced
    <2>5. ~staleWrite' => Current'
      BY <2>2, <2>3, Zenon
    <2> QED
      BY <2>4, <2>5 DEF Money
  <1>2. CASE RecordOrder
    <2>1. PositionNotNegative /\ (~lostFill => Balanced)
      BY DEF Money
    <2>2. /\ PositionNotNegative' /\ (~staleWrite' => Current')
          /\ (~lostFill => Balanced) => (~lostFill' => Balanced')
      BY <1>2, <2>1, RecordOrderMoney
    <2> QED
      BY <2>1, <2>2 DEF Money
  <1>3. ASSUME NEW o \in Orders, SyncCommit(o)
        PROVE  Money'
    <2>1. PositionNotNegative /\ (~lostFill => Balanced) /\ (~staleWrite => Current)
      BY DEF Money
    <2>2. /\ PositionNotNegative'
          /\ (~staleWrite => Current) => (~staleWrite' => Current')
          /\ (~lostFill => Balanced) => (~lostFill' => Balanced')
      BY <1>3, <2>1, SyncCommitMoney
    <2> QED
      BY <2>1, <2>2 DEF Money
  <1>4. CASE \/ LoadPortfolio \/ \E price \in Prices : ApproveOrder(price)
             \/ \E o \in Orders : PlaceOrder(o)
             \/ PlaceOrderRaises \/ RecordFails
    BY <1>4, MoneyFrame
       DEF LoadPortfolio, ApproveOrder, PlaceOrder, PlaceOrderRaises, RecordFails, history
  <1>5. CASE \/ ListOpenOrders \/ \E o \in Orders : FetchStatus(o) \/ FetchFails(o)
             \/ BrokerNext \/ Crash \/ UNCHANGED vars
    BY <1>5, MoneyFrame
       DEF ListOpenOrders, FetchStatus, FetchFails, BrokerNext, BrokerCancels, BrokerFills,
           Crash, vars, history
  <1> QED
    BY <1>1, <1>2, <1>3, <1>4, <1>5 DEF Next, RunnerNext, SyncNext

\* The orders of a state are right.
OrdersRight == OrderInv /\ RunnerInv /\ SyncInv /\ NoDoubleFill /\ FinalOrdersAreBooked

\* Steps that leave the orders alone, whatever the threads forget.
LEMMA OrderFrame ==
    ASSUME OrdersRight, UNCHANGED <<order, average, traded, broker>>
    PROVE  OrderInv' /\ NoDoubleFill' /\ FinalOrdersAreBooked'
  BY DEF OrdersRight, OrderInv, NoDoubleFill, FinalOrdersAreBooked

\* The runner's part of the invariant when the runner does not move.
LEMMA RunnerFrame ==
    ASSUME OrdersRight, UNCHANGED <<order, broker, runner, risk, oid, reply>>
    PROVE  RunnerInv'
  BY DEF OrdersRight, RunnerInv, Reported

\* The job's part of the invariant when the job does not move.
LEMMA SyncFrame ==
    ASSUME OrdersRight, UNCHANGED <<order, broker, sync, queue, answer>>
    PROVE  SyncInv'
  BY DEF OrdersRight, SyncInv, Reported, IsFirst

\* The broker works on an open order.
LEMMA BrokerStep ==
    ASSUME TypeOK, OrdersRight, NEW o \in Orders,
           BrokerCancels(o) \/ \E p \in Prices : BrokerFills(o, p)
    PROVE  OrdersRight'
  <1>1. /\ broker[o].status = "open" /\ broker'[o].status \in {"open", "filled", "canceled"}
        /\ broker[o].filled \in Nat /\ broker'[o].filled \in Nat
        /\ broker[o].filled <= broker'[o].filled
        /\ \A p \in Orders : p # o => broker'[p] = broker[p]
    BY DEF BrokerCancels, BrokerFills, TypeOK, BrokerOrders
  <1>2. UNCHANGED <<order, average, traded, runner, risk, oid, reply, sync, queue, answer>>
    BY DEF BrokerCancels, BrokerFills, orderVars, runnerVars, syncVars
  <1>3. \A p \in Orders, a \in Answers : Reported(a, p) => Reported(a, p)'
    BY <1>1 DEF Reported, Answers, Terminal, Done
  <1>4. OrderInv' /\ FinalOrdersAreBooked'
    BY <1>1, <1>2 DEF OrdersRight, OrderInv, FinalOrdersAreBooked, Terminal, Done
  <1>5. NoDoubleFill'
    BY <1>1, <1>2 DEF OrdersRight, NoDoubleFill, TypeOK
  <1>6. RunnerInv'
    BY <1>1, <1>2, <1>3 DEF OrdersRight, RunnerInv, TypeOK
  <1>7. SyncInv'
    BY <1>2, <1>3 DEF OrdersRight, SyncInv, IsFirst, TypeOK
  <1> QED
    BY <1>4, <1>5, <1>6, <1>7 DEF OrdersRight

\* Each order is booked to what was reported of it, and final ones to the end.
LEMMA OrderStep ==
    ASSUME TypeOK, OrdersRight, [Next]_vars
    PROVE  OrdersRight'
  <1> USE DEF OrdersRight
  <1>1. CASE \/ LoadPortfolio \/ \E price \in Prices : HoldStep(price)
             \/ PlaceOrderRaises \/ RecordFails
    <2>1. UNCHANGED <<order, average, traded, broker, sync, queue, answer>>
      BY <1>1 DEF LoadPortfolio, HoldStep, PlaceOrderRaises, RecordFails, orderVars, syncVars
    <2>2. runner' \in {"idle", "decide"}
      BY <1>1 DEF LoadPortfolio, HoldStep, PlaceOrderRaises, RecordFails, RunnerIdle
    <2> QED
      BY <2>1, <2>2, OrderFrame, SyncFrame DEF RunnerInv
  <1>2. ASSUME NEW price \in Prices, ApproveOrder(price)
        PROVE  OrdersRight'
    <2>1. UNCHANGED <<order, average, traded, broker, sync, queue, answer>> /\ runner' = "broker"
      BY <1>2 DEF ApproveOrder, orderVars, syncVars
    <2>2. RunnerInv'
      BY <1>2, <2>1, ApprovedType DEF RunnerInv
    <2> QED
      BY <2>1, <2>2, OrderFrame, SyncFrame
  <1>3. ASSUME NEW o \in Orders, PlaceOrder(o)
        PROVE  OrdersRight'
    <2>1. /\ broker[o].status = "none" /\ order[o] = "NONE" /\ traded[o] = 0
          /\ broker' \in [Orders -> BrokerOrders] /\ broker'[o].status # "none"
          /\ \A p \in Orders : p # o => broker'[p] = broker[p]
          /\ reply'.filled = broker'[o].filled
          /\ reply'.status \in Done => broker'[o].status = reply'.status
      BY <1>3, PlaceFacts
    <2>2. /\ UNCHANGED <<order, average, traded, sync, queue, answer>>
          /\ runner' = "record" /\ oid' = o
      BY <1>3 DEF PlaceOrder, syncVars
    <2>3. broker'[o].filled \in Nat
      BY <2>1 DEF BrokerOrders
    <2>4. RunnerInv'
      BY <2>1, <2>2, <2>3 DEF RunnerInv, Reported
    <2>5. SyncInv'
      <3>1. \A p \in queue : p \in Orders /\ p # o
        BY <2>1 DEF SyncInv, TypeOK
      <3>2. \A p \in queue : broker'[p] = broker[p]
        BY <2>1, <3>1
      <3> QED
        BY <2>2, <3>2 DEF SyncInv, Reported, IsFirst
    <2>6. OrderInv' /\ NoDoubleFill' /\ FinalOrdersAreBooked'
      BY <2>1, <2>2, <2>3 DEF OrderInv, NoDoubleFill, FinalOrdersAreBooked, Terminal, Done
    <2> QED
      BY <2>4, <2>5, <2>6
  <1>4. CASE RecordOrder
    <2>1. /\ oid \in Orders /\ order[oid] = "NONE" /\ broker[oid].status # "none"
          /\ Reported(reply, oid)
          /\ order'[oid] = MapOrderStatus(reply.status)
          /\ average'[oid] = reply.average
          /\ \A p \in Orders : p # oid => /\ order'[p] = order[p] /\ average'[p] = average[p]
                                         /\ traded'[p] = traded[p]
          /\ traded'[oid] = IF reply.average = "known" THEN reply.filled ELSE 0
      BY <1>4, RecordOrderFacts
    <2>2. UNCHANGED <<broker, sync, queue, answer>> /\ runner' = "idle"
      BY <1>4 DEF RecordOrder, RunnerIdle, syncVars
    <2>3. reply \in Answers
      BY DEF TypeOK
    <2>4. /\ order'[oid] # "NONE"
          /\ order'[oid] \in Terminal =>
                 /\ reply.status \in Done
                 /\ broker[oid].status \in Done
                 /\ reply.filled = broker[oid].filled
      BY <2>1, <2>3, MapType DEF Reported
    <2>5. OrderInv' /\ FinalOrdersAreBooked'
      BY <2>1, <2>2, <2>4 DEF OrderInv, FinalOrdersAreBooked
    <2>6. NoDoubleFill'
      <3>1. traded'[oid] <= broker[oid].filled
        BY <2>1, <2>3 DEF Reported, Answers, TypeOK, BrokerOrders
      <3> QED
        BY <2>1, <2>2, <3>1 DEF NoDoubleFill
    <2>7. SyncInv'
      <3>1. \A p \in queue : p \in Orders /\ p # oid
        BY <2>1 DEF SyncInv, TypeOK
      <3> QED
        BY <2>1, <2>2, <3>1 DEF SyncInv, Reported, IsFirst
    <2> QED
      BY <2>2, <2>5, <2>6, <2>7 DEF RunnerInv
  <1>5. CASE ListOpenOrders
    <2>1. UNCHANGED <<order, average, traded, broker, runner, risk, oid, reply>>
      BY <1>5 DEF ListOpenOrders, orderVars, runnerVars
    <2>2. SyncInv'
      BY <1>5, <2>1 DEF ListOpenOrders, IsOpen, SyncInv
    <2> QED
      BY <2>1, <2>2, OrderFrame, RunnerFrame
  <1>6. ASSUME NEW o \in Orders, FetchStatus(o)
        PROVE  OrdersRight'
    <2>1. UNCHANGED <<order, average, traded, broker, runner, risk, oid, reply, queue>>
      BY <1>6 DEF FetchStatus, orderVars, runnerVars
    <2>2. broker[o] \in BrokerOrders /\ broker[o].status # "none" /\ answer' \in Reports(broker[o])
      BY <1>6 DEF FetchStatus, IsFirst, SyncInv, OrderInv, TypeOK
    <2>3. Reported(answer', o)
      BY <2>2, ReportType DEF Reported, BrokerOrders
    <2>4. \A p \in queue : IsFirst(p) => p = o
      BY <1>6 DEF FetchStatus, IsFirst, Orders, TypeOK
    <2>5. SyncInv'
      BY <2>1, <2>3, <2>4 DEF SyncInv, Reported, IsFirst
    <2> QED
      BY <2>1, <2>5, OrderFrame, RunnerFrame
  <1>7. ASSUME NEW o \in Orders, FetchFails(o)
        PROVE  OrdersRight'
    <2>1. UNCHANGED <<order, average, traded, broker, runner, risk, oid, reply>>
      BY <1>7 DEF FetchFails, orderVars, runnerVars
    <2>2. SyncInv'
      BY <1>7, <2>1 DEF FetchFails, NextOrder, SyncInv
    <2> QED
      BY <2>1, <2>2, OrderFrame, RunnerFrame
  <1>8. ASSUME NEW o \in Orders, SyncCommit(o)
        PROVE  OrdersRight'
    <2>1. /\ order[o] = "SUBMITTED" /\ broker[o].status # "none" /\ Reported(answer, o)
          /\ \A p \in Orders : p # o => /\ order'[p] = order[p] /\ average'[p] = average[p]
                                       /\ traded'[p] = traded[p]
          /\ order'[o] \in {order[o], MapOrderStatus(answer.status)}
          /\ traded'[o] <= broker[o].filled
          /\ order'[o] \in Terminal =>
                traded'[o] = IF average'[o] = "known" THEN broker[o].filled ELSE traded[o]
      BY <1>8, SyncCommitFacts
    <2>2. UNCHANGED <<broker, runner, risk, oid, reply>>
      BY <1>8 DEF SyncCommit, runnerVars
    <2>3. queue' = queue \ {o} /\ sync' \in {"idle", "loop"}
      BY <1>8 DEF SyncCommit, NextOrder
    <2>4. answer \in Answers
      BY DEF TypeOK
    <2>5. /\ order'[o] # "NONE"
          /\ order'[o] \in Terminal => broker[o].status \in Done
      BY <2>1, <2>4, MapType DEF Reported, Terminal, Done
    <2>6. OrderInv' /\ FinalOrdersAreBooked' /\ NoDoubleFill'
      BY <2>1, <2>2, <2>5 DEF OrderInv, FinalOrdersAreBooked, NoDoubleFill
    <2>7. RunnerInv'
      BY <2>1, <2>2 DEF RunnerInv, Reported
    <2>8. SyncInv'
      BY <2>1, <2>3 DEF SyncInv, TypeOK
    <2> QED
      BY <2>6, <2>7, <2>8
  <1>9. CASE BrokerNext
    BY <1>9, BrokerStep DEF BrokerNext
  <1>10. CASE Crash
    <2>1. UNCHANGED <<order, average, traded, broker>> /\ runner' = "idle" /\ queue' = {}
      BY <1>10 DEF Crash, RunnerIdle, orderVars
    <2> QED
      BY <2>1, OrderFrame DEF RunnerInv, SyncInv
  <1>11. CASE UNCHANGED vars
    BY <1>11, OrderFrame, RunnerFrame, SyncFrame DEF vars, orderVars, runnerVars, syncVars
  <1> QED
    BY <1>1, <1>2, <1>3, <1>4, <1>5, <1>6, <1>7, <1>8, <1>9, <1>10, <1>11
       DEF Next, RunnerNext, SyncNext

-----------------------------------------------------------------------------
(***************************************************************************)
(* The theorems                                                            *)
(***************************************************************************)

\* The inductive invariant.
IInv == TypeOK /\ OrdersRight /\ CopyInv /\ Money

\* The invariant holds when the experiment is created.
LEMMA InitInv == Init => IInv
  <1> SUFFICES ASSUME Init
               PROVE  IInv
    OBVIOUS
  <1>1. TypeOK
    <2>1. crashes \in 0..MaxCrashes
      BY AccountingAssumption DEF Init
    <2>2. broker \in [Orders -> BrokerOrders]
      BY DEF Init, BrokerOrders
    <2>3. /\ order \in [Orders -> OrderStatus] /\ side \in [Orders -> {"NONE", "BUY", "SELL"}]
          /\ quantity \in [Orders -> Nat] /\ traded \in [Orders -> Nat] /\ paid \in [Orders -> Nat]
          /\ average \in [Orders -> AveragePrice]
      BY DEF Init, OrderStatus, AveragePrice
    <2>4. /\ portfolio \in Portfolios /\ rcopy \in Portfolios /\ scopy \in Portfolios
          /\ reply \in Answers /\ answer \in Answers /\ oid \in Orders \cup {NoOrder}
          /\ risk \in [action : TradeAction, quantity : Nat, price : Nat]
      BY IdleTypes DEF Init
    <2>5. net \in [cash : Int, shares : Int, clamped : Nat] /\ queue \subseteq Orders
      BY DEF Init
    <2>6. /\ active \in BOOLEAN /\ staleWrite \in BOOLEAN /\ lostFill \in BOOLEAN
          /\ runner \in {"idle", "decide", "broker", "record"}
          /\ sync \in {"idle", "loop", "commit"}
      BY DEF Init
    <2> QED
      BY <2>1, <2>2, <2>3, <2>4, <2>5, <2>6 DEF TypeOK
  <1>2. OrdersRight
    BY DEF Init, OrdersRight, OrderInv, RunnerInv, SyncInv, NoDoubleFill,
           FinalOrdersAreBooked, Terminal, Done
  <1>3. CopyInv /\ Money
    BY AccountingAssumption
       DEF Init, CopyInv, Money, InitialPortfolio, PositionNotNegative, Balanced, Current
  <1> QED
    BY <1>1, <1>2, <1>3 DEF IInv

\* Every step keeps it.
LEMMA NextInv == IInv /\ [Next]_vars => IInv'
  BY TypeStep, OrderStep, CopyStep, MoneyStep DEF IInv, OrdersRight, Money

\* The inductive invariant holds in every reachable state.
THEOREM InvariantHolds == Spec => []IInv
  BY InitInv, NextInv, PTL DEF Spec

\* The state of an experiment's books is always well typed.
THEOREM TypeCorrect == Spec => []TypeOK
  BY InvariantHolds, PTL DEF IInv

\* Whatever the order of answers, retries and crashes, the trades of an order
\* never book more shares than the broker has filled.
THEOREM FillsBookedOnce == Spec => []NoDoubleFill
  <1>1. IInv => NoDoubleFill
    BY DEF IInv, OrdersRight
  <1> QED
    BY <1>1, InvariantHolds, PTL

\* An order whose row is final and has an average price has all its shares booked:
\* a partial fill before the cancellation is never forgotten, nor one that an
\* earlier answer reported without a price.
THEOREM FinalOrdersBooked == Spec => []FinalOrdersAreBooked
  <1>1. IInv => FinalOrdersAreBooked
    BY DEF IInv, OrdersRight
  <1> QED
    BY <1>1, InvariantHolds, PTL

\* As long as no fill was booked on an outdated copy, cash and position are what
\* the trades make of the initial capital.
THEOREM BooksAreBalanced == Spec => []BooksBalance
  <1>1. IInv => BooksBalance
    BY DEF IInv, Money, Balanced, BooksBalance
  <1> QED
    BY <1>1, InvariantHolds, PTL

\* As long as no outdated copy was written, the stored value is cash plus
\* position at the stored price.
THEOREM ValueStaysCurrent == Spec => []ValueIsCurrent
  <1>1. IInv => ValueIsCurrent
    BY DEF IInv, Money, Current, ValueIsCurrent
  <1> QED
    BY <1>1, InvariantHolds, PTL

\* The local position is never negative, stale copies and overlapping SELLs
\* included.
THEOREM PositionStaysNotNegative == Spec => []PositionNotNegative
  <1>1. IInv => PositionNotNegative
    BY DEF IInv, Money
  <1> QED
    BY <1>1, InvariantHolds, PTL

\* No step changes the status of an order that is final or given up.
THEOREM FinalStatusIsKept == Spec => FinalStatusStays
  <1> DEFINE Kept == \A o \in Orders :
                        order[o] \in Terminal \cup {"FAILED"} => order'[o] = order[o]
  <1>1. IInv /\ [Next]_vars => Kept
    <2> SUFFICES ASSUME IInv, [Next]_vars, NEW o \in Orders,
                        order[o] \in Terminal \cup {"FAILED"}
                 PROVE  order'[o] = order[o]
      BY DEF Kept
    <2> USE DEF IInv, OrdersRight
    <2>1. CASE RecordOrder
      <3>1. oid \in Orders /\ order[oid] = "NONE"
        BY <2>1, RecordOrderFacts
      <3> QED
        BY <2>1, <3>1, RecordOrderFacts DEF Terminal
    <2>2. ASSUME NEW p \in Orders, SyncCommit(p)
          PROVE  order'[o] = order[o]
      <3>1. order[p] = "SUBMITTED"
        BY <2>2, SyncCommitFacts
      <3> QED
        BY <2>2, <3>1, SyncCommitFacts DEF Terminal
    <2>3. CASE \/ LoadPortfolio \/ \E price \in Prices : HoldStep(price) \/ ApproveOrder(price)
               \/ \E p \in Orders : PlaceOrder(p)
               \/ PlaceOrderRaises \/ RecordFails
      BY <2>3 DEF LoadPortfolio, HoldStep, ApproveOrder, PlaceOrder, PlaceOrderRaises,
                  RecordFails, orderVars
    <2>4. CASE \/ ListOpenOrders \/ \E p \in Orders : FetchStatus(p) \/ FetchFails(p)
               \/ BrokerNext \/ Crash \/ UNCHANGED vars
      BY <2>4 DEF ListOpenOrders, FetchStatus, FetchFails, BrokerNext, BrokerCancels,
                  BrokerFills, Crash, vars, orderVars
    <2> QED
      BY <2>1, <2>2, <2>3, <2>4 DEF Next, RunnerNext, SyncNext
  <1>2. IInv /\ [Next]_vars => [Kept]_vars
    BY <1>1
  <1> QED
    BY <1>2, InvariantHolds, PTL DEF Spec, FinalStatusStays

-----------------------------------------------------------------------------
(***************************************************************************)
(* The refinement                                                          *)
(***************************************************************************)

\* The order o in the terms of the ledger.
StateAtBroker(o) == IF broker[o].status \in Done THEN "done" ELSE broker[o].status

\* A commit that books order o on filled shares and leaves its row open, settles it
\* with the last of them, or closes it without booking more.
LEMMA BookingStep ==
    ASSUME TypeOK, NEW o \in Orders, UNCHANGED broker,
           broker[o].status # "none", order[o] \notin Terminal,
           order' \in [Orders -> OrderStatus], traded' \in [Orders -> Nat],
           \A p \in Orders : p # o => /\ order'[p] = order[p] /\ average'[p] = average[p]
                                     /\ traded'[p] = traded[p],
           traded[o] <= traded'[o], traded'[o] <= broker[o].filled,
           order'[o] \in Terminal =>
               /\ broker[o].status \in Done
               /\ traded'[o] = IF average'[o] = "known" THEN broker[o].filled ELSE traded[o],
           average'[o] \in AveragePrice
    PROVE  Fills!Book(o) \/ Fills!WriteOff(o)
  <1> DEFINE closed == {p \in Orders : order[p] \in Terminal /\ ~Unpriced(p)}
             lost == {p \in Orders : order[p] \in Terminal /\ Unpriced(p)}
  <1>1. /\ order \in [Orders -> OrderStatus] /\ traded \in [Orders -> Nat]
        /\ broker \in [Orders -> BrokerOrders] /\ broker[o].filled \in Nat
    BY DEF TypeOK, BrokerOrders
  <1>2. traded' = [traded EXCEPT ![o] = traded'[o]] /\ traded'[o] \in traded[o]..broker[o].filled
    BY <1>1
  <1>3. o \notin closed \cup lost
    OBVIOUS
  <1>4. \A p \in Orders : p # o => (order'[p] = order[p] /\ (Unpriced(p)' <=> Unpriced(p)))
    BY DEF Unpriced
  <1>5. CASE order'[o] \in Terminal /\ ~Unpriced(o)'
    <2>1. closed' = closed \cup {o} /\ lost' = lost
      BY <1>4, <1>5
    <2>2. traded'[o] = broker[o].filled
      <3>1. average'[o] = "known" \/ broker[o].filled = 0
        BY <1>1, <1>5 DEF Unpriced, AveragePrice
      <3> QED
        BY <1>1, <1>5, <3>1
    <2> QED
      BY <1>2, <1>3, <1>5, <2>1, <2>2 DEF Fills!Book, Done
  <1>6. CASE order'[o] \in Terminal /\ Unpriced(o)'
    <2>1. closed' = closed /\ lost' = lost \cup {o}
      BY <1>4, <1>6
    <2>2. average'[o] # "known" /\ broker[o].filled > 0
      BY <1>6 DEF Unpriced
    <2>3. UNCHANGED traded
      BY <1>1, <1>2, <1>6, <2>2
    <2> QED
      BY <1>3, <1>6, <2>1, <2>2, <2>3 DEF Fills!WriteOff
  <1>7. CASE order'[o] \notin Terminal
    <2>1. closed' = closed /\ lost' = lost
      BY <1>4, <1>7
    <2> QED
      BY <1>2, <1>3, <2>1 DEF Fills!Book, Done
  <1> QED
    BY <1>5, <1>6, <1>7

\* Recording an order books what the broker's answer brought.
LEMMA RecordBooks ==
    ASSUME IInv, RecordOrder
    PROVE  \E o \in Orders : Fills!Book(o) \/ Fills!WriteOff(o)
  <1>0. TypeOK /\ OrderInv /\ RunnerInv
    BY DEF IInv, OrdersRight
  <1>1. PICK o \in Orders : o = oid
    BY <1>0, RecordOrderFacts
  <1>2. /\ order[o] = "NONE" /\ traded[o] = 0
        /\ broker[o].status # "none" /\ Reported(reply, o)
        /\ order' \in [Orders -> OrderStatus] /\ traded' \in [Orders -> Nat]
        /\ order'[o] = MapOrderStatus(reply.status)
        /\ \A p \in Orders : p # o => /\ order'[p] = order[p] /\ average'[p] = average[p]
                                     /\ traded'[p] = traded[p]
        /\ average'[o] = reply.average
        /\ traded'[o] = IF reply.average = "known" THEN reply.filled ELSE 0
    BY <1>0, <1>1, RecordOrderFacts
  <1>3. /\ reply \in Answers /\ reply.filled \in Nat /\ reply.average \in AveragePrice
        /\ broker[o].filled \in Nat
    BY <1>0 DEF TypeOK, Answers, BrokerOrders
  <1>4. traded[o] <= traded'[o] /\ traded'[o] <= broker[o].filled
    BY <1>2, <1>3 DEF Reported
  <1>5. order'[o] \in Terminal => reply.filled = broker[o].filled /\ broker[o].status \in Done
    BY <1>2, <1>3, MapType DEF Reported
  <1>6. order[o] \notin Terminal /\ UNCHANGED broker
    BY <1>2 DEF Terminal, RecordOrder
  <1>7. order'[o] \in Terminal =>
           /\ broker[o].status \in Done
           /\ traded'[o] = IF average'[o] = "known" THEN broker[o].filled ELSE traded[o]
    BY <1>2, <1>5
  <1>8. Fills!Book(o) \/ Fills!WriteOff(o)
    BY <1>0, <1>2, <1>3, <1>4, <1>6, <1>7, BookingStep
  <1> QED
    BY <1>8

\* A synchronisation books the shares that are new.
LEMMA SyncBooks ==
    ASSUME IInv, NEW o \in Orders, SyncCommit(o)
    PROVE  Fills!Book(o) \/ Fills!WriteOff(o)
  <1> USE DEF IInv, OrdersRight
  <1>1. /\ order[o] = "SUBMITTED" /\ broker[o].status # "none" /\ Reported(answer, o)
        /\ order' \in [Orders -> OrderStatus] /\ traded' \in [Orders -> Nat]
        /\ average' \in [Orders -> AveragePrice]
        /\ \A p \in Orders : p # o => /\ order'[p] = order[p] /\ average'[p] = average[p]
                                     /\ traded'[p] = traded[p]
        /\ order'[o] \in {order[o], MapOrderStatus(answer.status)}
        /\ traded[o] <= traded'[o] /\ traded'[o] <= broker[o].filled
        /\ order'[o] \in Terminal =>
              traded'[o] = IF average'[o] = "known" THEN broker[o].filled ELSE traded[o]
    BY SyncCommitFacts
  <1>2. order[o] \notin Terminal /\ UNCHANGED broker
    BY <1>1 DEF Terminal, SyncCommit
  <1>3. order'[o] \in Terminal => broker[o].status \in Done
    BY <1>1, <1>2, MapType DEF Reported, TypeOK
  <1>4. average'[o] \in AveragePrice
    BY <1>1
  <1> QED
    BY <1>1, <1>2, <1>3, <1>4, BookingStep

\* A placed order is accepted.
LEMMA PlaceAccepts ==
    ASSUME IInv, NEW o \in Orders, PlaceOrder(o)
    PROVE  Fills!Accept(o)
  <1> USE DEF IInv, OrdersRight
  <1>1. /\ broker[o].status = "none"
        /\ broker' \in [Orders -> BrokerOrders] /\ broker'[o].status # "none"
        /\ \A p \in Orders : p # o => broker'[p] = broker[p]
    BY PlaceFacts
  <1>2. UNCHANGED <<order, average, traded>> /\ order[o] = "NONE"
    BY PlaceFacts DEF PlaceOrder
  <1> DEFINE closed == {p \in Orders : order[p] \in Terminal /\ ~Unpriced(p)}
             lost == {p \in Orders : order[p] \in Terminal /\ Unpriced(p)}
  <1>6. closed' = closed /\ lost' = lost
    BY <1>1, <1>2 DEF Unpriced, Terminal
  <1> DEFINE st(p) == StateAtBroker(p)
             before == [p \in Orders |-> st(p)]
             shares == [p \in Orders |-> broker[p].filled]
  <1>3. \E s \in {"open", "done"} : before' = [before EXCEPT ![o] = s]
    <2>1. st(o)' \in {"open", "done"}
      BY <1>1 DEF StateAtBroker, BrokerOrders, Done
    <2>2. \A p \in Orders : p # o => st(p)' = st(p)
      BY <1>1 DEF StateAtBroker
    <2>3. before' = [before EXCEPT ![o] = st(o)']
      BY <2>2
    <2> QED
      BY <2>1, <2>3
  <1>4. shares'[o] \in Nat /\ shares' = [shares EXCEPT ![o] = shares'[o]]
    BY <1>1 DEF BrokerOrders
  <1>5. before[o] = "none"
    BY <1>1 DEF StateAtBroker, Done
  <1> QED
    BY <1>2, <1>3, <1>4, <1>5, <1>6 DEF Fills!Accept, StateAtBroker

\* The broker fills a share or ends an order.
LEMMA BrokerWorks ==
    ASSUME TypeOK, OrderInv, NEW o \in Orders,
           BrokerCancels(o) \/ \E p \in Prices : BrokerFills(o, p)
    PROVE  Fills!Work(o)
  <1>0. broker \in [Orders -> BrokerOrders]
    BY DEF TypeOK
  <1>1. /\ broker[o].status = "open" /\ UNCHANGED <<order, average, traded>>
        /\ \A p \in Orders : p # o => broker'[p] = broker[p]
    BY <1>0 DEF BrokerCancels, BrokerFills, orderVars
  <1>2. /\ broker'[o].status \in {"open", "filled", "canceled"}
        /\ broker'[o].filled \in {broker[o].filled, broker[o].filled + 1}
    BY <1>0 DEF BrokerCancels, BrokerFills, BrokerOrders
  <1> DEFINE st(p) == StateAtBroker(p)
             before == [p \in Orders |-> st(p)]
             shares == [p \in Orders |-> broker[p].filled]
  <1>3. st(o)' \in {"open", "done"} /\ \A p \in Orders : p # o => st(p)' = st(p)
    BY <1>1, <1>2 DEF StateAtBroker, Done
  <1>4. before' = [before EXCEPT ![o] = st(o)']
    BY <1>3
  <1>5. PICK n \in {0, 1} : broker'[o].filled = broker[o].filled + n
    BY <1>0, <1>2 DEF BrokerOrders
  <1>6. shares' = [shares EXCEPT ![o] = @ + n]
    BY <1>1, <1>5
  <1>7. before[o] = "open"
    BY <1>1 DEF StateAtBroker, Done
  <1> DEFINE closed == {p \in Orders : order[p] \in Terminal /\ ~Unpriced(p)}
             lost == {p \in Orders : order[p] \in Terminal /\ Unpriced(p)}
  <1>8. order[o] \notin Terminal
    BY <1>1 DEF OrderInv, Done
  <1>9. closed' = closed /\ lost' = lost
    BY <1>1, <1>8 DEF Unpriced
  <1> QED
    BY <1>1, <1>3, <1>4, <1>6, <1>7, <1>9 DEF Fills!Work, StateAtBroker

\* Whoever books, a share is booked once, after it has been filled, and a final row
\* says that all are, unless the broker named no price and it is written off: the
\* books keep the ledger of fills.
THEOREM ImplementsFillLedger == Spec => FillsSpec
  <1>1. Init => Fills!Init
    BY DEF Init, Fills!Init, Done, Terminal
  <1>2. IInv /\ [Next]_vars => [Fills!Next]_(Fills!ledger)
    <2> SUFFICES ASSUME IInv, [Next]_vars
                 PROVE  Fills!Next \/ UNCHANGED Fills!ledger
      OBVIOUS
    <2>1. CASE RecordOrder
      BY <2>1, RecordBooks DEF Fills!Next
    <2>2. CASE \E o \in Orders : SyncCommit(o)
      BY <2>2, SyncBooks DEF Fills!Next
    <2>3. CASE \E o \in Orders : PlaceOrder(o)
      BY <2>3, PlaceAccepts DEF Fills!Next
    <2>4. CASE BrokerNext
      <3>1. PICK o \in Orders : BrokerCancels(o) \/ \E p \in Prices : BrokerFills(o, p)
        BY <2>4 DEF BrokerNext
      <3>2. Fills!Work(o)
        BY <3>1, BrokerWorks DEF IInv, OrdersRight
      <3> QED
        BY <3>2 DEF Fills!Next
    <2>5. CASE UNCHANGED <<broker, order, average, traded>>
      BY <2>5 DEF Fills!ledger, Unpriced
    <2> QED
      BY <2>1, <2>2, <2>3, <2>4, <2>5
         DEF Next, RunnerNext, SyncNext, LoadPortfolio, HoldStep, ApproveOrder,
             PlaceOrderRaises, RecordFails, ListOpenOrders, FetchStatus, FetchFails,
             Crash, vars, orderVars
  <1> QED
    BY <1>1, <1>2, InvariantHolds, PTL DEF Spec, FillsSpec, Fills!Spec

=============================================================================
