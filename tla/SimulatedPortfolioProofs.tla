----------------------- MODULE SimulatedPortfolioProofs -----------------------
(***************************************************************************)
(* The books of a historical run, for every market, capital, window and    *)
(* length of run.                                                          *)
(***************************************************************************)
EXTENDS SimulatedPortfolio, WellFoundedInduction, TLAPS

\* The types of what decides about a bar.
RunTypes ==
    /\ strategy \in Strategies
    /\ portfolio \in Portfolios
    /\ session \in Sessions
    /\ trades \in Seq(Trades)

\* The trades pair up, and the position is the one that is still open.
PairInv ==
    /\ SellClosesBuy
    /\ Len(trades) % 2 = 0 => portfolio.position = 0
    /\ Len(trades) % 2 = 1 => portfolio.position = trades[Len(trades)].quantity

\* The session of the next bar is the latest, and remembers its round trip.
SessionInv ==
    Intraday =>
        /\ \A i \in DOMAIN trades :
              /\ trades[i].session <= session.number
              /\ trades[i].side = "SELL" /\ trades[i].session = session.number =>
                    session.completed
        /\ session.completed => portfolio.position = 0

\* No recorded value is negative, and the metric is computed from all of them.
HistoryInv ==
    /\ closes \in Seq(Prices) /\ values \in Seq(Nat)
    /\ drawdown = MaxDrawdown(values)

IInv ==
    /\ RunTypes
    /\ HistoryInv
    /\ NeverNegative
    /\ ValueIsCurrent
    /\ PairInv
    /\ SessionInv
    /\ OneRoundTrip
    /\ HeldOvernight

-----------------------------------------------------------------------------
(***************************************************************************)
(* Decisions                                                               *)
(***************************************************************************)

\* A strategy buys only without a position.
LEMMA BuysOnlyWhenFlat ==
    ASSUME NEW price, NEW final, NeverNegative, portfolio \in Portfolios,
           Decide(price, final) = "BUY"
    PROVE  portfolio.position = 0
  <1>1. portfolio.position \in Int /\ portfolio.position >= 0
    BY DEF NeverNegative, Portfolios
  <1>2. CASE strategy = "BUY_AND_HOLD"
    BY <1>2 DEF Decide, BuyAndHold
  <1>3. CASE strategy = "MOVING_AVERAGE"
    <2>1. MovingAverage(price, Append(closes, price)) = "BUY"
      BY <1>3 DEF Decide
    <2>2. ~HasPosition
      BY <2>1 DEF MovingAverage
    <2> QED
      BY <1>1, <2>2 DEF HasPosition
  <1>4. CASE strategy \notin {"BUY_AND_HOLD", "MOVING_AVERAGE"}
    BY <1>1, <1>4 DEF Decide, Breakout, HasPosition
  <1> QED
    BY <1>2, <1>3, <1>4

\* Every decision is an action.
LEMMA DecisionIsAction ==
    ASSUME NEW price, NEW final
    PROVE  Decide(price, final) \in TradeAction
  <1>1. MovingAverage(price, Append(closes, price)) \in TradeAction
    BY DEF MovingAverage, TradeAction
  <1> QED
    BY <1>1 DEF Decide, BuyAndHold, Breakout, TradeAction

\* Whole shares cost at most the amount, and one share more would cost more.
LEMMA WholeSharesCost ==
    ASSUME NEW a \in Int, NEW p \in Nat \ {0}
    PROVE  /\ WholeShares(a, p) \in Int
           /\ WholeShares(a, p) * p <= a
           /\ a < (WholeShares(a, p) + 1) * p
  BY DEF WholeShares

\* The risk check sells the whole position, buys what the cash pays for and never
\* turns a decision around.
LEMMA EvaluateFollows ==
    ASSUME NEW action \in TradeAction, NEW p \in Portfolios, NEW price \in Nat \ {0},
           NEW r, r = Evaluate(action, p, price)
    PROVE  /\ r.action \in TradeAction /\ r.action # "HOLD" => r.action = action
           /\ r.action = "HOLD" => r = Hold
           /\ r.action = "BUY" => r.quantity \in Nat \ {0} /\ r.quantity * price <= p.cash
           /\ r.action = "SELL" => r.quantity = p.position /\ p.position \in Nat \ {0}
           /\ action = "SELL" /\ p.position >= 1 => r.action = "SELL"
           /\ r.action \in TradeAction
  <1>1. p.cash \in Int /\ p.position \in Int
    BY DEF Portfolios
  <1>2. WholeShares(p.cash, price) \in Int /\ WholeShares(p.cash, price) * price <= p.cash
    BY <1>1, WholeSharesCost
  <1> QED
    BY <1>1, <1>2 DEF Evaluate, Hold, Buy, Sell, BuyOrHold, SellOrHold, TradeAction

-----------------------------------------------------------------------------
(***************************************************************************)
(* One bar                                                                 *)
(***************************************************************************)

\* Cash pays for a BUY and the position covers a SELL.
LEMMA ExecuteStaysCovered ==
    ASSUME NEW action \in TradeAction, NEW p \in Portfolios, NEW price \in Nat \ {0},
           p.cash >= 0, p.position >= 0,
           NEW r, r = Evaluate(action, p, price),
           NEW q, q = Execute(r, p, price)
    PROVE  /\ q \in Portfolios
           /\ q.cash >= 0 /\ q.position >= 0
           /\ r.action = "BUY" => q.position = p.position + r.quantity
           /\ r.action = "SELL" => q.position = 0
           /\ r.action = "HOLD" => q.position = p.position
  <1>1. p.cash \in Int /\ p.position \in Int /\ p.price \in Int /\ p.value \in Int
    BY DEF Portfolios
  <1>2. /\ r.action = "BUY" => r.quantity >= 1 /\ r.quantity * price <= p.cash
        /\ r.action = "BUY" => r.quantity \in Nat \ {0}
        /\ r.action = "SELL" => r.quantity \in Nat \ {0}
        /\ r.action \in TradeAction
    BY EvaluateFollows
  <1> DEFINE cost == r.quantity * price
  <1>3. CASE r.action = "BUY"
    <2>1. cost \in Int /\ cost <= p.cash
      BY <1>2, <1>3
    <2>2. q = [p EXCEPT !.cash = p.cash - cost, !.position = p.position + r.quantity]
      BY <1>3 DEF Execute
    <2> HIDE DEF cost
    <2>3. /\ q.cash = p.cash - cost /\ q.position = p.position + r.quantity
          /\ q \in Portfolios
      <3> DEFINE c == p.cash - cost
                 k == p.position + r.quantity
      <3>1. c \in Int /\ k \in Int
        BY <1>1, <1>2, <1>3, <2>1
      <3>2. q = [p EXCEPT !.cash = c, !.position = k]
        BY <2>2
      <3>3. q \in Portfolios /\ q.cash = c /\ q.position = k
        <4> HIDE DEF c, k
        <4> QED
          BY <3>1, <3>2 DEF Portfolios
      <3> QED
        BY <3>3
    <2>4. q.cash >= 0 /\ q.position >= 0
      BY <1>1, <1>2, <1>3, <2>1, <2>3
    <2> QED
      BY <1>3, <2>3, <2>4
  <1>4. CASE r.action = "SELL"
    <2>1. cost \in Int /\ cost >= 0
      BY <1>2, <1>4
    <2>2. q = [p EXCEPT !.cash = p.cash + cost, !.position = 0]
      BY <1>4 DEF Execute
    <2> HIDE DEF cost
    <2>3. q.cash = p.cash + cost /\ q.position = 0 /\ q \in Portfolios
      <3> DEFINE c == p.cash + cost
      <3>1. c \in Int /\ 0 \in Int
        BY <1>1, <2>1
      <3>2. q = [p EXCEPT !.cash = c, !.position = 0]
        BY <2>2
      <3>3. q \in Portfolios /\ q.cash = c /\ q.position = 0
        <4> HIDE DEF c
        <4> QED
          BY <3>1, <3>2 DEF Portfolios
      <3> QED
        BY <3>3
    <2>4. q.cash >= 0 /\ q.position >= 0
      BY <1>1, <2>1, <2>3
    <2> QED
      BY <1>4, <2>3, <2>4
  <1>5. CASE r.action = "HOLD"
    BY <1>1, <1>5 DEF Execute, Portfolios
  <1> QED
    BY <1>2, <1>3, <1>4, <1>5 DEF TradeAction

\* What a bar does, once its decision is made: the facts the steps below share.
LEMMA BarFacts ==
    ASSUME IInv, NEW price \in Prices, NEW final \in BOOLEAN, RunBar(price, final),
           NEW r, r = Evaluate(Decide(price, final), portfolio, price)
    PROVE  /\ portfolio' \in Portfolios
           /\ portfolio'.cash >= 0 /\ portfolio'.position >= 0
           /\ portfolio'.value = portfolio'.cash + portfolio'.position * portfolio'.price
           /\ portfolio'.price = price
           /\ strategy' = strategy
           /\ \/ /\ r.action = "HOLD"
                 /\ trades' = trades
                 /\ portfolio'.position = portfolio.position
              \/ \E t \in Trades :
                    /\ trades' = Append(trades, t)
                    /\ t.side = r.action /\ t.session = session.number
                    /\ t.opening = OpeningRange /\ t.final = final
                    /\ \/ /\ t.side = "BUY"
                          /\ portfolio.position = 0
                          /\ portfolio'.position = t.quantity
                       \/ /\ t.side = "SELL"
                          /\ portfolio.position = t.quantity
                          /\ portfolio'.position = 0
  <1>1. price \in Nat \ {0}
    BY SimulationAssumption
  <1>2. portfolio \in Portfolios /\ portfolio.cash >= 0 /\ portfolio.position >= 0
    BY DEF IInv, RunTypes, NeverNegative
  <1>3. Decide(price, final) \in TradeAction
    BY DecisionIsAction
  <1> DEFINE q == Execute(r, portfolio, price)
  <1>4. /\ q \in Portfolios
        /\ q.cash >= 0 /\ q.position >= 0
        /\ r.action = "BUY" => q.position = portfolio.position + r.quantity
        /\ r.action = "SELL" => q.position = 0
        /\ r.action = "HOLD" => q.position = portfolio.position
    BY <1>1, <1>2, <1>3, ExecuteStaysCovered
  <1>5. portfolio' = Valued(q, price) /\ strategy' = strategy
    BY DEF RunBar
  <1>6. /\ trades' = IF r.action = "HOLD" THEN trades
                     ELSE Append(trades,
                            [side |-> r.action, quantity |-> r.quantity, price |-> price,
                             session |-> session.number, opening |-> OpeningRange,
                             final |-> final])
    BY DEF RunBar
  <1> HIDE DEF q
  <1>7. q.position * price \in Int /\ q.cash \in Int /\ q.position \in Int
    BY <1>1, <1>4 DEF Portfolios
  <1> DEFINE value == q.cash + q.position * price
  <1>8. /\ portfolio' \in Portfolios
        /\ portfolio'.cash = q.cash /\ portfolio'.position = q.position
        /\ portfolio'.price = price /\ portfolio'.value = value
    <2>1. portfolio' = [q EXCEPT !.price = price, !.value = value]
      BY <1>5 DEF Valued
    <2>2. value \in Int
      BY <1>7
    <2>3. price \in Int
      BY <1>1
    <2> DEFINE after == portfolio'
    <2>4. /\ after \in Portfolios
          /\ after.cash = q.cash /\ after.position = q.position
          /\ after.price = price /\ after.value = value
      <3>1. after = [q EXCEPT !.price = price, !.value = value]
        BY <2>1
      <3> HIDE DEF value, after
      <3>2. after \in Portfolios
        BY <1>4, <2>2, <2>3, <3>1 DEF Portfolios
      <3>3. after.cash = q.cash /\ after.position = q.position
        BY <1>4, <3>1 DEF Portfolios
      <3>4. after.price = price /\ after.value = value
        BY <1>4, <3>1 DEF Portfolios
      <3> QED
        BY <3>2, <3>3, <3>4
    <2> QED
      BY <2>4
  <1>9. /\ r.action # "HOLD" => r.action = Decide(price, final)
        /\ r.action = "BUY" => r.quantity \in Nat \ {0}
        /\ r.action = "SELL" =>
              r.quantity = portfolio.position /\ portfolio.position \in Nat \ {0}
        /\ r.action \in TradeAction
    BY <1>1, <1>2, <1>3, EvaluateFollows
  <1>10. CASE r.action = "HOLD"
    BY <1>4, <1>5, <1>6, <1>8, <1>10
  <1>11. CASE r.action # "HOLD"
    <2> DEFINE t == [side |-> r.action, quantity |-> r.quantity, price |-> price,
                     session |-> session.number, opening |-> OpeningRange,
                     final |-> final]
    <2>1. session.number \in Nat /\ session.bars \in Nat /\ OpeningRange \in BOOLEAN
      BY DEF IInv, RunTypes, Sessions, OpeningRange
    <2>2. r.action \in {"BUY", "SELL"} /\ r.quantity \in Nat \ {0}
      BY <1>9, <1>11 DEF TradeAction
    <2>3. t \in Trades
      BY <2>1, <2>2 DEF Trades
    <2>4. trades' = Append(trades, t)
      BY <1>6, <1>11
    <2>5. r.action = "BUY" => portfolio.position = 0
      BY <1>2, <1>9, BuysOnlyWhenFlat DEF NeverNegative
    <2>6. \/ /\ t.side = "BUY"
             /\ portfolio.position = 0
             /\ portfolio'.position = t.quantity
          \/ /\ t.side = "SELL"
             /\ portfolio.position = t.quantity
             /\ portfolio'.position = 0
      BY <1>4, <1>8, <1>9, <2>2, <2>5
    <2>7. /\ t.side = r.action /\ t.session = session.number
          /\ t.opening = OpeningRange /\ t.final = final
      OBVIOUS
    <2> HIDE DEF t
    <2> QED
      BY <1>4, <1>5, <1>8, <2>3, <2>4, <2>6, <2>7
  <1> QED
    BY <1>10, <1>11

\* Opening range breakout trades neither in the opening range nor after its round
\* trip, and leaves no position to a session whose last bar it passes without a trade.
LEMMA BreakoutFacts ==
    ASSUME IInv, Intraday, NEW price \in Prices, NEW final \in BOOLEAN,
           RunBar(price, final),
           NEW r, r = Evaluate(Decide(price, final), portfolio, price)
    PROVE  /\ r.action # "HOLD" => ~OpeningRange /\ ~session.completed
           /\ final /\ r.action = "HOLD" => portfolio.position = 0
  <1>1. price \in Nat \ {0}
    BY SimulationAssumption
  <1>2. portfolio \in Portfolios /\ portfolio.position \in Int /\ portfolio.position >= 0
    BY DEF IInv, RunTypes, NeverNegative, Portfolios
  <1>3. Decide(price, final) \in TradeAction
    BY DecisionIsAction
  <1>4. Decide(price, final) = Breakout(price, final)
    BY DEF Decide, Intraday
  <1>5. r.action # "HOLD" => r.action = Decide(price, final)
    BY <1>1, <1>2, <1>3, EvaluateFollows
  <1>6. Decide(price, final) = "SELL" /\ portfolio.position >= 1 => r.action = "SELL"
    BY <1>1, <1>2, <1>3, EvaluateFollows
  <1>7. session.completed => ~HasPosition
    BY <1>2 DEF IInv, SessionInv, HasPosition
  <1>8. final => ~OpeningRange
    BY DEF RunBar
  <1>9. ASSUME r.action # "HOLD"
        PROVE  ~OpeningRange /\ ~session.completed
    <2>1. Breakout(price, final) # "HOLD"
      BY <1>4, <1>5, <1>9
    <2> QED
      BY <2>1, <1>7 DEF Breakout
  <1>10. ASSUME final, r.action = "HOLD"
         PROVE  portfolio.position = 0
    <2>1. CASE HasPosition
      <3>1. Breakout(price, final) = "SELL"
        BY <1>8, <1>10, <2>1 DEF Breakout
      <3>2. portfolio.position >= 1
        BY <1>2, <2>1 DEF HasPosition
      <3> QED
        BY <1>4, <1>6, <1>10, <3>1, <3>2
    <2>2. CASE ~HasPosition
      BY <1>2, <2>2 DEF HasPosition
    <2> QED
      BY <2>1, <2>2
  <1> QED
    BY <1>9, <1>10

\* The next session is one, with its number, and has no round trip yet.
LEMMA NewSessionFacts ==
    ASSUME NEW n \in Nat, NEW s \in NewSession(n)
    PROVE  s \in Sessions /\ s.number = n /\ s.completed = FALSE
  <1>1. s \in [number : {n}, bars : {0}, high : Prices, low : Prices, completed : {FALSE}]
    BY DEF NewSession
  <1>2. s = [number |-> s.number, bars |-> s.bars, high |-> s.high,
             low |-> s.low, completed |-> s.completed]
    BY <1>1
  <1>3. s.number = n /\ s.bars = 0
    BY <1>1
  <1>4. s.high \in Prices /\ s.low \in Prices
    BY <1>1
  <1>5. s.completed = FALSE
    BY <1>1, Zenon
  <1>6. s \in Sessions
    <2>1. s.number \in Nat /\ s.bars \in Nat
      BY <1>3
    <2>2. s.completed \in BOOLEAN
      BY <1>5
    <2> QED
      BY <1>2, <1>4, <2>1, <2>2, Zenon DEF Sessions
  <1> QED
    BY <1>3, <1>5, <1>6

\* The session a bar leaves behind.
LEMMA SessionStep ==
    ASSUME IInv, NEW price \in Prices, NEW final \in BOOLEAN, RunBar(price, final),
           NEW r, r = Evaluate(Decide(price, final), portfolio, price)
    PROVE  /\ session' \in Sessions
           /\ final => session'.number = session.number + 1 /\ ~session'.completed
           /\ ~final => /\ session'.number = session.number
                        /\ session'.completed <=> session.completed \/ r.action = "SELL"
  <1>1. session \in Sessions
    BY DEF IInv, RunTypes
  <1>2. CASE final
    <2>1. session' \in NewSession(session.number + 1)
      BY <1>2 DEF RunBar
    <2>2. session.number + 1 \in Nat
      BY <1>1 DEF Sessions
    <2> QED
      BY <1>2, <2>1, <2>2, NewSessionFacts
  <1>3. CASE ~final
    <2> DEFINE done == session.completed \/ r.action = "SELL"
    <2>1. session' = [session EXCEPT !.bars = session.bars + 1, !.completed = done]
      BY <1>3 DEF RunBar
    <2>2. done \in BOOLEAN /\ session.bars + 1 \in Nat
      BY <1>1 DEF Sessions
    <2>3. session' \in Sessions
      BY <1>1, <2>1, <2>2 DEF Sessions
    <2>4. session'.number = session.number
      BY <1>1, <2>1 DEF Sessions
    <2>5. session'.completed = done
      BY <1>1, <2>1, Zenon DEF Sessions
    <2> QED
      BY <1>3, <2>3, <2>4, <2>5
  <1> QED
    BY <1>2, <1>3

-----------------------------------------------------------------------------
(***************************************************************************)
(* The drawdown                                                            *)
(***************************************************************************)

\* A nonempty set of natural numbers has a least one: the induction of the lemmas
\* below is over the least counterexample.
LEMMA LeastNumber ==
    ASSUME NEW T, T \subseteq Nat, T # {}
    PROVE  \E m \in T : \A n \in T : m <= n
  <1> DEFINE R == OpToRel(<, Nat)
  <1>1. IsWellFoundedOn(R, Nat)
    BY NatLessThanWellFounded
  <1>2. \A x, y \in Nat : <<x, y>> \in R <=> x < y
    BY DEF OpToRel
  <1> HIDE DEF R
  <1>3. PICK x \in T : \A y \in T : ~ (<<y, x>> \in R)
    BY <1>1, WFMin
  <1>4. x \in Nat /\ \A y \in T : y \in Nat /\ ~(y < x)
    BY <1>2, <1>3
  <1>5. \A y \in T : x <= y
    BY <1>4
  <1> QED
    BY <1>5

\* A set that holds zero and every successor is all of the natural numbers.
LEMMA AllNumbers ==
    ASSUME NEW N \in Nat, NEW P, 0 \in P,
           \A n \in Nat : n \in P /\ n < N => n + 1 \in P
    PROVE  \A n \in 0..N : n \in P
  <1> DEFINE T == {n \in 0..N : n \notin P}
  <1> SUFFICES ASSUME T # {} PROVE FALSE
    OBVIOUS
  <1>1. T \subseteq Nat
    OBVIOUS
  <1>2. PICK m \in T : \A n \in T : m <= n
    BY <1>1, LeastNumber
  <1>3. m \in Nat /\ m # 0 /\ m <= N /\ m \notin P
    OBVIOUS
  <1>4. m - 1 \in 0..N /\ m - 1 \notin T /\ m - 1 < N
    BY <1>2, <1>3
  <1>5. m - 1 \in P
    BY <1>4
  <1> QED
    BY <1>3, <1>4, <1>5

\* The recurrence of the loop has a solution on every initial part of the values.
Solves(f, vs, n) ==
    f = [k \in 0..n |-> IF k = 0 THEN [peak |-> 0, worst |-> 0] ELSE Fallen(f[k - 1], vs[k])]

LEMMA LoopHasResult ==
    ASSUME NEW vs, Len(vs) \in Nat
    PROVE  \E f : Solves(f, vs, Len(vs))
  <1> DEFINE P == {n \in Nat : \E f : Solves(f, vs, n)}
  <1>1. 0 \in P
    <2> DEFINE f == [k \in 0..0 |-> [peak |-> 0, worst |-> 0]]
    <2>1. Solves(f, vs, 0)
      BY DEF Solves
    <2> QED
      BY <2>1
  <1>2. ASSUME NEW n \in Nat, n \in P
        PROVE  n + 1 \in P
    <2>1. PICK f : Solves(f, vs, n)
      BY <1>2
    <2> DEFINE g == [k \in 0..(n + 1) |-> IF k <= n THEN f[k] ELSE Fallen(f[n], vs[n + 1])]
    <2>2. \A k \in 0..(n + 1) :
             g[k] = IF k = 0 THEN [peak |-> 0, worst |-> 0] ELSE Fallen(g[k - 1], vs[k])
      <3> TAKE k \in 0..(n + 1)
      <3>1. CASE k <= n
        <4>1. k \in 0..n /\ g[k] = f[k] /\ (k # 0 => k - 1 \in 0..(n + 1) /\ g[k - 1] = f[k - 1])
          BY <3>1
        <4>2. f[k] = IF k = 0 THEN [peak |-> 0, worst |-> 0] ELSE Fallen(f[k - 1], vs[k])
          BY <2>1, <4>1 DEF Solves
        <4> QED
          BY <4>1, <4>2
      <3>2. CASE k = n + 1
        <4>1. g[k] = Fallen(f[n], vs[n + 1]) /\ g[k - 1] = f[n] /\ k # 0
          BY <3>2
        <4> QED
          BY <3>2, <4>1
      <3> QED
        BY <3>1, <3>2
    <2>3. g = [k \in 0..(n + 1) |-> g[k]]
      OBVIOUS
    <2> HIDE DEF g
    <2>4. Solves(g, vs, n + 1)
      BY <2>2, <2>3 DEF Solves
    <2> QED
      BY <2>4
  <1> HIDE DEF P
  <1>3. Len(vs) \in P
    BY <1>1, <1>2, AllNumbers
  <1> QED
    BY <1>3 DEF P

LEMMA LoopSteps ==
    ASSUME NEW vs, Len(vs) \in Nat
    PROVE  /\ Drawdowns(vs)[0] = [peak |-> 0, worst |-> 0]
           /\ \A n \in 1..Len(vs) : Drawdowns(vs)[n] = Fallen(Drawdowns(vs)[n - 1], vs[n])
  <1>1. \E f : Solves(f, vs, Len(vs))
    BY LoopHasResult
  <1>2. Drawdowns(vs) = CHOOSE f : Solves(f, vs, Len(vs))
    BY DEF Drawdowns, Solves
  <1>3. Solves(Drawdowns(vs), vs, Len(vs))
    BY <1>1, <1>2
  <1> DEFINE f == Drawdowns(vs)
  <1>4. f = [k \in 0..Len(vs) |-> IF k = 0 THEN [peak |-> 0, worst |-> 0] ELSE Fallen(f[k - 1], vs[k])]
    BY <1>3 DEF Solves
  <1> HIDE DEF f
  <1>5. /\ f[0] = [peak |-> 0, worst |-> 0]
        /\ \A n \in 1..Len(vs) : f[n] = Fallen(f[n - 1], vs[n])
    BY <1>4
  <1> QED
    BY <1>5 DEF f

\* Rounded down, the fall of a value is worse from a higher peak.
LEMMA HigherPeakWorse ==
    ASSUME NEW v \in Nat, NEW a \in Nat \ {0}, NEW b \in Nat \ {0}, a <= b
    PROVE  ((v - b) * Percent) \div b <= ((v - a) * Percent) \div a
  <1> DEFINE q == ((v - b) * Percent) \div b
             r == ((v - a) * Percent) \div a
             w == v * Percent
  <1>0. Percent \in Nat \ {0}
    BY SimulationAssumption
  <1>1. w \in Nat /\ (v - b) * Percent = w - b * Percent /\ (v - a) * Percent = w - a * Percent
    BY <1>0
  <1>2. q \in Int /\ r \in Int
    BY <1>0
  <1>3. q * b <= w - b * Percent
    <2> DEFINE z == (v - b) * Percent
    <2>1. z \in Int
      BY <1>0
    <2> HIDE DEF z
    <2>2. (z \div b) * b <= z
      BY <2>1
    <2> QED
      BY <1>1, <2>2 DEF z
  <1>4. w - a * Percent < (r + 1) * a
    <2> DEFINE z == (v - a) * Percent
    <2>1. z \in Int
      BY <1>0
    <2> HIDE DEF z
    <2>2. z < ((z \div a) + 1) * a
      BY <2>1
    <2> QED
      BY <1>1, <2>2 DEF z
  <1> HIDE DEF q, r, w
  <1>5. (q + Percent) * b <= w /\ (q + Percent) * b = q * b + b * Percent
    BY <1>0, <1>1, <1>2, <1>3
  <1>6. w < (r + 1 + Percent) * a
    BY <1>0, <1>1, <1>2, <1>4
  <1>7. (q + Percent) * a <= w
    <2> DEFINE c == q + Percent
    <2>1. c \in Int
      BY <1>0, <1>2
    <2>2. c * b <= w
      BY <1>5
    <2> DEFINE x == c * b
               y == c * a
    <2> HIDE DEF c
    <2>3. x \in Int /\ y \in Int /\ c * (b - a) = x - y
      BY <2>1
    <2>4. y <= w
      <3>1. CASE c >= 0
        <4>1. c * (b - a) >= 0
          BY <2>1, <3>1
        <4> HIDE DEF x, y
        <4> QED
          BY <1>1, <2>2, <2>3, <4>1 DEF x
      <3>2. CASE c < 0
        <4>1. y <= 0
          BY <2>1, <3>2
        <4> HIDE DEF x, y
        <4> QED
          BY <1>1, <2>3, <4>1
      <3> QED
        BY <2>1, <3>1, <3>2
    <2> QED
      BY <2>4 DEF c
  <1>8. q <= r
    <2> SUFFICES ASSUME r < q PROVE FALSE
      BY <1>2
    <2>1. (q + Percent - (r + 1 + Percent)) * a >= 0
      BY <1>0, <1>2
    <2>2. (q + Percent - (r + 1 + Percent)) * a = (q + Percent) * a - (r + 1 + Percent) * a
      BY <1>0, <1>2
    <2> QED
      BY <1>0, <1>1, <1>2, <1>6, <1>7, <2>1, <2>2
  <1> QED
    BY <1>8 DEF q, r

\* A value as high as the start is no fall.
LEMMA RiseIsNoFall ==
    ASSUME NEW v \in Nat, NEW a \in Nat \ {0}, a <= v
    PROVE  0 <= ((v - a) * Percent) \div a
  <1> DEFINE z == (v - a) * Percent
  <1>1. z \in Nat
    BY SimulationAssumption
  <1> HIDE DEF z
  <1>2. 0 <= z \div a
    BY <1>1
  <1> QED
    BY <1>2 DEF z

FallIn(vs, i, j) == ((vs[j] - vs[i]) * Percent) \div vs[i]

\* What the loop knows after n values: the highest of them, and the worst fall.
Knows(a, vs, n) ==
    /\ a \in [peak : Nat, worst : Int] /\ a.worst <= 0
    /\ \A i \in 1..n : vs[i] <= a.peak
    /\ a.peak = 0 \/ \E i \in 1..n : vs[i] = a.peak
    /\ \A i, j \in 1..n : i < j /\ vs[i] > 0 => a.worst <= FallIn(vs, i, j)
    /\ a.worst = 0 \/ \E i, j \in 1..n : i < j /\ vs[i] > 0 /\ a.worst = FallIn(vs, i, j)

LEMMA KnowsMore ==
    ASSUME NEW vs \in Seq(Nat), NEW n \in Nat, n < Len(vs), NEW a, Knows(a, vs, n)
    PROVE  Knows(Fallen(a, vs[n + 1]), vs, n + 1)
  <1> DEFINE v == vs[n + 1]
             peak == IF v > a.peak THEN v ELSE a.peak
             fall == ((v - peak) * Percent) \div peak
             worst == IF peak > 0 THEN Smaller(a.worst, fall) ELSE a.worst
             b == Fallen(a, v)
  <1>1. /\ v \in Nat /\ n + 1 \in 1..(n + 1) /\ 1..n \subseteq 1..(n + 1)
        /\ \A i \in 1..(n + 1) : vs[i] \in Nat /\ (i \in 1..n \/ i = n + 1)
    OBVIOUS
  <1>2. a.peak \in Nat /\ a.worst \in Int /\ a.worst <= 0
    BY DEF Knows
  <1>3. peak \in Nat /\ peak >= v /\ peak >= a.peak
    BY <1>1, <1>2
  <1>4. peak > 0 => fall \in Int
    BY <1>1, <1>3, SimulationAssumption
  <1>5. worst \in Int /\ worst <= a.worst /\ (peak > 0 => worst <= fall)
        /\ (worst = a.worst \/ (peak > 0 /\ worst = fall))
    <2> HIDE DEF peak, fall
    <2> QED
      BY <1>2, <1>3, <1>4 DEF Smaller
  <1>6. b = [peak |-> peak, worst |-> worst]
    BY DEF Fallen
  <1>7. /\ b \in [peak : Nat, worst : Int] /\ b.worst <= 0
        /\ b.peak = peak /\ b.worst = worst
    <2> HIDE DEF peak, worst, b
    <2> QED
      BY <1>2, <1>3, <1>5, <1>6
  <1>8. \A i \in 1..(n + 1) : vs[i] <= b.peak
    <2>1. \A i \in 1..n : vs[i] <= a.peak
      BY DEF Knows
    <2> HIDE DEF peak, b
    <2> QED
      BY <1>1, <1>2, <1>3, <1>7, <2>1
  <1>9. b.peak = 0 \/ \E i \in 1..(n + 1) : vs[i] = b.peak
    <2>1. a.peak = 0 \/ \E i \in 1..n : vs[i] = a.peak
      BY DEF Knows
    <2>2. peak = v \/ peak = a.peak
      OBVIOUS
    <2> HIDE DEF peak, b
    <2> QED
      BY <1>1, <1>7, <2>1, <2>2
  <1>10. ASSUME NEW i \in 1..(n + 1), NEW j \in 1..(n + 1), i < j, vs[i] > 0
         PROVE  b.worst <= FallIn(vs, i, j)
    <2>1. i \in 1..n /\ vs[i] \in Nat \ {0} /\ FallIn(vs, i, j) \in Int
      BY <1>1, <1>10, SimulationAssumption DEF FallIn
    <2>2. CASE j \in 1..n
      <3>1. a.worst <= FallIn(vs, i, j)
        BY <1>10, <2>1, <2>2 DEF Knows
      <3> HIDE DEF worst, b
      <3> QED
        BY <1>2, <1>5, <1>7, <2>1, <3>1
    <2>3. CASE j = n + 1
      <3>1. vs[i] <= a.peak
        BY <2>1 DEF Knows
      <3>2. peak \in Nat \ {0} /\ vs[i] <= peak
        BY <1>2, <1>3, <2>1, <3>1
      <3> HIDE DEF peak
      <3>3. fall <= FallIn(vs, i, j)
        BY <1>1, <2>1, <2>3, <3>2, HigherPeakWorse DEF FallIn
      <3> HIDE DEF fall, worst, b
      <3> QED
        BY <1>4, <1>5, <1>7, <2>1, <3>2, <3>3
    <2> QED
      BY <1>1, <2>2, <2>3
  <1>11. b.worst = 0 \/ \E i, j \in 1..(n + 1) : i < j /\ vs[i] > 0 /\ b.worst = FallIn(vs, i, j)
    <2>1. CASE worst = a.worst
      <3>1. a.worst = 0 \/ \E i, j \in 1..n : i < j /\ vs[i] > 0 /\ a.worst = FallIn(vs, i, j)
        BY DEF Knows
      <3> HIDE DEF worst, b
      <3> QED
        BY <1>1, <1>7, <2>1, <3>1
    <2>2. CASE peak > 0 /\ worst = fall /\ worst # 0
      <3>1. v # peak
        <4> SUFFICES ASSUME v = peak PROVE FALSE
          OBVIOUS
        <4> HIDE DEF peak
        <4>1. (v - peak) * Percent = 0
          BY <1>1, SimulationAssumption
        <4>2. fall = 0
          BY <1>3, <2>2, <4>1
        <4> QED
          BY <2>2, <4>2
      <3>2. peak = a.peak
        BY <3>1
      <3>3. PICK i \in 1..n : vs[i] = a.peak
        BY <2>2, <3>2 DEF Knows
      <3>4. i \in 1..(n + 1) /\ i < n + 1 /\ vs[i] > 0 /\ fall = FallIn(vs, i, n + 1)
        BY <2>2, <3>2, <3>3 DEF FallIn
      <3> HIDE DEF peak, worst, b, fall
      <3> QED
        BY <1>1, <1>7, <2>2, <3>4
    <2> HIDE DEF peak, worst, fall, b
    <2> QED
      BY <1>5, <1>7, <2>1, <2>2
  <1> HIDE DEF b
  <1>12. Knows(b, vs, n + 1)
    BY <1>7, <1>8, <1>9, <1>10, <1>11 DEF Knows
  <1> QED
    BY <1>12 DEF b

LEMMA KnowsAll ==
    ASSUME NEW vs \in Seq(Nat)
    PROVE  Knows(Drawdowns(vs)[Len(vs)], vs, Len(vs))
  <1> DEFINE N == Len(vs)
             P == {n \in Nat : Knows(Drawdowns(vs)[n], vs, n)}
  <1>1. N \in Nat
    OBVIOUS
  <1>2. /\ Drawdowns(vs)[0] = [peak |-> 0, worst |-> 0]
        /\ \A n \in 1..N : Drawdowns(vs)[n] = Fallen(Drawdowns(vs)[n - 1], vs[n])
    BY <1>1, LoopSteps
  <1>3. 0 \in P
    <2>1. Knows([peak |-> 0, worst |-> 0], vs, 0)
      BY DEF Knows
    <2> QED
      BY <1>2, <2>1
  <1>4. ASSUME NEW n \in Nat, n \in P, n < N
        PROVE  n + 1 \in P
    <2>1. Knows(Drawdowns(vs)[n], vs, n)
      BY <1>4
    <2>2. Knows(Fallen(Drawdowns(vs)[n], vs[n + 1]), vs, n + 1)
      BY <1>4, <2>1, KnowsMore
    <2>3. Drawdowns(vs)[n + 1] = Fallen(Drawdowns(vs)[n], vs[n + 1])
      <3>1. n + 1 \in 1..N /\ (n + 1) - 1 = n
        BY <1>1, <1>4
      <3> QED
        BY <1>2, <3>1
    <2> QED
      BY <2>2, <2>3
  <1> HIDE DEF P, N
  <1>5. \A n \in 0..N : n \in P
    BY <1>1, <1>3, <1>4, AllNumbers
  <1>6. N \in P
    BY <1>1, <1>5
  <1> QED
    BY <1>6 DEF P, N

-----------------------------------------------------------------------------
(***************************************************************************)
(* The invariant                                                           *)
(***************************************************************************)

\* No trade has been made when the experiment is created.
LEMMA InitEstablishes == Init => IInv
  <1> SUFFICES ASSUME Init
               PROVE  IInv
    OBVIOUS
  <1>1. trades = <<>> /\ Len(trades) = 0 /\ DOMAIN trades = {}
    BY DEF Init
  <1>2. /\ portfolio = [cash |-> InitialCash, position |-> 0,
                        price |-> 0, value |-> InitialCash]
        /\ InitialCash \in Nat \ {0}
    BY SimulationAssumption DEF Init
  <1>3. session \in Sessions /\ session.completed = FALSE
    <2>1. session \in NewSession(1)
      BY DEF Init
    <2> QED
      BY <2>1, NewSessionFacts
  <1>4. RunTypes
    BY <1>1, <1>2, <1>3 DEF RunTypes, Portfolios, Init
  <1>5. NeverNegative /\ ValueIsCurrent
    BY <1>2 DEF NeverNegative, ValueIsCurrent
  <1>6. PairInv
    BY <1>1, <1>2 DEF PairInv, SellClosesBuy
  <1>7. SessionInv /\ OneRoundTrip /\ HeldOvernight
    BY <1>1, <1>2, <1>3 DEF SessionInv, OneRoundTrip, HeldOvernight
  <1>8. HistoryInv
    <2>1. closes = <<>> /\ values = <<>> /\ Len(values) = 0 /\ drawdown = 0
      BY DEF Init
    <2>2. Drawdowns(values)[0] = [peak |-> 0, worst |-> 0]
      BY <2>1, LoopSteps
    <2> QED
      BY <2>1, <2>2 DEF HistoryInv, MaxDrawdown
  <1> QED
    BY <1>4, <1>5, <1>6, <1>7, <1>8 DEF IInv

\* A bar on which nothing is traded.
LEMMA QuietBar ==
    ASSUME IInv, NEW price \in Prices, NEW final \in BOOLEAN, RunBar(price, final),
           NEW r, r = Evaluate(Decide(price, final), portfolio, price),
           r.action = "HOLD", trades' = trades, strategy' = strategy,
           portfolio'.position = portfolio.position
    PROVE  PairInv' /\ SessionInv' /\ OneRoundTrip' /\ HeldOvernight'
  <1>1. PairInv'
    BY DEF IInv, PairInv, SellClosesBuy
  <1>2. OneRoundTrip'
    BY DEF IInv, OneRoundTrip, Intraday
  <1>3. /\ final => session'.number = session.number + 1 /\ ~session'.completed
        /\ ~final => /\ session'.number = session.number
                     /\ session'.completed <=> session.completed
        /\ session.number \in Nat
    BY SessionStep DEF IInv, RunTypes, Sessions
  <1>4. \A i \in DOMAIN trades : trades[i].session \in Nat
    <2>1. trades \in Seq(Trades)
      BY DEF IInv, RunTypes
    <2>2. \A i \in DOMAIN trades : trades[i] \in Trades
      BY <2>1
    <2> QED
      BY <2>2 DEF Trades
  <1>5. SessionInv'
    BY <1>3, <1>4 DEF IInv, SessionInv, Intraday
  <1>6. HeldOvernight'
    <2>1. CASE final /\ Intraday
      <3>1. portfolio'.position = 0
        BY <2>1, BreakoutFacts
      <3> QED
        BY <3>1 DEF HeldOvernight, HasPosition
    <2>2. CASE ~final
      BY <2>2, <1>3 DEF IInv, HeldOvernight, HasPosition, Intraday
    <2>3. CASE ~Intraday
      BY <2>3 DEF HeldOvernight, Intraday
    <2> QED
      BY <2>1, <2>2, <2>3
  <1> QED
    BY <1>1, <1>2, <1>5, <1>6

\* The trades pair up after another trade.
LEMMA PairStep ==
    ASSUME IInv, NEW t \in Trades, trades' = Append(trades, t),
           \/ /\ t.side = "BUY"
              /\ portfolio.position = 0
              /\ portfolio'.position = t.quantity
           \/ /\ t.side = "SELL"
              /\ portfolio.position = t.quantity
              /\ portfolio'.position = 0
    PROVE  PairInv'
  <1> DEFINE n == Len(trades)
  <1>1. /\ trades \in Seq(Trades) /\ n \in Nat
        /\ Len(trades') = n + 1
        /\ DOMAIN trades = 1 .. n /\ DOMAIN trades' = 1 .. (n + 1)
        /\ \A i \in 1 .. n : trades'[i] = trades[i]
        /\ trades'[n + 1] = t
    BY DEF IInv, RunTypes
  <1>2. t.quantity \in Nat \ {0}
    BY DEF Trades
  <1>3. /\ n % 2 = 0 => portfolio.position = 0
        /\ n % 2 = 1 => portfolio.position = trades[n].quantity
        /\ n % 2 \in {0, 1}
    BY <1>1 DEF IInv, PairInv
  <1>4. n % 2 = 1 => n \in 1 .. n /\ trades[n].quantity \in Nat \ {0}
    <2>1. n % 2 = 1 => n \in 1 .. n
      BY <1>1
    <2>2. \A i \in 1 .. n : trades[i] \in Trades
      BY <1>1
    <2> QED
      BY <2>1, <2>2 DEF Trades
  <1>5. /\ t.side = "BUY" => n % 2 = 0
        /\ t.side = "SELL" => n % 2 = 1
    BY <1>2, <1>3, <1>4
  <1>6. /\ n % 2 = 0 => (n + 1) % 2 = 1
        /\ n % 2 = 1 => (n + 1) % 2 = 0
    BY <1>1
  <1>7. \A i \in 1 .. n :
           /\ trades[i].side = IF i % 2 = 1 THEN "BUY" ELSE "SELL"
           /\ i % 2 = 0 => trades[i].quantity = trades[i - 1].quantity
    BY <1>1 DEF IInv, PairInv, SellClosesBuy
  <1>8. \A i \in 1 .. (n + 1) :
           /\ trades'[i].side = IF i % 2 = 1 THEN "BUY" ELSE "SELL"
           /\ i % 2 = 0 => trades'[i].quantity = trades'[i - 1].quantity
    <2> TAKE i \in 1 .. (n + 1)
    <2>1. CASE i \in 1 .. n
      <3>1. i % 2 = 0 => i - 1 \in 1 .. n
        BY <1>1, <2>1
      <3> QED
        BY <1>1, <1>7, <2>1, <3>1
    <2>2. CASE i = n + 1
      <3>1. i % 2 = 0 => i - 1 = n /\ n % 2 = 1 /\ n \in 1 .. n
        BY <1>1, <1>3, <1>6, <2>2
      <3>2. t.side = IF i % 2 = 1 THEN "BUY" ELSE "SELL"
        BY <1>3, <1>5, <1>6, <2>2
      <3>3. i % 2 = 0 => trades[n].quantity = t.quantity
        BY <1>2, <1>3, <1>5, <1>6, <2>2
      <3> QED
        BY <1>1, <2>2, <3>1, <3>2, <3>3
    <2> QED
      BY <1>1, <2>1, <2>2
  <1>9. SellClosesBuy'
    BY <1>1, <1>8 DEF SellClosesBuy
  <1>10. /\ Len(trades') % 2 = 0 => portfolio'.position = 0
         /\ Len(trades') % 2 = 1 => portfolio'.position = trades'[Len(trades')].quantity
    BY <1>1, <1>3, <1>5, <1>6
  <1> QED
    BY <1>9, <1>10 DEF PairInv

\* Another trade of opening range breakout.
LEMMA SessionTradeStep ==
    ASSUME IInv, Intraday, NEW price \in Prices, NEW final \in BOOLEAN,
           RunBar(price, final),
           NEW r, r = Evaluate(Decide(price, final), portfolio, price),
           NEW t \in Trades, trades' = Append(trades, t), strategy' = strategy,
           r.action # "HOLD", t.side = r.action, t.session = session.number,
           t.opening = OpeningRange, t.final = final,
           t.side = "SELL" => portfolio'.position = 0
    PROVE  SessionInv' /\ OneRoundTrip' /\ HeldOvernight'
  <1> DEFINE n == Len(trades)
  <1>1. /\ trades \in Seq(Trades) /\ n \in Nat
        /\ Len(trades') = n + 1
        /\ DOMAIN trades = 1 .. n /\ DOMAIN trades' = 1 .. (n + 1)
        /\ \A i \in 1 .. n : trades'[i] = trades[i]
        /\ trades'[n + 1] = t
    BY DEF IInv, RunTypes
  <1>2. \A i \in 1 .. n :
           trades[i].session \in Nat /\ trades[i].side \in {"BUY", "SELL"}
    <2>1. \A i \in 1 .. n : trades[i] \in Trades
      BY <1>1
    <2> QED
      BY <2>1 DEF Trades
  <1>3. /\ final => session'.number = session.number + 1 /\ ~session'.completed
        /\ ~final => /\ session'.number = session.number
                     /\ session'.completed <=> session.completed \/ r.action = "SELL"
        /\ session.number \in Nat
    BY SessionStep DEF IInv, RunTypes, Sessions
  <1>4. ~OpeningRange /\ ~session.completed
    BY BreakoutFacts
  <1>5. /\ \A i \in 1 .. n : /\ trades[i].session <= session.number
                             /\ trades[i].side = "SELL" => trades[i].session # session.number
    BY <1>1, <1>4 DEF IInv, SessionInv
  <1>6. SessionInv'
    <2>1. \A i \in 1 .. (n + 1) :
             /\ trades'[i].session <= session'.number
             /\ trades'[i].side = "SELL" /\ trades'[i].session = session'.number =>
                   session'.completed
      <3> TAKE i \in 1 .. (n + 1)
      <3>1. CASE i \in 1 .. n
        BY <1>1, <1>2, <1>3, <1>5, <3>1
      <3>2. CASE i = n + 1
        BY <1>1, <1>3, <3>2
      <3> QED
        BY <1>1, <3>1, <3>2
    <2>2. session'.completed => portfolio'.position = 0
      BY <1>3, <1>4
    <2> QED
      BY <1>1, <2>1, <2>2 DEF SessionInv
  <1>7. OneRoundTrip'
    <2>1. \A i \in 1 .. n : ~trades[i].opening
      BY <1>1 DEF IInv, OneRoundTrip
    <2>2. \A i, j \in 1 .. n :
             i < j /\ trades[i].session = trades[j].session => trades[i].side = "BUY"
      BY <1>1 DEF IInv, OneRoundTrip
    <2>3. \A i \in 1 .. (n + 1) : ~trades'[i].opening
      BY <1>1, <1>4, <2>1
    <2>4. \A i, j \in 1 .. (n + 1) :
             i < j /\ trades'[i].session = trades'[j].session => trades'[i].side = "BUY"
      <3> TAKE i, j \in 1 .. (n + 1)
      <3>1. CASE j \in 1 .. n
        BY <1>1, <2>2, <3>1
      <3>2. CASE j = n + 1
        BY <1>1, <1>2, <1>5, <3>2
      <3>3. j \in 1 .. n \/ j = n + 1
        BY <1>1
      <3> QED
        BY <3>1, <3>2, <3>3
    <2> QED
      BY <1>1, <2>3, <2>4 DEF OneRoundTrip
  <1>8. HeldOvernight'
    BY <1>1, <1>3 DEF HeldOvernight
  <1> QED
    BY <1>6, <1>7, <1>8

\* Every bar preserves the invariant.
LEMMA RunBarPreserves ==
    ASSUME IInv, NEW price \in Prices, NEW final \in BOOLEAN, RunBar(price, final)
    PROVE  IInv'
  <1> DEFINE r == Evaluate(Decide(price, final), portfolio, price)
  <1>1. /\ portfolio' \in Portfolios
        /\ portfolio'.cash >= 0 /\ portfolio'.position >= 0
        /\ portfolio'.value = portfolio'.cash + portfolio'.position * portfolio'.price
        /\ strategy' = strategy
    BY BarFacts
  <1>2. session' \in Sessions
    BY SessionStep
  <1>3. NeverNegative' /\ ValueIsCurrent'
    BY <1>1 DEF NeverNegative, ValueIsCurrent
  <1>4. HistoryInv'
    <2> DEFINE value == portfolio'.value
    <2>1. values' = Append(values, value) /\ drawdown' = MaxDrawdown(values')
      BY DEF RunBar
    <2>2. value \in Nat
      <3>1. portfolio'.price = price /\ price \in Nat /\ portfolio'.position \in Nat /\ portfolio'.cash \in Nat
        BY <1>1, BarFacts, SimulationAssumption DEF Portfolios
      <3>2. portfolio'.position * portfolio'.price \in Nat
        BY <3>1
      <3> QED
        BY <1>1, <3>1, <3>2
    <2> HIDE DEF value
    <2>3. values' \in Seq(Nat)
      BY <2>1, <2>2 DEF IInv, HistoryInv
    <2>4. closes' \in Seq(Prices)
      BY DEF RunBar, IInv, HistoryInv
    <2> QED
      BY <2>1, <2>3, <2>4 DEF HistoryInv
  <1>5. trades' = trades => RunTypes'
    BY <1>1, <1>2 DEF IInv, RunTypes
  <1>6. \A t \in Trades : trades' = Append(trades, t) => RunTypes'
    BY <1>1, <1>2 DEF IInv, RunTypes
  <1>7. CASE r.action = "HOLD" /\ trades' = trades /\ portfolio'.position = portfolio.position
    <2>1. PairInv' /\ SessionInv' /\ OneRoundTrip' /\ HeldOvernight'
      <3> HIDE DEF r
      <3> QED
        BY <1>1, <1>7, QuietBar DEF r
    <2> QED
      BY <1>3, <1>4, <1>5, <1>7, <2>1 DEF IInv
  <1>8. ASSUME NEW t \in Trades,
               trades' = Append(trades, t), t.side = r.action,
               t.session = session.number, t.opening = OpeningRange, t.final = final,
               \/ /\ t.side = "BUY"
                  /\ portfolio.position = 0
                  /\ portfolio'.position = t.quantity
               \/ /\ t.side = "SELL"
                  /\ portfolio.position = t.quantity
                  /\ portfolio'.position = 0
        PROVE  IInv'
    <2>1. PairInv'
      BY <1>8, PairStep
    <2>2. SessionInv' /\ OneRoundTrip' /\ HeldOvernight'
      <3>1. CASE Intraday
        BY <1>1, <1>8, <3>1, SessionTradeStep
      <3>2. CASE ~Intraday
        BY <1>1, <3>2 DEF SessionInv, OneRoundTrip, HeldOvernight, Intraday
      <3> QED
        BY <3>1, <3>2
    <2> QED
      BY <1>3, <1>4, <1>6, <1>8, <2>1, <2>2 DEF IInv
  <1> QED
    BY <1>7, <1>8, BarFacts

\* The invariant holds in every run.
THEOREM Invariant == Spec => []IInv
  <1>1. ASSUME IInv, [Next]_vars
        PROVE  IInv'
    <2>1. CASE Next
      BY <1>1, <2>1, RunBarPreserves DEF Next
    <2>2. CASE UNCHANGED vars
      BY <1>1, <2>2 DEF vars, IInv, RunTypes, NeverNegative, ValueIsCurrent, PairInv,
                        SellClosesBuy, SessionInv, OneRoundTrip, HeldOvernight,
                        Intraday, HasPosition, HistoryInv
    <2> QED
      BY <1>1, <2>1, <2>2
  <1> QED
    BY <1>1, InitEstablishes, PTL DEF Spec

-----------------------------------------------------------------------------

\* The state of the experiment is well typed, whatever happens in the market.
THEOREM TypeCorrect == Spec => []TypeOK
  <1>1. IInv => TypeOK
    <2> SUFFICES ASSUME IInv PROVE TypeOK
      OBVIOUS
    <2>1. values \in Seq(Nat) /\ closes \in Seq(Prices)
      BY DEF IInv, HistoryInv
    <2>2. values \in Seq(Int)
      BY <2>1
    <2>3. Knows(Drawdowns(values)[Len(values)], values, Len(values))
      BY <2>1, KnowsAll
    <2>4. drawdown \in Int
      BY <2>3 DEF IInv, HistoryInv, MaxDrawdown, Knows
    <2> QED
      BY <2>1, <2>2, <2>4 DEF IInv, RunTypes, TypeOK
  <1> QED
    BY <1>1, Invariant, PTL

\* BR-043, BR-044: neither cash nor position ever becomes negative
\* (Portfolio rows as BasicRiskManagementService and the simulated fill leave them).
THEOREM NeverNegativeHolds == Spec => []NeverNegative
  <1>1. IInv => NeverNegative
    BY DEF IInv
  <1> QED
    BY <1>1, Invariant, PTL

\* BR-045: the stored value of the portfolio is cash plus position at the stored price.
THEOREM ValueIsCurrentHolds == Spec => []ValueIsCurrent
  <1>1. IInv => ValueIsCurrent
    BY DEF IInv
  <1> QED
    BY <1>1, Invariant, PTL

\* BUY and SELL trades alternate and close one another, for every strategy.
THEOREM SellClosesBuyHolds == Spec => []SellClosesBuy
  <1>1. IInv => SellClosesBuy
    BY DEF IInv, PairInv
  <1> QED
    BY <1>1, Invariant, PTL

\* BR-022A: opening range breakout makes one round trip a session, and none in
\* the opening range.
THEOREM OneRoundTripHolds == Spec => []OneRoundTrip
  <1>1. IInv => OneRoundTrip
    BY DEF IInv
  <1> QED
    BY <1>1, Invariant, PTL

\* BR-022A: only a position bought on a session's last bar survives the session.
THEOREM HeldOvernightHolds == Spec => []HeldOvernight
  <1>1. IInv => HeldOvernight
    BY DEF IInv
  <1> QED
    BY <1>1, Invariant, PTL

\* The metric of every snapshot is the worst fall between two recorded values, and
\* one of them; the loop over the values is correct for values that are never
\* negative.
THEOREM DrawdownIsWorstFallHolds == Spec => []DrawdownIsWorstFall
  <1>1. IInv => DrawdownIsWorstFall
    <2> SUFFICES ASSUME IInv PROVE DrawdownIsWorstFall
      OBVIOUS
    <2>1. values \in Seq(Nat) /\ drawdown = Drawdowns(values)[Len(values)].worst
      BY DEF IInv, HistoryInv, MaxDrawdown
    <2>2. Knows(Drawdowns(values)[Len(values)], values, Len(values))
      BY <2>1, KnowsAll
    <2>3. DOMAIN values = 1..Len(values)
      BY <2>1
    <2>4. \A i, j : Fall(i, j) = FallIn(values, i, j)
      BY DEF Fall, FallIn
    <2> QED
      BY <2>1, <2>2, <2>3, <2>4 DEF Knows, DrawdownIsWorstFall
  <1> QED
    BY <1>1, Invariant, PTL

=============================================================================
