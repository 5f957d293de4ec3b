-------------------------- MODULE SimulatedPortfolio --------------------------
(***************************************************************************)
(* The money of one historical experiment whose steps are made one after   *)
(* the other (HistoricalRuns!BarsInOrder): each bar is decided on by the   *)
(* strategy, sized by the risk check, filled at the bar's price, valued    *)
(* and recorded, all in one transaction.                                   *)
(*                                                                         *)
(* Historical*Orchestrator._run_step  modules/execution/orchestrator.py    *)
(* SimulationExecutionProvider        modules/execution/simulation_provider.py *)
(* BasicMetricCalculator              modules/execution/metrics.py         *)
(* the three strategies               modules/strategies/                  *)
(*                                                                         *)
(* A bar is its price.  Intraday bars come in sessions; a session is its   *)
(* opening range, which the run computes in advance, and its end, early    *)
(* closes included.  Daily bars are one session whose range nobody reads.  *)
(***************************************************************************)
EXTENDS RiskSizing, Sequences, SequencesExt

CONSTANTS
    Strategies,     \* strategy types to choose from
    NumBars,        \* bound on the bars
    InitialCash,    \* initial_capital
    Prices,         \* prices of the market
    Window,         \* moving_average_window
    OpeningBars,    \* bars of the opening range
    Percent         \* drawdowns are in units of 1/Percent

StrategyType == {"BUY_AND_HOLD", "MOVING_AVERAGE", "OPENING_RANGE_BREAKOUT"}

ASSUME SimulationAssumption ==
    /\ Strategies \subseteq StrategyType
    /\ NumBars \in Nat /\ InitialCash \in Nat \ {0}
    /\ Prices \subseteq Nat \ {0}
    /\ Window \in Nat \ {0} /\ OpeningBars \in Nat \ {0} /\ Percent \in Nat \ {0}

VARIABLES
    strategy,       \* strategy_type of the experiment
    portfolio,      \* the portfolios row
    session,        \* the session of the next bar, and what the run knows of it
    closes,         \* prices of the bars so far
    trades,         \* the trades
    values,         \* total_portfolio_value of the portfolio snapshots
    drawdown        \* max_drawdown of the latest metric snapshot

vars == <<strategy, portfolio, session, closes, trades, values, drawdown>>

Sessions ==
    [number : Nat, bars : Nat, high : Prices, low : Prices, completed : BOOLEAN]

Trades ==
    [side : {"BUY", "SELL"}, quantity : Nat \ {0}, price : Prices,
     session : Nat, opening : BOOLEAN, final : BOOLEAN]

-----------------------------------------------------------------------------

TypeOK ==
    /\ strategy \in Strategies
    /\ portfolio \in Portfolios
    /\ session \in Sessions
    /\ closes \in Seq(Prices)
    /\ trades \in Seq(Trades)
    /\ values \in Seq(Int)
    /\ drawdown \in Int

\* A session before its first bar.
NewSession(n) ==
    {s \in [number : {n}, bars : {0}, high : Prices, low : Prices, completed : {FALSE}] :
        s.low <= s.high}

\* create_experiment opens the portfolio with the initial capital.
Init ==
    /\ strategy \in Strategies
    /\ portfolio = [cash |-> InitialCash, position |-> 0, price |-> 0, value |-> InitialCash]
    /\ session \in NewSession(1)
    /\ closes = <<>> /\ trades = <<>> /\ values = <<>>
    /\ drawdown = 0

-----------------------------------------------------------------------------
(***************************************************************************)
(* Strategies                                                              *)
(***************************************************************************)

Intraday == strategy = "OPENING_RANGE_BREAKOUT"

HasPosition == portfolio.position > 0

\* Mutant of BuyAndHold: it buys whenever it is asked.
BuyAlways == "BUY"

BuyAndHold == IF portfolio.position = 0 THEN "BUY" ELSE "HOLD"

\* Sum of the last Window prices.
WindowSum(prices) ==
    LET n == Len(prices) IN FoldLeft(+, 0, SubSeq(prices, n - Window + 1, n))

\* The average over the window, the price itself included, is compared without
\* dividing.
MovingAverage(price, prices) ==
    LET sum == WindowSum(prices) IN
    IF Len(prices) < Window THEN "HOLD"
    ELSE IF price * Window > sum /\ ~HasPosition THEN "BUY"
    ELSE IF price * Window < sum /\ HasPosition THEN "SELL"
    ELSE "HOLD"

OpeningRange == session.bars < OpeningBars

\* Mutant of Breakout: the exit at the end of the session is forgotten.
BreakoutWithoutExit(close, final) ==
    IF OpeningRange \/ session.completed THEN "HOLD"
    ELSE IF close > session.high /\ ~HasPosition THEN "BUY"
    ELSE IF close < session.low /\ HasPosition THEN "SELL"
    ELSE "HOLD"

\* Mutant of Breakout: a completed round trip does not count.
BreakoutAgain(close, final) ==
    IF OpeningRange THEN "HOLD"
    ELSE IF final /\ HasPosition THEN "SELL"
    ELSE IF close > session.high /\ ~HasPosition THEN "BUY"
    ELSE IF close < session.low /\ HasPosition THEN "SELL"
    ELSE "HOLD"

Breakout(close, final) ==
    IF OpeningRange THEN "HOLD"
    ELSE IF final /\ HasPosition THEN "SELL"
    ELSE IF session.completed THEN "HOLD"
    ELSE IF close > session.high /\ ~HasPosition THEN "BUY"
    ELSE IF close < session.low /\ HasPosition THEN "SELL"
    ELSE "HOLD"

Decide(price, final) ==
    IF strategy = "BUY_AND_HOLD" THEN BuyAndHold
    ELSE IF strategy = "MOVING_AVERAGE" THEN MovingAverage(price, Append(closes, price))
    ELSE Breakout(price, final)

-----------------------------------------------------------------------------
(***************************************************************************)
(* Execution and records                                                   *)
(***************************************************************************)

\* The simulated fill: all of it, at the bar's price; a SELL empties the position.
Execute(r, p, price) ==
    IF r.action = "BUY"
    THEN [p EXCEPT !.cash = @ - r.quantity * price, !.position = @ + r.quantity]
    ELSE IF r.action = "SELL"
    THEN [p EXCEPT !.cash = @ + r.quantity * price, !.position = 0]
    ELSE p

\* current_price and current_portfolio_value at the bar's price.
Valued(p, price) ==
    [p EXCEPT !.price = price, !.value = p.cash + p.position * price]

\* Mutant of MaxDrawdown: the fall from the bar before.
DrawdownFromLast(vs) ==
    FoldLeft(LAMBDA a, v :
                 [peak |-> v,
                  worst |-> IF a.peak > 0
                            THEN Smaller(a.worst, ((v - a.peak) * Percent) \div a.peak)
                            ELSE a.worst],
             [peak |-> 0, worst |-> 0], vs).worst

\* One more value: the highest so far, and the worst fall from it, rounded down here.
Fallen(a, v) ==
    LET peak == IF v > a.peak THEN v ELSE a.peak IN
    [peak |-> peak,
     worst |-> IF peak > 0 THEN Smaller(a.worst, ((v - peak) * Percent) \div peak) ELSE a.worst]

\* The loop over the values, after each of them.
Drawdowns(vs) ==
    LET upTo[n \in 0..Len(vs)] ==
            IF n = 0 THEN [peak |-> 0, worst |-> 0] ELSE Fallen(upTo[n - 1], vs[n])
    IN  upTo

MaxDrawdown(vs) == Drawdowns(vs)[Len(vs)].worst

\* The prices a bar of the session may close at: the opening range spans its bars.
Closes ==
    {p \in Prices : Intraday /\ OpeningRange => session.low <= p /\ p <= session.high}

\* _create_running_step and _run_step for the next bar.
RunBar(price, final) ==
    LET r == Evaluate(Decide(price, final), portfolio, price)
        after == Valued(Execute(r, portfolio, price), price)
    IN  /\ Len(closes) < NumBars
        /\ price \in Closes
        /\ final => Intraday /\ ~OpeningRange
        /\ portfolio' = after
        /\ trades' = IF r.action = "HOLD" THEN trades
                     ELSE Append(trades,
                            [side |-> r.action, quantity |-> r.quantity, price |-> price,
                             session |-> session.number, opening |-> OpeningRange,
                             final |-> final])
        /\ closes' = Append(closes, price)
        /\ values' = Append(values, after.value)
        /\ drawdown' = MaxDrawdown(values')
        /\ IF final
           THEN session' \in NewSession(session.number + 1)
           ELSE session' = [session EXCEPT !.bars = @ + 1,
                                           !.completed = @ \/ r.action = "SELL"]
        /\ UNCHANGED strategy

Next == \E price \in Prices, final \in BOOLEAN : RunBar(price, final)

Spec == Init /\ [][Next]_vars

-----------------------------------------------------------------------------
(***************************************************************************)
(* Properties                                                              *)
(***************************************************************************)

\* BR-043, BR-044: neither cash nor position ever becomes negative.
NeverNegative == portfolio.cash >= 0 /\ portfolio.position >= 0

\* BR-045: the stored value is cash plus position at the stored price.
ValueIsCurrent == portfolio.value = portfolio.cash + portfolio.position * portfolio.price

\* BUY and SELL trades alternate, and a SELL closes exactly what the BUY before
\* it has opened, for every strategy.
SellClosesBuy ==
    \A i \in DOMAIN trades :
        /\ trades[i].side = IF i % 2 = 1 THEN "BUY" ELSE "SELL"
        /\ i % 2 = 0 => trades[i].quantity = trades[i - 1].quantity

\* BR-022A: opening range breakout never trades in the opening range, and at most
\* one round trip is completed in a session: after a SELL nothing more is traded.
OneRoundTrip ==
    Intraday =>
        \A i, j \in DOMAIN trades :
            /\ ~trades[i].opening
            /\ i < j /\ trades[i].session = trades[j].session => trades[i].side = "BUY"

\* BR-022A: a position that survives a session was bought on its very last bar.
HeldOvernight ==
    Intraday /\ HasPosition /\ Len(trades) > 0 =>
        LET last == trades[Len(trades)] IN
        last.session = session.number \/ last.final

\* The metric is the worst fall between any two recorded values.
Fall(i, j) == ((values[j] - values[i]) * Percent) \div values[i]
DrawdownIsWorstFall ==
    /\ \A i, j \in DOMAIN values : i < j /\ values[i] > 0 => drawdown <= Fall(i, j)
    /\ drawdown = 0 \/ \E i, j \in DOMAIN values :
                            i < j /\ values[i] > 0 /\ drawdown = Fall(i, j)

=============================================================================
