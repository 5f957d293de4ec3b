--------------------------- MODULE PaperAccounting ---------------------------
(***************************************************************************)
(* The money of one paper-trading experiment: the portfolio row, the       *)
(* orders it sends to the broker, the fills the broker executes on its own *)
(* time, and the two threads that book them: the step runner and the       *)
(* order synchronisation job.  Both load the portfolio row, compute in     *)
(* memory and write back the columns they changed, in READ COMMITTED       *)
(* transactions without row locks, so each may overwrite the other.        *)
(*                                                                         *)
(* At most one step runs at a time (PaperSteps!OneRunningStep), so there is*)
(* one runner; the job has max_instances=1, so there is one synchronisation*)
(*                                                                         *)
(* PaperTradingStepRunner      modules/execution/paper_step_runner.py      *)
(* PaperExecutionProvider      modules/execution/paper_provider.py         *)
(* PaperBrokerSyncService      modules/execution/broker_sync.py            *)
(***************************************************************************)
EXTENDS RiskSizing, FiniteSetsExt

CONSTANTS
    MaxOrders,      \* bound on the orders the broker accepts
    InitialCash,    \* initial_capital
    Prices,         \* prices of the market, and so of bars and fills
    Targets,        \* target exposures an agent asks for
    MaxCrashes      \* bound on the crashes of the backend

ASSUME AccountingAssumption ==
    /\ MaxOrders \in Nat
    /\ InitialCash \in Nat
    /\ Prices \subseteq Nat \ {0}
    /\ Targets \subseteq Int
    /\ MaxCrashes \in Nat

Orders == 1..MaxOrders
NoOrder == 0

OrderStatus == {"NONE", "SUBMITTED", "FILLED", "REJECTED", "CANCELLED", "FAILED"}
Terminal == {"FILLED", "CANCELLED", "REJECTED"}

\* Nothing more will come of an order in these states of the broker.
Done == {"filled", "canceled", "rejected"}

\* What the broker knows of an order: its state, the shares filled and what
\* they cost together (filled_avg_price is notional / filled).
BrokerOrders ==
    [status : {"none", "open", "filled", "canceled", "rejected"}, filled : Nat, notional : Nat]

\* filled_avg_price is optional in an answer, and average_fill_price in the row.
AveragePrice == {"known", "null"}

\* What it answers: a snapshot, whose status may be one the adapter's users do
\* not know (held, pending_cancel, ...).
Answers ==
    [status : {"open", "filled", "canceled", "rejected", "unknown"}, filled : Nat,
     notional : Nat, average : AveragePrice]

NoAnswer == [status |-> "unknown", filled |-> 0, notional |-> 0, average |-> "null"]

VARIABLES
    portfolio,      \* the portfolios row of the experiment
    order,          \* orders.status, "NONE" for no row
    side,           \* orders.side, once the broker has the order
    quantity,       \* orders.quantity, once the broker has the order
    average,        \* whether orders.average_fill_price is set
    traded,         \* sum of trades.quantity of the order
    paid,           \* sum of trades.order_value of the order
    broker,         \* the broker's own view of each order
    active,         \* the experiment is RUNNING
    runner,         \* where the step runner is
    rcopy,          \* the portfolio it has loaded
    risk,           \* its risk check
    oid,            \* the order it has placed
    reply,          \* the broker's answer to place_order
    sync,           \* where the synchronisation job is
    queue,          \* the open orders it has listed and not yet handled
    scopy,          \* the portfolio it has loaded
    answer,         \* the broker's answer to get_order_status
    crashes,        \* crashes so far
    net,            \* totals of the trades, and shares a SELL was clamped by (history)
    staleWrite,     \* a portfolio was written from an outdated copy (history)
    lostFill        \* a fill was booked on an outdated copy (history)

orderVars == <<order, side, quantity, average, traded, paid>>
runnerVars == <<runner, rcopy, risk, oid, reply>>
syncVars == <<sync, queue, scopy, answer>>
history == <<net, staleWrite, lostFill>>
vars == <<portfolio, orderVars, broker, active, runnerVars, syncVars, crashes, history>>

-----------------------------------------------------------------------------

TypeOK ==
    /\ portfolio \in Portfolios /\ rcopy \in Portfolios /\ scopy \in Portfolios
    /\ order \in [Orders -> OrderStatus]
    /\ side \in [Orders -> {"NONE", "BUY", "SELL"}]
    /\ average \in [Orders -> AveragePrice]
    /\ quantity \in [Orders -> Nat] /\ traded \in [Orders -> Nat] /\ paid \in [Orders -> Nat]
    /\ broker \in [Orders -> BrokerOrders]
    /\ active \in BOOLEAN /\ staleWrite \in BOOLEAN /\ lostFill \in BOOLEAN
    /\ runner \in {"idle", "decide", "broker", "record"}
    /\ risk \in [action : TradeAction, quantity : Nat, price : Nat]
    /\ oid \in Orders \cup {NoOrder}
    /\ reply \in Answers /\ answer \in Answers
    /\ sync \in {"idle", "loop", "commit"}
    /\ queue \subseteq Orders
    /\ crashes \in 0..MaxCrashes
    /\ net \in [cash : Int, shares : Int, clamped : Nat]

\* create_experiment opens the portfolio with the initial capital.
InitialPortfolio ==
    [cash |-> InitialCash, position |-> 0, price |-> 0, value |-> InitialCash]

NoRisk == [action |-> "HOLD", quantity |-> 0, price |-> 0]

Init ==
    /\ portfolio = InitialPortfolio
    /\ order = [o \in Orders |-> "NONE"]
    /\ side = [o \in Orders |-> "NONE"]
    /\ quantity = [o \in Orders |-> 0]
    /\ average = [o \in Orders |-> "null"]
    /\ traded = [o \in Orders |-> 0]
    /\ paid = [o \in Orders |-> 0]
    /\ broker = [o \in Orders |-> [status |-> "none", filled |-> 0, notional |-> 0]]
    /\ active = TRUE
    /\ runner = "idle" /\ rcopy = InitialPortfolio /\ risk = NoRisk
    /\ oid = NoOrder /\ reply = NoAnswer
    /\ sync = "idle" /\ queue = {} /\ scopy = InitialPortfolio /\ answer = NoAnswer
    /\ crashes = 0
    /\ net = [cash |-> 0, shares |-> 0, clamped |-> 0]
    /\ staleWrite = FALSE /\ lostFill = FALSE

-----------------------------------------------------------------------------
(***************************************************************************)
(* Bookkeeping                                                             *)
(***************************************************************************)

\* Mutant of MapOrderStatus: the broker's word is stored as it is.
StoreBrokerStatus(s) == s

\* Mutant of MapOrderStatus: an order that is partly filled counts as filled.
SettleOpenOrders(s) ==
    [open |-> "FILLED", filled |-> "FILLED", rejected |-> "REJECTED",
     canceled |-> "CANCELLED", unknown |-> "FAILED"][s]

\* orders.status for an answer.
MapOrderStatus(s) ==
    [open |-> "SUBMITTED", filled |-> "FILLED", rejected |-> "REJECTED",
     canceled |-> "CANCELLED", unknown |-> "FAILED"][s]

\* q shares of answer a can be booked: there are some, and a price for them.
Bookable(q, a) == q > 0 /\ a.average = "known"

\* What delta more shares cost, at the average price of all shares filled.
FillValue(delta, a) == (delta * a.notional) \div a.filled

\* A SELL never leaves less than nothing.
Remaining(position, q) == IF position - q <= 0 THEN 0 ELSE position - q

\* _apply_fill_to_portfolio and _apply_fill_delta_to_portfolio: cash and
\* position after q shares for amount v.
ApplyFill(p, s, q, v) ==
    [p EXCEPT !.cash = IF s = "BUY" THEN @ - v ELSE @ + v,
              !.position = IF s = "BUY" THEN @ + q ELSE Remaining(@, q)]

\* current_price and current_portfolio_value at a price.
Valued(p, price) ==
    [p EXCEPT !.price = price, !.value = p.cash + p.position * price]

\* Mutant of Column: the whole row is written, as a merge or an upsert would.
WholeRow(old, new, row) == new

\* The UPDATE of a flush: only columns that differ from the loaded copy.
Column(old, new, row) == IF new = old THEN row ELSE new
WritePortfolio(copy, new) ==
    portfolio' = [cash |-> Column(copy.cash, new.cash, portfolio.cash),
                  position |-> Column(copy.position, new.position, portfolio.position),
                  price |-> Column(copy.price, new.price, portfolio.price),
                  value |-> Column(copy.value, new.value, portfolio.value)]

\* A trade row for q shares of order o for amount v, booked on position pos.
RecordTrade(o, q, v, pos) ==
    /\ traded' = [traded EXCEPT ![o] = @ + q]
    /\ paid' = [paid EXCEPT ![o] = @ + v]
    /\ net' = IF side[o] = "BUY"
              THEN [net EXCEPT !.cash = @ - v, !.shares = @ + q]
              ELSE [net EXCEPT !.cash = @ + v, !.shares = @ - q,
                               !.clamped = @ + Remaining(pos, q) - (pos - q)]

RunnerIdle ==
    /\ runner' = "idle" /\ rcopy' = InitialPortfolio /\ risk' = NoRisk
    /\ oid' = NoOrder /\ reply' = NoAnswer

\* The list is sorted by age: order o is the one at hand.
IsFirst(o) == o \in queue /\ \A p \in queue : o <= p

\* The job turns to the order after o.
NextOrder(o) ==
    /\ queue' = queue \ {o}
    /\ sync' = IF queue = {o} THEN "idle" ELSE "loop"
    /\ scopy' = InitialPortfolio /\ answer' = NoAnswer

-----------------------------------------------------------------------------
(***************************************************************************)
(* The step runner                                                         *)
(***************************************************************************)

\* The transaction of the artifacts loads the portfolio; the strategy or the
\* agent decides on it.
LoadPortfolio ==
    /\ active
    /\ runner = "idle"
    /\ runner' = "decide"
    /\ rcopy' = portfolio
    /\ UNCHANGED <<portfolio, orderVars, broker, active, risk, oid, reply, syncVars,
                   crashes, history>>

\* What the risk check may answer: rules and the agent's V1 output carry no target,
\* the smoke test trades single shares.
RiskResults(price) ==
    {Evaluate(a, rcopy, price) : a \in TradeAction}
        \cup {SmokeTestRiskResult(a, rcopy, price) : a \in TradeAction}
        \cup {EvaluateTargetExposure(a, t, rcopy, price) : a \in TradeAction, t \in Targets}

\* HOLD: the portfolio is valued at the bar's price and the step committed.
HoldStep(price) ==
    /\ runner = "decide"
    /\ Hold \in RiskResults(price)
    /\ WritePortfolio(rcopy, Valued(rcopy, price))
    /\ staleWrite' = (staleWrite \/ rcopy # portfolio)
    /\ RunnerIdle
    /\ UNCHANGED <<orderVars, broker, active, syncVars, crashes, net, lostFill>>

\* BUY or SELL: the risk check is committed before the broker is called.
ApproveOrder(price) ==
    /\ runner = "decide"
    /\ \E r \in RiskResults(price) \ {Hold} :
          risk' = [action |-> r.action, quantity |-> r.quantity, price |-> price]
    /\ runner' = "broker"
    /\ rcopy' = InitialPortfolio
    /\ UNCHANGED <<portfolio, orderVars, broker, active, oid, reply, syncVars, crashes, history>>

\* What the broker says of an order in state b, with or without the average
\* price of what is filled.
Reports(b) ==
    {[status |-> s, filled |-> b.filled, notional |-> b.notional, average |-> a] :
        s \in IF b.status = "open" THEN {"open", "unknown"} ELSE {b.status},
        a \in IF b.filled > 0 THEN AveragePrice ELSE {"null"}}

\* The state of an order of q shares when place_order returns: untouched,
\* filled in part or in full, cancelled or rejected.
Placed(q) ==
    {[status |-> "open", filled |-> n, notional |-> n * p] : n \in 0..(q - 1), p \in Prices}
        \cup {[status |-> "filled", filled |-> q, notional |-> q * p] : p \in Prices}
        \cup {[status |-> s, filled |-> 0, notional |-> 0] : s \in {"canceled", "rejected"}}

\* A new transaction loads the portfolio again and calls place_order.
PlaceOrder(o) ==
    /\ runner = "broker"
    /\ \A p \in Orders : broker[p].status = "none" <=> p >= o
    /\ side' = [side EXCEPT ![o] = risk.action]
    /\ quantity' = [quantity EXCEPT ![o] = risk.quantity]
    /\ \E b \in Placed(risk.quantity) :
          /\ broker' = [broker EXCEPT ![o] = b]
          /\ reply' \in Reports(b)
    /\ runner' = "record"
    /\ rcopy' = portfolio
    /\ oid' = o
    /\ UNCHANGED <<portfolio, order, average, traded, paid, active, risk, syncVars, crashes,
                   history>>

\* place_order raises before the broker has the order.
PlaceOrderRaises ==
    /\ runner = "broker"
    /\ RunnerIdle
    /\ UNCHANGED <<portfolio, orderVars, broker, active, syncVars, crashes, history>>

\* One commit: the order row, the fill the answer brought if it names its
\* price, the portfolio valued at the bar's price.  A rejected or unknown order fails the experiment.
RecordOrder ==
    /\ runner = "record"
    /\ order' = [order EXCEPT ![oid] = MapOrderStatus(reply.status)]
    /\ average' = [average EXCEPT ![oid] = reply.average]
    /\ IF Bookable(reply.filled, reply)
       THEN LET v == FillValue(reply.filled, reply) IN
            /\ RecordTrade(oid, reply.filled, v, rcopy.position)
            /\ WritePortfolio(rcopy, Valued(ApplyFill(rcopy, side[oid], reply.filled, v),
                                            risk.price))
            /\ lostFill' = (lostFill \/ rcopy # portfolio)
       ELSE /\ WritePortfolio(rcopy, Valued(rcopy, risk.price))
            /\ UNCHANGED <<traded, paid, net, lostFill>>
    /\ staleWrite' = (staleWrite \/ rcopy # portfolio)
    /\ active' = (active /\ reply.status \notin {"rejected", "unknown"})
    /\ RunnerIdle
    /\ UNCHANGED <<side, quantity, broker, syncVars, crashes>>

\* The broker has the order, and its answer or the commit is lost: the step
\* fails, the experiment goes on, and no row of the order exists.
RecordFails ==
    /\ runner = "record"
    /\ RunnerIdle
    /\ UNCHANGED <<portfolio, orderVars, broker, active, syncVars, crashes, history>>

-----------------------------------------------------------------------------
(***************************************************************************)
(* The synchronisation job                                                 *)
(***************************************************************************)

\* Mutant of IsOpen: every order that is not known to be final.
OpenOrFailed(o) == order[o] \in {"SUBMITTED", "FAILED"}

\* Mutant of IsOpen: only orders of experiments that still run.
OpenWhileActive(o) == order[o] = "SUBMITTED" /\ active

\* list_open_paper_orders selects the order.
IsOpen(o) == order[o] = "SUBMITTED"

\* sync_open_orders lists the open orders once, oldest first.
ListOpenOrders ==
    /\ sync = "idle"
    /\ \E o \in Orders : IsOpen(o)
    /\ queue' = {o \in Orders : IsOpen(o)}
    /\ sync' = "loop"
    /\ UNCHANGED <<portfolio, orderVars, broker, active, runnerVars, scopy, answer,
                   crashes, history>>

\* get_order_status answers, and _persist_order_sync loads order and portfolio.
FetchStatus(o) ==
    /\ sync = "loop"
    /\ IsFirst(o)
    /\ answer' \in Reports(broker[o])
    /\ scopy' = portfolio
    /\ sync' = "commit"
    /\ UNCHANGED <<portfolio, orderVars, broker, active, runnerVars, queue, crashes, history>>

\* get_order_status raises BrokerProviderError: a log row, and the next order.
FetchFails(o) ==
    /\ sync = "loop"
    /\ IsFirst(o)
    /\ NextOrder(o)
    /\ UNCHANGED <<portfolio, orderVars, broker, active, runnerVars, crashes, history>>

\* Mutants of NewShares: what is booked already is booked again; the shares of
\* a cancelled order are not booked.
AllShares(o, a) == a.filled
SharesUnlessCancelled(o, a) == IF a.status = "canceled" THEN 0 ELSE a.filled - traded[o]

\* fill_delta.
NewShares(o, a) == a.filled - traded[o]

\* _persist_order_sync commits: nothing but a log row for an unknown status,
\* otherwise the status and the average price, and the shares not booked yet if
\* there is a price to book them at.
SyncCommit(o) ==
    LET q == NewShares(o, answer)
        v == FillValue(q, answer)
        \* valued at the average price of the fill
        new == Valued(ApplyFill(scopy, side[o], q, v), answer.notional \div answer.filled)
    IN  /\ sync = "commit"
        /\ IsFirst(o)
        /\ IF answer.status = "unknown"
           THEN UNCHANGED <<portfolio, order, average, traded, paid, history>>
           ELSE /\ order' = [order EXCEPT ![o] = MapOrderStatus(answer.status)]
                /\ average' = [average EXCEPT ![o] = answer.average]
                /\ IF Bookable(q, answer)
                   THEN /\ RecordTrade(o, q, v, scopy.position)
                        /\ WritePortfolio(scopy, new)
                        /\ staleWrite' = (staleWrite \/ scopy # portfolio)
                        /\ lostFill' = (lostFill \/ scopy # portfolio)
                   ELSE UNCHANGED <<portfolio, traded, paid, history>>
        /\ NextOrder(o)
        /\ UNCHANGED <<side, quantity, broker, active, runnerVars, crashes>>

-----------------------------------------------------------------------------
(***************************************************************************)
(* The broker, and crashes                                                 *)
(***************************************************************************)

\* The market fills one more share of an open order.
BrokerFills(o, p) ==
    /\ broker[o].status = "open"
    /\ broker' = [broker EXCEPT
            ![o] = [status |-> IF @.filled + 1 = quantity[o] THEN "filled" ELSE "open",
                    filled |-> @.filled + 1,
                    notional |-> @.notional + p]]
    /\ UNCHANGED <<portfolio, orderVars, active, runnerVars, syncVars, crashes, history>>

\* An open order is cancelled or expires; what was filled stays filled.
BrokerCancels(o) ==
    /\ broker[o].status = "open"
    /\ broker' = [broker EXCEPT ![o].status = "canceled"]
    /\ UNCHANGED <<portfolio, orderVars, active, runnerVars, syncVars, crashes, history>>

\* The process dies and starts again: commits stay, threads are gone.
Crash ==
    /\ crashes < MaxCrashes
    /\ crashes' = crashes + 1
    /\ RunnerIdle
    /\ sync' = "idle" /\ queue' = {} /\ scopy' = InitialPortfolio /\ answer' = NoAnswer
    /\ UNCHANGED <<portfolio, orderVars, broker, active, history>>

RunnerNext ==
    \/ LoadPortfolio
    \/ \E price \in Prices : HoldStep(price) \/ ApproveOrder(price)
    \/ \E o \in Orders : PlaceOrder(o)
    \/ PlaceOrderRaises \/ RecordOrder \/ RecordFails

SyncNext ==
    \/ ListOpenOrders
    \/ \E o \in Orders : FetchStatus(o) \/ FetchFails(o) \/ SyncCommit(o)

BrokerNext == \E o \in Orders : BrokerCancels(o) \/ \E p \in Prices : BrokerFills(o, p)

Next == RunnerNext \/ SyncNext \/ BrokerNext \/ Crash

Spec == Init /\ [][Next]_vars

\* The job is scheduled at an interval and goes through its list; a broker that
\* is asked for ever about an order answers some day.  Nothing obliges the
\* experiment to trade or the market to fill.
Fairness ==
    /\ WF_vars(ListOpenOrders)
    /\ WF_vars(\E o \in Orders : FetchStatus(o) \/ FetchFails(o))
    /\ WF_vars(\E o \in Orders : SyncCommit(o))
    /\ \A o \in Orders : SF_vars(FetchStatus(o))

FairSpec == Spec /\ Fairness

-----------------------------------------------------------------------------
(***************************************************************************)
(* Properties                                                              *)
(***************************************************************************)

\* M20: trades are created only for confirmed fills.  However often an order is
\* synchronised, over crashes and late answers, its trades never book more
\* shares than the broker filled.
NoDoubleFill == \A o \in Orders : traded[o] <= broker[o].filled

\* An order that is final in the database, where nobody will look at it again,
\* is booked to the last share, those included that an earlier answer named no
\* price for; unless it is the last answer that names none.
FinalOrdersAreBooked ==
    \A o \in Orders :
        order[o] \in Terminal /\ average[o] = "known" => traded[o] = broker[o].filled

\* The portfolio is what its trades make of the initial capital, unless a fill
\* was booked on a copy that another commit had made outdated, and up to the
\* shares by which a SELL exceeded the position (BR-048).
BooksBalance ==
    ~lostFill =>
        /\ portfolio.cash = InitialCash + net.cash
        /\ portfolio.position = net.shares + net.clamped

\* BR-045: the stored value is cash plus position at the stored price, unless an
\* outdated copy was written.
ValueIsCurrent ==
    ~staleWrite => portfolio.value = portfolio.cash + portfolio.position * portfolio.price

\* BR-044: the local position is never negative, not even when overlapping SELL
\* orders fill more shares than were held.
PositionNotNegative == portfolio.position >= 0

\* A final status is final: no late answer reopens an order.
FinalStatusStays ==
    [][ \A o \in Orders :
            order[o] \in Terminal \cup {"FAILED"} => order'[o] = order[o] ]_vars

\* M20: a submitted order is synchronised until its terminal status, whatever
\* the experiment's status is by then.
OrdersCatchUp ==
    \A o \in Orders :
        order[o] = "SUBMITTED" /\ broker[o].status \in {"filled", "canceled"}
            ~> order[o] \in Terminal

\* Shares were filled and the row has no average price.
Unpriced(o) == broker[o].filled > 0 /\ average[o] = "null"

\* The runner, the synchronisation job and the broker together keep a ledger of
\* shares (FillLedger): whoever books, a share is booked once, after it has been
\* filled; a final row with an average price says that all are booked, and one
\* without it that what was not booked before is written off.
Fills == INSTANCE FillLedger WITH
    state <- [o \in Orders |->
                 IF broker[o].status \in Done THEN "done" ELSE broker[o].status],
    filled <- [o \in Orders |-> broker[o].filled],
    booked <- traded,
    settled <- {o \in Orders : order[o] \in Terminal /\ ~Unpriced(o)},
    writtenOff <- {o \in Orders : order[o] \in Terminal /\ Unpriced(o)}
FillsSpec == Fills!Spec

-----------------------------------------------------------------------------
(***************************************************************************)
(* Rules of the documents that the code does not keep (README.md)          *)
(***************************************************************************)

\* BR-043: cash never becomes negative through paper-trading state updates.
CashNotNegative == portfolio.cash >= 0

\* "The system never opens short positions": at the broker, the shares sold
\* never exceed the shares bought.
SharesFilled(s) ==
    MapThenSumSet(LAMBDA o : broker[o].filled, {o \in Orders : side[o] = s})
NeverShort == SharesFilled("SELL") <= SharesFilled("BUY")

\* BR-052 without the exception above: the local state is the source of truth
\* and every fill is applied into it, so its cash is what the trades make of it.
CashMatchesTrades == portfolio.cash = InitialCash + net.cash

\* M20, without the exception of FinalOrdersAreBooked: confirmed fills create
\* trades, so a final order has them for every share.
FinalOrdersAreBookedInFull ==
    \A o \in Orders : order[o] \in Terminal => traded[o] = broker[o].filled

\* "A Trade is an actual executed transaction": the trades of a filled order
\* cost what the broker's fills cost.
TradesCostWhatWasFilled ==
    \A o \in Orders : order[o] = "FILLED" => paid[o] = broker[o].notional

\* M20: submitted paper orders are synchronised until a terminal broker status:
\* no order row is given up while the broker still works on the order.
NoOrderGivenUp == \A o \in Orders : order[o] = "FAILED" => broker[o].status # "open"

=============================================================================
