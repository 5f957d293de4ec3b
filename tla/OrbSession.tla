------------------------------ MODULE OrbSession ------------------------------
(***************************************************************************)
(* An Opening Range Breakout experiment in paper trading, over the sessions *)
(* of a few calendar days: the scheduler's job that finds the due slot and  *)
(* asks the feed first (scheduler/jobs.py), the step that reads trades,     *)
(* then the portfolio, and decides (execution/paper_step_runner.py,         *)
(* strategies/opening_range_breakout.py), the broker's day orders and the   *)
(* synchronisation that books fills.                                        *)
(*                                                                         *)
(* Prices are what the strategy tells apart: a close above, inside or below *)
(* the opening range.  A BUY is one lot, a SELL all lots the step has read; *)
(* fills are whole and one booking is one step (PaperAccounting looks into  *)
(* both).  One process runs the scheduler, and max_instances=1 allows one   *)
(* run of its job at a time.                                                *)
(***************************************************************************)
EXTENDS TradingCalendar, Sequences

CONSTANTS FirstDay, NumDays,   \* the days looked at
          RangeBars,           \* bars of the opening range (6 in the code)
          MaxOrders,           \* bound: orders placed
          MaxMishaps           \* bound: failing loads, failing and rejected orders

ASSUME SessionAssumption ==
    /\ FirstDay \in Nat /\ NumDays \in Nat \ {0}
    /\ RangeBars \in Nat /\ RangeBars < EarlyBars /\ MaxOrders \in Nat /\ MaxMishaps \in Nat

Days == FirstDay..(FirstDay + NumDays - 1)
SessionBars == [d \in Days |-> BarsIn(d)]
Slots == [day : Days, bar : 1..RegularBars]
Levels == {"above", "inside", "below"}
Actions == {"BUY", "SELL", "HOLD"}

VARIABLES
    day, bars,       \* the wall clock: the day, and how many of its bars are over
    running,         \* the experiment's status is RUNNING
    job,             \* where the job is: [at, slot, roundTrip]
    position,        \* portfolio.position_quantity, in lots
    steps,           \* the step rows, oldest first; history: the orders booked
                     \* before it read the trades, and when it read the portfolio
    orders,          \* the order rows with the broker's view, oldest first: the day
                     \* of the fill, and the date of the trade once it is booked
    mishaps

vars == <<day, bars, running, job, position, steps, orders, mishaps>>

NoDay == 0
Idle == [at |-> "idle", slot |-> [day |-> NoDay, bar |-> 0], roundTrip |-> FALSE]

\* Rows of execution_steps and orders, with their history.
Step == [slot : Slots, status : {"RUNNING", "COMPLETED", "FAILED"}, action : Actions,
         lots : Nat, before : SUBSET Nat, booked : SUBSET Nat]
Order == [step : Nat, state : {"working", "filled", "ended"},
          filled : Days \cup {NoDay}, date : Days \cup {NoDay}, booked : BOOLEAN]

TypeOK ==
    /\ day \in Days /\ bars \in 0..SessionBars[day]
    /\ running \in BOOLEAN
    /\ job \in [at : {"idle", "due", "load", "decide", "submit"},
               slot : Slots \cup {Idle.slot}, roundTrip : BOOLEAN]
    /\ position \in Nat
    /\ steps \in Seq(Step) /\ orders \in Seq(Order)
    /\ \A o \in DOMAIN orders : orders[o].step \in DOMAIN steps
    /\ mishaps \in 0..MaxMishaps

Init ==
    /\ day = FirstDay /\ bars = 0
    /\ running = TRUE
    /\ job = Idle
    /\ position = 0
    /\ steps = <<>> /\ orders = <<>>
    /\ mishaps = 0

-----------------------------------------------------------------------------

Side(o) == steps[orders[o].step].action
BookedOrders == {o \in DOMAIN orders : orders[o].booked}
MarketIsOpen == bars < SessionBars[day]

\* Mutant of DueBar: any completed bar that has no step yet is caught up on.
DueBarWithBackfill(served) ==
    {k \in 1..bars : [day |-> day, bar |-> k] \notin served}

\* _paper_orb_due_slot: the latest completed bar of today's session, the final one
\* until midnight, unless has_step_for_scheduled_slot.
DueBar(served) == {k \in {bars} : k > 0 /\ [day |-> day, bar |-> k] \notin served}

Served == {steps[n].slot : n \in DOMAIN steps}

\* Mutant of IsFinal: a session always ends with the regular final bar.
IsFinalOfRegular(s) == s.bar = RegularBars

\* expected_bar_start_times[-1]
IsFinal(s) == s.bar = SessionBars[s.day]

\* Mutant of RoundTripCompleted: only the oldest trade of the list is looked at.
OldestIsRoundTrip(d) ==
    \E o \in BookedOrders :
        /\ Side(o) = "SELL" /\ orders[o].date = d
        /\ \A p \in BookedOrders : o <= p

\* _orb_round_trip_completed: some SELL trade carries the session's date.
RoundTripCompleted(d) == \E o \in BookedOrders : Side(o) = "SELL" /\ orders[o].date = d

\* Without a round trip, a close outside the opening range is the signal.
Breakout(level, held) ==
    IF level = "above" /\ ~held THEN "BUY"
    ELSE IF level = "below" /\ held THEN "SELL" ELSE "HOLD"

\* OpeningRangeBreakoutStrategy.decide, then the risk check, which approves a BUY
\* without position and a SELL of the position.
Decision(s, roundTrip, held, level) ==
    IF s.bar <= RangeBars THEN "HOLD"
    ELSE IF IsFinal(s) /\ held THEN "SELL"
    ELSE IF roundTrip THEN "HOLD" ELSE Breakout(level, held)

Mishap == mishaps < MaxMishaps /\ mishaps' = mishaps + 1

\* The step row at hand is the newest: one step of an experiment runs at a time.
EndStep(status) ==
    /\ steps' = [steps EXCEPT ![Len(steps)].status = status]
    /\ job' = Idle

-----------------------------------------------------------------------------
(***************************************************************************)
(* The scheduler's job and the step                                        *)
(***************************************************************************)

\* The job computes the due slot, and load_session_until has all bars up to it.
\* When the feed lacks a bar or raises, the slot is skipped without a step.
FindDueSlot ==
    /\ job.at = "idle"
    /\ running
    /\ \E k \in DueBar(Served) :
          job' = [Idle EXCEPT !.at = "due", !.slot = [day |-> day, bar |-> k]]
    /\ UNCHANGED <<day, bars, running, position, steps, orders, mishaps>>

\* The other experiments of this run of the job come first; then the row is made.
CreateStep ==
    /\ job.at = "due"
    /\ steps' = Append(steps, [slot |-> job.slot, status |-> "RUNNING", action |-> "HOLD",
                               lots |-> 0, before |-> {}, booked |-> {}])
    /\ job' = [job EXCEPT !.at = "load"]
    /\ UNCHANGED <<day, bars, running, position, orders, mishaps>>

\* The bars are loaded again, and a transaction of its own reads the trades.
ReadTrades ==
    /\ job.at = "load"
    /\ job' = [job EXCEPT !.at = "decide", !.roundTrip = RoundTripCompleted(job.slot.day)]
    /\ steps' = [steps EXCEPT ![Len(steps)].before = BookedOrders,
                              ![Len(steps)].booked = BookedOrders]
    /\ UNCHANGED <<day, bars, running, position, orders, mishaps>>

\* The feed fails now: the step fails, the experiment goes on, the slot is used up.
LoadFails ==
    /\ job.at = "load"
    /\ Mishap
    /\ EndStep("FAILED")
    /\ UNCHANGED <<day, bars, running, position, orders>>

\* The next transaction reads the portfolio and decides; a HOLD ends the step.
Decide(level) ==
    LET action == Decision(job.slot, job.roundTrip, position > 0, level) IN
    /\ job.at = "decide"
    /\ action # "HOLD" => Len(orders) < MaxOrders
    /\ steps' = [steps EXCEPT ![Len(steps)].booked = BookedOrders,
                              ![Len(steps)].action = action,
                              ![Len(steps)].lots = IF action = "BUY" THEN 1 ELSE position,
                              ![Len(steps)].status = IF action = "HOLD" THEN "COMPLETED" ELSE @]
    /\ job' = IF action = "HOLD" THEN Idle ELSE [job EXCEPT !.at = "submit"]
    /\ UNCHANGED <<day, bars, running, position, orders, mishaps>>

\* The broker takes the order; nothing waits for its fill.
SubmitOrder ==
    /\ job.at = "submit"
    /\ orders' = Append(orders, [step |-> Len(steps), state |-> "working",
                                 filled |-> NoDay, date |-> NoDay, booked |-> FALSE])
    /\ EndStep("COMPLETED")
    /\ UNCHANGED <<day, bars, running, position, mishaps>>

\* place_order raises: the step fails.  The broker rejects the order or answers
\* with an unknown status: the experiment fails with it.
SubmitFails ==
    /\ job.at = "submit"
    /\ Mishap
    /\ running' \in BOOLEAN
    /\ EndStep("FAILED")
    /\ UNCHANGED <<day, bars, position, orders>>

-----------------------------------------------------------------------------
(***************************************************************************)
(* The broker, the synchronisation and the clock                           *)
(***************************************************************************)

\* The market fills an order while it is open, whenever the order was placed.
BrokerFills(o) ==
    /\ MarketIsOpen
    /\ orders[o].state = "working"
    /\ orders' = [orders EXCEPT ![o].state = "filled", ![o].filled = day]
    /\ UNCHANGED <<day, bars, running, job, position, steps, mishaps>>

\* The trade's timestamp is filled_at; without one it is the time of the booking.
\* (In UTC: that a New York evening is the next day there is left out.)
TradeDates(o) == {orders[o].filled, day}

\* The position after the fill of o is applied.
Booked(o) ==
    LET lots == steps[orders[o].step].lots IN
    IF Side(o) = "BUY" THEN position + lots ELSE Max({position - lots, 0})

\* sync_open_orders finds the order filled and books it, at any time of day and
\* whether the experiment runs or not; RecordOrder of a fill that the answer to
\* place_order brings is this step right after SubmitOrder.
BookFill(o) ==
    /\ orders[o].state = "filled" /\ ~orders[o].booked
    /\ \E date \in TradeDates(o) :
          orders' = [orders EXCEPT ![o].booked = TRUE, ![o].date = date]
    /\ position' = Booked(o)
    /\ UNCHANGED <<day, bars, running, job, steps, mishaps>>

\* time_in_force is "day": what is not filled at the close is over.
AtClose(c) ==
    [o \in DOMAIN orders |->
        IF c = SessionBars[day] /\ orders[o].state = "working"
        THEN [orders[o] EXCEPT !.state = "ended"] ELSE orders[o]]

\* Five minutes pass, whatever the job is at.
NextBar ==
    /\ MarketIsOpen
    /\ bars' = bars + 1
    /\ orders' = AtClose(bars + 1)
    /\ UNCHANGED <<day, running, job, position, steps, mishaps>>

\* A run of the job does not last from the close to midnight.
NextDay ==
    /\ ~MarketIsOpen
    /\ job = Idle
    /\ day + 1 \in Days
    /\ day' = day + 1
    /\ bars' = 0
    /\ UNCHANGED <<running, job, position, steps, orders, mishaps>>

JobNext ==
    \/ FindDueSlot \/ CreateStep \/ ReadTrades \/ LoadFails
    \/ \E level \in Levels : Decide(level)
    \/ SubmitOrder \/ SubmitFails

Next ==
    \/ JobNext
    \/ \E o \in DOMAIN orders : BrokerFills(o) \/ BookFill(o)
    \/ NextBar \/ NextDay

Spec == Init /\ [][Next]_vars

-----------------------------------------------------------------------------
(***************************************************************************)
(* Properties                                                              *)
(***************************************************************************)

Slot(o) == steps[orders[o].step].slot

\* Slots are used in the order of time, each at most once: a bar that was missed
\* while the feed or another experiment held up the job is never traded later.
SlotsInOrder ==
    \A m, n \in DOMAIN steps :
        m < n => \/ steps[m].slot.day < steps[n].slot.day
                 \/ /\ steps[m].slot.day = steps[n].slot.day
                    /\ steps[m].slot.bar < steps[n].slot.bar

\* Two BUY orders of one session have an explanation: when the second step read
\* the portfolio, the first order was not booked (or never filled), or a SELL had
\* been booked since the first step read it that the second step could not take
\* for a round trip: it was booked between the step's two transactions, one for the
\* trades and one for the portfolio, or its fill is of an earlier session and was
\* booked late.  Nothing else lets the strategy enter twice.
SecondBuyIsExplained ==
    \A i, j \in DOMAIN orders :
        (i < j /\ Side(i) = "BUY" /\ Side(j) = "BUY" /\ Slot(i).day = Slot(j).day) =>
            LET first == steps[orders[i].step]
                second == steps[orders[j].step]
            IN  \/ i \notin second.booked
                \/ \E o \in second.booked \ first.booked :
                      /\ Side(o) = "SELL"
                      /\ o \in second.before => orders[o].date < second.slot.day

\* A SELL was booked after the step of BUY order o, and before step n, read the
\* portfolio.
SoldSince(o, n) ==
    \E p \in steps[n].booked \ steps[orders[o].step].booked : Side(p) = "SELL"

\* No SELL that knew of BUY order o is booked.
IsHeld(o) ==
    /\ Side(o) = "BUY" /\ orders[o].booked
    /\ \A p \in BookedOrders : Side(p) = "SELL" => o \notin steps[orders[p].step].booked

\* A BUY outlives its session, no SELL that knew of it being booked, only if the
\* session's final bar had no completed step, or the fill was not booked by then,
\* or its SELL is on its way (a final bar is over at the close: the order fills with
\* the next session) or ended unfilled, or the booking of an older SELL, which did
\* not know of it, had taken its lots.
CarriedIsExplained ==
    \A o \in DOMAIN orders :
        (IsHeld(o) /\ orders[o].filled < day) =>
            \A n \in DOMAIN steps :
                (/\ steps[n].slot.day = orders[o].filled
                 /\ steps[n].slot.bar = SessionBars[orders[o].filled]
                 /\ steps[n].status = "COMPLETED"
                 /\ o \in steps[n].booked)
                    => \/ \E p \in DOMAIN orders : orders[p].step = n /\ Side(p) = "SELL"
                       \/ SoldSince(o, n)

-----------------------------------------------------------------------------
(***************************************************************************)
(* Rules of the documents that the code does not keep (README.md)          *)
(***************************************************************************)

\* M23: ORB keeps the historical rule of at most one completed round trip per
\* session, and re-enters no session: no step buys that knew, when it read the
\* portfolio, of a SELL of its own session.  SecondBuyIsExplained names the races
\* that break this.
NoReentry ==
    \A n \in DOMAIN steps :
        steps[n].action = "BUY" =>
            ~ \E o \in steps[n].booked : Side(o) = "SELL" /\ Slot(o).day = steps[n].slot.day

\* "Session already completed one round trip": a step that holds for this reason
\* does so because of a SELL of its own session, not because the exit of the final
\* bar before, which is sent after the close, was filled at this session's opening.
BlockedByOwnSession ==
    (/\ job.at = "decide" /\ job.roundTrip
     /\ job.slot.bar > RangeBars /\ position = 0)
        => \E o \in BookedOrders : Side(o) = "SELL" /\ Slot(o).day = job.slot.day

=============================================================================
