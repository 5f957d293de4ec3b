-------------------------- MODULE OrbSessionProofs --------------------------
(***************************************************************************)
(* The Opening Range Breakout session, for every calendar day, number of   *)
(* days, bars and orders, and every interleaving of job, broker,           *)
(* synchronisation and clock.                                              *)
(***************************************************************************)
EXTENDS OrbSession, TLAPS, WellFoundedInduction

Last == Len(steps)

\* A step is under way: its row is the newest.
InStep == job.at \in {"load", "decide", "submit"}

Earlier(s, t) == s.day < t.day \/ (s.day = t.day /\ s.bar < t.bar)

\* The job's slot is a bar of this day that is over; it is later than all slots
\* used before, and the slot of the newest row once the row is made.
JobInv ==
    /\ job.at = "idle" => job = Idle
    /\ job.at # "idle" => job.slot \in Slots /\ job.slot.day = day /\ job.slot.bar <= bars
    /\ job.at = "due" => \A n \in DOMAIN steps : Earlier(steps[n].slot, job.slot)
    /\ InStep => Last >= 1 /\ steps[Last].slot = job.slot /\ steps[Last].status = "RUNNING"
    /\ job.at \in {"load", "decide"} => steps[Last].action = "HOLD"
    /\ job.at = "submit" => steps[Last].action # "HOLD"

\* No slot of the future is used.
ClockInv ==
    \A n \in DOMAIN steps :
        /\ steps[n].slot.day <= day
        /\ steps[n].slot.day = day => steps[n].slot.bar <= bars

\* Every order is of a step of its own, which has ended, and a fill or a trade is
\* of no later day.
OrderInv ==
    /\ InStep => \A o \in DOMAIN orders : orders[o].step < Last
    /\ \A o \in DOMAIN orders : Side(o) # "HOLD"
    /\ \A o, p \in DOMAIN orders : o < p => orders[o].step < orders[p].step
    /\ \A o \in DOMAIN orders :
          /\ orders[o].state = "filled" => orders[o].filled <= day
          /\ orders[o].booked => orders[o].state = "filled" /\ orders[o].date <= day

\* What a step has read: orders of earlier steps, booked then and ever since.
ReadInv ==
    /\ \A n \in DOMAIN steps :
          /\ steps[n].before \subseteq steps[n].booked
          /\ steps[n].booked \subseteq BookedOrders
          /\ \A o \in steps[n].booked : orders[o].step < n
          /\ steps[n].action = "BUY" => steps[n].lots = 1
    /\ job.at = "decide" =>
          (job.roundTrip <=>
              \E o \in steps[Last].before : Side(o) = "SELL" /\ orders[o].date = job.slot.day)

\* After a BUY step the position is not empty once some BUY has been booked and no
\* SELL.
HeldInv ==
    \A n \in DOMAIN steps :
        LET since == BookedOrders \ steps[n].booked IN
        (/\ steps[n].action = "BUY"
         /\ \E i \in since : Side(i) = "BUY"
         /\ \A o \in since : Side(o) # "SELL") => position > 0

\* A BUY step knows of no BUY order, but for one whose lots a SELL has taken that
\* the step could not take for a round trip.
EntryInv ==
    \A n \in DOMAIN steps :
        steps[n].action = "BUY" =>
            \A i \in steps[n].booked :
                Side(i) = "BUY" =>
                    \E o \in steps[n].booked \ steps[orders[i].step].booked :
                        /\ Side(o) = "SELL"
                        /\ o \in steps[n].before => orders[o].date < steps[n].slot.day

Decided(n) == steps[n].status = "COMPLETED" \/ (job.at = "submit" /\ n = Last)

\* The decision at the final bar is to sell what a BUY order has left in the
\* portfolio.
ExitInv ==
    \A n \in DOMAIN steps :
        (Decided(n) /\ IsFinal(steps[n].slot)) =>
            \A o \in steps[n].booked :
                Side(o) = "BUY" => steps[n].action = "SELL" \/ SoldSince(o, n)

\* A completed step that does not hold has placed its order.
SentInv ==
    \A n \in DOMAIN steps :
        (steps[n].status = "COMPLETED" /\ steps[n].action # "HOLD") =>
            \E p \in DOMAIN orders : orders[p].step = n

IInv ==
    /\ TypeOK /\ JobInv /\ ClockInv /\ SlotsInOrder /\ OrderInv /\ ReadInv
    /\ HeldInv /\ EntryInv /\ ExitInv /\ SentInv

-----------------------------------------------------------------------------
(***************************************************************************)
(* Days, bars and rows                                                     *)
(***************************************************************************)

LEMMA DaysAreNumbers ==
    /\ Days \subseteq Nat /\ NoDay = 0 /\ FirstDay \in Days
    /\ \A d \in Days : SessionBars[d] \in {0, EarlyBars, RegularBars}
    /\ RegularBars \in Nat /\ EarlyBars \in Nat /\ EarlyBars >= 1 /\ EarlyBars < RegularBars
    /\ RangeBars \in Nat /\ RangeBars < EarlyBars
  BY SessionAssumption, CalendarAssumption DEF Days, NoDay, SessionBars, BarsIn

LEMMA DatesAreNumbers == \A d \in Days \cup {NoDay} : d \in Nat
  BY DaysAreNumbers

LEMMA MaxOfTwo ==
    ASSUME NEW a \in Int
    PROVE  Max({a, 0}) \in Nat
  BY DEF Max

\* A row more.
LEMMA AppendRow ==
    ASSUME NEW S, NEW s \in Seq(S), NEW e \in S, NEW t, t = Append(s, e)
    PROVE  /\ t \in Seq(S) /\ Len(s) \in Nat /\ Len(t) = Len(s) + 1
           /\ DOMAIN s = 1..Len(s) /\ DOMAIN t = 1..Len(t)
           /\ \A n \in DOMAIN s : t[n] = s[n]
           /\ t[Len(t)] = e
  OBVIOUS

\* Another value of a row.
LEMMA ReplaceRow ==
    ASSUME NEW S, NEW s \in Seq(S), NEW k \in DOMAIN s, NEW e \in S,
           NEW t, t = [s EXCEPT ![k] = e]
    PROVE  /\ t \in Seq(S) /\ Len(s) \in Nat /\ Len(t) = Len(s)
           /\ DOMAIN s = 1..Len(s) /\ DOMAIN t = DOMAIN s
           /\ \A n \in DOMAIN s \ {k} : t[n] = s[n]
           /\ t[k] = e
  OBVIOUS

-----------------------------------------------------------------------------
(***************************************************************************)
(* What a step does to the rows                                            *)
(***************************************************************************)

NewRow == [slot |-> job.slot, status |-> "RUNNING", action |-> "HOLD",
           lots |-> 0, before |-> {}, booked |-> {}]

\* The newest row becomes e.
Rewrites(e) == steps' = [steps EXCEPT ![Last] = e]

RowOnReading == [steps[Last] EXCEPT !.before = BookedOrders, !.booked = BookedOrders]

RowOnDeciding(action) ==
    [steps[Last] EXCEPT !.booked = BookedOrders, !.action = action,
                        !.lots = IF action = "BUY" THEN 1 ELSE position,
                        !.status = IF action = "HOLD" THEN "COMPLETED" ELSE @]

RowOnEnding(status) == [steps[Last] EXCEPT !.status = status]

LEMMA RowTypes ==
    ASSUME TypeOK, JobInv
    PROVE  /\ Last \in Nat /\ DOMAIN steps = 1..Last
           /\ \A n \in DOMAIN steps : n \in Nat /\ 1 <= n /\ n <= Last /\ steps[n] \in Step
           /\ Len(orders) \in Nat /\ DOMAIN orders = 1..Len(orders)
           /\ \A o \in DOMAIN orders :
                 /\ o \in Nat /\ 1 <= o /\ o <= Len(orders) /\ orders[o] \in Order
                 /\ orders[o].step \in DOMAIN steps
           /\ InStep => Last \in DOMAIN steps /\ steps[Last] \in Step
  BY DEF TypeOK, JobInv, Last

LEMMA DecisionTypes ==
    ASSUME NEW s, NEW r, NEW h, NEW level
    PROVE  Decision(s, r, h, level) \in Actions
  BY DEF Decision, Breakout, Actions

LEMMA RewriteEffect ==
    ASSUME TypeOK, JobInv, InStep, NEW e \in Step, Rewrites(e)
    PROVE  /\ steps' \in Seq(Step) /\ Len(steps') = Last /\ DOMAIN steps' = DOMAIN steps
           /\ \A n \in DOMAIN steps \ {Last} : steps'[n] = steps[n]
           /\ steps'[Last] = e
  <1>1. steps \in Seq(Step) /\ Last \in DOMAIN steps
    BY RowTypes DEF TypeOK
  <1> QED
    BY <1>1, ReplaceRow DEF Rewrites, Last

LEMMA CreateStepEffect ==
    ASSUME TypeOK, JobInv, CreateStep
    PROVE  /\ steps' \in Seq(Step) /\ Len(steps') = Last + 1
           /\ DOMAIN steps' = 1..(Last + 1)
           /\ \A n \in DOMAIN steps : steps'[n] = steps[n]
           /\ steps'[Last + 1] = NewRow
           /\ job.at = "due" /\ job' = [job EXCEPT !.at = "load"]
           /\ UNCHANGED <<day, bars, running, position, orders, mishaps>>
  <1>1. NewRow \in Step
    BY DEF NewRow, Step, Actions, CreateStep, JobInv
  <1>2. steps \in Seq(Step) /\ steps' = Append(steps, NewRow)
    BY DEF TypeOK, CreateStep, NewRow
  <1>3. /\ steps' \in Seq(Step) /\ Len(steps') = Last + 1 /\ DOMAIN steps' = 1..Len(steps')
        /\ \A n \in DOMAIN steps : steps'[n] = steps[n]
        /\ steps'[Len(steps')] = NewRow
    BY <1>1, <1>2, AppendRow DEF Last
  <1> QED
    BY <1>3 DEF CreateStep

LEMMA ReadTradesEffect ==
    ASSUME TypeOK, JobInv, ReadTrades
    PROVE  InStep /\ RowOnReading \in Step /\ Rewrites(RowOnReading)
  <1>1. InStep /\ steps[Last] \in Step /\ Last \in DOMAIN steps
    BY RowTypes DEF ReadTrades, InStep
  <1>2. BookedOrders \subseteq Nat
    BY RowTypes DEF BookedOrders
  <1>3. RowOnReading \in Step
    BY <1>1, <1>2 DEF RowOnReading, Step
  <1>4. Rewrites(RowOnReading)
    BY <1>1 DEF ReadTrades, Rewrites, RowOnReading, Last
  <1> QED
    BY <1>1, <1>3, <1>4

LEMMA DecideEffect ==
    ASSUME TypeOK, JobInv, NEW level \in Levels, Decide(level),
           NEW action, action = Decision(job.slot, job.roundTrip, position > 0, level)
    PROVE  InStep /\ RowOnDeciding(action) \in Step /\ Rewrites(RowOnDeciding(action))
  <1>1. InStep /\ steps[Last] \in Step /\ Last \in DOMAIN steps /\ action \in Actions
    BY RowTypes, DecisionTypes DEF Decide, InStep
  <1>2. BookedOrders \subseteq Nat /\ position \in Nat
    BY RowTypes DEF BookedOrders, TypeOK
  <1>3. RowOnDeciding(action) \in Step
    BY <1>1, <1>2 DEF RowOnDeciding, Step
  <1>4. Rewrites(RowOnDeciding(action))
    BY <1>1 DEF Decide, Rewrites, RowOnDeciding, Last
  <1> QED
    BY <1>1, <1>3, <1>4

LEMMA EndStepEffect ==
    ASSUME TypeOK, JobInv, InStep, NEW s \in {"COMPLETED", "FAILED"}, EndStep(s)
    PROVE  RowOnEnding(s) \in Step /\ Rewrites(RowOnEnding(s)) /\ job' = Idle
  <1>1. steps[Last] \in Step /\ Last \in DOMAIN steps
    BY RowTypes
  <1>2. RowOnEnding(s) \in Step
    BY <1>1 DEF RowOnEnding, Step
  <1>3. Rewrites(RowOnEnding(s)) /\ job' = Idle
    BY <1>1 DEF EndStep, Rewrites, RowOnEnding, Last
  <1> QED
    BY <1>2, <1>3

-----------------------------------------------------------------------------

\* The three statuses a step may end or go on with, and what is in the row by then.
LEMMA RowEffects ==
    ASSUME TypeOK, JobInv, [Next]_vars
    PROVE  /\ steps' \in Seq(Step)
           /\ DOMAIN steps \subseteq DOMAIN steps' /\ DOMAIN steps' = 1..Len(steps)'
           /\ \A n \in DOMAIN steps :
                 /\ steps'[n].slot = steps[n].slot
                 /\ (InStep /\ n = Last) \/ steps'[n] = steps[n]
           /\ CreateStep \/ Len(steps)' = Last
           /\ InStep =>
                 \/ steps'[Last] = steps[Last] /\ job' = job
                 \/ ReadTrades /\ steps'[Last] = RowOnReading
                 \/ LoadFails /\ steps'[Last] = RowOnEnding("FAILED") /\ job' = Idle
                 \/ \E level \in Levels :
                       /\ Decide(level)
                       /\ steps'[Last] = RowOnDeciding(Decision(job.slot, job.roundTrip,
                                                               position > 0, level))
                 \/ SubmitOrder /\ steps'[Last] = RowOnEnding("COMPLETED") /\ job' = Idle
                 \/ SubmitFails /\ steps'[Last] = RowOnEnding("FAILED") /\ job' = Idle
  <1>1. steps \in Seq(Step) /\ DOMAIN steps = 1..Last
    BY RowTypes DEF TypeOK
  <1>2. CASE UNCHANGED steps /\ (InStep => job' = job)
    BY <1>1, <1>2 DEF Last
  <1>3. ASSUME InStep, NEW e \in Step, Rewrites(e), e.slot = steps[Last].slot
        PROVE  /\ steps' \in Seq(Step) /\ Len(steps)' = Last /\ DOMAIN steps' = DOMAIN steps
               /\ \A n \in DOMAIN steps :
                     steps'[n].slot = steps[n].slot /\ (n = Last \/ steps'[n] = steps[n])
               /\ steps'[Last] = e
    BY <1>3, RewriteEffect
  <1>4. CASE CreateStep
    BY <1>1, <1>4, CreateStepEffect DEF InStep, Last
  <1>5. CASE ReadTrades
    <2>1. InStep /\ RowOnReading \in Step /\ Rewrites(RowOnReading)
      BY <1>5, ReadTradesEffect
    <2>2. RowOnReading.slot = steps[Last].slot
      BY <2>1, RowTypes DEF RowOnReading, Step
    <2> QED
      BY <1>1, <1>3, <1>5, <2>1, <2>2
  <1>6. CASE LoadFails \/ SubmitFails \/ SubmitOrder
    <2>1. InStep
      BY <1>6 DEF LoadFails, SubmitFails, SubmitOrder, InStep
    <2>2. ASSUME NEW s \in {"COMPLETED", "FAILED"}, EndStep(s)
          PROVE  /\ RowOnEnding(s) \in Step /\ Rewrites(RowOnEnding(s)) /\ job' = Idle
                 /\ RowOnEnding(s).slot = steps[Last].slot
      BY <2>1, <2>2, EndStepEffect, RowTypes DEF RowOnEnding, Step
    <2>3. CASE LoadFails
      BY <1>1, <1>3, <2>1, <2>2, <2>3 DEF LoadFails
    <2>4. CASE SubmitFails
      BY <1>1, <1>3, <2>1, <2>2, <2>4 DEF SubmitFails
    <2>5. CASE SubmitOrder
      BY <1>1, <1>3, <2>1, <2>2, <2>5 DEF SubmitOrder
    <2> QED
      BY <1>6, <2>3, <2>4, <2>5
  <1>7. ASSUME NEW level \in Levels, Decide(level)
        PROVE  /\ InStep /\ steps' \in Seq(Step) /\ Len(steps)' = Last
               /\ DOMAIN steps' = DOMAIN steps
               /\ \A n \in DOMAIN steps :
                     steps'[n].slot = steps[n].slot /\ (n = Last \/ steps'[n] = steps[n])
               /\ steps'[Last] = RowOnDeciding(Decision(job.slot, job.roundTrip,
                                                        position > 0, level))
    <2> DEFINE action == Decision(job.slot, job.roundTrip, position > 0, level)
    <2>1. InStep /\ RowOnDeciding(action) \in Step /\ Rewrites(RowOnDeciding(action))
      BY <1>7, DecideEffect
    <2>2. RowOnDeciding(action).slot = steps[Last].slot
      BY <2>1, RowTypes DEF RowOnDeciding, Step
    <2> HIDE DEF action
    <2>3. /\ InStep /\ steps' \in Seq(Step) /\ Len(steps)' = Last
          /\ DOMAIN steps' = DOMAIN steps
          /\ \A n \in DOMAIN steps :
                     steps'[n].slot = steps[n].slot /\ (n = Last \/ steps'[n] = steps[n])
          /\ steps'[Last] = RowOnDeciding(action)
      BY <1>3, <2>1, <2>2
    <2> QED
      BY <2>3 DEF action
  <1>8. CASE \E level \in Levels : Decide(level)
    <2>1. PICK level \in Levels : Decide(level)
      BY <1>8
    <2> QED
      BY <1>1, <1>7, <2>1
  <1>9. CASE \/ FindDueSlot \/ NextBar \/ NextDay \/ UNCHANGED vars
             \/ \E o \in DOMAIN orders : BrokerFills(o) \/ BookFill(o)
    <2>1. UNCHANGED steps /\ (InStep => job' = job)
      BY <1>9 DEF FindDueSlot, NextBar, NextDay, vars, BrokerFills, BookFill, InStep, Idle
    <2> QED
      BY <1>2, <2>1
  <1> QED
    BY <1>4, <1>5, <1>6, <1>8, <1>9 DEF Next, JobNext

NewOrder == [step |-> Last, state |-> "working", filled |-> NoDay, date |-> NoDay,
             booked |-> FALSE]

LEMMA SubmitOrderEffect ==
    ASSUME TypeOK, JobInv, SubmitOrder
    PROVE  /\ orders' \in Seq(Order) /\ DOMAIN orders' = 1..(Len(orders) + 1)
           /\ \A o \in DOMAIN orders : orders'[o] = orders[o]
           /\ orders'[Len(orders) + 1] = NewOrder
           /\ UNCHANGED position
  <1>1. NewOrder \in Order
    BY RowTypes DEF NewOrder, Order
  <1>2. orders \in Seq(Order) /\ orders' = Append(orders, NewOrder)
    BY DEF TypeOK, SubmitOrder, NewOrder, Last
  <1>3. /\ orders' \in Seq(Order) /\ Len(orders') = Len(orders) + 1
        /\ DOMAIN orders' = 1..Len(orders')
        /\ \A o \in DOMAIN orders : orders'[o] = orders[o]
        /\ orders'[Len(orders')] = NewOrder
    BY <1>1, <1>2, AppendRow
  <1> QED
    BY <1>3 DEF SubmitOrder

\* The broker's and the synchronisation's steps are about one order.
LEMMA FillEffect ==
    ASSUME TypeOK, JobInv, NEW o \in DOMAIN orders, BrokerFills(o) \/ BookFill(o)
    PROVE  /\ orders' \in Seq(Order) /\ DOMAIN orders' = DOMAIN orders
           /\ \A p \in DOMAIN orders \ {o} : orders'[p] = orders[p]
           /\ orders'[o].step = orders[o].step
           /\ BrokerFills(o) =>
                 /\ orders[o].state = "working" /\ orders'[o].state = "filled"
                 /\ orders'[o].filled = day /\ orders'[o].booked = orders[o].booked
                 /\ UNCHANGED position
           /\ BookFill(o) =>
                 /\ orders[o].state = "filled" /\ orders'[o].state = "filled"
                 /\ ~orders[o].booked /\ orders'[o].booked
                 /\ orders'[o].filled = orders[o].filled
                 /\ orders'[o].date \in {orders[o].filled, day}
                 /\ position' = Booked(o)
           /\ UNCHANGED <<steps, job, day, bars, running, mishaps>>
  <1>1. /\ orders \in Seq(Order) /\ orders[o] \in Order /\ day \in Days
    BY RowTypes DEF TypeOK
  <1>2. CASE BrokerFills(o)
    <2> DEFINE e == [orders[o] EXCEPT !.state = "filled", !.filled = day]
    <2>1. e \in Order /\ orders' = [orders EXCEPT ![o] = e]
      BY <1>1, <1>2 DEF BrokerFills, Order
    <2>2. /\ e.step = orders[o].step /\ e.state = "filled" /\ e.filled = day
          /\ e.booked = orders[o].booked
      BY <1>1 DEF Order
    <2> HIDE DEF e
    <2>3. /\ orders' \in Seq(Order) /\ DOMAIN orders' = DOMAIN orders
          /\ \A p \in DOMAIN orders \ {o} : orders'[p] = orders[p]
          /\ orders'[o] = e
      BY <1>1, <2>1, ReplaceRow
    <2>4. orders[o].state = "working"
      BY <1>2 DEF BrokerFills
    <2> QED
      BY <1>2, <2>2, <2>3, <2>4 DEF BrokerFills, BookFill
  <1>3. CASE BookFill(o)
    <2>1. PICK date \in TradeDates(o) :
              orders' = [orders EXCEPT ![o].booked = TRUE, ![o].date = date]
      BY <1>3 DEF BookFill
    <2> DEFINE e == [orders[o] EXCEPT !.booked = TRUE, !.date = date]
    <2>2. e \in Order /\ orders' = [orders EXCEPT ![o] = e]
      BY <1>1, <2>1 DEF TradeDates, Order
    <2>3. /\ e.step = orders[o].step /\ e.state = orders[o].state
          /\ e.filled = orders[o].filled /\ e.date = date
      BY <1>1 DEF Order
    <2>4. e.booked
      BY <1>1 DEF Order
    <2> HIDE DEF e
    <2>5. /\ orders' \in Seq(Order) /\ DOMAIN orders' = DOMAIN orders
          /\ \A p \in DOMAIN orders \ {o} : orders'[p] = orders[p]
          /\ orders'[o] = e
      BY <1>1, <2>2, ReplaceRow
    <2>6. orders[o].state = "filled" /\ ~orders[o].booked
      BY <1>3 DEF BookFill
    <2> QED
      BY <1>3, <2>1, <2>3, <2>4, <2>5, <2>6 DEF BrokerFills, BookFill, TradeDates
  <1> QED
    BY <1>2, <1>3

LEMMA NextBarEffect ==
    ASSUME TypeOK, JobInv, NextBar
    PROVE  /\ orders' \in Seq(Order) /\ DOMAIN orders' = DOMAIN orders
           /\ \A o \in DOMAIN orders :
                 /\ orders'[o].step = orders[o].step /\ orders'[o].booked = orders[o].booked
                 /\ orders'[o].filled = orders[o].filled /\ orders'[o].date = orders[o].date
                 /\ orders[o].state = "working" \/ orders'[o] = orders[o]
                 /\ orders'[o].state = "filled" => orders[o].state = "filled"
           /\ UNCHANGED <<steps, job, day, running, position, mishaps>> /\ bars' = bars + 1
  <1>1. orders' = [o \in DOMAIN orders |->
            IF bars + 1 = SessionBars[day] /\ orders[o].state = "working"
            THEN [orders[o] EXCEPT !.state = "ended"] ELSE orders[o]]
    BY DEF NextBar, AtClose
  <1>2. DOMAIN orders = 1..Len(orders) /\ Len(orders) \in Nat
        /\ \A o \in DOMAIN orders : orders[o] \in Order
    BY RowTypes
  <1>3. \A o \in DOMAIN orders :
            orders'[o] \in {orders[o], [orders[o] EXCEPT !.state = "ended"]}
    BY <1>1
  <1>4. \A o \in DOMAIN orders :
            orders[o].state # "working" => orders'[o] = orders[o]
    BY <1>1
  <1>5. \A e \in Order :
            LET f == [e EXCEPT !.state = "ended"] IN
            /\ f \in Order /\ f.state = "ended" /\ f.step = e.step /\ f.booked = e.booked
            /\ f.filled = e.filled /\ f.date = e.date
    BY DEF Order
  <1>6. \A o \in DOMAIN orders : orders'[o] \in Order
    BY <1>2, <1>3, <1>5
  <1>7. orders' \in Seq(Order) /\ DOMAIN orders' = DOMAIN orders
    BY <1>1, <1>2, <1>6
  <1>8. \A o \in DOMAIN orders :
                 /\ orders'[o].step = orders[o].step /\ orders'[o].booked = orders[o].booked
                 /\ orders'[o].filled = orders[o].filled /\ orders'[o].date = orders[o].date
                 /\ orders'[o].state = "filled" => orders[o].state = "filled"
    BY <1>2, <1>3, <1>5
  <1> QED
    BY <1>4, <1>7, <1>8 DEF NextBar

\* Orders are of the step they were placed by, what is booked stays as it is, and
\* only BookFill books.
LEMMA OrderEffects ==
    ASSUME TypeOK, JobInv, OrderInv, [Next]_vars
    PROVE  /\ orders' \in Seq(Order)
           /\ DOMAIN orders \subseteq DOMAIN orders'
           /\ \A o \in DOMAIN orders :
                 /\ orders'[o].step = orders[o].step
                 /\ orders[o].booked => orders'[o] = orders[o]
           /\ \A o \in DOMAIN orders' \ DOMAIN orders :
                 SubmitOrder /\ o = Len(orders) + 1 /\ orders'[o] = NewOrder
           /\ \/ BookedOrders' = BookedOrders /\ UNCHANGED position
              \/ \E o \in DOMAIN orders :
                    BookFill(o) /\ o \notin BookedOrders /\ BookedOrders' = BookedOrders \cup {o}
  <1>1. /\ \A o \in DOMAIN orders : orders[o] \in Order
        /\ \A o \in DOMAIN orders : orders[o].booked => orders[o].state = "filled"
        /\ orders \in Seq(Order) /\ DOMAIN orders = 1..Len(orders) /\ Len(orders) \in Nat
    BY RowTypes DEF OrderInv, TypeOK
  <1>2. CASE UNCHANGED <<orders, position>>
    <2>1. BookedOrders' = BookedOrders
      BY <1>2 DEF BookedOrders
    <2> QED
      BY <1>1, <1>2, <2>1
  <1>3. CASE SubmitOrder
    <2>1. BookedOrders' = BookedOrders
      <3>1. ~NewOrder.booked
        BY DEF NewOrder
      <3> QED
        BY <1>1, <1>3, <3>1, SubmitOrderEffect DEF BookedOrders
    <2> QED
      BY <1>1, <1>3, <2>1, SubmitOrderEffect
  <1>4. ASSUME NEW o \in DOMAIN orders, BrokerFills(o)
        PROVE  /\ BookedOrders' = BookedOrders
               /\ \A p \in DOMAIN orders : orders[p].booked => orders'[p] = orders[p]
    BY <1>1, <1>4, FillEffect DEF BookedOrders
  <1>5. ASSUME NEW o \in DOMAIN orders, BookFill(o)
        PROVE  /\ o \notin BookedOrders /\ BookedOrders' = BookedOrders \cup {o}
               /\ \A p \in DOMAIN orders : orders[p].booked => orders'[p] = orders[p]
    BY <1>1, <1>5, FillEffect DEF BookedOrders
  <1>6. CASE \E o \in DOMAIN orders : BrokerFills(o) \/ BookFill(o)
    <2>1. PICK o \in DOMAIN orders : BrokerFills(o) \/ BookFill(o)
      BY <1>6
    <2> QED
      BY <2>1, <1>4, <1>5, FillEffect
  <1>7. CASE NextBar
    <2>1. BookedOrders' = BookedOrders
      BY <1>7, NextBarEffect DEF BookedOrders
    <2>2. \A o \in DOMAIN orders : orders[o].booked => orders'[o] = orders[o]
      BY <1>1, <1>7, NextBarEffect
    <2> QED
      BY <1>7, <2>1, <2>2, NextBarEffect
  <1>8. CASE \/ FindDueSlot \/ CreateStep \/ ReadTrades \/ LoadFails \/ SubmitFails \/ NextDay
             \/ UNCHANGED vars \/ \E level \in Levels : Decide(level)
    BY <1>2, <1>8 DEF FindDueSlot, CreateStep, ReadTrades, LoadFails, SubmitFails, NextDay, vars,
                      Decide
  <1> QED
    BY <1>3, <1>6, <1>7, <1>8 DEF Next, JobNext

\* An order's side and slot never change.
LEMMA SidesStay ==
    ASSUME TypeOK, JobInv, OrderInv, [Next]_vars
    PROVE  /\ \A o \in DOMAIN orders :
                 /\ steps'[orders[o].step] = steps[orders[o].step]
                 /\ steps'[orders'[o].step] = steps[orders[o].step]
                 /\ Side(o)' = Side(o)
           /\ \A o \in DOMAIN orders' \ DOMAIN orders :
                 Side(o)' = steps[Last].action /\ orders'[o].step = Last
  <1>1. \A o \in DOMAIN orders : steps'[orders[o].step] = steps[orders[o].step]
    <2> SUFFICES ASSUME NEW o \in DOMAIN orders
                 PROVE  steps'[orders[o].step] = steps[orders[o].step]
      OBVIOUS
    <2>1. InStep => orders[o].step # Last
      BY RowTypes DEF OrderInv
    <2>2. orders[o].step \in DOMAIN steps
      BY RowTypes
    <2> QED
      BY <2>1, <2>2, RowEffects
  <1>2. ASSUME NEW o \in DOMAIN orders' \ DOMAIN orders
        PROVE  Side(o)' = steps[Last].action /\ orders'[o].step = Last
    <2>1. SubmitOrder /\ orders'[o].step = Last
      BY <1>2, OrderEffects DEF NewOrder
    <2>2. InStep /\ EndStep("COMPLETED")
      BY <2>1 DEF SubmitOrder, InStep
    <2>3. steps[Last] \in Step /\ Last \in DOMAIN steps /\ Rewrites(RowOnEnding("COMPLETED"))
          /\ RowOnEnding("COMPLETED") \in Step
      BY <2>2, EndStepEffect, RowTypes
    <2>4. steps'[Last] = RowOnEnding("COMPLETED")
      BY <2>2, <2>3, RewriteEffect
    <2>5. steps'[Last].action = steps[Last].action
      BY <2>3, <2>4 DEF RowOnEnding, Step
    <2> QED
      BY <2>1, <2>5 DEF Side
  <1> QED
    BY <1>1, <1>2, OrderEffects DEF Side

-----------------------------------------------------------------------------
(***************************************************************************)
(* Types, the job and the clock                                            *)
(***************************************************************************)

LEMMA BarsFit ==
    ASSUME TypeOK
    PROVE  /\ day \in Nat /\ bars \in Nat /\ bars <= RegularBars
           /\ SessionBars[day] \in Nat
           /\ \A k \in 1..bars : [day |-> day, bar |-> k] \in Slots
  <1>1. day \in Days /\ day \in Nat /\ SessionBars[day] \in {0, EarlyBars, RegularBars}
    BY DaysAreNumbers DEF TypeOK
  <1>2. SessionBars[day] \in Nat /\ SessionBars[day] <= RegularBars /\ RegularBars \in Nat
    BY <1>1, DaysAreNumbers
  <1>3. bars \in Nat /\ bars <= RegularBars
    BY <1>2 DEF TypeOK
  <1>4. \A k \in 1..bars : k \in 1..RegularBars
    BY <1>2, <1>3
  <1> QED
    BY <1>1, <1>2, <1>3, <1>4 DEF Slots

LEMMA SlotTypes ==
    ASSUME NEW s \in Slots
    PROVE  s.day \in Days /\ s.day \in Nat /\ s.bar \in Nat /\ s.bar >= 1
           /\ s.bar <= RegularBars
  <1>1. s.day \in Days /\ s.bar \in 1..RegularBars
    BY DEF Slots
  <1>2. s.day \in Nat /\ RegularBars \in Nat
    BY <1>1, DaysAreNumbers
  <1> QED
    BY <1>1, <1>2

\* A slot that FindDueSlot finds is later than those in use.
LEMMA DueSlotIsNew ==
    ASSUME TypeOK, JobInv, ClockInv, FindDueSlot
    PROVE  /\ job.at = "idle" /\ job'.at = "due" /\ job'.slot \in Slots
           /\ job'.slot.day = day /\ job'.slot.bar <= bars
           /\ job'.roundTrip = FALSE
           /\ \A n \in DOMAIN steps : Earlier(steps[n].slot, job'.slot)
           /\ UNCHANGED <<day, bars, running, position, steps, orders, mishaps>>
  <1>1. PICK k \in DueBar(Served) :
            job' = [Idle EXCEPT !.at = "due", !.slot = [day |-> day, bar |-> k]]
    BY DEF FindDueSlot
  <1>2. k = bars /\ k > 0 /\ [day |-> day, bar |-> k] \notin Served
    BY <1>1 DEF DueBar
  <1>3. job' = [at |-> "due", slot |-> [day |-> day, bar |-> k], roundTrip |-> FALSE]
    BY <1>1 DEF Idle
  <1>4. [day |-> day, bar |-> k] \in Slots
    BY <1>2, BarsFit
  <1>5. ASSUME NEW n \in DOMAIN steps PROVE Earlier(steps[n].slot, job'.slot)
    <2>1. steps[n].slot \in Slots
      BY RowTypes DEF Step
    <2>2. steps[n].slot # [day |-> day, bar |-> k]
      BY <1>2 DEF Served
    <2>3. steps[n].slot.day # day \/ steps[n].slot.bar # k
      BY <2>1, <2>2 DEF Slots
    <2> QED
      BY <1>2, <1>3, <2>1, <2>3, SlotTypes, BarsFit DEF ClockInv, Earlier
  <1>6. /\ job'.at = "due" /\ job'.roundTrip = FALSE /\ job'.slot \in Slots
        /\ job'.slot.day = day /\ job'.slot.bar = bars
    BY <1>2, <1>3, <1>4
  <1>7. bars <= bars
    BY BarsFit
  <1> QED
    BY <1>5, <1>6, <1>7 DEF FindDueSlot

LEMMA MoveTypes ==
    ASSUME TypeOK, JobInv, ClockInv, OrderInv, [Next]_vars
    PROVE  TypeOK'
  <1>1. day' \in Days /\ bars' \in 0..SessionBars[day']
    <2>1. CASE NextBar
      BY <2>1, BarsFit DEF TypeOK, NextBar, MarketIsOpen
    <2>2. CASE NextDay
      BY <2>2, DaysAreNumbers DEF TypeOK, NextDay
    <2>3. CASE ~NextBar /\ ~NextDay
      <3>1. UNCHANGED <<day, bars>>
        BY <2>3 DEF Next, JobNext, FindDueSlot, CreateStep, ReadTrades, LoadFails, Decide,
                    SubmitOrder, SubmitFails, BrokerFills, BookFill, vars
      <3> QED
        BY <3>1 DEF TypeOK
    <2> QED
      BY <2>1, <2>2, <2>3
  <1>2. running' \in BOOLEAN
    BY DEF TypeOK, Next, JobNext, FindDueSlot, CreateStep, ReadTrades, LoadFails, Decide,
           SubmitOrder, SubmitFails, BrokerFills, BookFill, NextBar, NextDay, vars
  <1>3. job' \in [at : {"idle", "due", "load", "decide", "submit"},
                  slot : Slots \cup {Idle.slot}, roundTrip : BOOLEAN]
    <2> DEFINE J == [at : {"idle", "due", "load", "decide", "submit"},
                     slot : Slots \cup {Idle.slot}, roundTrip : BOOLEAN]
    <2>1. CASE FindDueSlot
      <3>1. PICK k \in DueBar(Served) :
                job' = [Idle EXCEPT !.at = "due", !.slot = [day |-> day, bar |-> k]]
        BY <2>1 DEF FindDueSlot
      <3>2. [day |-> day, bar |-> k] \in Slots
        BY <3>1, BarsFit DEF DueBar
      <3> QED
        BY <3>1, <3>2 DEF Idle
    <2>2. job \in J /\ Idle \in J
      BY DEF TypeOK, Idle
    <2>3. ASSUME job' = Idle \/ UNCHANGED job PROVE job' \in J
      BY <2>2, <2>3
    <2>4. CASE CreateStep
      BY <2>2, <2>4 DEF CreateStep
    <2>5. CASE ReadTrades
      BY <2>2, <2>5 DEF ReadTrades, RoundTripCompleted
    <2>6. CASE \E level \in Levels : Decide(level)
      BY <2>2, <2>6 DEF Decide
    <2>7. CASE \/ LoadFails \/ SubmitOrder \/ SubmitFails \/ NextBar \/ NextDay \/ UNCHANGED vars
               \/ \E o \in DOMAIN orders : BrokerFills(o) \/ BookFill(o)
      BY <2>3, <2>7 DEF LoadFails, SubmitOrder, SubmitFails, EndStep, NextBar, NextDay, vars,
                        BrokerFills, BookFill
    <2> QED
      BY <2>1, <2>4, <2>5, <2>6, <2>7 DEF Next, JobNext
  <1>4. position' \in Nat
    <2>1. ASSUME NEW o \in DOMAIN orders, BookFill(o) PROVE position' \in Nat
      <3>1. steps[orders[o].step].lots \in Nat /\ position \in Nat
        BY RowTypes DEF Step, TypeOK
      <3>2. /\ position + steps[orders[o].step].lots \in Nat
            /\ position - steps[orders[o].step].lots \in Int
        BY <3>1
      <3>3. Booked(o) \in Nat
        BY <3>2, MaxOfTwo DEF Booked
      <3> QED
        BY <2>1, <3>3, FillEffect
    <2>2. position \in Nat
      BY DEF TypeOK
    <2> QED
      BY <2>1, <2>2, OrderEffects
  <1>5. steps' \in Seq(Step) /\ orders' \in Seq(Order)
    BY RowEffects, OrderEffects
  <1>6. \A o \in DOMAIN orders' : orders'[o].step \in DOMAIN steps'
    <2> SUFFICES ASSUME NEW o \in DOMAIN orders' PROVE orders'[o].step \in DOMAIN steps'
      OBVIOUS
    <2>1. CASE o \in DOMAIN orders
      BY <2>1, OrderEffects, RowEffects, RowTypes
    <2>2. CASE o \notin DOMAIN orders
      <3>1. SubmitOrder /\ orders'[o].step = Last
        BY <2>2, OrderEffects, SidesStay
      <3>2. Last \in DOMAIN steps
        BY <3>1, RowTypes DEF SubmitOrder, InStep
      <3> QED
        BY <3>1, <3>2, RowEffects
    <2> QED
      BY <2>1, <2>2
  <1>7. mishaps' \in 0..MaxMishaps
    <2>1. mishaps' = mishaps \/ Mishap
      BY DEF Next, JobNext, FindDueSlot, CreateStep, ReadTrades, LoadFails, Decide, SubmitOrder,
             SubmitFails, BrokerFills, BookFill, NextBar, NextDay, vars
    <2> QED
      BY <2>1, SessionAssumption DEF TypeOK, Mishap
  <1> QED
    BY <1>1, <1>2, <1>3, <1>4, <1>5, <1>6, <1>7 DEF TypeOK

LEMMA MoveJob ==
    ASSUME TypeOK, JobInv, ClockInv, [Next]_vars
    PROVE  JobInv'
  <1> USE DEF InStep
  <1>1. CASE FindDueSlot
    BY <1>1, DueSlotIsNew DEF JobInv
  <1>2. CASE CreateStep
    <2>1. /\ job.at = "due" /\ job' = [job EXCEPT !.at = "load"]
          /\ Len(steps') = Last + 1 /\ Last \in Nat /\ steps'[Last + 1] = NewRow
          /\ UNCHANGED <<day, bars>>
      BY <1>2, CreateStepEffect, RowTypes
    <2>2. job'.at = "load" /\ job'.slot = job.slot
      BY <2>1 DEF TypeOK
    <2>3. NewRow.slot = job.slot /\ NewRow.status = "RUNNING" /\ NewRow.action = "HOLD"
      BY DEF NewRow
    <2> QED
      BY <2>1, <2>2, <2>3 DEF JobInv, Last
  <1>3. CASE ReadTrades
    <2>1. /\ InStep /\ steps[Last] \in Step /\ steps'[Last] = RowOnReading
          /\ Len(steps') = Last /\ UNCHANGED <<day, bars>>
      BY <1>3, ReadTradesEffect, RewriteEffect, RowTypes DEF ReadTrades
    <2>2. job.at = "load" /\ job'.at = "decide" /\ job'.slot = job.slot
      BY <1>3 DEF ReadTrades, TypeOK
    <2>3. /\ RowOnReading.slot = steps[Last].slot /\ RowOnReading.status = steps[Last].status
          /\ RowOnReading.action = steps[Last].action
      BY <2>1 DEF RowOnReading, Step
    <2> QED
      BY <2>1, <2>2, <2>3 DEF JobInv, Last
  <1>4. CASE \E level \in Levels : Decide(level)
    <2>1. PICK level \in Levels : Decide(level)
      BY <1>4
    <2> DEFINE action == Decision(job.slot, job.roundTrip, position > 0, level)
    <2>2. /\ job.at = "decide" /\ UNCHANGED <<day, bars>>
          /\ job' = IF action = "HOLD" THEN Idle ELSE [job EXCEPT !.at = "submit"]
      BY <2>1 DEF Decide
    <2>3. RowOnDeciding(action) \in Step /\ Rewrites(RowOnDeciding(action))
      BY <2>1, DecideEffect
    <2> HIDE DEF action
    <2>4. steps'[Last] = RowOnDeciding(action) /\ Len(steps') = Last /\ steps[Last] \in Step
      BY <2>2, <2>3, RewriteEffect, RowTypes
    <2>5. CASE action = "HOLD"
      BY <2>2, <2>5 DEF JobInv, Idle
    <2>6. CASE action # "HOLD"
      <3>1. job'.at = "submit" /\ job'.slot = job.slot
        BY <2>2, <2>6 DEF TypeOK
      <3>2. /\ RowOnDeciding(action).slot = steps[Last].slot
            /\ RowOnDeciding(action).status = steps[Last].status
            /\ RowOnDeciding(action).action = action
        BY <2>4, <2>6 DEF RowOnDeciding, Step
      <3> QED
        BY <2>2, <2>4, <2>6, <3>1, <3>2 DEF JobInv, Last
    <2> QED
      BY <2>5, <2>6
  <1>5. CASE LoadFails \/ SubmitOrder \/ SubmitFails
    BY <1>5 DEF LoadFails, SubmitOrder, SubmitFails, EndStep, JobInv, Idle
  <1>6. CASE NextBar
    <2>1. UNCHANGED <<steps, job, day>> /\ bars' = bars + 1
      BY <1>6 DEF NextBar
    <2>2. \A s \in Slots : s.bar \in Nat
      BY SlotTypes
    <2> QED
      BY <2>1, <2>2, BarsFit DEF JobInv, Last
  <1>7. CASE NextDay
    BY <1>7 DEF NextDay, JobInv, Idle
  <1>8. CASE UNCHANGED vars \/ \E o \in DOMAIN orders : BrokerFills(o) \/ BookFill(o)
    <2>1. UNCHANGED <<steps, job, day, bars>>
      BY <1>8 DEF vars, BrokerFills, BookFill
    <2> QED
      BY <2>1 DEF JobInv, Last
  <1> QED
    BY <1>1, <1>2, <1>3, <1>4, <1>5, <1>6, <1>7, <1>8 DEF Next, JobNext

\* Time goes on.
LEMMA TimeGoesOn ==
    ASSUME TypeOK, [Next]_vars
    PROVE  \/ day' = day /\ bars' \in Nat /\ bars <= bars'
           \/ NextDay /\ day' = day + 1
  <1>1. CASE NextBar
    BY <1>1, BarsFit DEF NextBar
  <1>2. CASE NextDay
    BY <1>2 DEF NextDay
  <1>3. CASE ~NextBar /\ ~NextDay
    <2>1. UNCHANGED <<day, bars>>
      BY <1>3 DEF Next, JobNext, FindDueSlot, CreateStep, ReadTrades, LoadFails, Decide,
                  SubmitOrder, SubmitFails, BrokerFills, BookFill, vars
    <2> QED
      BY <2>1, BarsFit
  <1> QED
    BY <1>1, <1>2, <1>3

LEMMA MoveClock ==
    ASSUME TypeOK, JobInv, ClockInv, [Next]_vars
    PROVE  ClockInv'
  <1> SUFFICES ASSUME NEW n \in DOMAIN steps'
               PROVE  /\ steps'[n].slot.day <= day'
                      /\ steps'[n].slot.day = day' => steps'[n].slot.bar <= bars'
    BY DEF ClockInv
  <1>1. CASE n \in DOMAIN steps
    <2>1. steps'[n].slot = steps[n].slot /\ steps[n].slot \in Slots
      BY <1>1, RowEffects, RowTypes DEF Step
    <2>2. /\ steps[n].slot.day \in Nat /\ steps[n].slot.bar \in Nat
          /\ steps[n].slot.day <= day
          /\ steps[n].slot.day = day => steps[n].slot.bar <= bars
      BY <1>1, <2>1, SlotTypes DEF ClockInv
    <2> QED
      BY <2>1, <2>2, TimeGoesOn, BarsFit
  <1>2. CASE n \notin DOMAIN steps
    <2>1. CreateStep
      BY <1>2, RowEffects, RowTypes
    <2>2. n = Last + 1
      BY <1>2, <2>1, CreateStepEffect, RowTypes
    <2>3. steps'[n].slot = job.slot /\ UNCHANGED <<day, bars>>
      BY <2>1, <2>2, CreateStepEffect DEF NewRow
    <2> QED
      BY <2>1, <2>3, BarsFit DEF CreateStep, JobInv
  <1> QED
    BY <1>1, <1>2

LEMMA MoveSlots ==
    ASSUME TypeOK, JobInv, SlotsInOrder, [Next]_vars
    PROVE  SlotsInOrder'
  <1> SUFFICES ASSUME NEW m \in DOMAIN steps', NEW n \in DOMAIN steps', m < n
               PROVE  Earlier(steps'[m].slot, steps'[n].slot)
    BY DEF SlotsInOrder, Earlier
  <1>1. CASE n \in DOMAIN steps /\ m \in DOMAIN steps
    <2>1. steps'[m].slot = steps[m].slot /\ steps'[n].slot = steps[n].slot
      BY <1>1, RowEffects
    <2> QED
      BY <1>1, <2>1 DEF SlotsInOrder, Earlier
  <1>2. CASE ~(n \in DOMAIN steps /\ m \in DOMAIN steps)
    <2>1. CreateStep
      BY <1>2, RowEffects, RowTypes
    <2>2. n = Last + 1 /\ m \in DOMAIN steps
      BY <1>2, <2>1, CreateStepEffect, RowTypes
    <2>3. steps'[n].slot = job.slot /\ steps'[m].slot = steps[m].slot /\ job.at = "due"
      BY <2>1, <2>2, CreateStepEffect DEF NewRow
    <2> QED
      BY <2>2, <2>3 DEF JobInv
  <1> QED
    BY <1>1, <1>2

-----------------------------------------------------------------------------
(***************************************************************************)
(* Orders, and what the steps have read                                    *)
(***************************************************************************)

LEMMA MoveOrders ==
    ASSUME TypeOK, JobInv, OrderInv, [Next]_vars
    PROVE  OrderInv'
  <1>1. InStep' => \A o \in DOMAIN orders' : orders'[o].step < Len(steps)'
    <2> SUFFICES ASSUME InStep', NEW o \in DOMAIN orders'
                 PROVE  orders'[o].step < Len(steps)'
      OBVIOUS
    <2>1. ~SubmitOrder
      BY DEF SubmitOrder, EndStep, Idle, InStep
    <2>2. o \in DOMAIN orders /\ orders'[o].step = orders[o].step
      BY <2>1, OrderEffects
    <2>3. CASE CreateStep
      BY <2>2, <2>3, CreateStepEffect, RowTypes
    <2>4. CASE ~CreateStep
      <3>1. InStep
        BY <2>4 DEF InStep, Next, JobNext, FindDueSlot, ReadTrades, LoadFails, Decide, EndStep,
                    SubmitOrder, SubmitFails, BrokerFills, BookFill, NextBar, NextDay, vars, Idle
      <3> QED
        BY <2>2, <2>4, <3>1, RowEffects DEF OrderInv
    <2> QED
      BY <2>3, <2>4
  <1>2. \A o \in DOMAIN orders' : Side(o)' # "HOLD"
    <2> SUFFICES ASSUME NEW o \in DOMAIN orders' PROVE Side(o)' # "HOLD"
      OBVIOUS
    <2>1. CASE o \in DOMAIN orders
      BY <2>1, SidesStay DEF OrderInv
    <2>2. CASE o \notin DOMAIN orders
      <3>1. SubmitOrder /\ Side(o)' = steps[Last].action
        BY <2>2, OrderEffects, SidesStay
      <3> QED
        BY <3>1 DEF SubmitOrder, JobInv
    <2> QED
      BY <2>1, <2>2
  <1>3. \A o, p \in DOMAIN orders' : o < p => orders'[o].step < orders'[p].step
    <2> SUFFICES ASSUME NEW o \in DOMAIN orders', NEW p \in DOMAIN orders', o < p
                 PROVE  orders'[o].step < orders'[p].step
      OBVIOUS
    <2>1. CASE o \in DOMAIN orders /\ p \in DOMAIN orders
      BY <2>1, OrderEffects DEF OrderInv
    <2>2. CASE ~(o \in DOMAIN orders /\ p \in DOMAIN orders)
      <3>1. SubmitOrder
        BY <2>2, OrderEffects
      <3>2. p = Len(orders) + 1 /\ o \in DOMAIN orders
        BY <2>2, <3>1, SubmitOrderEffect, RowTypes
      <3>3. orders'[p].step = Last /\ orders'[o].step = orders[o].step
        BY <3>1, <3>2, SubmitOrderEffect DEF NewOrder
      <3>4. InStep
        BY <3>1 DEF SubmitOrder, InStep
      <3> QED
        BY <3>2, <3>3, <3>4 DEF OrderInv
    <2> QED
      BY <2>1, <2>2
  <1>4. \A o \in DOMAIN orders' :
          /\ orders'[o].state = "filled" => orders'[o].filled <= day'
          /\ orders'[o].booked => orders'[o].state = "filled" /\ orders'[o].date <= day'
    <2> SUFFICES ASSUME NEW o \in DOMAIN orders'
                 PROVE  /\ orders'[o].state = "filled" => orders'[o].filled <= day'
                        /\ orders'[o].booked => orders'[o].state = "filled" /\ orders'[o].date <= day'
      OBVIOUS
    <2>1. day \in Nat /\ day' \in Nat /\ day <= day'
      BY TimeGoesOn, BarsFit
    <2>2. o \in DOMAIN orders => /\ orders[o].filled \in Nat /\ orders[o].date \in Nat
                                 /\ orders[o].state = "filled" => orders[o].filled <= day
                                 /\ orders[o].booked => orders[o].state = "filled" /\ orders[o].date <= day
      <3> SUFFICES ASSUME o \in DOMAIN orders
                   PROVE  /\ orders[o].filled \in Nat /\ orders[o].date \in Nat
                          /\ orders[o].state = "filled" => orders[o].filled <= day
                          /\ orders[o].booked =>
                                orders[o].state = "filled" /\ orders[o].date <= day
        OBVIOUS
      <3>1. orders[o].filled \in Days \cup {NoDay} /\ orders[o].date \in Days \cup {NoDay}
        BY RowTypes DEF Order
      <3>2. orders[o].filled \in Nat /\ orders[o].date \in Nat
        BY <3>1, DatesAreNumbers
      <3>3. orders[o].state = "filled" => orders[o].filled <= day
        BY DEF OrderInv
      <3>4. orders[o].booked => orders[o].state = "filled" /\ orders[o].date <= day
        BY DEF OrderInv
      <3> QED
        BY <3>2, <3>3, <3>4
    <2>3. CASE o \in DOMAIN orders /\ orders'[o] = orders[o]
      BY <2>1, <2>2, <2>3
    <2>4. CASE SubmitOrder
      <3>1. o \in DOMAIN orders \/ orders'[o] = NewOrder
        BY <2>4, OrderEffects
      <3>2. NewOrder.state = "working" /\ ~NewOrder.booked
        BY DEF NewOrder
      <3> QED
        BY <2>3, <2>4, <3>1, <3>2, SubmitOrderEffect
    <2>5. ASSUME NEW p \in DOMAIN orders, BrokerFills(p)
          PROVE  /\ orders'[o].state = "filled" => orders'[o].filled <= day'
                 /\ orders'[o].booked => orders'[o].state = "filled" /\ orders'[o].date <= day'
      <3>1. CASE o # p
        BY <2>3, <2>5, <3>1, FillEffect
      <3>2. CASE o = p
        <4>1. orders'[o].state = "filled" /\ orders'[o].filled = day /\ ~orders'[o].booked
          BY <2>2, <2>5, <3>2, FillEffect
        <4> QED
          BY <2>1, <4>1
      <3> QED
        BY <3>1, <3>2
    <2>6. ASSUME NEW p \in DOMAIN orders, BookFill(p)
          PROVE  /\ orders'[o].state = "filled" => orders'[o].filled <= day'
                 /\ orders'[o].booked => orders'[o].state = "filled" /\ orders'[o].date <= day'
      <3>1. CASE o # p
        BY <2>3, <2>6, <3>1, FillEffect
      <3>2. CASE o = p
        <4>1. /\ orders'[o].state = "filled" /\ orders'[o].filled = orders[o].filled
              /\ orders[o].state = "filled"
              /\ orders'[o].date \in {orders[o].filled, day} /\ day' = day
          BY <2>6, <3>2, FillEffect
        <4> QED
          BY <2>1, <2>2, <3>2, <4>1
      <3> QED
        BY <3>1, <3>2
    <2>7. CASE NextBar
      <3>1. /\ o \in DOMAIN orders /\ orders'[o].booked = orders[o].booked
            /\ orders'[o].filled = orders[o].filled /\ orders'[o].date = orders[o].date
            /\ orders[o].state = "working" \/ orders'[o] = orders[o]
            /\ orders'[o].state = "filled" => orders[o].state = "filled"
        BY <2>7, NextBarEffect
      <3> QED
        BY <2>1, <2>2, <3>1
    <2>8. CASE UNCHANGED orders
      BY <2>3, <2>8
    <2> QED
      BY <2>4, <2>5, <2>6, <2>7, <2>8
      DEF Next, JobNext, FindDueSlot, CreateStep, ReadTrades, LoadFails, Decide, SubmitFails,
          NextDay, vars
  <1> QED
    BY <1>1, <1>2, <1>3, <1>4 DEF OrderInv, Last

\* What a row says of the step's reading changes with the reading only, and then
\* the orders stay.
LEMMA ReadingEffects ==
    ASSUME TypeOK, JobInv, OrderInv, [Next]_vars, NEW n \in DOMAIN steps'
    PROVE  \/ /\ n \in DOMAIN steps
              /\ steps'[n].before = steps[n].before /\ steps'[n].booked = steps[n].booked
              /\ steps'[n].action = steps[n].action /\ steps'[n].lots = steps[n].lots
              /\ steps'[n].slot = steps[n].slot
           \/ /\ CreateStep /\ n = Last + 1
              /\ steps'[n].before = {} /\ steps'[n].booked = {} /\ steps'[n].action = "HOLD"
              /\ steps'[n].slot = job.slot /\ steps'[n].status = "RUNNING"
           \/ /\ ReadTrades /\ InStep /\ n = Last /\ n \in DOMAIN steps
              /\ steps'[n].before = BookedOrders /\ steps'[n].booked = BookedOrders
              /\ steps'[n].action = "HOLD" /\ steps'[n].slot = steps[n].slot
              /\ steps'[n].status = "RUNNING"
              /\ UNCHANGED <<orders, position>>
           \/ \E level \in Levels :
                 /\ Decide(level) /\ InStep /\ n = Last /\ n \in DOMAIN steps
                 /\ steps'[n].before = steps[n].before /\ steps'[n].booked = BookedOrders
                 /\ steps'[n].action = Decision(job.slot, job.roundTrip, position > 0, level)
                 /\ steps'[n].action = "BUY" => steps'[n].lots = 1
                 /\ steps'[n].slot = steps[n].slot
                 /\ UNCHANGED <<orders, position>>
  <1>1. CASE n \in DOMAIN steps /\ steps'[n] = steps[n]
    BY <1>1
  <1>2. CASE n \notin DOMAIN steps
    <2>1. CreateStep
      BY <1>2, RowEffects, RowTypes
    <2>2. n = Last + 1 /\ steps'[n] = NewRow
      BY <1>2, <2>1, CreateStepEffect, RowTypes
    <2> QED
      BY <2>1, <2>2 DEF NewRow
  <1>3. CASE n \in DOMAIN steps /\ steps'[n] # steps[n]
    <2>1. InStep /\ n = Last
      BY <1>3, RowEffects
    <2>2. steps[n] \in Step /\ n \in DOMAIN steps
      BY <1>3, RowTypes
    <2>3. CASE ReadTrades /\ steps'[Last] = RowOnReading
      <3>1. steps[n].action = "HOLD" /\ steps[n].status = "RUNNING"
        BY <2>1, <2>3 DEF ReadTrades, JobInv
      <3>2. /\ RowOnReading.before = BookedOrders /\ RowOnReading.booked = BookedOrders
            /\ RowOnReading.action = steps[n].action /\ RowOnReading.slot = steps[n].slot
            /\ RowOnReading.status = steps[n].status
        BY <2>1, <2>2 DEF RowOnReading, Step
      <3>3. UNCHANGED <<orders, position>>
        BY <2>3 DEF ReadTrades
      <3> QED
        BY <2>1, <2>2, <2>3, <3>1, <3>2, <3>3
    <2>4. ASSUME NEW status, steps'[Last] = RowOnEnding(status)
          PROVE  /\ steps'[n].before = steps[n].before /\ steps'[n].booked = steps[n].booked
                 /\ steps'[n].action = steps[n].action /\ steps'[n].lots = steps[n].lots
                 /\ steps'[n].slot = steps[n].slot
      BY <2>1, <2>2, <2>4 DEF RowOnEnding, Step
    <2>5. ASSUME NEW level \in Levels, Decide(level),
                 steps'[Last] = RowOnDeciding(Decision(job.slot, job.roundTrip,
                                                       position > 0, level))
          PROVE  /\ steps'[n].before = steps[n].before /\ steps'[n].booked = BookedOrders
                 /\ steps'[n].action = Decision(job.slot, job.roundTrip, position > 0, level)
                 /\ steps'[n].action = "BUY" => steps'[n].lots = 1
                 /\ steps'[n].slot = steps[n].slot
                 /\ UNCHANGED <<orders, position>>
      <3> DEFINE action == Decision(job.slot, job.roundTrip, position > 0, level)
      <3>1. steps'[n] = RowOnDeciding(action)
        BY <2>1, <2>5
      <3> HIDE DEF action
      <3>2. /\ RowOnDeciding(action).before = steps[n].before
            /\ RowOnDeciding(action).booked = BookedOrders
            /\ RowOnDeciding(action).action = action
            /\ action = "BUY" => RowOnDeciding(action).lots = 1
            /\ RowOnDeciding(action).slot = steps[n].slot
        BY <2>1, <2>2 DEF RowOnDeciding, Step
      <3>3. UNCHANGED <<orders, position>>
        BY <2>5 DEF Decide
      <3> QED
        BY <3>1, <3>2, <3>3 DEF action
    <2> QED
      BY <1>3, <2>1, <2>2, <2>3, <2>4, <2>5, RowEffects
  <1> QED
    BY <1>1, <1>2, <1>3

LEMMA MoveRead ==
    ASSUME TypeOK, JobInv, OrderInv, ReadInv, [Next]_vars
    PROVE  ReadInv'
  <1>1. BookedOrders \subseteq BookedOrders' /\ BookedOrders \subseteq DOMAIN orders
    BY OrderEffects DEF BookedOrders
  <1>2. \A n \in DOMAIN steps' :
            /\ steps'[n].before \subseteq steps'[n].booked
            /\ steps'[n].booked \subseteq BookedOrders'
            /\ \A o \in steps'[n].booked : orders'[o].step < n
            /\ steps'[n].action = "BUY" => steps'[n].lots = 1
    <2> SUFFICES ASSUME NEW n \in DOMAIN steps'
                 PROVE  /\ steps'[n].before \subseteq steps'[n].booked
                        /\ steps'[n].booked \subseteq BookedOrders'
                        /\ \A o \in steps'[n].booked : orders'[o].step < n
                        /\ steps'[n].action = "BUY" => steps'[n].lots = 1
      OBVIOUS
    <2>1. CASE /\ n \in DOMAIN steps
               /\ steps'[n].before = steps[n].before /\ steps'[n].booked = steps[n].booked
               /\ steps'[n].action = steps[n].action /\ steps'[n].lots = steps[n].lots
      BY <1>1, <2>1, OrderEffects DEF ReadInv
    <2>2. CASE steps'[n].before = {} /\ steps'[n].booked = {} /\ steps'[n].action = "HOLD"
      BY <2>2
    <2>3. CASE /\ InStep /\ n = Last /\ n \in DOMAIN steps
               /\ steps'[n].before \in {BookedOrders, steps[n].before}
               /\ steps'[n].booked = BookedOrders
               /\ steps'[n].action = "BUY" => steps'[n].lots = 1
               /\ UNCHANGED <<orders, position>>
      <3>1. steps[n].before \subseteq BookedOrders
        BY <2>3 DEF ReadInv
      <3>2. \A o \in BookedOrders : orders'[o].step < n
        BY <1>1, <2>3 DEF OrderInv
      <3> QED
        BY <1>1, <2>3, <3>1, <3>2
    <2>4. "HOLD" # "BUY"
      OBVIOUS
    <2> QED
      BY <2>1, <2>2, <2>3, <2>4, ReadingEffects
  <1>3. ASSUME job'.at = "decide"
        PROVE  job'.roundTrip <=>
                   \E o \in steps'[Len(steps')].before :
                       Side(o)' = "SELL" /\ orders'[o].date = job'.slot.day
    <2>1. CASE ReadTrades
      <3>1. /\ steps'[Last] = RowOnReading /\ Len(steps') = Last /\ steps[Last] \in Step
            /\ UNCHANGED orders
        BY <2>1, ReadTradesEffect, RewriteEffect, RowTypes DEF ReadTrades
      <3>2. RowOnReading.before = BookedOrders
        BY <3>1 DEF RowOnReading, Step
      <3>3. job'.slot = job.slot /\ job'.roundTrip = RoundTripCompleted(job.slot.day)
        BY <2>1 DEF ReadTrades, TypeOK
      <3>4. \A o \in BookedOrders : Side(o)' = Side(o) /\ orders'[o] = orders[o]
        BY <1>1, <3>1, SidesStay
      <3>5. (\E o \in BookedOrders : Side(o) = "SELL" /\ orders[o].date = job.slot.day)
                <=> \E o \in BookedOrders : Side(o)' = "SELL" /\ orders'[o].date = job.slot.day
        BY <3>4
      <3>6. RoundTripCompleted(job.slot.day)
                <=> \E o \in BookedOrders : Side(o) = "SELL" /\ orders[o].date = job.slot.day
        BY DEF RoundTripCompleted
      <3> QED
        BY <3>1, <3>2, <3>3, <3>5, <3>6
    <2>2. CASE ~ReadTrades
      <3>1. job' = job
        <4>1. FindDueSlot => job'.at = "due"
          <5> SUFFICES ASSUME FindDueSlot PROVE job'.at = "due"
            OBVIOUS
          <5>1. PICK k : job' = [Idle EXCEPT !.at = "due", !.slot = [day |-> day, bar |-> k]]
            BY DEF FindDueSlot
          <5>2. job' = [at |-> "due", slot |-> [day |-> day, bar |-> k], roundTrip |-> FALSE]
            BY <5>1 DEF Idle
          <5> QED
            BY <5>2
        <4>2. CreateStep => job'.at = "load"
          BY DEF CreateStep, TypeOK
        <4>3. LoadFails \/ SubmitOrder \/ SubmitFails => job'.at = "idle"
          BY DEF LoadFails, SubmitOrder, SubmitFails, EndStep, Idle
        <4>4. (\E level \in Levels : Decide(level)) => job'.at \in {"idle", "submit"}
          BY DEF Decide, Idle, TypeOK
        <4> QED
          BY <1>3, <2>2, <4>1, <4>2, <4>3, <4>4
          DEF Next, JobNext, BrokerFills, BookFill, NextBar, NextDay, vars
      <3>2. InStep /\ job.at = "decide"
        BY <1>3, <3>1 DEF InStep
      <3>3. steps'[Last] = steps[Last] /\ Len(steps') = Last
        <4>1. ~LoadFails /\ ~SubmitOrder /\ ~SubmitFails /\ ~CreateStep
          BY <3>2 DEF LoadFails, SubmitOrder, SubmitFails, CreateStep
        <4>2. \A level \in Levels : ~Decide(level)
          BY <1>3 DEF Decide, Idle, TypeOK
        <4> QED
          BY <2>2, <3>2, <4>1, <4>2, RowEffects DEF Last
      <3>4. \A o \in steps[Last].before : /\ o \in BookedOrders /\ o \in DOMAIN orders
        BY <1>1, <3>2, RowTypes DEF ReadInv
      <3>5. \A o \in steps[Last].before : Side(o)' = Side(o) /\ orders'[o] = orders[o]
        BY <3>4, SidesStay, OrderEffects DEF BookedOrders
      <3>6. job.roundTrip <=>
                \E o \in steps[Last].before : Side(o) = "SELL" /\ orders[o].date = job.slot.day
        BY <3>2 DEF ReadInv
      <3> QED
        BY <3>1, <3>3, <3>5, <3>6
    <2> QED
      BY <2>1, <2>2
  <1> QED
    BY <1>2, <1>3 DEF ReadInv, Last

-----------------------------------------------------------------------------
(***************************************************************************)
(* The position, and what the steps decide from it                         *)
(***************************************************************************)

LEMMA SideTypes ==
    ASSUME TypeOK, JobInv, OrderInv, ReadInv, NEW o \in DOMAIN orders
    PROVE  /\ Side(o) \in {"BUY", "SELL"}
           /\ Side(o) = "BUY" => steps[orders[o].step].lots = 1
  <1>1. steps[orders[o].step] \in Step /\ orders[o].step \in DOMAIN steps
    BY RowTypes
  <1> QED
    BY <1>1 DEF Side, Step, Actions, OrderInv, ReadInv

\* What a row says was booked are orders, which keep side, date and step.
LEMMA ReadOrders ==
    ASSUME TypeOK, JobInv, OrderInv, ReadInv, [Next]_vars,
           NEW n \in DOMAIN steps, NEW o \in steps[n].booked
    PROVE  /\ o \in BookedOrders /\ o \in DOMAIN orders /\ orders'[o] = orders[o]
           /\ Side(o)' = Side(o)
           /\ steps'[orders'[o].step] = steps[orders[o].step]
           /\ orders[o].step \in DOMAIN steps
  <1>1. o \in BookedOrders
    BY DEF ReadInv
  <1>2. o \in DOMAIN orders /\ orders[o].booked
    BY <1>1 DEF BookedOrders
  <1> QED
    BY <1>1, <1>2, OrderEffects, SidesStay, RowTypes

LEMMA MoveHeld ==
    ASSUME TypeOK, JobInv, OrderInv, ReadInv, HeldInv, [Next]_vars
    PROVE  HeldInv'
  <1> SUFFICES ASSUME NEW n \in DOMAIN steps', steps'[n].action = "BUY",
                      NEW i \in BookedOrders' \ steps'[n].booked, Side(i)' = "BUY",
                      \A o \in BookedOrders' \ steps'[n].booked : Side(o)' # "SELL"
               PROVE  position' > 0
    BY DEF HeldInv
  <1>1. BookedOrders' # steps'[n].booked
    OBVIOUS
  <1>2. UNCHANGED orders => BookedOrders' = BookedOrders
    BY DEF BookedOrders
  <1>3. "BUY" # "HOLD"
    OBVIOUS
  <1>4. /\ n \in DOMAIN steps
        /\ steps'[n].booked = steps[n].booked /\ steps[n].action = "BUY"
    BY <1>1, <1>2, <1>3, ReadingEffects
  <1>5. \A o \in BookedOrders : o \in DOMAIN orders /\ Side(o)' = Side(o)
    BY SidesStay DEF BookedOrders
  <1>6. CASE BookedOrders' = BookedOrders /\ UNCHANGED position
    BY <1>4, <1>5, <1>6 DEF HeldInv
  <1>7. ASSUME NEW o \in DOMAIN orders, BookFill(o), o \notin BookedOrders,
               BookedOrders' = BookedOrders \cup {o}
        PROVE  position' > 0
    <2>1. o \notin steps[n].booked
      BY <1>4, <1>7 DEF ReadInv
    <2>2. Side(o)' # "SELL"
      BY <1>4, <1>7, <2>1
    <2>3. Side(o) = "BUY" /\ steps[orders[o].step].lots = 1
      BY <2>2, SidesStay, SideTypes
    <2>4. position' = Booked(o) /\ Booked(o) = position + 1
      BY <1>7, <2>3, FillEffect DEF Booked
    <2>5. position \in Nat
      BY DEF TypeOK
    <2> QED
      BY <2>4, <2>5
  <1> QED
    BY <1>6, <1>7, OrderEffects

\* A step that reads no position, although it knows of a BUY order, knows of a SELL
\* that was booked since that order's step.
LEMMA NothingLeft ==
    ASSUME TypeOK, JobInv, OrderInv, ReadInv, HeldInv, ~(position > 0),
           NEW i \in BookedOrders, Side(i) = "BUY"
    PROVE  \E o \in BookedOrders \ steps[orders[i].step].booked : Side(o) = "SELL"
  <1> DEFINE m == orders[i].step
  <1>1. i \in DOMAIN orders /\ m \in DOMAIN steps /\ m \in Nat
    BY RowTypes DEF BookedOrders
  <1>2. i \notin steps[m].booked
    BY <1>1 DEF ReadInv
  <1>3. steps[m].action = "BUY"
    BY DEF Side
  <1>4. ~ \A o \in BookedOrders \ steps[m].booked : Side(o) # "SELL"
    BY <1>1, <1>2, <1>3 DEF HeldInv
  <1> QED
    BY <1>4

LEMMA MoveEntry ==
    ASSUME TypeOK, JobInv, OrderInv, ReadInv, HeldInv, EntryInv, [Next]_vars
    PROVE  EntryInv'
  <1> SUFFICES ASSUME NEW n \in DOMAIN steps', steps'[n].action = "BUY",
                      NEW i \in steps'[n].booked, Side(i)' = "BUY"
               PROVE  \E o \in steps'[n].booked \ steps'[orders'[i].step].booked :
                         /\ Side(o)' = "SELL"
                         /\ o \in steps'[n].before => orders'[o].date < steps'[n].slot.day
    BY DEF EntryInv
  <1>1. CASE /\ n \in DOMAIN steps
             /\ steps'[n].before = steps[n].before /\ steps'[n].booked = steps[n].booked
             /\ steps'[n].action = steps[n].action /\ steps'[n].slot = steps[n].slot
    <2>1. \A o \in steps[n].booked :
              /\ orders'[o] = orders[o] /\ Side(o)' = Side(o)
              /\ steps'[orders'[o].step] = steps[orders[o].step]
      BY <1>1, ReadOrders
    <2>2. PICK o \in steps[n].booked \ steps[orders[i].step].booked :
              Side(o) = "SELL" /\ (o \in steps[n].before => orders[o].date < steps[n].slot.day)
      BY <1>1, <2>1 DEF EntryInv
    <2> QED
      BY <1>1, <2>1, <2>2
  <1>2. ASSUME NEW level \in Levels, Decide(level), InStep, n = Last, n \in DOMAIN steps,
               steps'[n].before = steps[n].before, steps'[n].booked = BookedOrders,
               steps'[n].action = Decision(job.slot, job.roundTrip, position > 0, level),
               steps'[n].slot = steps[n].slot, UNCHANGED <<orders, position>>
        PROVE  \E o \in steps'[n].booked \ steps'[orders'[i].step].booked :
                  /\ Side(o)' = "SELL"
                  /\ o \in steps'[n].before => orders'[o].date < steps'[n].slot.day
    <2>1. \A o \in BookedOrders : /\ o \in DOMAIN orders /\ Side(o)' = Side(o)
                                  /\ steps'[orders'[o].step] = steps[orders[o].step]
      BY SidesStay DEF BookedOrders
    <2>2. ~(position > 0) /\ ~job.roundTrip
      BY <1>2 DEF Decision, Breakout
    <2>3. PICK o \in BookedOrders \ steps[orders[i].step].booked : Side(o) = "SELL"
      BY <1>2, <2>1, <2>2, NothingLeft
    <2>4. ASSUME o \in steps[n].before PROVE orders[o].date < steps[n].slot.day
      <3>1. job.at = "decide"
        BY <1>2 DEF Decide
      <3>2. orders[o].date # job.slot.day
        BY <1>2, <2>2, <2>3, <2>4, <3>1 DEF ReadInv
      <3>3. job.slot.day = day /\ steps[n].slot = job.slot
        BY <1>2, <3>1 DEF JobInv
      <3>4. o \in DOMAIN orders /\ orders[o].booked
        BY <2>3 DEF BookedOrders
      <3>5. orders[o].date <= day
        BY <3>4 DEF OrderInv
      <3>6. orders[o].date \in Nat /\ day \in Nat
        <4>1. orders[o].date \in Days \cup {NoDay}
          BY <3>4, RowTypes DEF Order
        <4> QED
          BY <4>1, DatesAreNumbers, BarsFit
      <3> QED
        BY <3>2, <3>3, <3>5, <3>6
    <2> QED
      BY <1>2, <2>1, <2>3, <2>4
  <1>3. "BUY" # "HOLD"
    OBVIOUS
  <1> QED
    BY <1>1, <1>2, <1>3, ReadingEffects

\* The decision in the row.
LEMMA DecideReading ==
    ASSUME TypeOK, JobInv, NEW level \in Levels, Decide(level)
    PROVE  /\ InStep /\ Last \in DOMAIN steps /\ Len(steps') = Last /\ DOMAIN steps' = DOMAIN steps
           /\ \A n \in DOMAIN steps \ {Last} : steps'[n] = steps[n]
           /\ steps'[Last].booked = BookedOrders /\ steps'[Last].slot = job.slot
           /\ steps'[Last].action = Decision(job.slot, job.roundTrip, position > 0, level)
           /\ steps'[Last].status = IF steps'[Last].action = "HOLD" THEN "COMPLETED" ELSE "RUNNING"
           /\ UNCHANGED orders
  <1> DEFINE action == Decision(job.slot, job.roundTrip, position > 0, level)
  <1>1. InStep /\ RowOnDeciding(action) \in Step /\ Rewrites(RowOnDeciding(action))
    BY DecideEffect
  <1>2. steps[Last] \in Step /\ Last \in DOMAIN steps
    BY <1>1, RowTypes
  <1>3. steps[Last].slot = job.slot /\ steps[Last].status = "RUNNING"
    BY <1>1 DEF JobInv
  <1> HIDE DEF action
  <1>4. /\ RowOnDeciding(action).booked = BookedOrders
        /\ RowOnDeciding(action).slot = steps[Last].slot
        /\ RowOnDeciding(action).action = action
        /\ RowOnDeciding(action).status = IF action = "HOLD" THEN "COMPLETED" ELSE steps[Last].status
    BY <1>2 DEF RowOnDeciding, Step
  <1>5. /\ Len(steps') = Last /\ DOMAIN steps' = DOMAIN steps
        /\ \A n \in DOMAIN steps \ {Last} : steps'[n] = steps[n]
        /\ steps'[Last] = RowOnDeciding(action)
    BY <1>1, RewriteEffect
  <1>6. UNCHANGED orders
    BY DEF Decide
  <1> QED
    BY <1>1, <1>2, <1>3, <1>4, <1>5, <1>6 DEF action

\* Without a decision, what is decided was decided before.
LEMMA DecidedStays ==
    ASSUME TypeOK, JobInv, [Next]_vars, \A level \in Levels : ~Decide(level),
           NEW n \in DOMAIN steps', Decided(n)'
    PROVE  /\ n \in DOMAIN steps /\ Decided(n)
           /\ steps'[n].booked = steps[n].booked /\ steps'[n].action = steps[n].action
           /\ steps'[n].slot = steps[n].slot
  <1>1. CASE CreateStep
    <2>1. job'.at = "load" /\ NewRow.status = "RUNNING"
      BY <1>1, CreateStepEffect DEF NewRow, TypeOK
    <2>2. n \in DOMAIN steps /\ steps'[n] = steps[n]
      BY <1>1, <2>1, CreateStepEffect, RowTypes DEF Decided
    <2> QED
      BY <2>1, <2>2 DEF Decided
  <1>2. CASE ~CreateStep
    <2>1. n \in DOMAIN steps /\ Len(steps') = Last
      BY <1>2, RowEffects, RowTypes DEF Last
    <2>2. CASE InStep /\ n = Last /\ steps'[n] # steps[n]
      <3>1. steps[n] \in Step
        BY <2>1, RowTypes
      <3>2. ASSUME NEW status PROVE /\ RowOnEnding(status).booked = steps[Last].booked
                                    /\ RowOnEnding(status).action = steps[Last].action
                                    /\ RowOnEnding(status).slot = steps[Last].slot
                                    /\ RowOnEnding(status).status = status
        BY <2>2, <3>1 DEF RowOnEnding, Step
      <3>3. ~ReadTrades
        <4> SUFFICES ASSUME ReadTrades PROVE FALSE
          OBVIOUS
        <4>1. job'.at = "decide"
          BY DEF ReadTrades, TypeOK
        <4>2. steps'[Last] = RowOnReading
          BY ReadTradesEffect, RewriteEffect
        <4>3. RowOnReading.status = "RUNNING"
          BY <2>2, <3>1 DEF RowOnReading, Step, JobInv
        <4> QED
          BY <2>2, <4>1, <4>2, <4>3 DEF Decided
      <3>4. ~(steps'[Last] = RowOnEnding("FAILED") /\ job' = Idle)
        BY <2>2, <3>2 DEF Decided, Idle
      <3>5. SubmitOrder /\ steps'[Last] = RowOnEnding("COMPLETED")
        BY <2>2, <3>3, <3>4, RowEffects
      <3> QED
        BY <2>1, <2>2, <3>2, <3>5 DEF Decided, SubmitOrder
    <2>3. CASE ~(InStep /\ n = Last /\ steps'[n] # steps[n])
      <3>1. steps'[n] = steps[n]
        BY <2>1, <2>3, RowEffects
      <3>2. CASE steps[n].status = "COMPLETED"
        BY <2>1, <3>1, <3>2 DEF Decided
      <3>3. CASE steps[n].status # "COMPLETED"
        <4>1. job'.at = "submit" /\ n = Last
          BY <2>1, <3>1, <3>3 DEF Decided, Last
        <4>2. job' = job
          <5>1. FindDueSlot => job'.at = "due"
            <6> SUFFICES ASSUME FindDueSlot PROVE job'.at = "due"
              OBVIOUS
            <6>1. PICK k : job' = [Idle EXCEPT !.at = "due", !.slot = [day |-> day, bar |-> k]]
              BY DEF FindDueSlot
            <6>2. job' = [at |-> "due", slot |-> [day |-> day, bar |-> k], roundTrip |-> FALSE]
              BY <6>1 DEF Idle
            <6> QED
              BY <6>2
          <5>2. ReadTrades => job'.at = "decide"
            BY DEF ReadTrades, TypeOK
          <5>3. LoadFails \/ SubmitOrder \/ SubmitFails => job'.at = "idle"
            BY DEF LoadFails, SubmitOrder, SubmitFails, EndStep, Idle
          <5> QED
            BY <1>2, <4>1, <5>1, <5>2, <5>3
            DEF Next, JobNext, BrokerFills, BookFill, NextBar, NextDay, vars
        <4> QED
          BY <2>1, <3>1, <4>1, <4>2 DEF Decided
      <3> QED
        BY <3>2, <3>3
    <2> QED
      BY <2>2, <2>3
  <1> QED
    BY <1>1, <1>2

LEMMA MoveExit ==
    ASSUME TypeOK, JobInv, OrderInv, ReadInv, HeldInv, ExitInv, [Next]_vars
    PROVE  ExitInv'
  <1> SUFFICES ASSUME NEW n \in DOMAIN steps', Decided(n)', IsFinal(steps'[n].slot),
                      NEW o \in steps'[n].booked, Side(o)' = "BUY"
               PROVE  steps'[n].action = "SELL" \/ SoldSince(o, n)'
    BY DEF ExitInv, IsFinal
  <1>1. ASSUME n \in DOMAIN steps, Decided(n), steps'[n].booked = steps[n].booked,
               steps'[n].action = steps[n].action, steps'[n].slot = steps[n].slot
        PROVE  steps'[n].action = "SELL" \/ SoldSince(o, n)'
    <2>1. \A p \in steps[n].booked :
              /\ Side(p)' = Side(p)
              /\ steps'[orders'[p].step] = steps[orders[p].step]
      BY <1>1, ReadOrders
    <2>2. steps[n].action = "SELL" \/ SoldSince(o, n)
      BY <1>1, <2>1 DEF ExitInv
    <2>3. SoldSince(o, n) => SoldSince(o, n)'
      BY <1>1, <2>1 DEF SoldSince
    <2> QED
      BY <1>1, <2>2, <2>3
  <1>2. CASE \A level \in Levels : ~Decide(level)
    BY <1>1, <1>2, DecidedStays
  <1>3. CASE \E level \in Levels : Decide(level)
    <2>1. PICK level \in Levels : Decide(level)
      BY <1>3
    <2>2. CASE n # Last
      <3>1. n \in DOMAIN steps /\ steps'[n] = steps[n] /\ Len(steps') = Last
        BY <2>1, <2>2, DecideReading
      <3>2. Decided(n)
        BY <2>2, <3>1 DEF Decided, Last
      <3> QED
        BY <1>1, <3>1, <3>2
    <2>3. CASE n = Last
      <3>1. /\ InStep /\ steps'[n].booked = BookedOrders /\ steps'[n].slot = job.slot
            /\ steps'[n].action = Decision(job.slot, job.roundTrip, position > 0, level)
        BY <2>1, <2>3, DecideReading
      <3>2. \A p \in BookedOrders : /\ Side(p)' = Side(p)
                                    /\ steps'[orders'[p].step] = steps[orders[p].step]
        BY SidesStay DEF BookedOrders
      <3>3. CASE position > 0
        <4>1. job.slot \in Slots /\ job.slot.bar = SessionBars[job.slot.day]
          BY <3>1 DEF JobInv, InStep, IsFinal
        <4>2. /\ job.slot.bar \in Nat /\ job.slot.bar >= 1
              /\ job.slot.bar \in {0, EarlyBars, RegularBars}
          BY <4>1, SlotTypes, DaysAreNumbers
        <4>3. ~(job.slot.bar <= RangeBars)
          BY <4>2, DaysAreNumbers
        <4> QED
          BY <3>1, <3>3, <4>3 DEF Decision
      <3>4. CASE ~(position > 0)
        <4>1. \E p \in BookedOrders \ steps[orders[o].step].booked : Side(p) = "SELL"
          BY <3>1, <3>2, <3>4, NothingLeft
        <4> QED
          BY <3>1, <3>2, <4>1 DEF SoldSince
      <3> QED
        BY <3>3, <3>4
    <2> QED
      BY <2>2, <2>3
  <1> QED
    BY <1>2, <1>3

LEMMA MoveSent ==
    ASSUME TypeOK, JobInv, OrderInv, SentInv, [Next]_vars
    PROVE  SentInv'
  <1> SUFFICES ASSUME NEW n \in DOMAIN steps', steps'[n].status = "COMPLETED",
                      steps'[n].action # "HOLD"
               PROVE  \E p \in DOMAIN orders' : orders'[p].step = n
    BY DEF SentInv
  <1>1. ASSUME n \in DOMAIN steps, \E p \in DOMAIN orders : orders[p].step = n
        PROVE  \E p \in DOMAIN orders' : orders'[p].step = n
    BY <1>1, OrderEffects
  <1>2. CASE \E level \in Levels : Decide(level)
    <2>1. PICK level \in Levels : Decide(level)
      BY <1>2
    <2>2. n # Last
      BY <2>1, DecideReading
    <2>3. n \in DOMAIN steps /\ steps'[n] = steps[n]
      BY <2>1, <2>2, DecideReading
    <2> QED
      BY <1>1, <2>3 DEF SentInv
  <1>3. CASE \A level \in Levels : ~Decide(level)
    <2>1. Decided(n)'
      BY DEF Decided
    <2>2. n \in DOMAIN steps /\ Decided(n) /\ steps'[n].action = steps[n].action
      BY <1>3, <2>1, DecidedStays
    <2>3. CASE steps[n].status = "COMPLETED"
      BY <1>1, <2>2, <2>3 DEF SentInv
    <2>4. CASE steps[n].status # "COMPLETED"
      <3>1. InStep /\ n = Last /\ steps'[n] # steps[n]
        BY <2>2, <2>4, RowEffects
      <3>2. job.at = "submit"
        BY <2>2, <2>4 DEF Decided
      <3>3. ~ReadTrades /\ ~LoadFails
        BY <3>2 DEF ReadTrades, LoadFails
      <3>4. SubmitOrder
        <4>1. steps[Last] \in Step
          BY <3>1, RowTypes
        <4>2. RowOnEnding("FAILED").status = "FAILED"
          BY <4>1 DEF RowOnEnding, Step
        <4> QED
          BY <1>3, <3>1, <3>3, <4>2, RowEffects
      <3>5. Len(orders) + 1 \in DOMAIN orders' /\ orders'[Len(orders) + 1] = NewOrder
        BY <3>4, SubmitOrderEffect, RowTypes
      <3> QED
        BY <3>1, <3>5 DEF NewOrder
    <2> QED
      BY <2>3, <2>4
  <1> QED
    BY <1>2, <1>3

-----------------------------------------------------------------------------
(***************************************************************************)
(* The invariant                                                           *)
(***************************************************************************)

LEMMA InitInv == Init => IInv
  <1> SUFFICES ASSUME Init PROVE IInv
    OBVIOUS
  <1> USE DEF Init
  <1>1. steps = <<>> /\ orders = <<>> /\ DOMAIN steps = {} /\ DOMAIN orders = {}
    OBVIOUS
  <1>2. TypeOK
    <2>1. SessionBars[day] \in Nat /\ day \in Days
      BY DaysAreNumbers
    <2>2. job \in [at : {"idle", "due", "load", "decide", "submit"},
                   slot : Slots \cup {Idle.slot}, roundTrip : BOOLEAN]
      BY DEF Idle
    <2>3. bars \in 0..SessionBars[day] /\ mishaps \in 0..MaxMishaps
      BY <2>1, SessionAssumption
    <2>4. steps \in Seq(Step) /\ orders \in Seq(Order)
      BY <1>1
    <2> QED
      BY <1>1, <2>1, <2>2, <2>3, <2>4 DEF TypeOK
  <1>3. JobInv
    BY DEF JobInv, Idle, InStep
  <1>4. OrderInv
    BY <1>1 DEF OrderInv, Idle, InStep
  <1>5. ReadInv
    BY <1>1 DEF ReadInv, Idle
  <1>6. ClockInv /\ SlotsInOrder /\ HeldInv /\ EntryInv /\ ExitInv /\ SentInv
    BY <1>1 DEF ClockInv, SlotsInOrder, HeldInv, EntryInv, ExitInv, SentInv
  <1> QED
    BY <1>2, <1>3, <1>4, <1>5, <1>6 DEF IInv

LEMMA NextInv == IInv /\ [Next]_vars => IInv'
  <1> SUFFICES ASSUME IInv, [Next]_vars PROVE IInv'
    OBVIOUS
  <1>1. /\ TypeOK /\ JobInv /\ ClockInv /\ SlotsInOrder /\ OrderInv /\ ReadInv
        /\ HeldInv /\ EntryInv /\ ExitInv /\ SentInv
    BY DEF IInv
  <1> QED
    BY <1>1, MoveTypes, MoveJob, MoveClock, MoveSlots, MoveOrders, MoveRead, MoveHeld,
       MoveEntry, MoveExit, MoveSent DEF IInv

\* The strengthening is an invariant of every experiment: any calendar, any number of
\* orders, any delays, mishaps and opening range shorter than an early session.
THEOREM Invariance == Spec => []IInv
  BY InitInv, NextInv, PTL DEF Spec

\* Rows, orders and the readings a step decides by are well typed in every state.
THEOREM TypesHold == Spec => []TypeOK
  <1>1. IInv => TypeOK
    BY DEF IInv
  <1> QED
    BY <1>1, Invariance, PTL

\* Slots are used in the order of time and at most once, whatever bars the feed or
\* other experiments hold up: a bar missed once is never traded.
THEOREM SlotsAreInOrder == Spec => []SlotsInOrder
  <1>1. IInv => SlotsInOrder
    BY DEF IInv
  <1> QED
    BY <1>1, Invariance, PTL

\* Every second entry of a session has one of the three causes.
THEOREM SecondBuysAreExplained == Spec => []SecondBuyIsExplained
  <1>1. IInv => SecondBuyIsExplained
    <2> SUFFICES ASSUME IInv, NEW i \in DOMAIN orders, NEW j \in DOMAIN orders,
                        Side(i) = "BUY", Side(j) = "BUY", i \in steps[orders[j].step].booked
                 PROVE  \E o \in steps[orders[j].step].booked \ steps[orders[i].step].booked :
                           /\ Side(o) = "SELL"
                           /\ o \in steps[orders[j].step].before =>
                                 orders[o].date < steps[orders[j].step].slot.day
      BY DEF SecondBuyIsExplained
    <2>1. orders[j].step \in DOMAIN steps /\ steps[orders[j].step].action = "BUY"
      BY RowTypes DEF IInv, Side
    <2> QED
      BY <2>1 DEF IInv, EntryInv
  <1> QED
    BY <1>1, Invariance, PTL

\* Every BUY that outlives its session has one of the causes.
THEOREM CarriedIsAlwaysExplained == Spec => []CarriedIsExplained
  <1>1. IInv => CarriedIsExplained
    <2> SUFFICES ASSUME IInv, NEW o \in DOMAIN orders, IsHeld(o),
                        NEW n \in DOMAIN steps,
                        steps[n].slot.day = orders[o].filled,
                        steps[n].slot.bar = SessionBars[orders[o].filled],
                        steps[n].status = "COMPLETED",
                        o \in steps[n].booked
                 PROVE  \/ \E p \in DOMAIN orders : orders[p].step = n /\ Side(p) = "SELL"
                        \/ SoldSince(o, n)
      BY DEF CarriedIsExplained
    <2>1. Decided(n) /\ IsFinal(steps[n].slot) /\ Side(o) = "BUY"
      BY DEF Decided, IsFinal, IsHeld
    <2>2. CASE SoldSince(o, n)
      BY <2>2
    <2>3. CASE steps[n].action = "SELL"
      <3>1. \E p \in DOMAIN orders : orders[p].step = n
        BY <2>3 DEF IInv, SentInv
      <3> QED
        BY <2>3, <3>1 DEF Side
    <2> QED
      BY <2>1, <2>2, <2>3 DEF IInv, ExitInv
  <1> QED
    BY <1>1, Invariance, PTL

-----------------------------------------------------------------------------
(***************************************************************************)
(* The calendar                                                            *)
(***************************************************************************)

\* Any number of weeks later is the same day of the week.
LEMMA WeeksLater ==
    ASSUME NEW n \in Int, NEW k \in Int
    PROVE  Weekday(n + 7 * k) = Weekday(n)
  BY DEF Weekday

\* The algorithm counts the days of March and April in one number.
SpringDay(y, p) == Date(y, p \div 31, (p % 31) + 1)

\* The days before March and April are counted from the last leap day on.
LEMMA SpringDates ==
    ASSUME NEW y \in Nat, NEW p \in 93..154
    PROVE  SpringDay(y, p)
              = 365 * (y - 1) + (y \div 4) - (y \div 100) + (y \div 400) + p - 33
  <1> DEFINE leap == IF IsLeap(y) THEN 1 ELSE 0
  <1>1. /\ (y \div 4) - ((y - 1) \div 4) = IF y % 4 = 0 THEN 1 ELSE 0
        /\ (y \div 100) - ((y - 1) \div 100) = IF y % 100 = 0 THEN 1 ELSE 0
        /\ (y \div 400) - ((y - 1) \div 400) = IF y % 400 = 0 THEN 1 ELSE 0
    OBVIOUS
  <1>2. (y % 400 = 0 => y % 100 = 0) /\ (y % 100 = 0 => y % 4 = 0)
    OBVIOUS
  <1>3. ((y - 1) \div 4) - ((y - 1) \div 100) + ((y - 1) \div 400) + leap
            = (y \div 4) - (y \div 100) + (y \div 400)
    BY <1>1, <1>2 DEF IsLeap
  <1> DEFINE days == ((y - 1) \div 4) - ((y - 1) \div 100) + ((y - 1) \div 400)
  <1>4. days \in Int /\ leap \in Int
           /\ days + leap = (y \div 4) - (y \div 100) + (y \div 400)
    BY <1>3
  <1>5. /\ Date(y, 3, p - 92) = 365 * (y - 1) + days + (59 + leap) + (p - 92)
        /\ Date(y, 4, p - 123) = 365 * (y - 1) + days + (90 + leap) + (p - 123)
    <2>1. DaysBefore(y, 3) = 59 + leap /\ DaysBefore(y, 4) = 90 + leap
      BY DEF DaysBefore
    <2>2. \A e \in Int : /\ Date(y, 3, e) = 365 * (y - 1) + days + DaysBefore(y, 3) + e
                         /\ Date(y, 4, e) = 365 * (y - 1) + days + DaysBefore(y, 4) + e
      <3>1. DaysBefore(y, 3) \in Int /\ DaysBefore(y, 4) \in Int
        BY <2>1
      <3> QED
        BY <3>1 DEF Date
    <2> HIDE DEF leap, days
    <2>3. p - 92 \in Int /\ p - 123 \in Int
      OBVIOUS
    <2> QED
      BY <2>1, <2>2, <2>3
  <1>6. CASE p < 124
    <2>1. p \div 31 = 3 /\ (p % 31) + 1 = p - 92
      BY <1>6
    <2>2. SpringDay(y, p) = Date(y, 3, p - 92)
      BY <2>1 DEF SpringDay
    <2> HIDE DEF leap, days
    <2> QED
      BY <1>4, <1>5, <2>2
  <1>7. CASE p >= 124
    <2>1. p \div 31 = 4 /\ (p % 31) + 1 = p - 123
      BY <1>7
    <2>2. SpringDay(y, p) = Date(y, 4, p - 123)
      BY <2>1 DEF SpringDay
    <2> HIDE DEF leap, days
    <2> QED
      BY <1>4, <1>5, <2>2
  <1> QED
    BY <1>6, <1>7

\* The weekday of a date counted this way, by century and year of the century.
LEMMA CenturyWeekday ==
    ASSUME NEW y \in Nat, NEW p \in Int
    PROVE  \E w \in Int :
              365 * (y - 1) + (y \div 4) - (y \div 100) + (y \div 400) + p - 33
                 = 7 * w + 5 * ((y \div 100) % 4) + 5 * ((y % 100) \div 4)
                       + ((y % 100) % 4) + p - 34
  <1> DEFINE b == y \div 100
             c == y % 100
             k == b \div 4
             j == c \div 4
  <1>1. b \in Nat /\ c \in 0..99 /\ y = 100 * b + c
    OBVIOUS
  <1>2. k \in Nat /\ b % 4 = b - 4 * k /\ j \in Nat /\ c % 4 = c - 4 * j
    BY <1>1
  <1>3. y \div 4 = 25 * b + j
    <2> HIDE DEF b
    <2> QED BY <1>1, <1>2
  <1>4. y \div 400 = k
    OBVIOUS
  <1> DEFINE m == b % 4
             d == c % 4
  <1>5. b = 4 * k + m /\ c = 4 * j + d /\ m \in Int /\ d \in Int
    BY <1>1, <1>2
  <1> DEFINE w == 20871 * k + 208 * j + 5217 * m + 52 * d - 52
  <1>6. w \in Int
    BY <1>2, <1>5
  <1>7. 365 * (y - 1) + (y \div 4) - b + (y \div 400) + p - 33
           = 7 * w + 5 * m + 5 * j + d + p - 34
    <2> HIDE DEF b, c, k, j, m, d
    <2> QED
      BY <1>1, <1>2, <1>3, <1>4, <1>5
  <1> HIDE DEF w
  <1> QED
    BY <1>6, <1>7

\* Good Friday is a Friday between 20 March and 23 April, in every year.
THEOREM GoodFridayIsAFriday ==
    ASSUME NEW y \in Nat
    PROVE  /\ Weekday(GoodFriday(y)) = 4
           /\ GoodFriday(y) \in Date(y, 3, 20)..Date(y, 4, 23)
  <1> DEFINE a == y % 19
             b == y \div 100
             c == y % 100
             g == (b - ((b + 8) \div 25) + 1) \div 3
             h == (19 * a + b - (b \div 4) - g + 15) % 30
             t == 32 + 2 * (b % 4) + 2 * (c \div 4) - h - (c % 4)
             correction == t % 7
             late == (a + 11 * h + 22 * correction) \div 451
             p == h + correction - 7 * late + 114
  <1>1. GoodFriday(y) = SpringDay(y, p) - 2
    BY DEF GoodFriday, SpringDay
  <1>2. a \in 0..18 /\ b \in Nat /\ c \in 0..99
    OBVIOUS
  <1>3. h \in 0..29
    <2>1. g \in Int /\ b \div 4 \in Int
      BY <1>2
    <2> HIDE DEF a, b, g
    <2> QED
      BY <1>2, <2>1
  <1>4. (b % 4) \in Int /\ (c \div 4) \in Int /\ (c % 4) \in Int
    BY <1>2
  <1>5. t \in Int /\ correction \in 0..6 /\ t = 7 * (t \div 7) + correction
    <2>1. t \in Int
      <3> HIDE DEF h, b, c
      <3> QED
        BY <1>3, <1>4
    <2> HIDE DEF t
    <2> QED
      BY <2>1
  <1>6. late \in {0, 1} /\ p \in 114..148
    <2> HIDE DEF a, h, correction
    <2> QED
      BY <1>2, <1>3, <1>5
  <1> DEFINE base == 365 * (y - 1) + (y \div 4) - b + (y \div 400)
  <1>7. base \in Int /\ p \in Int /\ \A e \in 93..154 : SpringDay(y, e) = base + e - 33
    <2>1. y \in Nat
      OBVIOUS
    <2>2. \A e \in 93..154 : SpringDay(y, e) = base + e - 33
      BY ONLY <2>1, SpringDates, Zenon
    <2>3. base \in Int /\ p \in Int
      BY <1>2, <1>6
    <2> QED
      BY <2>2, <2>3
  <1> DEFINE m == b % 4
             j == c \div 4
             d == c % 4
  <1>8. PICK w \in Int : base + p - 33 = 7 * w + 5 * m + 5 * j + d + p - 34
    <2> HIDE DEF p
    <2> QED
      BY <1>6, CenturyWeekday
  <1>9. GoodFriday(y) = base + p - 35
    <2>1. p \in 93..154
      BY <1>6
    <2> HIDE DEF p, base
    <2> QED
      BY <1>1, <1>7, <2>1
  <1> DEFINE u == t \div 7
             weeks == w + m + j - u - late + 15
  <1>10. t = 32 + 2 * m + 2 * j - h - d /\ t = 7 * u + correction
         /\ p = h + correction - 7 * late + 114
    BY <1>5
  <1>11. m \in Int /\ j \in Int /\ d \in Int /\ u \in Int /\ late \in Int
         /\ h \in Int /\ correction \in Int /\ t \in Int
    BY <1>3, <1>4, <1>5, <1>6
  <1>12. GoodFriday(y) = 7 * w + 5 * m + 5 * j + d + p - 36
    <2> HIDE DEF base, p, m, j, d
    <2> QED
      BY <1>7, <1>8, <1>9, <1>11
  <1>13. weeks \in Int /\ GoodFriday(y) = 5 + 7 * weeks
    <2> HIDE DEF m, j, d, u, late, h, correction, t, p
    <2> QED
      BY <1>10, <1>11, <1>12
  <1>14. Weekday(GoodFriday(y)) = 4
    <2>1. Weekday(5) = 4
      BY DEF Weekday
    <2> HIDE DEF weeks
    <2>2. 5 \in Int /\ weeks \in Int
      BY <1>13
    <2>3. Weekday(5 + 7 * weeks) = Weekday(5)
      BY ONLY <2>2, WeeksLater, Zenon
    <2> QED
      BY <1>13, <2>1, <2>3
  <1>15. Date(y, 3, 20) = base + 79 /\ Date(y, 4, 23) = base + 113
    <2>1. Date(y, 3, 22) = SpringDay(y, 114) /\ Date(y, 4, 25) = SpringDay(y, 148)
      BY DEF SpringDay
    <2>2. Date(y, 3, 22) = Date(y, 3, 20) + 2 /\ Date(y, 4, 25) = Date(y, 4, 23) + 2
          /\ Date(y, 3, 20) \in Int /\ Date(y, 4, 23) \in Int
      BY DEF Date, DaysBefore
    <2> HIDE DEF base, p
    <2>3. SpringDay(y, 114) = base + 81 /\ SpringDay(y, 148) = base + 115
      BY <1>7
    <2> QED
      BY <1>7, <2>1, <2>2, <2>3
  <1> QED
    <2> HIDE DEF base, p
    <2> QED
      BY <1>6, <1>7, <1>9, <1>14, <1>15

\* Days within a year, counted from New Year.
LEMMA DatesOfYear ==
    ASSUME NEW y \in Nat
    PROVE  /\ Date(y, 1, 1) \in Int
           /\ \E leap \in {0, 1} :
                 /\ Date(y, 1, 7) = Date(y, 1, 1) + 6
                 /\ Date(y, 2, 1) = Date(y, 1, 1) + 31
                 /\ Date(y, 2, 7) = Date(y, 1, 1) + 37
                 /\ Date(y, 3, 20) = Date(y, 1, 1) + leap + 78
                 /\ Date(y, 4, 23) = Date(y, 1, 1) + leap + 112
                 /\ Date(y, 6, 1) = Date(y, 1, 1) + leap + 151
                 /\ Date(y, 6, 19) = Date(y, 1, 1) + leap + 169
                 /\ Date(y, 7, 4) = Date(y, 1, 1) + leap + 184
                 /\ Date(y, 9, 1) = Date(y, 1, 1) + leap + 243
                 /\ Date(y, 9, 7) = Date(y, 1, 1) + leap + 249
                 /\ Date(y, 11, 1) = Date(y, 1, 1) + leap + 304
                 /\ Date(y, 11, 7) = Date(y, 1, 1) + leap + 310
                 /\ Date(y, 12, 25) = Date(y, 1, 1) + leap + 358
                 /\ Date(y, 12, 31) = Date(y, 1, 1) + leap + 364
  <1> DEFINE leap == IF IsLeap(y) THEN 1 ELSE 0
             days == 365 * (y - 1) + ((y - 1) \div 4) - ((y - 1) \div 100) + ((y - 1) \div 400)
  <1>1. leap \in {0, 1} /\ days \in Int
    OBVIOUS
  <1>2. /\ DaysBefore(y, 1) = 0 /\ DaysBefore(y, 2) = 31
        /\ DaysBefore(y, 3) = 59 + leap /\ DaysBefore(y, 4) = 90 + leap
        /\ DaysBefore(y, 6) = 151 + leap
        /\ DaysBefore(y, 7) = 181 + leap /\ DaysBefore(y, 9) = 243 + leap
        /\ DaysBefore(y, 11) = 304 + leap /\ DaysBefore(y, 12) = 334 + leap
    BY DEF DaysBefore
  <1>3. \A m, d : Date(y, m, d) = days + DaysBefore(y, m) + d
    BY DEF Date
  <1> HIDE DEF leap, days
  <1> QED
    BY <1>1, <1>2, <1>3

\* A holiday moved off the weekend is at most a day away.
LEMMA ObservedNearby ==
    ASSUME NEW y, NEW m, NEW d, Date(y, m, d) \in Int
    PROVE  /\ Weekday(ObservedFixedHoliday(y, m, d)) < 5
           /\ ObservedFixedHoliday(y, m, d) \in (Date(y, m, d) - 1)..(Date(y, m, d) + 1)
  BY DEF ObservedFixedHoliday, Weekday

\* Every weekday occurs in seven days.
LEMMA WeekHasAllDays ==
    ASSUME NEW n \in Int, NEW weekday \in 0..6
    PROVE  \E k \in n..(n + 6) : Weekday(k) = weekday
  <1> DEFINE k == n + ((weekday - (n + 6)) % 7)
  <1>1. k \in n..(n + 6) /\ (k + 6) % 7 = weekday
    OBVIOUS
  <1> QED
    BY <1>1 DEF Weekday

\* The k-th weekday of a month is that weekday, in the k-th week.
LEMMA NthInMonth ==
    ASSUME NEW y, NEW m, NEW weekday \in 0..6, NEW k \in Nat,
           NEW first \in Int, Date(y, m, 1) = first, Date(y, m, 7) = first + 6
    PROVE  /\ Weekday(NthWeekday(y, m, weekday, k)) = weekday
           /\ NthWeekday(y, m, weekday, k) \in (first + 7 * (k - 1))..(first + 7 * k - 1)
  <1> DEFINE n == CHOOSE n \in first..(first + 6) : Weekday(n) = weekday
  <1>1. n \in first..(first + 6) /\ Weekday(n) = weekday
    BY WeekHasAllDays
  <1>2. NthWeekday(y, m, weekday, k) = n + 7 * (k - 1)
    BY DEF NthWeekday
  <1> HIDE DEF n
  <1>3. Weekday(n + 7 * (k - 1)) = weekday
    <2> DEFINE j == k - 1
    <2>1. j \in Int /\ n \in Int
      BY <1>1
    <2> HIDE DEF j
    <2>2. Weekday(n + 7 * j) = weekday
      BY <1>1, <2>1, WeeksLater
    <2> QED
      BY <2>2 DEF j
  <1> QED
    BY <1>1, <1>2, <1>3

\* Memorial Day is a Monday of the last week of May.
LEMMA LastInMonth ==
    ASSUME NEW y, NEW weekday \in 0..6, NEW next \in Int, Date(y, 6, 1) = next
    PROVE  /\ Weekday(LastWeekday(y, 5, weekday)) = weekday
           /\ LastWeekday(y, 5, weekday) \in (next - 7)..(next - 1)
  <1>1. next - 7 \in Int /\ (next - 7) + 6 = next - 1 /\ 5 + 1 = 6
    OBVIOUS
  <1>2. \E n \in (next - 7)..((next - 7) + 6) : Weekday(n) = weekday
    BY <1>1, WeekHasAllDays
  <1>3. LastWeekday(y, 5, weekday)
           = CHOOSE n \in (next - 7)..(next - 1) : Weekday(n) = weekday
    BY <1>1 DEF LastWeekday
  <1> QED
    BY <1>1, <1>2, <1>3

\* The holidays of a year are weekdays of that year, or the Friday before.
LEMMA HolidayFacts ==
    ASSUME NEW y \in Nat, NEW n \in Holidays(y)
    PROVE  /\ n \in Int /\ Weekday(n) < 5
           /\ Date(y, 1, 1) - 1 <= n /\ n <= Date(y, 12, 31)
  <1> DEFINE new == Date(y, 1, 1)
  <1>1. PICK leap \in {0, 1} :
              /\ Date(y, 1, 7) = new + 6
              /\ Date(y, 2, 1) = new + 31
              /\ Date(y, 2, 7) = new + 37
              /\ Date(y, 3, 20) = new + leap + 78
              /\ Date(y, 4, 23) = new + leap + 112
              /\ Date(y, 6, 1) = new + leap + 151
              /\ Date(y, 6, 19) = new + leap + 169
              /\ Date(y, 7, 4) = new + leap + 184
              /\ Date(y, 9, 1) = new + leap + 243
              /\ Date(y, 9, 7) = new + leap + 249
              /\ Date(y, 11, 1) = new + leap + 304
              /\ Date(y, 11, 7) = new + leap + 310
              /\ Date(y, 12, 25) = new + leap + 358
              /\ Date(y, 12, 31) = new + leap + 364
    BY DatesOfYear
  <1>2. new \in Int
    BY DatesOfYear
  <1> HIDE DEF new
  <1>3. Date(y, 1, 1) = new /\ Date(y, 12, 31) = new + leap + 364
    BY <1>1 DEF new
  <1>4. CASE n \in {ObservedFixedHoliday(y, 1, 1), ObservedFixedHoliday(y, 7, 4),
                    ObservedFixedHoliday(y, 12, 25), ObservedFixedHoliday(y, 6, 19)}
    <2>1. /\ Date(y, 7, 4) = new + leap + 184 /\ Date(y, 12, 25) = new + leap + 358
          /\ Date(y, 6, 19) = new + leap + 169
      BY <1>1
    <2>2. CASE n = ObservedFixedHoliday(y, 1, 1)
      BY <1>2, <1>3, <2>2, ObservedNearby
    <2>3. CASE n = ObservedFixedHoliday(y, 7, 4)
      BY <1>2, <1>3, <2>1, <2>3, ObservedNearby
    <2>4. CASE n = ObservedFixedHoliday(y, 12, 25)
      BY <1>2, <1>3, <2>1, <2>4, ObservedNearby
    <2>5. CASE n = ObservedFixedHoliday(y, 6, 19)
      BY <1>2, <1>3, <2>1, <2>5, ObservedNearby
    <2> QED
      BY <1>4, <2>2, <2>3, <2>4, <2>5
  <1>5. ASSUME NEW m \in {1, 2, 9, 11}, NEW weekday \in 0..4, NEW k \in 1..4,
               n = NthWeekday(y, m, weekday, k)
        PROVE  Weekday(n) < 5 /\ n \in Int /\ new - 1 <= n /\ n <= new + leap + 364
    <2>1. /\ Date(y, m, 1) \in Int /\ Date(y, m, 7) = Date(y, m, 1) + 6
          /\ new <= Date(y, m, 1) /\ Date(y, m, 1) <= new + leap + 304
      <3>1. m = 1 \/ m = 2 \/ m = 9 \/ m = 11
        OBVIOUS
      <3> QED
        BY <1>1, <1>2, <1>3, <3>1
    <2> DEFINE first == Date(y, m, 1)
    <2>2. weekday \in 0..6 /\ k \in Nat
      OBVIOUS
    <2>3. /\ Weekday(n) = weekday
          /\ n \in (first + 7 * (k - 1))..(first + 7 * k - 1)
      BY <1>5, <2>1, <2>2, NthInMonth
    <2> HIDE DEF first
    <2>4. first \in Int /\ new <= first /\ first <= new + leap + 304
      BY <2>1 DEF first
    <2> QED
      BY <1>2, <2>3, <2>4
  <1>6. CASE n = LastWeekday(y, 5, 0)
    <2>1. Date(y, 6, 1) = new + leap + 151
      BY <1>1, <1>2
    <2> QED
      BY <1>2, <1>3, <1>6, <2>1, LastInMonth
  <1>7. CASE n = GoodFriday(y)
    <2>1. Date(y, 3, 20) = new + leap + 78 /\ Date(y, 4, 23) = new + leap + 112
      BY <1>1, <1>2
    <2>2. y \in Nat
      OBVIOUS
    <2>3. n \in Int
      BY <1>7, GoodFridayIsAFriday
    <2> QED
      BY <1>2, <1>3, <1>7, <2>1, <2>2, <2>3, GoodFridayIsAFriday
  <1> QED
    <2>1. \/ n \in {ObservedFixedHoliday(y, 1, 1), ObservedFixedHoliday(y, 7, 4),
                    ObservedFixedHoliday(y, 12, 25), ObservedFixedHoliday(y, 6, 19)}
          \/ n \in {NthWeekday(y, 1, 0, 3), NthWeekday(y, 2, 0, 3), NthWeekday(y, 9, 0, 1),
                    NthWeekday(y, 11, 3, 4)}
          \/ n = LastWeekday(y, 5, 0)
          \/ n = GoodFriday(y)
      BY DEF Holidays
    <2>2. CASE n \in {NthWeekday(y, 1, 0, 3), NthWeekday(y, 2, 0, 3), NthWeekday(y, 9, 0, 1),
                      NthWeekday(y, 11, 3, 4)}
      <3>1. PICK m \in {1, 2, 9, 11}, weekday \in 0..4, k \in 1..4 :
               n = NthWeekday(y, m, weekday, k)
        BY <2>2
      <3> QED
        BY <1>3, <1>5, <3>1
    <2> QED
      BY <1>4, <1>6, <1>7, <2>1, <2>2

\* The years follow each other: New Year is the day after New Year's Eve, and no
\* later year begins earlier.
LEMMA YearsInOrder ==
    ASSUME NEW y \in Nat, NEW z \in Nat
    PROVE  /\ Date(y, 1, 1) \in Int
           /\ Date(y + 1, 1, 1) = Date(y, 12, 31) + 1
           /\ y < z => Date(y, 12, 31) < Date(z, 1, 1)
           /\ 0 < y => 365 * (y - 1) < Date(y, 1, 1)
           /\ Date(y + 1, 1, 1) <= 366 * y + 1
  <1> DEFINE days(x) == 365 * (x - 1) + ((x - 1) \div 4) - ((x - 1) \div 100)
                          + ((x - 1) \div 400)
  <1>1. \A x \in Nat : Date(x, 1, 1) = days(x) + 1
    <2>1. \A x : DaysBefore(x, 1) = 0
      BY DEF DaysBefore
    <2> QED
      BY <2>1 DEF Date
  <1>2. Date(y, 12, 31) = days(y) + 365 + (IF IsLeap(y) THEN 1 ELSE 0)
    <2>1. DaysBefore(y, 12) = 334 + (IF IsLeap(y) THEN 1 ELSE 0)
      BY DEF DaysBefore
    <2> QED
      BY <2>1 DEF Date
  <1>3. days(y + 1) = days(y) + 365 + (IF IsLeap(y) THEN 1 ELSE 0)
    <2>1. /\ (y \div 4) - ((y - 1) \div 4) = IF y % 4 = 0 THEN 1 ELSE 0
          /\ (y \div 100) - ((y - 1) \div 100) = IF y % 100 = 0 THEN 1 ELSE 0
          /\ (y \div 400) - ((y - 1) \div 400) = IF y % 400 = 0 THEN 1 ELSE 0
      OBVIOUS
    <2>2. (y % 400 = 0 => y % 100 = 0) /\ (y % 100 = 0 => y % 4 = 0)
      OBVIOUS
    <2>3. (y + 1) - 1 = y
      OBVIOUS
    <2> QED
      BY <2>1, <2>2, <2>3 DEF IsLeap
  <1>4. y < z => days(y + 1) <= days(z)
    <2> SUFFICES ASSUME y < z
                 PROVE  days(y + 1) <= days(z)
      OBVIOUS
    <2>1. /\ y \div 4 <= (z - 1) \div 4
          /\ ((z - 1) \div 100) - (y \div 100) <= (z - 1) - y
          /\ y \div 400 <= (z - 1) \div 400
      OBVIOUS
    <2>2. (y + 1) - 1 = y
      OBVIOUS
    <2> QED
      BY <2>1, <2>2
  <1>5. (0 < y => 365 * (y - 1) <= days(y)) /\ days(y + 1) <= 366 * y
    <2>1. /\ 0 < y => 0 <= ((y - 1) \div 4) - ((y - 1) \div 100) + ((y - 1) \div 400)
          /\ (y \div 4) - (y \div 100) + (y \div 400) <= y
      OBVIOUS
    <2> QED
      BY <2>1
  <1>6. days(y) \in Int /\ days(z) \in Int /\ days(y + 1) \in Int
    OBVIOUS
  <1>7. y + 1 \in Nat
    OBVIOUS
  <1> HIDE DEF days
  <1> QED
    BY <1>1, <1>2, <1>3, <1>4, <1>5, <1>6, <1>7

\* A year does not end before it begins.
LEMMA NewYearsEve ==
    ASSUME NEW y \in Nat
    PROVE  Date(y, 1, 1) <= Date(y, 12, 31)
  BY DatesOfYear

\* A nonempty set of natural numbers has a least one.
LEMMA LeastNumber ==
    ASSUME NEW T, T \subseteq Nat, T # {}
    PROVE  \E m \in T : \A n \in T : m <= n
  <1> DEFINE R == OpToRel(<, Nat)
  <1>1. IsWellFoundedOn(R, Nat)
    BY NatLessThanWellFounded
  <1>2. \A x, y \in Nat : <<x, y>> \in R <=> x < y
    BY DEF OpToRel
  <1> HIDE DEF R
  <1>3. PICK x \in T : \A y \in T : ~ (<<y, x>> \in R)
    BY <1>1, WFMin
  <1>4. x \in Nat /\ \A y \in T : y \in Nat /\ ~(y < x)
    BY <1>2, <1>3
  <1>5. \A y \in T : x <= y
    BY <1>4
  <1> QED
    BY <1>5

\* Every day belongs to the year that is looked for, among the years looked at.
LEMMA YearOfDay ==
    ASSUME NEW n \in Nat \ {0}
    PROVE  Year(n) \in Nat \ {0} /\ Date(Year(n), 1, 1) <= n /\ n < Date(Year(n) + 1, 1, 1)
  <1> DEFINE T == {y \in Nat : n < Date(y + 1, 1, 1)}
  <1>1. n \in T
    <2>1. 365 * ((n + 1) - 1) < Date(n + 1, 1, 1)
      BY YearsInOrder
    <2> QED
      BY <2>1, YearsInOrder
  <1>2. PICK y \in T : \A x \in T : y <= x
    BY <1>1, LeastNumber
  <1> HIDE DEF T
  <1>3. y \in Nat \ {0} /\ n < Date(y + 1, 1, 1)
    <2>1. Date(0 + 1, 1, 1) = 1
      BY DEF Date, DaysBefore
    <2> QED
      BY <1>2, <2>1 DEF T
  <1>4. Date(y, 1, 1) <= n
    <2>1. y - 1 \in Nat /\ y - 1 \notin T
      BY <1>2, <1>3
    <2>2. ~(n < Date((y - 1) + 1, 1, 1))
      BY <2>1 DEF T
    <2>3. (y - 1) + 1 = y
      BY <1>3
    <2> QED
      BY <1>3, <2>2, <2>3, YearsInOrder
  <1>5. 365 * (y - 1) < n /\ n < 366 * y + 1
    <2>1. y \in Nat /\ 0 < y /\ y + 1 \in Nat
      BY <1>3
    <2>2. /\ 365 * (y - 1) < Date(y, 1, 1) /\ Date(y, 1, 1) \in Int
          /\ Date(y + 1, 1, 1) <= 366 * y + 1 /\ Date(y + 1, 1, 1) \in Int
      BY <2>1, YearsInOrder
    <2> QED
      BY <1>3, <1>4, <2>1, <2>2
  <1>6. y \in (n \div 366)..((n \div 365) + 1)
    BY <1>3, <1>5
  <1>7. \E x \in (n \div 366)..((n \div 365) + 1) :
            Date(x, 1, 1) <= n /\ n < Date(x + 1, 1, 1)
    BY <1>3, <1>4, <1>6
  <1>8. /\ Year(n) \in (n \div 366)..((n \div 365) + 1)
        /\ Date(Year(n), 1, 1) <= n /\ n < Date(Year(n) + 1, 1, 1)
    BY <1>7 DEF Year
  <1>9. Year(n) \in Nat /\ Year(n) # 0
    <2>1. Date(0 + 1, 1, 1) = 1
      BY DEF Date, DaysBefore
    <2>2. n \div 366 \in Nat
      OBVIOUS
    <2> QED
      BY <1>8, <2>1, <2>2
  <1> QED
    BY <1>8, <1>9

\* The calendar asks for the holidays of a day's year and of the years around it.  It
\* misses none: a day is a session if and only if it is a weekday and no holiday of
\* any year.
THEOREM SessionsAreTheTradingDays ==
    ASSUME NEW n \in Nat \ {0}
    PROVE  IsSession(n) <=> Weekday(n) < 5 /\ \A y \in Nat : n \notin Holidays(y)
  <1> DEFINE at == Year(n)
  <1>1. at \in Nat \ {0} /\ Date(at, 1, 1) <= n /\ n < Date(at + 1, 1, 1)
    BY YearOfDay
  <1> HIDE DEF at
  <1>2. ASSUME NEW y \in Nat, n \in Holidays(y)
        PROVE  n \in HolidaysAround(at)
    <2>1. Date(y, 1, 1) - 1 <= n /\ n <= Date(y, 12, 31)
      BY <1>2, HolidayFacts
    <2>2. Date(y, 12, 31) \in Int /\ Date(y, 1, 1) \in Int
          /\ Date(at, 1, 1) \in Int /\ Date(at + 1, 1, 1) \in Int
      BY <1>1 DEF Date, DaysBefore
    <2>3. ~(y < at)
      BY <1>1, <2>1, <2>2, YearsInOrder
    <2>4. ~(at + 1 < y)
      <3>1. at + 1 \in Nat /\ Date(at + 1, 1, 1) <= Date(at + 1, 12, 31)
        BY <1>1, NewYearsEve
      <3>2. Date(at + 1, 12, 31) \in Int
        BY <3>1 DEF Date, DaysBefore
      <3>3. at + 1 < y => Date(at + 1, 12, 31) < Date(y, 1, 1)
        BY <3>1, YearsInOrder
      <3> QED
        BY <1>1, <2>1, <2>2, <3>1, <3>2, <3>3
    <2>5. y \in (at - 1)..(at + 1)
      BY <1>1, <2>3, <2>4
    <2> QED
      BY <1>2, <2>5 DEF HolidaysAround
  <1>3. ASSUME n \in HolidaysAround(at)
        PROVE  \E y \in Nat : n \in Holidays(y)
    <2>1. PICK y \in (at - 1)..(at + 1) : n \in Holidays(y)
      BY <1>3 DEF HolidaysAround
    <2> QED
      BY <1>1, <2>1
  <1> QED
    BY <1>2, <1>3 DEF IsSession, at
\* A holiday never falls on a weekend: those of a fixed date are moved to the Friday
\* before or the Monday after, the others are named by their weekday.
THEOREM HolidaysAreWeekdays ==
    ASSUME NEW y \in Nat, NEW n \in Holidays(y)
    PROVE  Weekday(n) < 5
  BY HolidayFacts

=============================================================================
