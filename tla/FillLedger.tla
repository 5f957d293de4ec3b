------------------------------ MODULE FillLedger ------------------------------
(***************************************************************************)
(* What the paper-trading books promise about the orders at the broker,    *)
(* whichever thread does the booking: a ledger of shares.  The shares of   *)
(* an order are filled while it is open, booked only after they have been  *)
(* filled and never taken back.  When nothing more can come, an order is   *)
(* settled, with everything booked (M20, BR-052), or written off, because  *)
(* nobody named the price of what is left; it is not touched again.  A     *)
(* booking may be late, partial, or never come.                            *)
(***************************************************************************)
EXTENDS Integers

CONSTANT Orders

VARIABLES
    state,          \* state[o] is what the broker makes of order o
    filled,         \* shares it has filled
    booked,         \* shares the local trades account for
    settled,        \* the orders whose row is final, with everything booked
    writtenOff      \* the orders whose row is final although shares have no price

ledger == <<state, filled, booked, settled, writtenOff>>

TypeOK ==
    /\ state \in [Orders -> {"none", "open", "done"}]
    /\ filled \in [Orders -> Nat]
    /\ booked \in [Orders -> Nat]
    /\ settled \subseteq Orders /\ writtenOff \subseteq Orders

Init ==
    /\ state = [o \in Orders |-> "none"]
    /\ filled = [o \in Orders |-> 0]
    /\ booked = [o \in Orders |-> 0]
    /\ settled = {} /\ writtenOff = {}

\* The broker takes an order, and may fill some of it or all at once.
Accept(o) ==
    /\ state[o] = "none"
    /\ \E s \in {"open", "done"} : state' = [state EXCEPT ![o] = s]
    /\ filled'[o] \in Nat
    /\ filled' = [filled EXCEPT ![o] = filled'[o]]
    /\ UNCHANGED <<booked, settled, writtenOff>>

\* The market fills a share, or the order ends.
Work(o) ==
    /\ state[o] = "open"
    /\ \E s \in {"open", "done"}, n \in {0, 1} :
          /\ state' = [state EXCEPT ![o] = s]
          /\ filled' = [filled EXCEPT ![o] = @ + n]
    /\ UNCHANGED <<booked, settled, writtenOff>>

\* Filled shares are booked; the order may be settled if these were the last.
Book(o) ==
    /\ state[o] # "none"
    /\ o \notin settled \cup writtenOff
    /\ \E n \in booked[o]..filled[o] : booked' = [booked EXCEPT ![o] = n]
    /\ \/ UNCHANGED settled
       \/ /\ state[o] = "done" /\ booked'[o] = filled[o]
          /\ settled' = settled \cup {o}
    /\ UNCHANGED <<state, filled, writtenOff>>

\* The order is closed with the shares that are booked so far.
WriteOff(o) ==
    /\ state[o] = "done" /\ filled[o] > 0
    /\ o \notin settled \cup writtenOff
    /\ writtenOff' = writtenOff \cup {o}
    /\ UNCHANGED <<state, filled, booked, settled>>

Next == \E o \in Orders : Accept(o) \/ Work(o) \/ Book(o) \/ WriteOff(o)

Spec == Init /\ [][Next]_ledger

=============================================================================
