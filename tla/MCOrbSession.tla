----------------------------- MODULE MCOrbSession -----------------------------
(***************************************************************************)
(* OrbSession around 4 July 2024: from 2 July a regular session, one that   *)
(* closed early and the holiday; from 3 July the early close, the holiday   *)
(* and the regular session after it. And the calendar against other         *)
(* definitions of the same days, as assumptions that TLC evaluates.         *)
(***************************************************************************)
EXTENDS OrbSession

July2 == Date(2024, 7, 2)
July3 == Date(2024, 7, 3)

Years == 1990..2060

(***************************************************************************)
(* Easter from the Church's tables: the first Sunday after the fourteenth   *)
(* day of the ecclesiastical moon that falls on or after 21 March.          *)
(***************************************************************************)
Epact(y) ==
    LET century == (y \div 100) + 1
        solar == ((3 * century) \div 4) - 12
        lunar == ((8 * century + 5) \div 25) - 5
        e == (11 * ((y % 19) + 1) + 20 + lunar - solar) % 30
    IN  IF e = 24 \/ (e = 25 /\ (y % 19) + 1 > 11) THEN e + 1 ELSE e
FullMoon(y) ==
    LET n == 44 - Epact(y) IN Date(y, 3, 1) - 1 + (IF n < 21 THEN n + 30 ELSE n)
Easter(y) == CHOOSE n \in (FullMoon(y) + 1)..(FullMoon(y) + 7) : Weekday(n) = 6

ASSUME GoodFridayIsBeforeEaster == \A y \in Years : GoodFriday(y) = Easter(y) - 2

\* The weekday from the odd days of the year and the months.
ASSUME WeekdaysRun ==
    /\ Weekday(Date(2000, 1, 1)) = 5
    /\ \A y \in Years : Date(y + 1, 1, 1) - Date(y, 1, 1) = IF IsLeap(y) THEN 366 ELSE 365
    /\ \A y \in Years : Year(Date(y, 1, 1)) = y /\ Year(Date(y, 12, 31)) = y

\* No early close is a holiday, no holiday a weekend day, and the market is never
\* closed for more than four days in a row.
ASSUME SessionsAreRegular ==
    \A y \in Years :
        /\ EarlyCloses(y) \cap Holidays(y) = {}
        /\ \A n \in Holidays(y) : Weekday(n) < 5
        /\ \A n \in Holidays(y) : \E k \in 1..4 : IsSession(n + k)

\* An hourly window is full: the last bars of a session that make no hour are in none.
ASSUME WindowsAreFull ==
    \A n \in Days : \A k, l \in HourlyWindows(n) :
        k # l => (k..(k + BarsPerHour - 1)) \cap (l..(l + BarsPerHour - 1)) = {}

=============================================================================
