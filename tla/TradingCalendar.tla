---------------------------- MODULE TradingCalendar ----------------------------
(***************************************************************************)
(* UsEquitiesTradingCalendar (market_data/trading_calendar.py): which days  *)
(* are sessions of the US stock market and where a session's bars lie.  A   *)
(* day is its proleptic Gregorian ordinal, as in Python's date.toordinal.   *)
(* Bars are counted from one: bar k of a session starts k - 1 intervals     *)
(* after the opening.                                                       *)
(***************************************************************************)
EXTENDS Integers, FiniteSets, FiniteSetsExt

CONSTANTS RegularBars,   \* five-minute bars of a regular session (78 in the code)
          EarlyBars,     \* of a session that closes at 13:00 (42)
          BarsPerHour    \* of an hourly window (12)

ASSUME CalendarAssumption ==
    /\ EarlyBars \in Nat \ {0} /\ RegularBars \in Nat /\ BarsPerHour \in Nat \ {0}
    /\ EarlyBars < RegularBars

IsLeap(y) == (y % 4 = 0 /\ y % 100 # 0) \/ y % 400 = 0

DaysBefore(y, m) ==
    <<0, 31, 59, 90, 120, 151, 181, 212, 243, 273, 304, 334>>[m]
        + (IF m > 2 /\ IsLeap(y) THEN 1 ELSE 0)

\* date(y, m, d)
Date(y, m, d) ==
    365 * (y - 1) + ((y - 1) \div 4) - ((y - 1) \div 100) + ((y - 1) \div 400)
        + DaysBefore(y, m) + d

\* date.weekday(): Monday is 0.
Weekday(n) == (n + 6) % 7

Year(n) == CHOOSE y \in (n \div 366)..((n \div 365) + 1) :
               Date(y, 1, 1) <= n /\ n < Date(y + 1, 1, 1)

\* On a Saturday the Friday before, on a Sunday the Monday after.
ObservedFixedHoliday(y, m, d) ==
    LET n == Date(y, m, d) IN
    n + (CASE Weekday(n) = 5 -> -1 [] Weekday(n) = 6 -> 1 [] OTHER -> 0)

\* The k-th given weekday of a month, and the last one (no month 12 is asked for).
NthWeekday(y, m, weekday, k) ==
    (CHOOSE n \in Date(y, m, 1)..Date(y, m, 7) : Weekday(n) = weekday) + 7 * (k - 1)
LastWeekday(y, m, weekday) ==
    CHOOSE n \in (Date(y, m + 1, 1) - 7)..(Date(y, m + 1, 1) - 1) : Weekday(n) = weekday

\* The anonymous Gregorian algorithm, two days before Easter Sunday.
GoodFriday(y) ==
    LET a == y % 19
        b == y \div 100
        c == y % 100
        g == (b - ((b + 8) \div 25) + 1) \div 3
        h == (19 * a + b - (b \div 4) - g + 15) % 30
        correction == (32 + 2 * (b % 4) + 2 * (c \div 4) - h - (c % 4)) % 7
        p == h + correction - 7 * ((a + 11 * h + 22 * correction) \div 451) + 114
    IN  Date(y, p \div 31, (p % 31) + 1) - 2

Holidays(y) ==
    {ObservedFixedHoliday(y, 1, 1), NthWeekday(y, 1, 0, 3), NthWeekday(y, 2, 0, 3),
     GoodFriday(y), LastWeekday(y, 5, 0), ObservedFixedHoliday(y, 7, 4),
     NthWeekday(y, 9, 0, 1), NthWeekday(y, 11, 3, 4), ObservedFixedHoliday(y, 12, 25)}
        \cup (IF y >= 2022 THEN {ObservedFixedHoliday(y, 6, 19)} ELSE {})

\* New Year's Day may be observed in the year before: the neighbours count too.
HolidaysAround(y) == UNION {Holidays(z) : z \in (y - 1)..(y + 1)}

EarlyCloses(y) ==
    {n \in {Date(y, 7, 3), Date(y, 12, 24), NthWeekday(y, 11, 3, 4) + 1} :
        Weekday(n) < 5 /\ n \notin HolidaysAround(y)}

\* sessions_between(n, n) is not empty.
IsSession(n) == Weekday(n) < 5 /\ n \notin HolidaysAround(Year(n))

\* len(expected_bar_start_times)
BarsIn(n) ==
    IF ~IsSession(n) THEN 0
    ELSE IF n \in EarlyCloses(Year(n)) THEN EarlyBars ELSE RegularBars

\* hourly_windows_for_session: the bars that start a full hour; the rest of the
\* session belongs to no window.
HourlyWindows(n) ==
    {k \in 1..BarsIn(n) : (k - 1) % BarsPerHour = 0 /\ k + BarsPerHour - 1 <= BarsIn(n)}

=============================================================================
