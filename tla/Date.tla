-------------------------------- MODULE Date --------------------------------
(***************************************************************************)
(* XTL::Date (utils/Date.cpp): arithmetic on days, months and years and the *)
(* number of a day.  A behaviour constructs a date and makes one call; the  *)
(* loops of AddDays and SubDays take one step for each month.               *)
(***************************************************************************)
EXTENDS Integers

CONSTANTS
    StartYears, StartDays, StartIndexes,        \* bound: the dates constructed
    DayCounts, MonthCounts, YearCounts          \* bound: the arguments

ASSUME DateAssumption ==
    /\ StartYears \subseteq Int /\ StartDays \subseteq Nat /\ StartIndexes \subseteq Int
    /\ DayCounts \subseteq Int /\ MonthCounts \subseteq Int /\ YearCounts \subseteq Int

VARIABLES
    date,       \* year_, month_, day_
    dateCall,   \* the call: its name, its argument and the date before it
    datePc

dateVars == <<date, dateCall, datePc>>

MONTHES_IN_YEAR == 12
DAYS_IN_YEAR == 365
DAYS_IN_4_YEARS == 4 * DAYS_IN_YEAR + 1
DAYS_IN_100_YEARS == 25 * DAYS_IN_4_YEARS - 1
DAYS_IN_400_YEARS == 4 * DAYS_IN_100_YEARS + 1

\* Division of C, which rounds to zero.
TruncDiv(a, b) == IF a >= 0 THEN a \div b ELSE -((-a) \div b)
TruncMod(a, b) == a - b * TruncDiv(a, b)

Lesser(a, b) == IF a < b THEN a ELSE b

-----------------------------------------------------------------------------
(* Months and years.                                                        *)

IsLeapYear(year) == year % 4 = 0 /\ (year % 100 # 0 \/ year % 400 = 0)

DaysInMonth(year, month) ==
    CASE month \in {4, 6, 9, 11} -> 30
      [] month = 2 -> IF IsLeapYear(year) THEN 29 ELSE 28
      [] OTHER -> 31

\* IsValid, the test of the constructor.
IsValid(d) ==
    /\ d.month \in 1 .. MONTHES_IN_YEAR
    /\ d.day \in 1 .. DaysInMonth(d.year, d.month)

\* The tables DAYS_BEFORE and DAYS_FROM_YEAR_BEGIN.
DaysBefore(year, month) ==
    LET common == <<0, 31, 59, 90, 120, 151, 181, 212, 243, 273, 304, 334, 365>>
    IN  common[month] + IF IsLeapYear(year) /\ month > 2 THEN 1 ELSE 0

DayOfYear(d) == DaysBefore(d.year, d.month) + d.day - 1

\* What an exception leaves of a date under construction.
NoDate == [year |-> 0, month |-> 0, day |-> 0]

\* The month whose days include this one; NoDate stands for the exception.
FromDayOfYear(year, dayOfYear) ==
    IF dayOfYear < 0 \/ dayOfYear >= DaysBefore(year, MONTHES_IN_YEAR + 1)
    THEN NoDate
    ELSE LET month == CHOOSE m \in 1 .. MONTHES_IN_YEAR :
                        DaysBefore(year, m) <= dayOfYear /\ dayOfYear < DaysBefore(year, m + 1)
         IN  [year |-> year, month |-> month, day |-> dayOfYear + 1 - DaysBefore(year, month)]

ToDayIndex(d) ==
    LET y == TruncMod(d.year - 1, 400)
    IN  TruncDiv(d.year - 1, 400) * DAYS_IN_400_YEARS
        + y * DAYS_IN_YEAR + TruncDiv(y, 4) - TruncDiv(y, 100)
        + DayOfYear(d)

Century(d) == Lesser(TruncDiv(d, DAYS_IN_100_YEARS), 3)

FromDayIndex(dayIndex) ==
    LET y400 == TruncDiv(dayIndex, DAYS_IN_400_YEARS)
        in400 == TruncMod(dayIndex, DAYS_IN_400_YEARS)
        y100 == Century(in400)
        in100 == in400 - y100 * DAYS_IN_100_YEARS
        y4 == TruncDiv(in100, DAYS_IN_4_YEARS)
        in4 == TruncMod(in100, DAYS_IN_4_YEARS)
        y1 == Lesser(TruncDiv(in4, DAYS_IN_YEAR), 3)
    IN  FromDayOfYear(400 * y400 + 100 * y100 + 4 * y4 + y1 + 1, in4 - y1 * DAYS_IN_YEAR)

\* operator<.
IsBefore(d, e) ==
    \/ d.year < e.year
    \/ d.year = e.year /\ (d.month < e.month \/ (d.month = e.month /\ d.day < e.day))

-----------------------------------------------------------------------------
(* The calls.  A negative count makes the opposite call.                    *)

\* Constructors: a date that is not valid, or a day index that is none, throws.
DateInit ==
    /\ \/ date \in {d \in [year : StartYears, month : 1 .. 12, day : StartDays] : IsValid(d)}
       \/ \E index \in StartIndexes :
              /\ FromDayIndex(index) # NoDate
              /\ date = FromDayIndex(index)
    /\ dateCall = [op |-> "none", count |-> 0, from |-> date]
    /\ datePc = "ready"

NextMonth(d) ==
    IF d.month = MONTHES_IN_YEAR THEN [d EXCEPT !.month = 1, !.year = @ + 1]
                                 ELSE [d EXCEPT !.month = @ + 1]

PreviousMonth(d) ==
    IF d.month = 1 THEN [d EXCEPT !.month = MONTHES_IN_YEAR, !.year = @ - 1]
                   ELSE [d EXCEPT !.month = @ - 1]

\* Called(op, n) records the call of the user.
Called(op, n) == dateCall' = [op |-> op, count |-> n, from |-> date]

\* AddDays(n) and SubDays(-n): the days are added, the months are carried below.
AddDays(n) ==
    /\ datePc = "ready"
    /\ Called("AddDays", n)
    /\ date' = [date EXCEPT !.day = @ + n]
    /\ datePc' = IF n >= 0 THEN "adding" ELSE "subtracting"

SubDays(n) ==
    /\ datePc = "ready"
    /\ Called("AddDays", -n)
    /\ date' = [date EXCEPT !.day = @ - n]
    /\ datePc' = IF n >= 0 THEN "subtracting" ELSE "adding"

\* The body of the loop of AddDays: dim is that of the month that is left.
Carried(d) == [NextMonth(d) EXCEPT !.day = @ - DaysInMonth(d.year, d.month)]

AddDaysCarry ==
    /\ datePc = "adding"
    /\ IF date.day > DaysInMonth(date.year, date.month)
       THEN date' = Carried(date) /\ UNCHANGED datePc
       ELSE datePc' = "done" /\ UNCHANGED date
    /\ UNCHANGED dateCall

\* The condition and the body of the loop of SubDays.
MustBorrow(d) == d.day < 1

Borrowed(d) ==
    LET p == PreviousMonth(d) IN [p EXCEPT !.day = @ + DaysInMonth(p.year, p.month)]

SubDaysBorrow ==
    /\ datePc = "subtracting"
    /\ IF MustBorrow(date)
       THEN date' = Borrowed(date) /\ UNCHANGED datePc
       ELSE datePc' = "done" /\ UNCHANGED date
    /\ UNCHANGED dateCall

\* The last statement of the calls on months and years.
Clipped(d) == [d EXCEPT !.day = Lesser(@, DaysInMonth(d.year, d.month))]

\* AddMonthes for a count that is not negative.
MonthesAdded(d, n) ==
    LET m == d.month + n
    IN  IF m > MONTHES_IN_YEAR
        THEN [d EXCEPT !.year = @ + ((m - 1) \div MONTHES_IN_YEAR),
                       !.month = ((m - 1) % MONTHES_IN_YEAR) + 1]
        ELSE [d EXCEPT !.month = m]

\* Mutant: no year is taken off when the month comes out as December.
YearsBorrowedFew(m) == (-m) \div MONTHES_IN_YEAR

YearsBorrowed(m) == (MONTHES_IN_YEAR - m) \div MONTHES_IN_YEAR

\* SubMonthes for a count that is not negative.
MonthesSubtracted(d, n) ==
    LET m == d.month - n
    IN  IF m < 1
        THEN [d EXCEPT !.year = @ - YearsBorrowed(m),
                       !.month = MONTHES_IN_YEAR - ((-m) % MONTHES_IN_YEAR)]
        ELSE [d EXCEPT !.month = m]

AddMonthes(n) ==
    /\ datePc = "ready"
    /\ Called("AddMonthes", n)
    /\ date' = Clipped(IF n >= 0 THEN MonthesAdded(date, n) ELSE MonthesSubtracted(date, -n))
    /\ datePc' = "done"

SubMonthes(n) ==
    /\ datePc = "ready"
    /\ Called("AddMonthes", -n)
    /\ date' = Clipped(IF n >= 0 THEN MonthesSubtracted(date, n) ELSE MonthesAdded(date, -n))
    /\ datePc' = "done"

\* AddYears(n) and SubYears(-n).
AddYears(n) ==
    /\ datePc = "ready"
    /\ Called("AddYears", n)
    /\ date' = Clipped([date EXCEPT !.year = @ + n])
    /\ datePc' = "done"

DateNext ==
    \/ \E n \in DayCounts : AddDays(n) \/ SubDays(n)
    \/ AddDaysCarry
    \/ SubDaysBorrow
    \/ \E n \in MonthCounts : AddMonthes(n) \/ SubMonthes(n)
    \/ \E n \in YearCounts : AddYears(n)

DateSpec == DateInit /\ [][DateNext]_dateVars

-----------------------------------------------------------------------------
(* Properties.                                                              *)

\* Every call leaves a date that the constructor would accept.
DateStaysValid == datePc \in {"ready", "done"} => IsValid(date)

\* AddDays and SubDays move the day index by their argument, in every turn of
\* their loops: over short months, leap years and the ends of centuries.  Days
\* before the year 1 have no index (the division of C rounds to zero).
DaysAreCounted ==
    (dateCall.op = "AddDays" /\ date.year >= 1 /\ dateCall.from.year >= 1)
        => ToDayIndex(date) = ToDayIndex(dateCall.from) + dateCall.count

\* FromDayIndex undoes ToDayIndex, and the order of day indexes is operator<.
DayIndexNamesTheDay ==
    (datePc = "done" /\ date.year >= 1 /\ dateCall.from.year >= 1) =>
        /\ FromDayIndex(ToDayIndex(date)) = date
        /\ IsBefore(dateCall.from, date) <=> ToDayIndex(dateCall.from) < ToDayIndex(date)

\* AddMonthes and SubMonthes move the month by their argument, also across
\* years and for negative counts, and keep the day or take the last one.
MonthsAreCounted ==
    dateCall.op = "AddMonthes" =>
        /\ 12 * date.year + date.month
              = 12 * dateCall.from.year + dateCall.from.month + dateCall.count
        /\ date.day = Lesser(dateCall.from.day, DaysInMonth(date.year, date.month))

\* Dates stay valid, days and months are counted as the calendar does, and the day
\* index is a bijection that keeps the order.
DatesAreCounted == DateStaysValid /\ DaysAreCounted /\ DayIndexNamesTheDay /\ MonthsAreCounted
=============================================================================
