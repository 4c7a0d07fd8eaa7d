------------------------------ MODULE Calendar ------------------------------
(***************************************************************************)
(* The UTC calendar the quota windows of the gateway are cut from.  A day  *)
(* is a number; MonthStart[m] is the number of the 1st of month m.  Only   *)
(* the date arithmetic of Go's time package that the gateway uses is       *)
(* modelled: AddDate(0, 0, 1) and AddDate(0, 1, 0), the second of which    *)
(* carries a day the next month does not have into the month after it.     *)
(***************************************************************************)
EXTENDS Integers

CONSTANTS
    Days,         \* the days the clock may show
    NumMonths,    \* number of months the calendar lists
    MonthStart    \* MonthStart[m]: the day that is the 1st of month m

Months == 1 .. NumMonths - 1

InMonth(d, m) == MonthStart[m] <= d /\ d < MonthStart[m + 1]

MonthOf(d) == CHOOSE m \in Months : InMonth(d, m)

DayOfMonth(d) == d - MonthStart[MonthOf(d)]

\* time.AddDate(0, 1, 0): same day of the next month, overflow carried on.
AddOneMonth(d) == MonthStart[MonthOf(d) + 1] + DayOfMonth(d)

ASSUME CalendarAssumption ==
    /\ NumMonths \in Nat
    /\ MonthStart \in [1 .. NumMonths -> Nat]
    /\ \A m, n \in 1 .. NumMonths : m < n => MonthStart[m] < MonthStart[n]
    /\ \A m \in Months : MonthStart[m + 1] <= MonthStart[m] + 31
    /\ Days \subseteq Nat
    /\ \A d \in Days :
         /\ \E m \in Months : InMonth(d, m)
         /\ \E m \in Months : InMonth(AddOneMonth(d), m)

\* nextDailyReset: midnight at the start of the following day.
NextDailyReset(d) == d + 1

\* Faulty variant: a month from today instead of the 1st.
NextMonthlyResetRolling(d) == AddOneMonth(d)

\* nextMonthlyReset: the 1st of the month that AddDate(0, 1, 0) lands in.
NextMonthlyReset(d) == MonthStart[MonthOf(AddOneMonth(d))]
=============================================================================
