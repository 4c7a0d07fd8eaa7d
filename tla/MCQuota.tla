------------------------------ MODULE MCQuota -------------------------------
(***************************************************************************)
(* Quota on a real calendar: the days around the end of January and of     *)
(* February of a common year, where the 31st has no counterpart in the     *)
(* next month.  Day 0 is January 1st.                                      *)
(***************************************************************************)
EXTENDS Quota

MCNumMonths == 6
MCMonthStart == <<0, 31, 59, 90, 120, 151>>

\* Jan 30, Jan 31, Feb 1, Feb 28, Mar 1, Mar 2
MCDays == {29, 30, 31, 58, 59, 60}

\* One response can exceed what is left of either limit.
MCLimit == [daily |-> [u \in Users |-> 2], monthly |-> [u \in Users |-> 3]]
=============================================================================
