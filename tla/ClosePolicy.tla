----------------------------- MODULE ClosePolicy -----------------------------
(***************************************************************************)
(* When a homework that the source no longer lists may be closed, by the   *)
(* row that is left of it.  Days are numbers; the due date is a day of the *)
(* school's calendar, `seen` the day on which a pass last found the        *)
(* homework listed.                                                        *)
(***************************************************************************)
EXTENDS Integers

CONSTANTS
  WindowDays,   \* config edupage.window_days
  GraceDays     \* config sync.grace_days

ASSUME PolicyAssumption == WindowDays \in Nat \ {0} /\ GraceDays \in Nat

NoDue == -1     \* no due date, or none that parses

\* Mutated form: a homework without a due date is over when its due date would be.
CloseEligibleNoWindow(row, today) ==
  IF row.due = NoDue THEN today - row.seen > GraceDays ELSE today - row.due > GraceDays

\* _close_eligible.
CloseEligible(row, today) ==
  IF row.due = NoDue THEN today - row.seen > WindowDays + GraceDays
                     ELSE today - row.due > GraceDays
===============================================================================
