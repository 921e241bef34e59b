------------------------------- MODULE MCFetch -------------------------------
(***************************************************************************)
(* A small instance of the fetch for TLC: one homework of a configured     *)
(* type and one of a type that is only included by default.                *)
(***************************************************************************)
EXTENDS Fetch

MCHomework == {1, 2}
MCConfigured == {1}
MCAssigned == [h \in MCHomework |-> 1]
MCFirstDue == [h \in MCHomework |-> IF h = 1 THEN NoDue ELSE 0]
===============================================================================
