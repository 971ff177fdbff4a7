------------------------------- MODULE MCApp -------------------------------
(* Instances of App for TLC. *)
EXTENDS App

TwoNames == {"home", "work"}
TwoPasswords == {"p", "q"}
OneDir == {"d/"}

Budget(c, p, k, f) == [connects |-> c, pages |-> p, clicks |-> k, faults |-> f]

\* A failed or repeated connection with saved profiles; the profiles alone; two sessions
\* one after the other; one session in depth.
Scenarios == {Budget(2, 1, 1, 1), Budget(1, 3, 0, 1), Budget(2, 0, 2, 1), Budget(1, 0, 3, 1)}
=============================================================================
