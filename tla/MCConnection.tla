---------------------------- MODULE MCConnection ----------------------------
(* Instances of Connection for TLC: a file and a command. *)
EXTENDS Connection, TLC

CONSTANTS f1, c1

TwoTasks == {f1, c1}
OneCommand == {c1}
=============================================================================
