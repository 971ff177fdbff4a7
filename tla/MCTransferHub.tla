---------------------------- MODULE MCTransferHub ----------------------------
(* Instances of TransferHub and TransferBar for TLC: a drop of one or two      *)
(* files, and a second drop after the settings were changed.                   *)
EXTENDS TransferBar, TLC

CONSTANTS j1, j2, f1, f2, f3

TwoJobs == {j1, j2}
TwoKindOf == j1 :> "Upload" @@ j2 :> "Upload"

ThreeFiles == {f1, f2, f3}
ThreeJobOf == f1 :> j1 @@ f2 :> j1 @@ f3 :> j2

UpDown(up, down) == [k \in Kinds |-> IF k = "Upload" THEN up ELSE down]
TwoParallelism == j1 :> UpDown(0, 1) @@ j2 :> UpDown(2, 1)
=============================================================================
