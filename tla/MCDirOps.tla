------------------------------ MODULE MCDirOps ------------------------------
(* Instances of DirOps for TLC. *)
EXTENDS DirOps, TLC

CONSTANTS t1, t2

AllKinds == {"s3", "sftp", "smb", "nfs"}
TwoFolders == {<<>>, <<"a">>, <<"b">>}
Nested == {<<>>, <<"a">>, <<"b">>, <<"b", "a">>}
SameNames == {<<>>, <<"a">>, <<"a", "a">>, <<"a", "a", "a">>}
Direct == {<<"f">>}
DirectAndDeep == {<<"f">>, <<"a", "f">>}
Deeper == DirectAndDeep \cup {<<"a", "a", "f">>}

TaskSymmetry == Permutations({t1, t2})
=============================================================================
