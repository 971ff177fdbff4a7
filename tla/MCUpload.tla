------------------------------ MODULE MCUpload ------------------------------
(* Instances of Upload for TLC. *)
EXTENDS Upload

AllKinds == {"s3", "sftp", "smb", "nfs"}
=============================================================================
