------------------------------ MODULE MCDownload ------------------------------
(* A small instance of Download: two bytes a chunk, one a tag. *)
EXTENDS Download

MCSizes == 0 .. 5
=============================================================================
