------------------------------ MODULE MCStdio ------------------------------
(* Instances of Stdio for TLC.                                             *)
EXTENDS Stdio
=============================================================================
