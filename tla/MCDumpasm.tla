----------------------------- MODULE MCDumpasm ------------------------------
(* Every address of a twelve-byte memory and its mirror, with listings of  *)
(* two two-byte instructions on each side.                                 *)
EXTENDS Dumpasm
=============================================================================
