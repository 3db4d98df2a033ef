--------------------------- MODULE MCInterpreter ----------------------------
(***************************************************************************)
(* A small machine for Interpreter.tla: five bytes of memory and their     *)
(* mirror, two-byte instructions, byte, half-word and aligned accesses.    *)
(***************************************************************************)
EXTENDS Interpreter

MCAccessBytes == {1, 2}
MCMergeBytes  == {2}
=============================================================================
