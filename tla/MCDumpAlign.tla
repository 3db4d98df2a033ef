---------------------------- MODULE MCDumpAlign -----------------------------
(* Every low address and every alignment of a six-bit word.                *)
EXTENDS DumpAlign, Bitwise

MCPowers == { 2 ^ k : k \in 0 .. 5 }

MCAnd(a, b) == a & b
=============================================================================
