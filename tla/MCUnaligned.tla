---------------------------- MODULE MCUnaligned -----------------------------
(***************************************************************************)
(* Two 64-bit words of memory and every pair of partial accesses to them.  *)
(* All bytes of memory and of the register start different and non-zero,   *)
(* so that any byte that ends up in a wrong place shows.                   *)
(***************************************************************************)
EXTENDS Unaligned

MCByte == 0 .. 24

MCInit ==
    /\ memory = [c \in Cell |-> c + 1]
    /\ reg = [i \in 0 .. 7 |-> 17 + i]
    /\ last = [op |-> "none", size |-> 4, addr |-> 0]
    /\ steps = 0

MCSpec == MCInit /\ [][Next]_vars
=============================================================================
