---------------------------- MODULE MCDumpBounds ----------------------------
(***************************************************************************)
(* Every content and every tagging of a five-byte memory of zero and       *)
(* non-zero bytes, every entry point, and the options absent or at two     *)
(* addresses each.                                                         *)
(***************************************************************************)
EXTENDS DumpBounds

MCByte == {0, 1}

(* Bounds the options' values only; every other choice of Init is kept.    *)
MCInit == Init /\ opt_lo \in {0, 2} /\ opt_hi \in {0, 3}

MCSpec == MCInit /\ [][Next]_vars /\ WF_vars(Step)
=============================================================================
