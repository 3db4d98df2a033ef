----------------------------- MODULE MCUnpacker -----------------------------
(***************************************************************************)
(* Four bytes of memory and their mirror, the least for which the scans    *)
(* can find a block without leaving the arrays; one-byte instructions, an  *)
(* input file of at most one byte and one segment.                         *)
(***************************************************************************)
EXTENDS Unpacker

MCByte == {0, 1}

(* Bounds the options' values: an ELF and a raw input, with -e and -n and  *)
(* without, each with -l, with -i and with neither.                        *)
MCInit ==
    /\ Init
    /\ <<raw, ep, norun>> \in
          {<<0, 0, FALSE>>, <<1, 2, FALSE>>, <<1, 0, TRUE>>, <<1, 2, TRUE>>, <<0, 2, TRUE>>}
    /\ <<opt_lo, opt_hi>> \in {<<0, 0>>, <<1, 0>>, <<0, 2>>}

(* Bounds pc, which main does not look at after a run: the machine stands  *)
(* at the entry point, as it does after a jump there.                      *)
MCNext == Next /\ (phase = "run" /\ phase' = "scan" => pc = bounce_pc)

MCSpec == MCInit /\ [][MCNext]_vars
=============================================================================
