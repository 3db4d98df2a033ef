---------------------------- MODULE MCMultimedia ----------------------------
(***************************************************************************)
(* Every multimedia instruction alone, with every way its three registers  *)
(* may coincide or be register 0, and the round trips.                     *)
(***************************************************************************)
EXTENDS Lanes

CONSTANTS r0, r1, r2, r3

MCGPR == {r0, r1, r2, r3}

MCPrograms ==
    { <<Instruction(op, rd, rs, rt)>> :
        op \in DOMAIN Handler, rd \in MCGPR, rs \in {r1, r2}, rt \in {r1, r2} }
    \union { trip.run : trip \in RoundTrips(r1, r2, r3) }
=============================================================================
