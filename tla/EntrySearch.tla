---------------------------- MODULE EntrySearch -----------------------------
(***************************************************************************)
(* What the emulation core promises to main: it follows the program until  *)
(* an entry point is announced (ExecPS2) or execution arrives, by a jump,  *)
(* at memory the program has written; from then on memory does not change  *)
(* and nothing runs but the end of the jumps already taken.  Delay slots,  *)
(* nested branches and the host call stack are not visible here.           *)
(***************************************************************************)
EXTENDS Memory

CONSTANT InsnBytes

VARIABLES
    pc,       \* where the program is
    written,  \* the memory it has written
    entry,    \* the entry point found, 0 while there is none
    alive     \* the unpacker is still running

vars == <<pc, written, entry, alive>>

Init ==
    /\ pc \in Address
    /\ written = {}
    /\ entry = 0
    /\ alive = TRUE

(* Outside memory the tag is whatever the host has there. *)
LooksWritten(t) == t \in written \/ t \notin Cell

(* One instruction that does not jump, or the skip over an unused delay slot. *)
Advance ==
    /\ alive /\ entry = 0
    /\ pc' \in { Shift(pc, InsnBytes), Shift(Shift(pc, InsnBytes), InsnBytes) }
    /\ \E W \in SUBSET Cell : written' = written \union W
    /\ UNCHANGED <<entry, alive>>

Announce(e) ==
    /\ alive /\ entry = 0
    /\ entry' = e
    /\ pc' = Shift(pc, InsnBytes)
    /\ UNCHANGED <<written, alive>>

(* A jump to written memory makes its target the entry point. *)
Arrive(t) ==
    /\ alive
    /\ LooksWritten(t)
    /\ pc' = t
    /\ entry' = t
    /\ UNCHANGED <<written, alive>>

Pass(t) ==
    /\ alive
    /\ t \notin written
    /\ pc' = t
    /\ UNCHANGED <<written, entry, alive>>

(* The unpacker gives up, perhaps in the middle of a store. *)
Die ==
    /\ alive
    /\ alive' = FALSE
    /\ \E W \in SUBSET Cell : written' = written \union (IF entry = 0 THEN W ELSE {})
    /\ UNCHANGED <<pc, entry>>

Next ==
    \/ Advance
    \/ \E t \in Address : Announce(t) \/ Arrive(t) \/ Pass(t)
    \/ Die

Spec == Init /\ [][Next]_vars
=============================================================================
