------------------------------ MODULE MCSlot256 -------------------------------
(***************************************************************************)
(* Slot256 for TLC.                                                        *)
(***************************************************************************)
EXTENDS Slot256

===============================================================================
