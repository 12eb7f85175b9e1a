-------------------------- MODULE MCTimeReference --------------------------
(***************************************************************************)
(* TimeReference for TLC: two words that every update stores together, the *)
(* MET at the tone and the latched local clock.                            *)
(***************************************************************************)
EXTENDS TimeReference

CONSTANTS AtToneMET, AtToneLatch

MCField == {AtToneMET, AtToneLatch}
MCStores == {[f \in MCField |-> v] : v \in Value}
=============================================================================
