----------------------------- MODULE MCFileDump -----------------------------
(***************************************************************************)
(* The instance of FileDump: four requesters and a ring that holds three,  *)
(* a commanded file name for one of them and the default for the others,   *)
(* and records that are holes or cost more than a call earns, so that a    *)
(* file stays open over several calls.                                     *)
(***************************************************************************)
EXTENDS FileDump, TLC

CONSTANTS m1, m2, m3, m4, n1, n2

Names == (m1 :> {n1, n2}) @@ (m2 :> {n1}) @@ (m3 :> {n1}) @@ (m4 :> {n1})
Sizes == {0, 2}
=============================================================================
