------------------------- MODULE MCMissionPersistence -------------------------
(***************************************************************************)
(* MissionPersistence for TLC.  Operation ids are interchangeable: they    *)
(* are only ever compared for equality.                                    *)
(***************************************************************************)
EXTENDS MissionPersistence, TLC

OpSymmetry == Permutations(Ops)
=============================================================================
