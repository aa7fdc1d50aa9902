------------------------------- MODULE MCTerrain -------------------------------
(***************************************************************************)
(* An instance of Terrain for TLC: a row of tiles of different heights,    *)
(* wide enough for a window to be left and entered again.                  *)
(***************************************************************************)
EXTENDS Terrain

Hills == [k \in Keys |-> k + 1]
================================================================================
