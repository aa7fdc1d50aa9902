---------------------------- MODULE MCMissionReturn ----------------------------
(***************************************************************************)
(* The instance of MissionReturn for TLC.                                  *)
(***************************************************************************)
EXTENDS MissionReturn

MCPlans ==
    {[policy |-> "rtl", crew |-> {1, 2}, lead |-> 1],
     [policy |-> "swarm", crew |-> {1, 2, 3}, lead |-> 1]}
MCTargets == {{1}, {3}}
MCRequests == {{}, {2}}
=============================================================================
