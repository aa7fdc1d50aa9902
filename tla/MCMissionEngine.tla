---------------------------- MODULE MCMissionEngine ----------------------------
(***************************************************************************)
(* Instance of MissionEngine for TLC: every authority profile, with plans  *)
(* of one drone with and without WAITs, of a group, of SEPARATE routes and *)
(* of a swarm of three.                                                    *)
(***************************************************************************)
EXTENDS MissionEngine

\* Routes have two waypoints; hold is the set of their indexes with a WAIT.
MCPlan(id, mode, parts, leader, hold, ret) ==
    [id |-> id, mode |-> mode, parts |-> parts,
     rank |-> [d \in Drones |-> 10 - d], leader |-> leader,
     len |-> [s \in Scopes |-> 2], hold |-> [s \in Scopes |-> hold],
     ret |-> ret, payload |-> FALSE]

MCPlans ==
    {MCPlan(1, "GROUPED", {1}, 0, {}, TRUE),
     MCPlan(2, "GROUPED", {1}, 0, {0, 1}, FALSE),
     MCPlan(3, "SEPARATE", {1, 2}, 0, {0}, FALSE),
     MCPlan(4, "GROUPED", {1, 2}, 0, {}, TRUE),
     MCPlan(5, "SEPARATE", {1, 3}, 0, {}, TRUE),
     MCPlan(6, "SWARM_LEADER", {1, 2, 3}, 2, {}, TRUE)}

MCDeployments == [profile: Profiles, returns: BOOLEAN]
=============================================================================
