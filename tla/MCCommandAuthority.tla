-------------------------- MODULE MCCommandAuthority --------------------------
(***************************************************************************)
(* Instances of CommandAuthority for TLC.                                  *)
(***************************************************************************)
EXTENDS CommandAuthority

MCMission(mode, team, leader) == [mode |-> mode, team |-> team, leader |-> leader]

OneMission == {MCMission("single", {1}, 0)}
SwarmMission == {MCMission("swarm", {1, 2, 3}, 1)}
AllMissions ==
    {MCMission("single", {1}, 0), MCMission("group", {1, 2}, 0),
     MCMission("swarm", {1, 2, 3}, 1)}

Pairs == {{1}, {1, 2}}
First == {{1}}
Second == {{2}}
None == {}
=============================================================================
