------------------------ MODULE CommandAuthorityProofs ------------------------
(***************************************************************************)
(* Theorems about CommandAuthority, for any drones, missions, targets and  *)
(* bounds.                                                                 *)
(***************************************************************************)
EXTENDS CommandAuthority, TLAPS

-----------------------------------------------------------------------------
(* Type correctness                                                        *)

\* A live swarm is led from within, so that whom the run owns are drones.
LedFromWithin ==
    mission.live /\ mission.mode = "swarm" => mission.leader \in mission.team

TypeInv == TypeOK /\ LedFromWithin

\* Every run StartMission may be asked for has a mode, a team and a leader.
LEMMA MissionFields ==
    ASSUME NEW m \in Missions
    PROVE  /\ m.mode \in {"single", "group", "swarm"}
           /\ m.team \subseteq Drones
           /\ m.leader \in {0} \cup Drones
           /\ m.mode = "swarm" => m.leader \in m.team
  BY MissionAssumption DEF MissionType

\* The drones a run owns are drones.
LEMMA OwnedDrones == ASSUME TypeInv PROVE Owned(mission) \subseteq Drones
<1>1. mission.team \subseteq Drones
  BY DEF TypeInv, TypeOK
<1>2. CASE mission.live /\ mission.mode = "swarm"
  BY <1>1, <1>2 DEF Owned, TypeInv, LedFromWithin
<1>3. CASE ~(mission.live /\ mission.mode = "swarm")
  BY <1>1, <1>3 DEF Owned
<1> QED BY <1>2, <1>3

\* Marking sends as lost, and closing their guards, keeps them sends.
LEMMA SendsTyped ==
    ASSUME TypeOK, NEW S
    PROVE  Lost(S) \subseteq SendType /\ Closed(Lost(S)) \subseteq SendType
<1>1. sends \subseteq SendType
  BY DEF TypeOK
<1>2. Lost(S) \subseteq SendType
  BY <1>1 DEF Lost, SendType
<1>3. Closed(Lost(S)) \subseteq SendType
  BY <1>2 DEF Closed, SendType
<1> QED BY <1>2, <1>3

\* So do the two ways a critical section treats the outstanding sends.
LEMMA InflightTyped ==
    ASSUME TypeOK, NEW S, CancelInflight(S) \/ KeepInflight(S)
    PROVE  sends' \subseteq SendType /\ slot' \subseteq Drones /\ gen' \in Nat
  BY SendsTyped DEF CancelInflight, KeepInflight, TypeOK

\* Preempting a command keeps it a command.
LEMMA PreemptedTyped ==
    ASSUME TypeOK, NEW T PROVE Preempted(T) \subseteq CommandType
  BY DEF TypeOK, Preempted, CommandType

\* A run that is over keeps its fields.
LEMMA OverTyped ==
    ASSUME TypeOK, mission' = Over(mission)
    PROVE  /\ mission' \in [id: Nat, mode: {"single", "group", "swarm"},
                            team: SUBSET Drones, leader: {0} \cup Drones,
                            live: BOOLEAN, fresh: BOOLEAN]
           /\ LedFromWithin'
  BY DEF TypeOK, Over, LedFromWithin

\* The initial state has the types.
LEMMA TypeInit == Init => TypeInv
  BY DEF Init, TypeInv, TypeOK, LedFromWithin, NoMission, NoReturn, NoWrite,
         SendType, CommandType

\* Every step keeps the types.
LEMMA TypeStep == TypeInv /\ [Next]_vars => TypeInv'
<1> SUFFICES ASSUME TypeInv, [Next]_vars PROVE TypeInv'
  OBVIOUS
<1> TypeOK /\ LedFromWithin
  BY DEF TypeInv
<1> USE DEF TypeInv
<1>1. ASSUME NEW m \in Missions, StartMission(m) PROVE TypeInv'
  BY <1>1, MissionFields DEF StartMission, Silent, NoWrite, TypeOK, LedFromWithin
<1>2. ASSUME NEW by \in {"rpc", "observer"}, Claim(by) PROVE
         /\ mission' \in [id: Nat, mode: {"single", "group", "swarm"},
                          team: SUBSET Drones, leader: {0} \cup Drones,
                          live: BOOLEAN, fresh: BOOLEAN]
         /\ slot' \subseteq Drones /\ gen' \in Nat /\ clock' \in Nat
         /\ sends' \subseteq SendType /\ LedFromWithin'
  <2>1. Addressed \subseteq Drones
    BY OwnedDrones DEF Addressed
  <2>2. /\ mission' = [mission EXCEPT !.fresh = FALSE] /\ clock' = clock + 1
        /\ slot' = Addressed /\ gen' = clock + 1
    BY <1>2 DEF Claim, Tick
  <2>3. clock + 1 \in Nat /\ mission.id \in Nat
        /\ mission.mode \in {"single", "group", "swarm"} /\ sends \subseteq SendType
    BY DEF TypeOK
  <2>4. \A d \in Addressed :
           [n |-> clock + 1, run |-> mission.id, drone |-> d,
            mode |-> mission.mode,
            by |-> IF mission.mode = "group" THEN "timer" ELSE by,
            open |-> TRUE, lost |-> FALSE, stage |-> "out"] \in SendType
    BY <2>1, <2>3 DEF SendType
  <2>5. sends' \subseteq SendType
    BY <1>2, <2>3, <2>4 DEF Claim
  <2>6. LedFromWithin'
    BY <2>2 DEF TypeOK, LedFromWithin
  <2>7. mission' \in [id: Nat, mode: {"single", "group", "swarm"},
                      team: SUBSET Drones, leader: {0} \cup Drones,
                      live: BOOLEAN, fresh: BOOLEAN]
    BY <2>2 DEF TypeOK
  <2> QED BY <2>1, <2>2, <2>3, <2>5, <2>6, <2>7
<1>3. CASE DispatchAtStart
  <2>1. rpc' \in Nat
    BY <1>3 DEF DispatchAtStart, TypeOK
  <2>2. CASE Claim("rpc")
    BY <2>1, <2>2, <1>2 DEF Claim, Silent, NoWrite, TypeOK
  <2>3. CASE /\ Silent
             /\ UNCHANGED <<mission, slot, gen, sends, cmds, held, return, clock,
                            heirs>>
    BY <2>1, <2>3 DEF Silent, NoWrite, TypeOK, LedFromWithin
  <2> QED BY <1>3, <2>2, <2>3 DEF DispatchAtStart
<1>4. CASE DispatchAtTick
  BY <1>4, <1>2 DEF DispatchAtTick, Claim, Silent, NoWrite, TypeOK, LedFromWithin
<1>5. ASSUME NEW s \in sends, MissionWrite(s) PROVE TypeInv'
  BY <1>5 DEF MissionWrite, TypeOK, SendType, LedFromWithin
<1>6. ASSUME NEW s \in sends, NEW ok \in BOOLEAN, SendReturns(s, ok)
      PROVE  TypeInv'
  <2>1. sends' \subseteq SendType /\ slot' \subseteq Drones
    BY <1>6 DEF SendReturns, Freed, TypeOK, SendType
  <2> QED BY <1>6, <2>1 DEF SendReturns, Silent, NoWrite, TypeOK, LedFromWithin
<1>7. ASSUME NEW s \in sends, FailRun(s) PROVE TypeInv'
  BY <1>7 DEF FailRun, Over, Silent, NoWrite, TypeOK, LedFromWithin
<1>8. ASSUME NEW done \in BOOLEAN, Observe(done) PROVE TypeInv'
  BY <1>8 DEF Observe, Over, Silent, NoWrite, TypeOK, LedFromWithin
<1>9. CASE CancelMission
  BY <1>9, OverTyped, InflightTyped DEF CancelMission, Silent, NoWrite, TypeOK
<1>10. ASSUME NEW d \in Drones, Interrupt(d) PROVE TypeInv'
  BY <1>10, OverTyped, InflightTyped DEF Interrupt, Silent, NoWrite, TypeOK
<1>11. ASSUME NEW T \in NormalTargets, Normal(T) PROVE TypeInv'
  <2> DEFINE S == {d \in T : held[d] = 0 /\ ~Owns(d)}
  <2>1. S \subseteq Drones
    BY TargetAssumption
  <2>2. clock' \in Nat /\ held' \in [Drones -> Nat]
    BY <1>11 DEF Normal, Tick, Holding, TypeOK
  <2>3. Command("normal", S) \in CommandType
    BY <2>1 DEF Command, CommandType, Priority, TypeOK
  <2>4. cmds' \subseteq CommandType
    BY <1>11, <2>3 DEF Normal, TypeOK
  <2> QED BY <1>11, <2>2, <2>4
         DEF Normal, Silent, NoWrite, TypeOK, LedFromWithin
<1>12. ASSUME NEW kind \in Takeovers, NEW T \in TakeoverTargets, Takeover(kind, T)
       PROVE  TypeInv'
  <2> DEFINE S == {d \in T : Rank(d) <= Priority[kind]}
  <2>1. S \subseteq Drones /\ kind \in DOMAIN Priority
    BY TargetAssumption, TakeoverAssumption
  <2>2. clock' \in Nat /\ held' \in [Drones -> Nat]
    BY <1>12 DEF Takeover, Tick, Holding, TypeOK
  <2>3. Command(kind, S) \in CommandType
    BY <2>1 DEF Command, CommandType, TypeOK
  <2>4. cmds' \subseteq CommandType
    BY <1>12, <2>3, PreemptedTyped DEF Takeover
  <2>5. /\ mission' \in [id: Nat, mode: {"single", "group", "swarm"},
                         team: SUBSET Drones, leader: {0} \cup Drones,
                         live: BOOLEAN, fresh: BOOLEAN]
        /\ LedFromWithin' /\ heirs' \subseteq Drones
        /\ sends' \subseteq SendType /\ slot' \subseteq Drones /\ gen' \in Nat
    <3>1. TakeFromMission(S)
      BY <1>12 DEF Takeover
    <3>2. CASE SwarmTakeover(S)
      <4>1. \E R \in SUBSET Drones : CancelInflight(R) \/ KeepInflight(R)
        BY <2>1, <3>2 DEF SwarmTakeover, TypeOK
      <4>2. sends' \subseteq SendType /\ slot' \subseteq Drones /\ gen' \in Nat
        BY <4>1, InflightTyped
      <4>3. mission.team \subseteq Drones /\ heirs \subseteq Drones
        BY DEF TypeOK
      <4>4. heirs' \subseteq Drones
        <5>1. heirs' = heirs \/ \E h \in mission.team : heirs' = heirs \cup {h}
          BY <3>2 DEF SwarmTakeover
        <5> QED BY <4>3, <5>1
      <4>5. mission' \in [id: Nat, mode: {"single", "group", "swarm"},
                          team: SUBSET Drones, leader: {0} \cup Drones,
                          live: BOOLEAN, fresh: BOOLEAN]
        <5>1. mission.team \ S \subseteq Drones
          BY <4>3
        <5>2. \/ mission' = [mission EXCEPT !.team = mission.team \ S]
              \/ \E h \in mission.team \ S :
                    mission' = [mission EXCEPT !.team = mission.team \ S,
                                               !.leader = h, !.fresh = TRUE]
              \/ mission' = [mission EXCEPT !.team = mission.team \ S,
                                            !.live = FALSE, !.fresh = FALSE]
          BY <3>2 DEF SwarmTakeover, Over
        <5> QED BY <5>1, <5>2 DEF TypeOK
      <4>6. LedFromWithin'
        BY <3>2, <4>5 DEF SwarmTakeover, Over, LedFromWithin
      <4> QED BY <4>2, <4>4, <4>5, <4>6
    <3>3. CASE mission' = Over(mission) /\ CancelInflight(mission.team)
               /\ UNCHANGED heirs
      BY <3>3, OverTyped, InflightTyped DEF TypeOK
    <3>4. CASE KeepInflight({}) /\ UNCHANGED <<mission, heirs>>
      BY <3>4, InflightTyped DEF TypeOK, LedFromWithin
    <3> QED BY <3>1, <3>2, <3>3, <3>4 DEF TakeFromMission
  <2> QED BY <1>12, <2>2, <2>4, <2>5 DEF Takeover, Silent, NoWrite, TypeOK
<1>13. ASSUME NEW c \in cmds, NEW d \in Drones, Begin(c, d) PROVE TypeInv'
  BY <1>13 DEF Begin, Silent, NoWrite, TypeOK, CommandType, LedFromWithin
<1>14. ASSUME NEW c \in cmds, NEW d \in Drones, CommandWrite(c, d) PROVE TypeInv'
  BY <1>14 DEF CommandWrite, TypeOK, CommandType, LedFromWithin
<1>15. ASSUME NEW c \in cmds, Finish(c) PROVE TypeInv'
  BY <1>15 DEF Finish, Released, Silent, NoWrite, TypeOK, LedFromWithin
<1>16. ASSUME NEW T \in ReturnTargets, NEW accepted \in BOOLEAN,
              SwarmReturn(T, accepted)
       PROVE  TypeInv'
  <2>1. Scope(T) \subseteq Drones
    BY TargetAssumption DEF Scope
  <2>2. clock' \in Nat /\ return' \in [n: Nat, drones: SUBSET Drones, open: BOOLEAN]
    BY <1>16, <2>1 DEF SwarmReturn, Tick, TypeOK
  <2>3. /\ mission' = Over(mission) \/ UNCHANGED mission
        /\ \E S \in {{}, mission.team} : CancelInflight(S) \/ KeepInflight(S)
    BY <1>16 DEF SwarmReturn, CancelForReturn
  <2>4. sends' \subseteq SendType /\ slot' \subseteq Drones /\ gen' \in Nat
    BY <2>3, InflightTyped
  <2> QED BY <1>16, <2>2, <2>3, <2>4, OverTyped
         DEF SwarmReturn, Silent, NoWrite, TypeOK, LedFromWithin
<1>17. ASSUME NEW d \in Drones, ReturnWrite(d) PROVE TypeInv'
  BY <1>17 DEF ReturnWrite, TypeOK, LedFromWithin
<1>18. CASE ReturnEnds
  BY <1>18 DEF ReturnEnds, NoReturn, Silent, NoWrite, TypeOK, LedFromWithin
<1>19. CASE SwarmStop
  BY <1>19 DEF SwarmStop, Silent, NoWrite, TypeOK, LedFromWithin
<1>20. CASE UNCHANGED vars
  BY <1>20 DEF vars, TypeOK, LedFromWithin
<1> QED
  BY <1>1, <1>3, <1>4, <1>5, <1>6, <1>7, <1>8, <1>9, <1>10, <1>11, <1>12,
     <1>13, <1>14, <1>15, <1>16, <1>17, <1>18, <1>19, <1>20 DEF Next

\* In every reachable state each variable has its type, for any fleet.
THEOREM TypeCorrect == Spec => []TypeOK
<1>1. TypeInv => TypeOK
  BY DEF TypeInv
<1> QED BY <1>1, TypeInit, TypeStep, PTL DEF Spec

-----------------------------------------------------------------------------
(* Operator commands: one current command per drone                        *)

\* Serials of commands are unique and not in the future, and a reservation is
\* of a command in flight.
Serials ==
    /\ \A c \in cmds : 0 < c.n /\ c.n <= clock
    /\ \A c, e \in cmds : c.n = e.n => c = e
    /\ \A d \in Drones : held[d] # 0 => \E c \in cmds : c.n = held[d]

Leases == TypeInv /\ Serials /\ LatestCommandWins

\* Only these actions touch a command, a reservation or the clock.
LEMMA CommandSteps ==
    ASSUME [Next]_vars
    PROVE  \/ \E T \in NormalTargets : Normal(T)
           \/ \E kind \in Takeovers, T \in TakeoverTargets : Takeover(kind, T)
           \/ \E c \in cmds, d \in Drones : Begin(c, d)
           \/ \E c \in cmds : Finish(c)
           \/ UNCHANGED <<cmds, held>> /\ (clock' = clock \/ clock' = clock + 1)
<1>1. CASE DispatchAtStart
  BY <1>1 DEF DispatchAtStart, Claim, Tick
<1>2. CASE DispatchAtTick
  BY <1>2 DEF DispatchAtTick, Claim, Tick
<1>3. CASE \E m \in Missions : StartMission(m)
  BY <1>3 DEF StartMission
<1>4. CASE \E s \in sends : MissionWrite(s) \/ FailRun(s)
  BY <1>4 DEF MissionWrite, FailRun
<1>5. CASE \E s \in sends, ok \in BOOLEAN : SendReturns(s, ok)
  BY <1>5 DEF SendReturns
<1>6. CASE \E done \in BOOLEAN : Observe(done)
  BY <1>6 DEF Observe
<1>7. CASE CancelMission \/ \E d \in Drones : Interrupt(d)
  BY <1>7 DEF CancelMission, Interrupt
<1>8. CASE \E c \in cmds, d \in Drones : CommandWrite(c, d)
  BY <1>8 DEF CommandWrite
<1>9. CASE \E T \in ReturnTargets, accepted \in BOOLEAN : SwarmReturn(T, accepted)
  BY <1>9 DEF SwarmReturn, Tick
<1>10. CASE ReturnEnds \/ SwarmStop \/ \E d \in Drones : ReturnWrite(d)
  BY <1>10 DEF ReturnEnds, SwarmStop, ReturnWrite
<1>11. CASE UNCHANGED vars
  BY <1>11 DEF vars
<1> QED
  BY <1>1, <1>2, <1>3, <1>4, <1>5, <1>6, <1>7, <1>8, <1>9, <1>10, <1>11 DEF Next

LEMMA LeasesInit == Init => Leases
  BY TypeInit DEF Init, Leases, Serials, LatestCommandWins

\* A new command is the only one with its serial and holds what it names.
LEMMA NewCommand ==
    ASSUME NEW kind, NEW S \in SUBSET Drones, Leases,
           clock' = clock + 1,
           cmds' = Preempted(S) \cup {Command(kind, S)},
           held' = Holding(S)
    PROVE  Serials' /\ LatestCommandWins'
<1> DEFINE new == Command(kind, S)
<1>1. clock \in Nat /\ cmds \subseteq CommandType /\ held \in [Drones -> Nat]
  BY DEF Leases, TypeInv, TypeOK
<1>2. new.n = clock + 1 /\ new.open = S
  BY DEF Command
<1>3. \A c \in Preempted(S) :
         \E e \in cmds : /\ c = [e EXCEPT !.open = @ \ {d \in S : held[d] = e.n}]
                         /\ c.n = e.n /\ c.open = e.open \ {d \in S : held[d] = e.n}
  <2> SUFFICES ASSUME NEW c \in Preempted(S) PROVE
         \E e \in cmds : /\ c = [e EXCEPT !.open = @ \ {d \in S : held[d] = e.n}]
                         /\ c.n = e.n /\ c.open = e.open \ {d \in S : held[d] = e.n}
    OBVIOUS
  <2>1. PICK e \in cmds : c = [e EXCEPT !.open = @ \ {d \in S : held[d] = e.n}]
    BY DEF Preempted
  <2>2. e \in CommandType
    BY <1>1
  <2>3. c.n = e.n /\ c.open = e.open \ {d \in S : held[d] = e.n}
    BY <2>1, <2>2 DEF CommandType
  <2> QED BY <2>1, <2>3
<1>4. \A c \in Preempted(S) : 0 < c.n /\ c.n <= clock
  BY <1>3 DEF Leases, Serials
<1>5. \A c, e \in cmds' : c.n = e.n => c = e
  <2> SUFFICES ASSUME NEW c \in cmds', NEW e \in cmds', c.n = e.n PROVE c = e
    OBVIOUS
  <2>1. CASE c \in Preempted(S) /\ e \in Preempted(S)
    <3>1. PICK x \in cmds : /\ c = [x EXCEPT !.open = @ \ {d \in S : held[d] = x.n}]
                           /\ c.n = x.n
      BY <2>1, <1>3
    <3>2. PICK y \in cmds : /\ e = [y EXCEPT !.open = @ \ {d \in S : held[d] = y.n}]
                           /\ e.n = y.n
      BY <2>1, <1>3
    <3>3. x = y
      BY <3>1, <3>2 DEF Leases, Serials
    <3> QED BY <3>1, <3>2, <3>3
  <2>2. CASE c = new \/ e = new
    <3>1. c \in Preempted(S) => c.n <= clock
      BY <1>4
    <3>2. e \in Preempted(S) => e.n <= clock
      BY <1>4
    <3> HIDE DEF new
    <3>3. c.n \in Nat /\ e.n \in Nat
      BY <2>2, <1>1, <1>2
    <3> QED BY <2>2, <1>1, <1>2, <3>1, <3>2, <3>3
  <2> QED BY <2>1, <2>2
<1>6. \A d \in Drones : held'[d] = IF d \in S THEN clock + 1 ELSE held[d]
  BY DEF Holding
<1>7. \A d \in Drones : held'[d] # 0 => \E c \in cmds' : c.n = held'[d]
  <2> SUFFICES ASSUME NEW d \in Drones, held'[d] # 0
               PROVE  \E c \in cmds' : c.n = held'[d]
    OBVIOUS
  <2>1. CASE d \in S
    BY <2>1, <1>2, <1>6
  <2>2. CASE d \notin S
    <3>1. PICK e \in cmds : e.n = held[d]
      BY <2>2, <1>6 DEF Leases, Serials
    <3> DEFINE kept == [e EXCEPT !.open = @ \ {x \in S : held[x] = e.n}]
    <3>2. kept \in Preempted(S)
      BY DEF Preempted
    <3>3. kept.n = e.n
      BY <1>1 DEF CommandType
    <3>4. held'[d] = held[d]
      BY <2>2, <1>6
    <3> QED BY <3>1, <3>2, <3>3, <3>4
  <2> QED BY <2>1, <2>2
<1>8. LatestCommandWins'
  <2> SUFFICES ASSUME NEW c \in cmds', NEW d \in Drones, d \in c.open
               PROVE  held'[d] = c.n
    BY DEF LatestCommandWins, Passes
  <2>1. CASE c = new
    BY <2>1, <1>2, <1>6
  <2>2. CASE c \in Preempted(S)
    <3>1. PICK e \in cmds : c.n = e.n /\ c.open = e.open \ {x \in S : held[x] = e.n}
      BY <2>2, <1>3
    <3>2. held[d] = e.n
      BY <3>1 DEF Leases, LatestCommandWins, Passes
    <3>3. d \notin S
      BY <3>1, <3>2
    <3>4. held'[d] = held[d]
      BY <3>3, <1>6
    <3> QED BY <3>1, <3>2, <3>4
  <2> QED BY <2>1, <2>2
<1>9. \A c \in cmds' : 0 < c.n /\ c.n <= clock'
  <2> SUFFICES ASSUME NEW c \in cmds' PROVE 0 < c.n /\ c.n <= clock'
    OBVIOUS
  <2>1. CASE c = new
    BY <2>1, <1>1, <1>2
  <2>2. CASE c \in Preempted(S)
    <3>1. 0 < c.n /\ c.n <= clock /\ c.n \in Nat
      BY <2>2, <1>1, <1>3, <1>4 DEF CommandType
    <3> QED BY <3>1, <1>1
  <2> QED BY <2>1, <2>2
<1> QED BY <1>5, <1>7, <1>8, <1>9 DEF Serials

\* Every step keeps one current command per drone.
LEMMA LeasesStep == Leases /\ [Next]_vars => Leases'
<1> SUFFICES ASSUME Leases, [Next]_vars PROVE Leases'
  OBVIOUS
<1>1. TypeInv'
  BY TypeStep DEF Leases
<1>2. clock \in Nat /\ cmds \subseteq CommandType /\ held \in [Drones -> Nat]
  BY DEF Leases, TypeInv, TypeOK
<1>3. ASSUME NEW T \in NormalTargets, Normal(T) PROVE Serials' /\ LatestCommandWins'
  <2> DEFINE S == {d \in T : held[d] = 0 /\ ~Owns(d)}
  <2>1. S \in SUBSET Drones
    BY TargetAssumption
  <2>2. \A c \in cmds : {d \in S : held[d] = c.n} = {}
    BY <1>2 DEF Leases, Serials, CommandType
  <2>3. \A c \in cmds : [c EXCEPT !.open = @ \ {d \in S : held[d] = c.n}] = c
    BY <1>2, <2>2 DEF CommandType
  <2>4. Preempted(S) = cmds
    BY <2>3 DEF Preempted
  <2> QED BY <1>3, <2>1, <2>4, NewCommand DEF Normal, Tick
<1>4. ASSUME NEW kind \in Takeovers, NEW T \in TakeoverTargets, Takeover(kind, T)
      PROVE  Serials' /\ LatestCommandWins'
  <2> DEFINE S == {d \in T : Rank(d) <= Priority[kind]}
  <2>1. S \in SUBSET Drones
    BY TargetAssumption
  <2> QED BY <1>4, <2>1, NewCommand DEF Takeover, Tick
<1>5. ASSUME NEW c \in cmds, NEW d \in Drones, Begin(c, d)
      PROVE  Serials' /\ LatestCommandWins'
  <2> DEFINE begun == [c EXCEPT !.begun = @ \cup {d}]
  <2>1. begun.n = c.n /\ begun.open = c.open
    BY <1>2 DEF CommandType
  <2>2. cmds' = (cmds \ {c}) \cup {begun} /\ UNCHANGED <<held, clock>>
    BY <1>5 DEF Begin
  <2> HIDE DEF begun
  <2>3. Serials'
    BY <2>1, <2>2 DEF Leases, Serials
  <2>4. LatestCommandWins'
    BY <2>1, <2>2 DEF Leases, LatestCommandWins, Passes
  <2> QED BY <2>3, <2>4
<1>6. ASSUME NEW c \in cmds, Finish(c) PROVE Serials' /\ LatestCommandWins'
  <2>1. /\ cmds' = cmds \ {c} /\ UNCHANGED clock
        /\ \A d \in Drones : held'[d] = IF held[d] = c.n THEN 0 ELSE held[d]
    BY <1>6 DEF Finish, Released
  <2>2. \A e \in cmds' : e.n # c.n
    BY <2>1 DEF Leases, Serials
  <2>3. Serials'
    BY <2>1 DEF Leases, Serials
  <2>4. LatestCommandWins'
    BY <2>1, <2>2 DEF Leases, LatestCommandWins, Passes
  <2> QED BY <2>3, <2>4
<1>7. CASE UNCHANGED <<cmds, held>> /\ (clock' = clock \/ clock' = clock + 1)
  <2>1. \A c \in cmds : c.n \in Nat
    BY <1>2 DEF CommandType
  <2>2. Serials'
    BY <1>2, <1>7, <2>1 DEF Leases, Serials
  <2>3. LatestCommandWins'
    BY <1>7 DEF Leases, LatestCommandWins, Passes
  <2> QED BY <1>1, <2>2, <2>3 DEF Leases
<1> QED BY <1>1, <1>3, <1>4, <1>5, <1>6, <1>7, CommandSteps DEF Leases

\* For any fleet and any traffic of commands, only the newest accepted command
\* of a drone can still write to it.
THEOREM NewestCommandOnly == Spec => []LatestCommandWins
<1>1. Leases => LatestCommandWins
  BY DEF Leases
<1> QED BY <1>1, LeasesInit, LeasesStep, PTL DEF Spec

\* A step replaces the command of a drone by one at least as strong, or frees
\* the drone because its command finished.
LEMMA StrongerStep ==
    ASSUME Leases, Leases', [Next]_vars,
           NEW d \in Drones, held[d] # 0, held'[d] # held[d]
    PROVE  IF held'[d] = 0 THEN \A c \in cmds' : c.n # held[d]
                           ELSE Rank(d) <= Rank(d)'
<1>1. clock \in Nat /\ cmds \subseteq CommandType /\ held \in [Drones -> Nat]
  BY DEF Leases, TypeInv, TypeOK
<1>2. ASSUME NEW T \in NormalTargets, Normal(T) PROVE FALSE
  BY <1>2 DEF Normal, Holding
<1>3. ASSUME NEW kind \in Takeovers, NEW T \in TakeoverTargets, Takeover(kind, T)
      PROVE  held'[d] # 0 /\ Rank(d) <= Rank(d)'
  <2> DEFINE S == {x \in T : Rank(x) <= Priority[kind]}
  <2>1. /\ held'[d] = IF d \in S THEN clock + 1 ELSE held[d]
        /\ cmds' = Preempted(S) \cup {Command(kind, S)}
    BY <1>3 DEF Takeover, Holding
  <2>2. held'[d] = clock + 1 /\ Rank(d) <= Priority[kind]
    BY <2>1
  <2>3. Command(kind, S) \in cmds' /\ Command(kind, S).n = held'[d]
    BY <2>1, <2>2 DEF Command
  <2>4. \A c \in cmds' : c.n = held'[d] => c = Command(kind, S)
    BY <2>3 DEF Leases, Serials
  <2>5. Lease(d)' = Command(kind, S)
    BY <2>3, <2>4 DEF Lease
  <2>6. Rank(d)' = Priority[kind]
    BY <1>1, <2>2, <2>5 DEF Rank, Command
  <2> QED BY <1>1, <2>2, <2>6
<1>4. ASSUME NEW c \in cmds, NEW e \in Drones, Begin(c, e) PROVE FALSE
  BY <1>4 DEF Begin
<1>5. ASSUME NEW c \in cmds, Finish(c)
      PROVE  held'[d] = 0 /\ \A e \in cmds' : e.n # held[d]
  <2>1. cmds' = cmds \ {c} /\ held'[d] = IF held[d] = c.n THEN 0 ELSE held[d]
    BY <1>5 DEF Finish, Released
  <2> QED BY <2>1 DEF Leases, Serials
<1>6. CASE UNCHANGED <<cmds, held>>
  BY <1>6
<1> QED BY <1>2, <1>3, <1>4, <1>5, <1>6, CommandSteps

\* For any fleet, a command yields its drone only to one at least as strong or
\* when it finishes itself.
THEOREM OnlyStrongerPrevails == Spec => StrongerPrevails
<1>1. Leases /\ Leases' /\ [Next]_vars =>
        [\A d \in Drones : held[d] # 0 /\ held'[d] # held[d] =>
            IF held'[d] = 0
            THEN \A c \in cmds' : c.n # held[d]
            ELSE Rank(d) <= Rank(d)']_vars
  BY StrongerStep
<1> QED BY <1>1, LeasesInit, LeasesStep, PTL DEF Spec, StrongerPrevails

-----------------------------------------------------------------------------
(* The leases of commands refine the reservation table                     *)

\* A guard of command n lets writes to drone d through.
Opens(C) == UNION {{c.n} \X c.open : c \in C}

LEMMA OpensPairs ==
    ASSUME NEW C, NEW p
    PROVE  p \in Opens(C) <=> \E c \in C : \E d \in c.open : p = <<c.n, d>>
  BY DEF Opens

\* The rank of a held drone is the priority of the one command that holds it.
LEMMA RankOf ==
    ASSUME Serials, NEW d \in Drones, NEW c \in cmds, c.n = held[d], held[d] # 0
    PROVE  Rank(d) = Priority[c.kind]
<1>1. Lease(d) = c
  BY DEF Serials, Lease
<1> QED BY <1>1 DEF Rank

\* A drone whose command goes on keeps its rank.
LEMMA RankKept ==
    ASSUME Leases, Serials', NEW d \in Drones, held'[d] = held[d],
           \A c \in cmds : c.n = held[d] =>
              \E e \in cmds' : e.n = c.n /\ e.kind = c.kind
    PROVE  Rank(d)' = Rank(d)
<1>1. CASE held[d] = 0
  BY <1>1 DEF Rank
<1>2. CASE held[d] # 0
  <2>1. PICK c \in cmds : c.n = held[d]
    BY <1>2 DEF Leases, Serials
  <2>2. PICK e \in cmds' : e.n = c.n /\ e.kind = c.kind
    BY <2>1
  <2>3. Rank(d) = Priority[c.kind]
    BY <1>2, <2>1, RankOf DEF Leases
  <2>4. Lease(d)' = e
    BY <2>1, <2>2 DEF Serials, Lease
  <2>5. Rank(d)' = Priority[e.kind]
    BY <1>2, <2>4 DEF Rank
  <2> QED BY <2>2, <2>3, <2>5
<1> QED BY <1>1, <1>2

\* Accepting an intent grants it the drones: their holders are overtaken and
\* lose their guards in the same step.
LEMMA AcceptedGrants ==
    ASSUME Leases, Leases', NEW kind \in DOMAIN Priority,
           NEW S \in SUBSET Drones, NEW h, h = clock + 1,
           clock < MaxIntent, clock' = clock + 1,
           cmds' = Preempted(S) \cup {Command(kind, S)},
           held' = Holding(S),
           \A d \in S : Rank(d) <= Priority[kind]
    PROVE  Table!Grant(h, Priority[kind], S) /\ h \in 1..MaxIntent
<1> DEFINE new == Command(kind, S)
<1>1. clock \in Nat /\ cmds \subseteq CommandType /\ held \in [Drones -> Nat]
  BY DEF Leases, TypeInv, TypeOK
<1>2. h \in 1..MaxIntent
  BY <1>1, BoundAssumption
<1>3. new.n = h /\ new.open = S /\ new.kind = kind
  BY DEF Command
<1> HIDE DEF new
<1>4. cmds' = Preempted(S) \cup {new}
  BY DEF new
<1>5. ASSUME NEW e \in cmds
      PROVE  LET c == [e EXCEPT !.open = @ \ {d \in S : held[d] = e.n}]
             IN c \in Preempted(S) /\ c.n = e.n /\ c.kind = e.kind
                /\ c.open = e.open \ S
  <2> DEFINE c == [e EXCEPT !.open = @ \ {d \in S : held[d] = e.n}]
  <2>1. e \in CommandType
    BY <1>1
  <2>2. c.n = e.n /\ c.kind = e.kind /\ c.open = e.open \ {d \in S : held[d] = e.n}
    BY <2>1 DEF CommandType
  <2>3. \A d \in e.open : d \in Drones /\ held[d] = e.n
    BY <2>1 DEF Leases, LatestCommandWins, Passes, CommandType
  <2>4. c \in Preempted(S)
    BY DEF Preempted
  <2>5. c.open = e.open \ S
    BY <2>2, <2>3
  <2> QED BY <2>2, <2>4, <2>5
<1>6. ASSUME NEW c \in Preempted(S)
      PROVE  \E e \in cmds : c.n = e.n /\ c.kind = e.kind /\ c.open = e.open \ S
  <2>1. PICK e \in cmds : c = [e EXCEPT !.open = @ \ {d \in S : held[d] = e.n}]
    BY <1>6 DEF Preempted
  <2> QED BY <1>5, <2>1
<1>7. {c.n : c \in cmds'} = {c.n : c \in cmds} \cup {h}
  <2>1. \A c \in Preempted(S) : \E e \in cmds : c.n = e.n
    BY <1>6
  <2>2. \A e \in cmds : \E c \in Preempted(S) : c.n = e.n
    BY <1>5
  <2> QED BY <1>3, <1>4, <2>1, <2>2
<1>8. h \notin {c.n : c \in cmds}
  BY <1>1 DEF Leases, Serials, CommandType
<1>9. Opens(cmds') = {p \in Opens(cmds) : p[2] \notin S} \cup ({h} \X S)
  <2>1. ASSUME NEW p \in Opens(cmds')
        PROVE  p \in {q \in Opens(cmds) : q[2] \notin S} \cup ({h} \X S)
    <3>1. PICK c \in cmds' : \E d \in c.open : p = <<c.n, d>>
      BY <2>1, OpensPairs
    <3>2. PICK d \in c.open : p = <<c.n, d>>
      BY <3>1
    <3>3. CASE c = new
      BY <1>3, <3>2, <3>3
    <3>4. CASE c \in Preempted(S)
      <4>1. PICK e \in cmds : c.n = e.n /\ c.open = e.open \ S
        BY <1>6, <3>4
      <4>2. d \in e.open /\ d \notin S /\ p = <<e.n, d>>
        BY <3>2, <4>1
      <4>3. p \in Opens(cmds)
        BY <4>2, OpensPairs
      <4>4. p[2] \notin S
        BY <4>2
      <4> QED BY <4>3, <4>4
    <3> QED BY <1>4, <3>3, <3>4
  <2>2. ASSUME NEW p \in Opens(cmds), p[2] \notin S PROVE p \in Opens(cmds')
    <3>1. PICK e \in cmds : \E d \in e.open : p = <<e.n, d>>
      BY OpensPairs
    <3>2. PICK d \in e.open : p = <<e.n, d>>
      BY <3>1
    <3>3. d \notin S
      BY <2>2, <3>2
    <3>4. PICK c \in Preempted(S) : c.n = e.n /\ c.open = e.open \ S
      BY <1>5
    <3>5. d \in c.open /\ p = <<c.n, d>> /\ c \in cmds'
      BY <1>4, <3>2, <3>3, <3>4
    <3> QED BY <3>5, OpensPairs
  <2>3. ASSUME NEW p \in {h} \X S PROVE p \in Opens(cmds')
    <3>1. PICK d \in S : p = <<h, d>>
      BY <2>3
    <3>2. new \in cmds' /\ d \in new.open /\ p = <<new.n, d>>
      BY <1>3, <1>4, <3>1
    <3> QED BY <3>2, OpensPairs
  <2> QED BY <2>1, <2>2, <2>3
<1>10. held' = [d \in Drones |-> IF d \in S THEN h
                                 ELSE IF d \in {} THEN 0 ELSE held[d]]
  BY <1>1 DEF Holding
<1>11. ASSUME NEW d \in Drones
       PROVE  Rank(d)' = IF d \in S THEN Priority[kind] ELSE Rank(d)
  <2>1. CASE d \in S
    <3>1. held'[d] = new.n /\ held'[d] # 0 /\ new \in cmds'
      BY <1>1, <1>3, <1>4, <1>10, <2>1
    <3>2. Lease(d)' = new
      BY <3>1 DEF Leases, Serials, Lease
    <3> QED BY <1>3, <2>1, <3>1, <3>2 DEF Rank
  <2>2. CASE d \notin S
    <3>1. held'[d] = held[d]
      BY <1>10, <2>2
    <3>2. \A e \in cmds : \E c \in cmds' : c.n = e.n /\ c.kind = e.kind
      BY <1>4, <1>5
    <3> QED BY <2>2, <3>1, <3>2, RankKept DEF Leases
  <2> QED BY <2>1, <2>2
<1>12. [d \in Drones |-> Rank(d)]' =
         [d \in Drones |-> IF d \in S THEN Priority[kind]
                           ELSE IF d \in {} THEN 0
                           ELSE [x \in Drones |-> Rank(x)][d]]
  BY <1>11
<1>13. \A d \in S : [x \in Drones |-> Rank(x)][d] <= Priority[kind]
  OBVIOUS
<1>14. Table!Rewrite(S, h, Priority[kind], {})
  BY <1>10, <1>12 DEF Table!Rewrite
<1> QED BY <1>2, <1>7, <1>8, <1>9, <1>13, <1>14 DEF Table!Grant, Opens

\* A command that finishes frees what it still holds and nothing else.
LEMMA FinishRetires ==
    ASSUME Leases, Leases', NEW c \in cmds, Finish(c)
    PROVE  Table!Retire(c.n)
<1>1. cmds \subseteq CommandType /\ held \in [Drones -> Nat]
  BY DEF Leases, TypeInv, TypeOK
<1>2. /\ cmds' = cmds \ {c}
      /\ held' = [d \in Drones |-> IF held[d] = c.n THEN 0 ELSE held[d]]
  BY DEF Finish, Released
<1>3. \A e \in cmds' : e.n # c.n
  BY <1>2 DEF Leases, Serials
<1>4. {e.n : e \in cmds'} = {e.n : e \in cmds} \ {c.n}
  BY <1>2, <1>3
<1>5. Opens(cmds') = {p \in Opens(cmds) : p[1] # c.n}
  <2>1. ASSUME NEW p \in Opens(cmds')
        PROVE  p \in Opens(cmds) /\ p[1] # c.n
    <3>1. PICK e \in cmds' : \E d \in e.open : p = <<e.n, d>>
      BY OpensPairs
    <3>2. e \in cmds /\ e.n # c.n
      BY <1>2, <1>3
    <3> QED BY <3>1, <3>2, OpensPairs
  <2>2. ASSUME NEW p \in Opens(cmds), p[1] # c.n PROVE p \in Opens(cmds')
    <3>1. PICK e \in cmds : \E d \in e.open : p = <<e.n, d>>
      BY OpensPairs
    <3>2. e \in cmds'
      BY <1>2, <2>2, <3>1
    <3> QED BY <3>1, <3>2, OpensPairs
  <2> QED BY <2>1, <2>2
<1>6. held' = [d \in Drones |->
                 IF d \in {} THEN 0
                 ELSE IF d \in {x \in Drones : held[x] = c.n} THEN 0 ELSE held[d]]
  BY <1>2
<1>7. ASSUME NEW d \in Drones
      PROVE  Rank(d)' = IF held[d] = c.n THEN 0 ELSE Rank(d)
  <2>1. CASE held[d] = c.n
    BY <1>2, <2>1 DEF Rank
  <2>2. CASE held[d] # c.n
    <3>1. held'[d] = held[d]
      BY <1>2, <2>2
    <3>2. \A e \in cmds : e.n = held[d] => e \in cmds'
      BY <1>2, <2>2
    <3> QED BY <2>2, <3>1, <3>2, RankKept DEF Leases
  <2> QED BY <2>1, <2>2
<1>8. [d \in Drones |-> Rank(d)]' =
        [d \in Drones |->
           IF d \in {} THEN 0
           ELSE IF d \in {x \in Drones : held[x] = c.n} THEN 0
           ELSE [x \in Drones |-> Rank(x)][d]]
  BY <1>7
<1>9. Table!Rewrite({}, 0, 0, Table!HeldBy(c.n))
  BY <1>6, <1>8 DEF Table!Rewrite, Table!HeldBy
<1> QED BY <1>4, <1>5, <1>9 DEF Table!Retire, Opens

\* A step that touches neither commands nor holders leaves the table alone; so
\* does a command that begins to fly one of its drones.
LEMMA TableUntouched ==
    ASSUME Leases, Leases', UNCHANGED held,
           \/ UNCHANGED cmds
           \/ \E c \in cmds, d \in Drones : Begin(c, d)
    PROVE  UNCHANGED Table!vars
<1>1. CASE UNCHANGED cmds
  <2>1. \A d \in Drones : Rank(d)' = Rank(d)
    BY <1>1 DEF Rank, Lease
  <2>2. [d \in Drones |-> Rank(d)]' = [d \in Drones |-> Rank(d)]
    BY <2>1
  <2> QED BY <1>1, <2>2 DEF Table!vars
<1>2. ASSUME NEW c \in cmds, NEW d \in Drones, Begin(c, d)
      PROVE  UNCHANGED Table!vars
  <2> DEFINE begun == [c EXCEPT !.begun = @ \cup {d}]
  <2>1. c \in CommandType
    BY DEF Leases, TypeInv, TypeOK
  <2>2. begun.n = c.n /\ begun.open = c.open /\ begun.kind = c.kind
    BY <2>1 DEF CommandType
  <2>3. cmds' = (cmds \ {c}) \cup {begun}
    BY <1>2 DEF Begin
  <2> HIDE DEF begun
  <2>4. {e.n : e \in cmds'} = {e.n : e \in cmds}
    BY <2>2, <2>3
  <2>5. \A p : p \in Opens(cmds') <=> p \in Opens(cmds)
    <3> SUFFICES ASSUME NEW p PROVE p \in Opens(cmds') <=> p \in Opens(cmds)
      OBVIOUS
    <3>1. (\E e \in cmds' : \E x \in e.open : p = <<e.n, x>>)
          <=> (\E e \in cmds : \E x \in e.open : p = <<e.n, x>>)
      BY <2>2, <2>3
    <3> QED BY <3>1, OpensPairs
  <2>6. Opens(cmds') = Opens(cmds)
    BY <2>5
  <2>7. \A e \in cmds : \E x \in cmds' : x.n = e.n /\ x.kind = e.kind
    BY <2>2, <2>3
  <2>8. \A x \in Drones : Rank(x)' = Rank(x)
    BY <2>7, RankKept DEF Leases
  <2>9. [x \in Drones |-> Rank(x)]' = [x \in Drones |-> Rank(x)]
    BY <2>8
  <2> QED BY <2>4, <2>6, <2>9 DEF Table!vars, Opens
<1> QED BY <1>1, <1>2

\* A grant to a lease of the module is a step of the table.
LEMMA GrantIsNext ==
    ASSUME NEW h \in 1..MaxIntent,
           NEW r \in {Priority[k] : k \in Takeovers \cup {"normal"}},
           NEW S \in SUBSET Drones, Table!Grant(h, r, S)
    PROVE  Table!Next
  BY DEF Table!Next

\* Every step of the API is a step of the reservation table.
LEMMA TableStep ==
    Leases /\ Leases' /\ [Next]_vars => [Table!Next]_(Table!vars)
<1> SUFFICES ASSUME Leases, Leases', [Next]_vars
             PROVE  [Table!Next]_(Table!vars)
  OBVIOUS
<1>1. cmds \subseteq CommandType /\ held \in [Drones -> Nat]
  BY DEF Leases, TypeInv, TypeOK
<1>2. ASSUME NEW T \in NormalTargets, Normal(T) PROVE Table!Next
  <2> DEFINE S == {d \in T : held[d] = 0 /\ ~Owns(d)}
  <2>1. S \in SUBSET Drones
    BY TargetAssumption
  <2>2. \A c \in cmds : {d \in S : held[d] = c.n} = {}
    BY <1>1 DEF Leases, Serials, CommandType
  <2>3. \A c \in cmds : [c EXCEPT !.open = @ \ {d \in S : held[d] = c.n}] = c
    BY <1>1, <2>2 DEF CommandType
  <2>4. Preempted(S) = cmds
    BY <2>3 DEF Preempted
  <2>5. Priority["normal"] = 0 /\ "normal" \in DOMAIN Priority
    BY DEF Priority
  <2>6. \A d \in S : Rank(d) <= Priority["normal"]
    BY <2>5 DEF Rank
  <2>7. /\ clock < MaxIntent /\ clock' = clock + 1 /\ held' = Holding(S)
        /\ cmds' = Preempted(S) \cup {Command("normal", S)}
    BY <1>2, <2>4 DEF Normal, Tick
  <2> HIDE DEF S
  <2> PICK R, h : R = S /\ h = clock + 1
    OBVIOUS
  <2>8. /\ Table!Grant(h, Priority["normal"], R)
        /\ h \in 1..MaxIntent
    BY <2>1, <2>5, <2>6, <2>7, AcceptedGrants
  <2>9. Priority["normal"] \in {Priority[k] : k \in Takeovers \cup {"normal"}}
    OBVIOUS
  <2> QED BY <2>1, <2>8, <2>9, GrantIsNext
<1>3. ASSUME NEW kind \in Takeovers, NEW T \in TakeoverTargets, Takeover(kind, T)
      PROVE  Table!Next
  <2> DEFINE S == {d \in T : Rank(d) <= Priority[kind]}
  <2>1. S \in SUBSET Drones /\ kind \in DOMAIN Priority
    BY TargetAssumption, TakeoverAssumption
  <2>2. /\ clock < MaxIntent /\ clock' = clock + 1 /\ held' = Holding(S)
        /\ cmds' = Preempted(S) \cup {Command(kind, S)}
        /\ \A d \in S : Rank(d) <= Priority[kind]
    BY <1>3 DEF Takeover, Tick
  <2> HIDE DEF S
  <2> PICK R, h : R = S /\ h = clock + 1
    OBVIOUS
  <2>3. /\ Table!Grant(h, Priority[kind], R)
        /\ h \in 1..MaxIntent
    BY <2>1, <2>2, AcceptedGrants
  <2>4. Priority[kind] \in {Priority[k] : k \in Takeovers \cup {"normal"}}
    OBVIOUS
  <2> QED BY <2>1, <2>3, <2>4, GrantIsNext
<1>4. ASSUME NEW c \in cmds, Finish(c) PROVE Table!Next
  <2>1. Table!Retire(c.n)
    BY <1>4, FinishRetires
  <2>2. c.n \in {e.n : e \in cmds}
    OBVIOUS
  <2> QED BY <2>1, <2>2 DEF Table!Next
<1>5. ASSUME NEW c \in cmds, NEW d \in Drones, Begin(c, d)
      PROVE  UNCHANGED Table!vars
  <2>1. UNCHANGED held
    BY <1>5 DEF Begin
  <2> QED BY <1>5, <2>1, TableUntouched
<1>6. CASE UNCHANGED <<cmds, held>>
  BY <1>6, TableUntouched
<1> QED BY <1>2, <1>3, <1>4, <1>5, <1>6, CommandSteps

LEMMA TableInit == Init => Table!Init
<1> SUFFICES ASSUME Init PROVE Table!Init
  OBVIOUS
<1>1. cmds = {} /\ held = [d \in Drones |-> 0]
  BY DEF Init
<1>2. [d \in Drones |-> Rank(d)] = [d \in Drones |-> 0]
  BY <1>1 DEF Rank
<1>3. {c.n : c \in cmds} = {} /\ UNION {{c.n} \X c.open : c \in cmds} = {}
  BY <1>1
<1> QED BY <1>1, <1>2, <1>3 DEF Table!Init

\* For any fleet, takeovers and traffic of intents, the leases of the API keep
\* what the reservation table promises: one holder a drone, never taken by a
\* weaker intent, whose guard closes in the step that takes the drone away.
THEOREM CommandsKeepTheTable == Spec => TableKept
<1>1. Leases /\ Leases' /\ [Next]_vars => [Table!Next]_(Table!vars)
  BY TableStep
<1> QED BY <1>1, LeasesInit, LeasesStep, TableInit, PTL
       DEF Spec, TableKept, Table!Spec

-----------------------------------------------------------------------------
(* Commands and missions exclude each other                                *)

Apart == TypeInv /\ Exclusive

\* A run that is over owns nothing.
LEMMA OverOwnsNothing ==
    ASSUME mission' = Over(mission), TypeOK PROVE \A d \in Drones : ~Owns(d)'
  BY DEF Over, Owns, Owned, TypeOK

\* A step that leaves the run as it is, ends it or only marks its index as
\* claimed or unclaimed keeps command and mission apart.
LEMMA ApartKept ==
    ASSUME TypeOK, Exclusive, UNCHANGED <<held, heirs>>,
           \/ UNCHANGED mission
           \/ mission' = Over(mission)
           \/ \E f \in BOOLEAN : mission' = [mission EXCEPT !.fresh = f]
    PROVE  Exclusive'
<1>1. CASE UNCHANGED mission
  BY <1>1 DEF Exclusive, Owns
<1>2. CASE mission' = Over(mission)
  BY <1>2, OverOwnsNothing DEF Exclusive
<1>3. ASSUME NEW f \in BOOLEAN, mission' = [mission EXCEPT !.fresh = f]
      PROVE  Exclusive'
  <2>1. Owned(mission)' = Owned(mission)
    BY <1>3 DEF Owned, TypeOK
  <2> QED BY <2>1 DEF Exclusive, Owns
<1> QED BY <1>1, <1>2, <1>3

\* Every step keeps command and mission apart.
LEMMA ApartStep == Apart /\ [Next]_vars => Apart'
<1> SUFFICES ASSUME Apart, [Next]_vars PROVE Apart'
  OBVIOUS
<1>1. TypeInv'
  BY TypeStep DEF Apart
<1>2. TypeInv /\ TypeOK /\ Exclusive /\ held \in [Drones -> Nat] /\ clock \in Nat
  BY DEF Apart, TypeInv, TypeOK
<1> SUFFICES Exclusive'
  BY <1>1 DEF Apart
<1>3. ASSUME NEW m \in Missions, StartMission(m) PROVE Exclusive'
  <2>1. Owned(mission)' \subseteq m.team
    BY <1>3, MissionFields DEF StartMission, Owned
  <2> QED BY <1>3, <2>1 DEF StartMission, Exclusive, Owns
<1>4. CASE DispatchAtStart \/ DispatchAtTick
  BY <1>2, <1>4, ApartKept DEF DispatchAtStart, DispatchAtTick, Claim
<1>5. ASSUME NEW s \in sends, MissionWrite(s) PROVE Exclusive'
  BY <1>2, <1>5, ApartKept DEF MissionWrite
<1>6. ASSUME NEW s \in sends, NEW ok \in BOOLEAN, SendReturns(s, ok)
      PROVE  Exclusive'
  BY <1>2, <1>6, ApartKept DEF SendReturns
<1>7. ASSUME NEW s \in sends, FailRun(s) PROVE Exclusive'
  BY <1>2, <1>7, ApartKept DEF FailRun
<1>8. ASSUME NEW done \in BOOLEAN, Observe(done) PROVE Exclusive'
  BY <1>2, <1>8, ApartKept DEF Observe
<1>9. CASE CancelMission
  BY <1>2, <1>9, ApartKept DEF CancelMission
<1>10. ASSUME NEW d \in Drones, Interrupt(d) PROVE Exclusive'
  BY <1>2, <1>10, ApartKept DEF Interrupt
<1>12. ASSUME NEW T \in NormalTargets, Normal(T) PROVE Exclusive'
  BY <1>2, <1>12 DEF Normal, Holding, Exclusive, Owns
<1>13. ASSUME NEW kind \in Takeovers, NEW T \in TakeoverTargets, Takeover(kind, T)
       PROVE  Exclusive'
  <2> DEFINE S == {d \in T : Rank(d) <= Priority[kind]}
  <2>1. /\ TakeFromMission(S)
        /\ \A d \in Drones : held'[d] = IF d \in S THEN clock + 1 ELSE held[d]
    BY <1>13 DEF Takeover, Holding
  <2>2. CASE \A d \in Drones : ~Owns(d)'
    BY <2>2 DEF Exclusive
  <2>3. CASE mission.live /\ mission.mode = "swarm" /\ SwarmTakeover(S)
    <3>1. CASE /\ mission.leader \notin S /\ UNCHANGED heirs
               /\ mission' = [mission EXCEPT !.team = mission.team \ S]
      <4>1. Owned(mission)' = {mission.leader} /\ Owned(mission) = {mission.leader}
        BY <1>2, <2>3, <3>1 DEF Owned, TypeOK
      <4> QED BY <1>2, <2>1, <3>1, <4>1 DEF Exclusive, Owns
    <3>2. ASSUME NEW h \in mission.team \ S, heirs' = heirs \cup {h},
                 mission' = [mission EXCEPT !.team = mission.team \ S,
                                            !.leader = h, !.fresh = TRUE]
          PROVE  Exclusive'
      <4>1. Owned(mission)' = {h}
        BY <1>2, <2>3, <3>2 DEF Owned, TypeOK
      <4> QED BY <3>2, <4>1 DEF Exclusive, Owns
    <3>3. CASE mission' = Over([mission EXCEPT !.team = mission.team \ S])
      BY <1>2, <2>2, <3>3 DEF Over, Owns, Owned, TypeOK
    <3> QED BY <2>3, <3>1, <3>2, <3>3 DEF SwarmTakeover
  <2>4. CASE mission' = Over(mission)
    BY <1>2, <2>2, <2>4, OverOwnsNothing
  <2>5. CASE /\ IF mission.mode = "swarm"
                THEN ~mission.live \/ mission.team \cap S = {}
                ELSE \A d \in S : ~Owns(d)
             /\ UNCHANGED <<mission, heirs>>
    <3>1. \A d \in S : ~Owns(d)
      BY <1>2, <2>5 DEF Owns, Owned, TypeInv, LedFromWithin
    <3> QED BY <1>2, <2>1, <2>5, <3>1 DEF Exclusive, Owns
  <2> QED BY <2>1, <2>3, <2>4, <2>5 DEF TakeFromMission
<1>14. ASSUME NEW c \in cmds, NEW d \in Drones, Begin(c, d) PROVE Exclusive'
  BY <1>2, <1>14, ApartKept DEF Begin
<1>15. ASSUME NEW c \in cmds, NEW d \in Drones, CommandWrite(c, d) PROVE Exclusive'
  BY <1>2, <1>15, ApartKept DEF CommandWrite
<1>16. ASSUME NEW c \in cmds, Finish(c) PROVE Exclusive'
  <2>1. /\ UNCHANGED <<mission, heirs>>
        /\ \A d \in Drones : held'[d] # 0 => held[d] # 0
    BY <1>16 DEF Finish, Released
  <2> QED BY <1>2, <2>1 DEF Exclusive, Owns
<1>17. ASSUME NEW T \in ReturnTargets, NEW accepted \in BOOLEAN,
              SwarmReturn(T, accepted)
       PROVE  Exclusive'
  <2>1. mission' = Over(mission) \/ UNCHANGED mission
    BY <1>17 DEF SwarmReturn, CancelForReturn
  <2> QED BY <1>2, <1>17, <2>1, ApartKept DEF SwarmReturn
<1>18. ASSUME NEW d \in Drones, ReturnWrite(d) PROVE Exclusive'
  BY <1>2, <1>18, ApartKept DEF ReturnWrite
<1>19. CASE ReturnEnds \/ SwarmStop
  BY <1>2, <1>19, ApartKept DEF ReturnEnds, SwarmStop
<1>20. CASE UNCHANGED vars
  BY <1>2, <1>20, ApartKept DEF vars
<1> QED
  BY <1>3, <1>4, <1>5, <1>6, <1>7, <1>8, <1>9, <1>10, <1>12, <1>13, <1>14,
     <1>15, <1>16, <1>17, <1>18, <1>19, <1>20 DEF Next

\* For any fleet and any plan of missions, a drone under a command is never
\* also flown by a mission, but for a follower that inherited the lead.
THEOREM CommandExcludesMission == Spec => []Exclusive
<1>1. Init => Apart
  BY TypeInit DEF Init, Apart, Exclusive
<1>2. Apart => Exclusive
  BY DEF Apart
<1> QED BY <1>1, <1>2, ApartStep, PTL DEF Spec

-----------------------------------------------------------------------------
(* Mission sends: single flight, and silence after a revocation            *)

\* A send is known by its claim and its drone, and no claim is in the future.
Numbered ==
    /\ \A s \in sends : s.n <= clock /\ s.run <= mission.id
    /\ \A s, t \in sends : s.n = t.n /\ s.drone = t.drone => s = t

\* Of a live swarm only the leader has a send that may still write.
LeaderFlies ==
    mission.live /\ mission.mode = "swarm" =>
        \A s \in sends : s.open /\ s.run = mission.id => s.drone = mission.leader

Flight == TypeInv /\ Numbered /\ SingleFlight /\ LeaderFlies

\* A marked send is the send it was but for the mark.
LEMMA LostSend ==
    ASSUME TypeOK, NEW S, NEW t \in Lost(S)
    PROVE  \E s \in sends :
              /\ t = IF s.run = mission.id /\ s.drone \in S
                     THEN [s EXCEPT !.lost = TRUE] ELSE s
              /\ t.n = s.n /\ t.run = s.run /\ t.drone = s.drone /\ t.open = s.open
              /\ t.lost => s.lost \/ (s.run = mission.id /\ s.drone \in S)
<1>1. PICK s \in sends : t = IF s.run = mission.id /\ s.drone \in S
                             THEN [s EXCEPT !.lost = TRUE] ELSE s
  BY DEF Lost
<1>2. s \in SendType
  BY DEF TypeOK
<1>3. /\ t.n = s.n /\ t.run = s.run /\ t.drone = s.drone /\ t.open = s.open
      /\ t.lost => s.lost \/ (s.run = mission.id /\ s.drone \in S)
  BY <1>1, <1>2 DEF SendType
<1> QED BY <1>1, <1>3

\* Marking keeps the sends numbered and the guards as they were.
LEMMA LostNumbered ==
    ASSUME Flight, NEW S
    PROVE  /\ \A t \in Lost(S) : t.n <= clock /\ t.run <= mission.id
           /\ \A t, u \in Lost(S) : t.n = u.n /\ t.drone = u.drone => t = u
           /\ \A t \in Lost(S) : t.open => t.n = gen /\ t.drone \in slot
           /\ \A t \in Lost(S) : t \in SendType
<1>1. TypeOK
  BY DEF Flight, TypeInv
<1>2. \A t \in Lost(S) : t.n <= clock /\ t.run <= mission.id
  BY <1>1, LostSend DEF Flight, Numbered
<1>3. ASSUME NEW t \in Lost(S), NEW u \in Lost(S), t.n = u.n, t.drone = u.drone
      PROVE  t = u
  <2>1. PICK x \in sends :
            /\ t = IF x.run = mission.id /\ x.drone \in S
                   THEN [x EXCEPT !.lost = TRUE] ELSE x
            /\ t.n = x.n /\ t.drone = x.drone
    BY <1>1, LostSend
  <2>2. PICK y \in sends :
            /\ u = IF y.run = mission.id /\ y.drone \in S
                   THEN [y EXCEPT !.lost = TRUE] ELSE y
            /\ u.n = y.n /\ u.drone = y.drone
    BY <1>1, LostSend
  <2>3. x = y
    BY <1>3, <2>1, <2>2 DEF Flight, Numbered
  <2> QED BY <2>1, <2>2, <2>3
<1>4. \A t \in Lost(S) : t.open => t.n = gen /\ t.drone \in slot
  BY <1>1, LostSend DEF Flight, SingleFlight
<1> QED BY <1>1, <1>2, <1>3, <1>4, SendsTyped

\* Once the outstanding sends are cancelled no guard is open.
LEMMA Cancelling ==
    ASSUME Flight, NEW S, CancelInflight(S)
    PROVE  /\ \A t \in sends' : ~t.open /\ t.n <= clock /\ t.run <= mission.id
           /\ \A t, u \in sends' : t.n = u.n /\ t.drone = u.drone => t = u
<1>1. sends' = {IF s.n = gen THEN [s EXCEPT !.open = FALSE] ELSE s : s \in Lost(S)}
  BY DEF CancelInflight, Closed
<1>2. ASSUME NEW t \in sends'
      PROVE  \E s \in Lost(S) :
                /\ t = IF s.n = gen THEN [s EXCEPT !.open = FALSE] ELSE s
                /\ t.n = s.n /\ t.run = s.run /\ t.drone = s.drone /\ ~t.open
  <2>1. PICK s \in Lost(S) : t = IF s.n = gen THEN [s EXCEPT !.open = FALSE] ELSE s
    BY <1>1, <1>2
  <2>2. s \in SendType /\ (s.open => s.n = gen)
    BY LostNumbered
  <2>3. t.n = s.n /\ t.run = s.run /\ t.drone = s.drone /\ ~t.open
    BY <2>1, <2>2 DEF SendType
  <2> QED BY <2>1, <2>3
<1>3. \A t \in sends' : ~t.open /\ t.n <= clock /\ t.run <= mission.id
  BY <1>2, LostNumbered
<1>4. ASSUME NEW t \in sends', NEW u \in sends', t.n = u.n, t.drone = u.drone
      PROVE  t = u
  <2>1. PICK x \in Lost(S) : /\ t = IF x.n = gen THEN [x EXCEPT !.open = FALSE] ELSE x
                             /\ t.n = x.n /\ t.drone = x.drone
    BY <1>2
  <2>2. PICK y \in Lost(S) : /\ u = IF y.n = gen THEN [y EXCEPT !.open = FALSE] ELSE y
                             /\ u.n = y.n /\ u.drone = y.drone
    BY <1>2
  <2>3. x = y
    BY <1>4, <2>1, <2>2, LostNumbered
  <2> QED BY <2>1, <2>2, <2>3
<1> QED BY <1>3, <1>4

\* Hence whatever a step that cancels them does to the run, flight is single.
LEMMA CancelledFlight ==
    ASSUME Flight, TypeInv', NEW S, CancelInflight(S),
           clock' \in {clock, clock + 1}, mission'.id = mission.id
    PROVE  Flight'
<1>1. clock \in Nat /\ mission.id \in Nat
  BY DEF Flight, TypeInv, TypeOK
<1>2. \A t \in sends' : ~t.open /\ t.n <= clock /\ t.run <= mission.id
  BY Cancelling
<1>3. \A t \in sends' : t.n \in Nat
  BY DEF TypeInv, TypeOK, SendType
<1>4. Numbered'
  BY <1>1, <1>2, <1>3, Cancelling DEF Numbered
<1> QED BY <1>2, <1>4 DEF Flight, SingleFlight, LeaderFlies

\* So it is when the outstanding sends are left alone, unless the lead passes.
LEMMA KeptFlight ==
    ASSUME Flight, TypeInv', NEW S, KeepInflight(S),
           clock' \in {clock, clock + 1}, mission'.id = mission.id,
           mission'.mode = mission.mode, mission'.leader = mission.leader,
           mission'.live => mission.live
    PROVE  Flight'
<1>1. clock \in Nat /\ mission.id \in Nat /\ TypeOK
  BY DEF Flight, TypeInv, TypeOK
<1>2. sends' = Lost(S) /\ UNCHANGED <<slot, gen>>
  BY DEF KeepInflight
<1>3. \A t \in sends' : t.n \in Nat
  BY DEF TypeInv, TypeOK, SendType
<1>4. Numbered'
  BY <1>1, <1>2, <1>3, LostNumbered DEF Numbered
<1>5. SingleFlight'
  BY <1>2, LostNumbered DEF SingleFlight
<1>6. LeaderFlies'
  BY <1>1, <1>2, LostSend DEF Flight, LeaderFlies
<1> QED BY <1>4, <1>5, <1>6 DEF Flight

\* Actions that leave the sends and the slot alone and do not hand over the
\* lead of a live swarm keep flight single.
LEMMA UntouchedFlight ==
    ASSUME Flight, TypeInv', UNCHANGED <<sends, slot, gen>>,
           clock' \in {clock, clock + 1}, mission'.id = mission.id,
           mission'.mode = mission.mode, mission'.leader = mission.leader,
           mission'.live => mission.live
    PROVE  Flight'
<1>1. clock \in Nat /\ mission.id \in Nat
  BY DEF Flight, TypeInv, TypeOK
<1>2. \A t \in sends : t.n \in Nat
  BY DEF Flight, TypeInv, TypeOK, SendType
<1>3. Numbered'
  BY <1>1, <1>2 DEF Flight, Numbered
<1> QED BY <1>3 DEF Flight, SingleFlight, LeaderFlies

\* A claim is made only when no guard is open, and arms one per owned drone.
LEMMA ClaimFlight ==
    ASSUME Flight, TypeInv', NEW by, Claim(by) PROVE Flight'
<1> DEFINE new(d) ==
       [n |-> clock + 1, run |-> mission.id, drone |-> d, mode |-> mission.mode,
        by |-> IF mission.mode = "group" THEN "timer" ELSE by,
        open |-> TRUE, lost |-> FALSE, stage |-> "out"]
<1>1. clock \in Nat /\ mission.id \in Nat /\ \A s \in sends : s.n \in Nat
  BY DEF Flight, TypeInv, TypeOK, SendType
<1>2. /\ mission.live /\ slot = {} /\ clock' = clock + 1
      /\ mission' = [mission EXCEPT !.fresh = FALSE]
      /\ slot' = Addressed /\ gen' = clock + 1
      /\ sends' = sends \cup {new(d) : d \in Addressed}
  BY DEF Claim, CanClaim, Tick
<1>3. \A s \in sends : ~s.open
  BY <1>2 DEF Flight, SingleFlight
<1>4. \A d \in Addressed : /\ new(d).n = clock + 1 /\ new(d).run = mission.id
                           /\ new(d).drone = d /\ new(d).open = TRUE
  OBVIOUS
<1> HIDE DEF new
<1>5. mission'.id = mission.id /\ mission'.mode = mission.mode
      /\ mission'.leader = mission.leader /\ mission'.live = mission.live
  BY <1>2 DEF Flight, TypeInv, TypeOK
<1>6. \A s \in sends' : s \in sends \/ \E d \in Addressed : s = new(d)
  BY <1>2
<1>7. \A s \in sends : s.n <= clock /\ s.run <= mission.id
  BY DEF Flight, Numbered
<1>8. \A s \in sends' : s.n <= clock' /\ s.run <= mission'.id
  BY <1>1, <1>2, <1>4, <1>5, <1>6, <1>7
<1>9. ASSUME NEW s \in sends', NEW t \in sends', s.n = t.n, s.drone = t.drone
      PROVE  s = t
  <2>1. CASE s \in sends /\ t \in sends
    BY <1>9, <2>1 DEF Flight, Numbered
  <2>2. CASE s \notin sends \/ t \notin sends
    <3>1. s \notin sends /\ t \notin sends
      BY <1>1, <1>4, <1>6, <1>7, <1>9, <2>2
    <3> QED BY <1>4, <1>6, <1>9, <3>1
  <2> QED BY <2>1, <2>2
<1>10. SingleFlight'
  BY <1>2, <1>3, <1>4, <1>6 DEF SingleFlight
<1>11. LeaderFlies'
  <2>1. mission.mode = "swarm" => Addressed = {mission.leader}
    BY <1>2 DEF Addressed, Owned
  <2> QED BY <1>3, <1>4, <1>5, <1>6, <2>1 DEF LeaderFlies
<1> QED BY <1>8, <1>9, <1>10, <1>11 DEF Flight, Numbered

\* Every step keeps flight single.
LEMMA FlightStep == Flight /\ [Next]_vars => Flight'
<1> SUFFICES ASSUME Flight, [Next]_vars PROVE Flight'
  OBVIOUS
<1>1. TypeInv'
  BY TypeStep DEF Flight
<1>2. TypeOK /\ clock \in Nat /\ mission.id \in Nat
  BY DEF Flight, TypeInv, TypeOK
<1>3. ASSUME NEW m \in Missions, StartMission(m) PROVE Flight'
  <2>1. /\ mission'.id = mission.id + 1 /\ UNCHANGED <<sends, slot, gen, clock>>
    BY <1>3 DEF StartMission
  <2>2. \A s \in sends : s.run \in Nat /\ s.run <= mission.id
    BY <1>2 DEF TypeOK, SendType, Flight, Numbered
  <2>3. Numbered'
    BY <1>2, <2>1, <2>2 DEF Flight, Numbered
  <2>4. LeaderFlies'
    BY <1>2, <2>1, <2>2 DEF LeaderFlies
  <2> QED BY <1>1, <2>1, <2>3, <2>4 DEF Flight, SingleFlight
<1>4. CASE DispatchAtStart
  BY <1>1, <1>2, <1>4, ClaimFlight, UntouchedFlight DEF DispatchAtStart
<1>5. CASE DispatchAtTick
  BY <1>1, <1>5, ClaimFlight DEF DispatchAtTick
<1>6. ASSUME NEW s \in sends, MissionWrite(s) PROVE Flight'
  BY <1>1, <1>6, UntouchedFlight DEF MissionWrite
<1>7. ASSUME NEW s \in sends, NEW ok \in BOOLEAN, SendReturns(s, ok) PROVE Flight'
  <2>1. UNCHANGED <<mission, gen, clock>> /\ slot' = Freed(s)
    BY <1>7 DEF SendReturns
  <2>2. \A t \in sends' :
           \/ t \in sends \ {s}
           \/ t = [s EXCEPT !.stage = "failing", !.open = FALSE]
    BY <1>7 DEF SendReturns
  <2>3. LET t == [s EXCEPT !.stage = "failing", !.open = FALSE]
        IN t.n = s.n /\ t.run = s.run /\ t.drone = s.drone /\ ~t.open
    BY <1>2 DEF TypeOK, SendType
  <2>4. Numbered'
    BY <2>1, <2>2, <2>3 DEF Flight, Numbered
  <2>5. SingleFlight'
    BY <2>1, <2>2, <2>3 DEF Flight, Numbered, SingleFlight, Freed
  <2>6. LeaderFlies'
    BY <2>1, <2>2, <2>3 DEF Flight, LeaderFlies
  <2> QED BY <1>1, <2>4, <2>5, <2>6 DEF Flight
<1>8. ASSUME NEW s \in sends, FailRun(s) PROVE Flight'
  <2>1. /\ sends' = sends \ {s} /\ UNCHANGED <<slot, gen, clock>>
        /\ mission' = mission \/ mission' = Over(mission)
    BY <1>8 DEF FailRun
  <2>2. mission'.id = mission.id /\ mission'.mode = mission.mode
        /\ mission'.leader = mission.leader /\ (mission'.live => mission.live)
    BY <1>2, <2>1 DEF Over, TypeOK
  <2> QED BY <1>1, <2>1, <2>2 DEF Flight, Numbered, SingleFlight, LeaderFlies
<1>9. ASSUME NEW done \in BOOLEAN, Observe(done) PROVE Flight'
  <2>1. UNCHANGED <<sends, slot, gen, clock>>
    BY <1>9 DEF Observe
  <2>2. mission'.id = mission.id /\ mission'.mode = mission.mode
        /\ mission'.leader = mission.leader /\ (mission'.live => mission.live)
    BY <1>2, <1>9 DEF Observe, Over, TypeOK
  <2> QED BY <1>1, <2>1, <2>2, UntouchedFlight
<1>10. CASE CancelMission
  BY <1>1, <1>2, <1>10, CancelledFlight DEF CancelMission, Over, TypeOK
<1>11. ASSUME NEW d \in Drones, Interrupt(d) PROVE Flight'
  BY <1>1, <1>2, <1>11, CancelledFlight DEF Interrupt, Over, TypeOK
<1>12. ASSUME NEW T \in NormalTargets, Normal(T) PROVE Flight'
  BY <1>1, <1>12, UntouchedFlight DEF Normal, Tick
<1>13. ASSUME NEW kind \in Takeovers, NEW T \in TakeoverTargets, Takeover(kind, T)
       PROVE  Flight'
  <2> DEFINE S == {d \in T : Rank(d) <= Priority[kind]}
  <2>1. TakeFromMission(S) /\ clock' = clock + 1
    BY <1>13 DEF Takeover, Tick
  <2>2. CASE SwarmTakeover(S)
    <3>1. mission'.id = mission.id
      BY <1>2, <2>2 DEF SwarmTakeover, Over, TypeOK
    <3>2. CASE \E R : CancelInflight(R)
      BY <1>1, <2>1, <3>1, <3>2, CancelledFlight
    <3>3. CASE /\ mission' = [mission EXCEPT !.team = mission.team \ S]
               /\ KeepInflight(S)
      <4>1. mission'.mode = mission.mode /\ mission'.leader = mission.leader
            /\ mission'.live = mission.live
        BY <1>2, <3>3 DEF TypeOK
      <4> QED BY <1>1, <2>1, <3>1, <3>3, <4>1, KeptFlight
    <3> QED BY <2>2, <3>2, <3>3 DEF SwarmTakeover
  <2>3. CASE mission' = Over(mission) /\ CancelInflight(mission.team)
    BY <1>1, <1>2, <2>1, <2>3, CancelledFlight DEF Over, TypeOK
  <2>4. CASE KeepInflight({}) /\ UNCHANGED mission
    BY <1>1, <2>1, <2>4, KeptFlight
  <2> QED BY <2>1, <2>2, <2>3, <2>4 DEF TakeFromMission
<1>14. ASSUME NEW c \in cmds, NEW d \in Drones, Begin(c, d) PROVE Flight'
  BY <1>1, <1>14, UntouchedFlight DEF Begin
<1>15. ASSUME NEW c \in cmds, NEW d \in Drones, CommandWrite(c, d) PROVE Flight'
  BY <1>1, <1>15, UntouchedFlight DEF CommandWrite
<1>16. ASSUME NEW c \in cmds, Finish(c) PROVE Flight'
  BY <1>1, <1>16, UntouchedFlight DEF Finish
<1>17. ASSUME NEW T \in ReturnTargets, NEW accepted \in BOOLEAN,
              SwarmReturn(T, accepted)
       PROVE  Flight'
  <2>1. CancelForReturn(T) /\ clock' = clock + 1
    BY <1>17 DEF SwarmReturn, Tick
  <2>2. CASE mission' = Over(mission)
    <3>1. mission'.id = mission.id /\ mission'.mode = mission.mode
          /\ mission'.leader = mission.leader /\ ~mission'.live
      BY <1>2, <2>2 DEF Over, TypeOK
    <3>2. \E S : CancelInflight(S) \/ KeepInflight(S)
      BY <2>1 DEF CancelForReturn
    <3> QED BY <1>1, <2>1, <3>1, <3>2, CancelledFlight, KeptFlight
  <2>3. CASE KeepInflight({}) /\ UNCHANGED mission
    BY <1>1, <2>1, <2>3, KeptFlight
  <2> QED BY <2>1, <2>2, <2>3 DEF CancelForReturn
<1>18. ASSUME NEW d \in Drones, ReturnWrite(d) PROVE Flight'
  BY <1>1, <1>18, UntouchedFlight DEF ReturnWrite
<1>19. CASE ReturnEnds
  BY <1>1, <1>19, UntouchedFlight DEF ReturnEnds
<1>20. CASE SwarmStop
  BY <1>1, <1>20, UntouchedFlight DEF SwarmStop
<1>21. CASE UNCHANGED vars
  BY <1>1, <1>21, UntouchedFlight DEF vars
<1> QED
  BY <1>3, <1>4, <1>5, <1>6, <1>7, <1>8, <1>9, <1>10, <1>11, <1>12, <1>13,
     <1>14, <1>15, <1>16, <1>17, <1>18, <1>19, <1>20, <1>21 DEF Next

LEMMA FlightInit == Init => Flight
  BY TypeInit DEF Init, Flight, Numbered, SingleFlight, LeaderFlies, NoMission

\* For any fleet, an open mission send belongs to the generation that owns the
\* slot: late sends never free or share the slot of a newer claim.
THEOREM OneFlight == Spec => []SingleFlight
<1>1. Flight => SingleFlight
  BY DEF Flight
<1> QED BY <1>1, FlightInit, FlightStep, PTL DEF Spec

\* A send that may still write for the run that lives reaches a drone of the
\* run, and no command took that drone since the send was claimed.
Reached ==
    \A s \in sends :
        s.open /\ mission.live /\ s.run = mission.id =>
            Owns(s.drone) /\ held[s.drone] <= s.n

Ordered == Flight /\ Leases /\ Reached

\* It stays so while the run owns the same drones and no command takes them.
LEMMA ReachedKept ==
    ASSUME Ordered, TypeInv',
           mission'.id = mission.id, mission'.live => mission.live,
           mission'.live => Owned(mission)' = Owned(mission),
           \A d \in Owned(mission) : held'[d] = held[d] \/ held'[d] = 0,
           \A t \in sends' : t.open =>
              \E s \in sends : /\ s.open /\ t.n = s.n
                               /\ t.run = s.run /\ t.drone = s.drone
    PROVE  Reached'
<1> SUFFICES ASSUME NEW t \in sends', t.open, mission'.live, t.run = mission'.id
             PROVE  Owns(t.drone)' /\ held'[t.drone] <= t.n
  BY DEF Reached
<1>1. PICK s \in sends : s.open /\ t.n = s.n /\ t.run = s.run /\ t.drone = s.drone
  OBVIOUS
<1>2. Owns(s.drone) /\ held[s.drone] <= s.n /\ s.n \in Nat
  BY <1>1 DEF Ordered, Reached, Flight, TypeInv, TypeOK, SendType
<1>3. s.drone \in Owned(mission) /\ t.drone \in Owned(mission)'
  BY <1>1, <1>2 DEF Owns
<1>4. held'[t.drone] <= t.n
  BY <1>1, <1>2, <1>3
<1> QED BY <1>3, <1>4 DEF Owns

\* Leaving the sends alone, or marking some of them as lost, opens no guard.
LEMMA NoGuardOpens ==
    ASSUME TypeOK, UNCHANGED sends \/ \E S : KeepInflight(S)
    PROVE  \A t \in sends' : t.open =>
              \E s \in sends : /\ s.open /\ t.n = s.n
                               /\ t.run = s.run /\ t.drone = s.drone
<1>1. CASE UNCHANGED sends
  BY <1>1
<1>2. ASSUME NEW S, KeepInflight(S)
      PROVE  \A t \in sends' : t.open =>
                \E s \in sends : /\ s.open /\ t.n = s.n
                                 /\ t.run = s.run /\ t.drone = s.drone
  <2>1. sends' = Lost(S)
    BY <1>2 DEF KeepInflight
  <2> QED BY <2>1, LostSend
<1> QED BY <1>1, <1>2

\* A claim addresses the drones of the run, and is newer than any command.
LEMMA ClaimReached ==
    ASSUME Ordered, NEW by, Claim(by) PROVE Reached'
<1>1. /\ mission.live /\ clock \in Nat /\ mission.id \in Nat
      /\ mission' = [mission EXCEPT !.fresh = FALSE] /\ held' = held
      /\ slot = {}
  BY DEF Ordered, Flight, TypeInv, TypeOK, Claim, CanClaim
<1>2. \A s \in sends : ~s.open
  BY <1>1 DEF Ordered, Flight, SingleFlight
<1>3. Owned(mission)' = Owned(mission)
  BY <1>1 DEF Owned, Ordered, Flight, TypeInv, TypeOK
<1>4. \A t \in sends' : t \in sends \/ (t.n = clock + 1 /\ t.drone \in Owned(mission))
  BY DEF Claim, Addressed
<1>5. \A d \in Owned(mission) : held[d] <= clock
  <2>1. Owned(mission) \subseteq Drones /\ held \in [Drones -> Nat]
    BY OwnedDrones DEF Ordered, Flight, TypeInv, TypeOK
  <2> QED BY <1>1, <2>1 DEF Ordered, Leases, Serials
<1>6. Owned(mission) \subseteq Drones /\ held \in [Drones -> Nat]
  BY OwnedDrones DEF Ordered, Flight, TypeInv, TypeOK
<1>7. ASSUME NEW t \in sends', t.open
      PROVE  Owns(t.drone)' /\ held'[t.drone] <= t.n
  <2>1. t.n = clock + 1 /\ t.drone \in Owned(mission)
    BY <1>2, <1>4, <1>7
  <2>2. held'[t.drone] <= t.n
    BY <1>1, <1>5, <1>6, <2>1
  <2> QED BY <1>3, <2>1, <2>2 DEF Owns
<1> QED BY <1>7 DEF Reached

\* Every step keeps the sends of a live run newer than the commands.
LEMMA ReachedStep == Ordered /\ [Next]_vars => Reached'
<1> SUFFICES ASSUME Ordered, [Next]_vars PROVE Reached'
  OBVIOUS
<1>1. TypeInv'
  BY TypeStep DEF Ordered, Flight
<1>2. /\ Flight /\ TypeInv /\ TypeOK /\ held \in [Drones -> Nat]
      /\ Owned(mission) \subseteq Drones
  BY OwnedDrones DEF Ordered, Flight, TypeInv, TypeOK
<1>3. ASSUME NEW S, CancelInflight(S) PROVE Reached'
  BY <1>2, <1>3, Cancelling DEF Reached
<1>4. CASE mission' = Over(mission)
  BY <1>2, <1>4 DEF Over, Reached, TypeOK
<1>5. ASSUME UNCHANGED <<mission, held>>,
             UNCHANGED sends \/ \E S : KeepInflight(S)
      PROVE  Reached'
  BY <1>1, <1>2, <1>5, NoGuardOpens, ReachedKept
<1>6. ASSUME NEW m \in Missions, StartMission(m) PROVE Reached'
  <2>1. mission'.id = mission.id + 1 /\ UNCHANGED sends
    BY <1>6 DEF StartMission
  <2>2. \A s \in sends : s.run \in Nat /\ s.run <= mission.id
    BY <1>2 DEF Flight, Numbered, TypeOK, SendType
  <2>3. mission.id \in Nat
    BY <1>2 DEF TypeOK
  <2> QED BY <2>1, <2>2, <2>3 DEF Reached
<1>7. CASE DispatchAtStart
  BY <1>5, <1>7, ClaimReached DEF DispatchAtStart
<1>8. CASE DispatchAtTick
  BY <1>8, ClaimReached DEF DispatchAtTick
<1>9. ASSUME NEW s \in sends, MissionWrite(s) PROVE Reached'
  BY <1>5, <1>9 DEF MissionWrite
<1>10. ASSUME NEW s \in sends, NEW ok \in BOOLEAN, SendReturns(s, ok) PROVE Reached'
  <2>1. UNCHANGED <<mission, held>>
    BY <1>10 DEF SendReturns
  <2>2. ~[s EXCEPT !.stage = "failing", !.open = FALSE].open
    BY <1>2 DEF TypeOK, SendType
  <2>3. \A t \in sends' : t.open => t \in sends
    BY <1>10, <2>2 DEF SendReturns
  <2> QED BY <1>1, <2>1, <2>3, ReachedKept
<1>11. ASSUME NEW s \in sends, FailRun(s) PROVE Reached'
  <2>1. sends' = sends \ {s} /\ UNCHANGED held
    BY <1>11 DEF FailRun
  <2>2. CASE mission' = mission
    BY <1>1, <2>1, <2>2, ReachedKept
  <2> QED BY <1>4, <1>11, <2>2 DEF FailRun
<1>12. ASSUME NEW done \in BOOLEAN, Observe(done) PROVE Reached'
  <2>1. UNCHANGED <<sends, held>>
    BY <1>12 DEF Observe
  <2>2. CASE mission' = [mission EXCEPT !.fresh = TRUE]
    <3>1. mission'.id = mission.id /\ mission'.live = mission.live
          /\ Owned(mission)' = Owned(mission)
      BY <1>2, <2>2 DEF Owned, TypeOK
    <3> QED BY <1>1, <2>1, <3>1, ReachedKept
  <2> QED BY <1>4, <1>12, <2>2 DEF Observe
<1>13. CASE CancelMission
  BY <1>3, <1>13 DEF CancelMission
<1>14. ASSUME NEW d \in Drones, Interrupt(d) PROVE Reached'
  BY <1>3, <1>14 DEF Interrupt
<1>15. ASSUME NEW T \in NormalTargets, Normal(T) PROVE Reached'
  <2>1. UNCHANGED <<mission, sends>>
    BY <1>15 DEF Normal
  <2>2. \A d \in Owned(mission) : held'[d] = held[d]
    BY <1>2, <1>15 DEF Normal, Holding, Owns
  <2> QED BY <1>1, <2>1, <2>2, ReachedKept
<1>16. ASSUME NEW kind \in Takeovers, NEW T \in TakeoverTargets, Takeover(kind, T)
       PROVE  Reached'
  <2> DEFINE S == {d \in T : Rank(d) <= Priority[kind]}
  <2>1. /\ TakeFromMission(S)
        /\ \A d \in Drones : d \notin S => held'[d] = held[d]
    BY <1>16 DEF Takeover, Holding
  <2> HIDE DEF S
  <2>2. CASE \E R : CancelInflight(R)
    BY <1>3, <2>2
  <2>3. CASE /\ mission.live /\ mission.mode = "swarm" /\ mission.leader \notin S
             /\ mission' = [mission EXCEPT !.team = mission.team \ S]
             /\ KeepInflight(S)
    <3>1. /\ Owned(mission) = {mission.leader} /\ Owned(mission)' = {mission.leader}
          /\ mission'.id = mission.id /\ mission'.live = mission.live
      BY <1>2, <2>3 DEF Owned, TypeOK
    <3>2. \A d \in Owned(mission) : held'[d] = held[d]
      BY <1>2, <2>1, <2>3, <3>1
    <3>3. \A t \in sends' : t.open =>
             \E s \in sends : /\ s.open /\ t.n = s.n
                              /\ t.run = s.run /\ t.drone = s.drone
      BY <1>2, <2>3, NoGuardOpens
    <3> QED BY <1>1, <3>1, <3>2, <3>3, ReachedKept
  <2>4. CASE /\ IF mission.mode = "swarm"
                THEN ~mission.live \/ mission.team \cap S = {}
                ELSE \A d \in S : ~Owns(d)
             /\ KeepInflight({}) /\ UNCHANGED mission
    <3>1. \A d \in S : ~Owns(d)
      BY <1>2, <2>4 DEF Owns, Owned, TypeInv, LedFromWithin
    <3>2. \A d \in Owned(mission) : held'[d] = held[d]
      BY <1>2, <2>1, <3>1 DEF Owns
    <3>3. \A t \in sends' : t.open =>
             \E s \in sends : /\ s.open /\ t.n = s.n
                              /\ t.run = s.run /\ t.drone = s.drone
      BY <1>2, <2>4, NoGuardOpens
    <3> QED BY <1>1, <2>4, <3>2, <3>3, ReachedKept
  <2> QED BY <2>1, <2>2, <2>3, <2>4 DEF TakeFromMission, SwarmTakeover
<1>17. ASSUME NEW c \in cmds, NEW d \in Drones, Begin(c, d) PROVE Reached'
  BY <1>5, <1>17 DEF Begin
<1>18. ASSUME NEW c \in cmds, NEW d \in Drones, CommandWrite(c, d) PROVE Reached'
  BY <1>5, <1>18 DEF CommandWrite
<1>19. ASSUME NEW c \in cmds, Finish(c) PROVE Reached'
  <2>1. UNCHANGED <<mission, sends>>
    BY <1>19 DEF Finish
  <2>2. \A d \in Owned(mission) : held'[d] = held[d] \/ held'[d] = 0
    BY <1>2, <1>19 DEF Finish, Released
  <2> QED BY <1>1, <2>1, <2>2, ReachedKept
<1>20. ASSUME NEW T \in ReturnTargets, NEW accepted \in BOOLEAN,
              SwarmReturn(T, accepted)
       PROVE  Reached'
  BY <1>4, <1>5, <1>20 DEF SwarmReturn, CancelForReturn
<1>21. ASSUME NEW d \in Drones, ReturnWrite(d) PROVE Reached'
  BY <1>5, <1>21 DEF ReturnWrite
<1>22. CASE ReturnEnds \/ SwarmStop
  BY <1>5, <1>22 DEF ReturnEnds, SwarmStop
<1>23. CASE UNCHANGED vars
  BY <1>5, <1>23 DEF vars
<1> QED
  BY <1>6, <1>7, <1>8, <1>9, <1>10, <1>11, <1>12, <1>13, <1>14, <1>15, <1>16,
     <1>17, <1>18, <1>19, <1>20, <1>21, <1>22, <1>23 DEF Next

\* For any fleet, the only mission sends that can still write to a drone under
\* a newer command are those of runs that had ended: a takeover and the send of
\* a run that lives never reach a drone in the wrong order.
THEOREM LateSendsAreOver == Spec => []LateOnlyAfterTheEnd
<1>1. Ordered => LateOnlyAfterTheEnd
  <2> SUFFICES ASSUME Ordered, NEW s \in sends, s.open, mission.live,
                      s.run = mission.id
               PROVE  ~(held[s.drone] > s.n)
    BY DEF LateOnlyAfterTheEnd
  <2>1. held[s.drone] \in Nat /\ s.n \in Nat
    BY DEF Ordered, Flight, TypeInv, TypeOK, SendType
  <2> QED BY <2>1 DEF Ordered, Reached
<1>2. Init => Reached
  BY DEF Init, Reached
<1>3. Flight /\ Leases /\ Reached /\ [Next]_vars => Reached'
  BY ReachedStep DEF Ordered
<1>4. Flight /\ Leases /\ Reached => LateOnlyAfterTheEnd
  BY <1>1 DEF Ordered
<1> QED BY <1>2, <1>3, <1>4, FlightInit, FlightStep, LeasesInit, LeasesStep, PTL
       DEF Spec

\* A send that was lost has its guard closed, so its write never came.
Silenced ==
    /\ \A s \in sends : s.lost => ~s.open
    /\ RevokedStaysSilent

\* Every step keeps revoked sends silent, if RETURN requests name their drones.
LEMMA SilencedStep ==
    ASSUME {} \notin ReturnTargets, Flight, Silenced, [Next]_vars PROVE Silenced'
<1>1. TypeOK /\ \A s \in sends : s \in SendType
  BY DEF Flight, TypeInv, TypeOK
<1>2. ASSUME Silent, UNCHANGED sends PROVE Silenced'
  BY <1>2 DEF Silenced, Silent, NoWrite, RevokedStaysSilent
<1>3. ASSUME Silent, NEW S, CancelInflight(S) PROVE Silenced'
  BY <1>3, Cancelling DEF Silenced, Silent, NoWrite, RevokedStaysSilent
<1>4. ASSUME Silent, NEW S, KeepInflight(S),
             \A s \in sends : s.open => s.run # mission.id \/ s.drone \notin S
      PROVE  Silenced'
  <2>1. sends' = Lost(S)
    BY <1>4 DEF KeepInflight
  <2>2. \A t \in sends' : t.lost => ~t.open
    BY <1>1, <1>4, <2>1, LostSend DEF Silenced
  <2> QED BY <1>4, <2>2 DEF Silenced, Silent, NoWrite, RevokedStaysSilent
<1>5. ASSUME NEW by, Claim(by) PROVE Silenced'
  <2>1. Silent /\ \A s \in sends' : s \in sends \/ s.lost = FALSE
    BY <1>5 DEF Claim
  <2> QED BY <2>1 DEF Silenced, Silent, NoWrite, RevokedStaysSilent
<1>6. ASSUME NEW m \in Missions, StartMission(m) PROVE Silenced'
  BY <1>2, <1>6 DEF StartMission
<1>7. CASE DispatchAtStart
  BY <1>2, <1>5, <1>7 DEF DispatchAtStart
<1>8. CASE DispatchAtTick
  BY <1>5, <1>8 DEF DispatchAtTick
<1>9. ASSUME NEW s \in sends, MissionWrite(s) PROVE Silenced'
  BY <1>9 DEF MissionWrite, Silenced, RevokedStaysSilent
<1>10. ASSUME NEW s \in sends, NEW ok \in BOOLEAN, SendReturns(s, ok)
       PROVE  Silenced'
  <2>1. /\ Silent
        /\ \A t \in sends' :
              t \in sends \/ t = [s EXCEPT !.stage = "failing", !.open = FALSE]
    BY <1>10 DEF SendReturns
  <2>2. ~[s EXCEPT !.stage = "failing", !.open = FALSE].open
    BY <1>1 DEF SendType
  <2> QED BY <2>1, <2>2 DEF Silenced, Silent, NoWrite, RevokedStaysSilent
<1>11. ASSUME NEW s \in sends, FailRun(s) PROVE Silenced'
  BY <1>11 DEF FailRun, Silenced, Silent, NoWrite, RevokedStaysSilent
<1>12. ASSUME NEW done \in BOOLEAN, Observe(done) PROVE Silenced'
  BY <1>2, <1>12 DEF Observe
<1>13. CASE CancelMission
  BY <1>3, <1>13 DEF CancelMission
<1>14. ASSUME NEW d \in Drones, Interrupt(d) PROVE Silenced'
  BY <1>3, <1>14 DEF Interrupt
<1>15. ASSUME NEW T \in NormalTargets, Normal(T) PROVE Silenced'
  BY <1>2, <1>15 DEF Normal
<1>16. ASSUME NEW kind \in Takeovers, NEW T \in TakeoverTargets, Takeover(kind, T)
       PROVE  Silenced'
  <2> DEFINE S == {d \in T : Rank(d) <= Priority[kind]}
  <2>1. Silent /\ TakeFromMission(S)
    BY <1>16 DEF Takeover
  <2>2. CASE \E R : CancelInflight(R)
    BY <1>3, <2>1, <2>2
  <2>3. CASE /\ mission.live /\ mission.mode = "swarm"
             /\ mission.leader \notin S /\ KeepInflight(S)
    <3>1. \A s \in sends : s.open => s.run # mission.id \/ s.drone \notin S
      BY <2>3 DEF Flight, LeaderFlies
    <3> QED BY <1>4, <2>1, <2>3, <3>1
  <2>4. CASE KeepInflight({})
    BY <1>4, <2>1, <2>4
  <2> QED BY <2>1, <2>2, <2>3, <2>4 DEF TakeFromMission, SwarmTakeover
<1>17. ASSUME NEW c \in cmds, NEW d \in Drones, Begin(c, d) PROVE Silenced'
  BY <1>2, <1>17 DEF Begin
<1>18. ASSUME NEW c \in cmds, NEW d \in Drones, CommandWrite(c, d) PROVE Silenced'
  BY <1>18 DEF CommandWrite, Silenced, RevokedStaysSilent
<1>19. ASSUME NEW c \in cmds, Finish(c) PROVE Silenced'
  BY <1>2, <1>19 DEF Finish
<1>20. ASSUME NEW T \in ReturnTargets, NEW accepted \in BOOLEAN,
              SwarmReturn(T, accepted)
       PROVE  Silenced'
  <2>1. Silent /\ CancelForReturn(T) /\ T # {}
    BY <1>20 DEF SwarmReturn
  <2> QED BY <1>3, <1>4, <2>1 DEF CancelForReturn
<1>21. ASSUME NEW d \in Drones, ReturnWrite(d) PROVE Silenced'
  BY <1>21 DEF ReturnWrite, Silenced, RevokedStaysSilent
<1>22. CASE ReturnEnds
  BY <1>2, <1>22 DEF ReturnEnds
<1>23. CASE SwarmStop
  BY <1>2, <1>23 DEF SwarmStop
<1>24. CASE UNCHANGED vars
  BY <1>24 DEF vars, Silenced, RevokedStaysSilent
<1> QED
  BY <1>6, <1>7, <1>8, <1>9, <1>10, <1>11, <1>12, <1>13, <1>14, <1>15, <1>16,
     <1>17, <1>18, <1>19, <1>20, <1>21, <1>22, <1>23, <1>24 DEF Next

\* For any fleet, where every swarm RETURN names its drones, nothing a mission
\* sent before an operator or a failsafe revoked it reaches the drone after.
\* (A RETURN of the whole swarm leaves the in-flight send of the run alone.)
THEOREM RevocationSilences ==
    ASSUME {} \notin ReturnTargets PROVE Spec => []RevokedStaysSilent
<1>1. Init => Silenced
  BY DEF Init, Silenced, RevokedStaysSilent, NoWrite
<1>2. Flight /\ Silenced /\ [Next]_vars => Silenced'
  BY SilencedStep
<1>3. Silenced => RevokedStaysSilent
  BY DEF Silenced
<1> QED BY <1>1, <1>2, <1>3, FlightInit, FlightStep, PTL DEF Spec

=============================================================================
