----------------------------- MODULE DroneCommands -----------------------------
(***************************************************************************)
(* The commands of one drone and its failsafe: command/service.go runs a   *)
(* command in stages, fleet/drone.go sends each stage under the drone's    *)
(* sendMu and waits for its COMMAND_ACK, and the failsafe tick of          *)
(* fleet/manager.go latches, refuses later automatic writes and sends its  *)
(* own RTL from a goroutine that competes for the same sendMu.             *)
(*                                                                         *)
(* The flight controller and the link are external: messages arrive in     *)
(* order or not at all, a command may be refused, and an ACK may be lost,  *)
(* or arrive after its command gave up.                                    *)
(*                                                                         *)
(* A command runs once; positions, altitudes, speeds, safety envelope      *)
(* checks and audit are left out, as are the RC override and velocity      *)
(* streams, which take neither the lock nor an ACK.                        *)
(***************************************************************************)
EXTENDS Integers, Sequences

CONSTANTS
    Calls,    \* calls of the command service
    Rescues,  \* goroutines that send a failsafe RTL, each at most once
    Kinds,    \* commands the calls may be
    Retries,  \* armAttempts - 1
    MaxHerds, \* bound on the pulls back into the geofence
    None      \* nobody

VARIABLES
    call,     \* the calls and goroutines
    sendMu,   \* holder of Drone.sendMu
    pending,  \* pendingAcks: MAV_CMD -> whose channel waits
    up,       \* messages on their way to the flight controller, oldest first
    down,     \* COMMAND_ACKs on their way back
    link,     \* fsLink >= 2: the link is lost; a delayed one latches nothing
    batt,     \* fsBatt
    flight,   \* what the flight controller flies
    current,  \* history: the rescues started since the failsafe latched
    rescued,  \* history: such an RTL was accepted and nobody took over since
    gaveUp,   \* history: MAV_CMDs some command stopped waiting for
    herds     \* bound: pulls sent so far

vars == <<call, sendMu, pending, up, down, link, batt, flight, current,
          rescued, gaveUp, herds>>

AllKinds == {"hold", "goto", "mission_rtl", "rtl", "land", "takeoff", "arm",
             "disarm", "kill", "set_mode"}
Procs == Calls \cup Rescues

ASSUME ProcAssumption ==
    /\ Calls \cap Rescues = {}
    /\ None \notin Calls \cup Rescues
ASSUME KindAssumption == Kinds \subseteq AllKinds
ASSUME BoundAssumption == Retries \in Nat /\ MaxHerds \in Nat
--------------------------------------------------------------------------------
\* Stages that end with an ACK, and the MAV_CMD they wait for.
AckStages == {"mode", "arm", "disarm", "kill", "takeoff", "rtl", "land"}
Stage == AckStages \cup {"position"}
Code(s) == IF s \in {"arm", "disarm", "kill"} THEN "arm_disarm" ELSE s
Codes == {Code(s) : s \in AckStages}

\* The commands that yield to the failsafe, before and at every write.
Guarded == {"hold", "goto", "mission_rtl"}

\* HOLD depends on what telemetry says: not armed, already GUIDED, or neither.
Stages(k) ==
    CASE k = "hold"        -> {<<>>, <<"position">>, <<"mode", "position">>}
      [] k = "goto"        -> {<<"position">>}
      [] k = "mission_rtl" -> {<<"rtl">>}
      [] k = "set_mode"    -> {<<"mode">>}
      [] k = "takeoff"     -> {<<"mode", "arm", "takeoff">>}
      [] OTHER             -> {<<k>>}

\* A write is named by its caller and how many it wrote before.
Id == Procs \X Nat
NoAck == [id |-> <<None, 0>>, code |-> "none", ok |-> FALSE]
Ack == [id : Id, code : Codes, ok : BOOLEAN]
Pull == [id |-> <<None, 0>>, stage |-> "position", guarded |-> FALSE]
Message == [id : Id, stage : Stage, guarded : BOOLEAN] \cup {Pull}
Call == [kind : AllKinds \cup {"none", "failsafe"}, todo : Seq(Stage),
         at : {"idle", "ready", "holding", "waiting", "done"}, writes : Nat,
         expired : BOOLEAN, got : Ack \cup {NoAck}, retries : 0 .. Retries]

Idle == [kind |-> "none", todo |-> <<>>, at |-> "idle", writes |-> 0,
         expired |-> FALSE, got |-> NoAck, retries |-> 0]
Begin(k, todo) == [Idle EXCEPT !.kind = k, !.todo = todo,
                               !.at = IF todo = <<>> THEN "done" ELSE "ready"]
Done == [Idle EXCEPT !.at = "done"]

TypeOK ==
    /\ call \in [Procs -> Call]
    /\ sendMu \in Procs \cup {None}
    /\ pending \in [Codes -> Procs \cup {None}]
    /\ up \in Seq(Message)
    /\ down \subseteq Ack
    /\ link \in BOOLEAN
    /\ batt \in BOOLEAN
    /\ flight \in {"guided", "moving", "rtl", "land", "off"}
    /\ current \subseteq Rescues
    /\ rescued \in BOOLEAN
    /\ gaveUp \subseteq Codes
    /\ herds \in 0 .. MaxHerds

\* FailsafeActive
Latched == batt \/ link
IsGuarded(p) == call[p].kind \in Guarded
Stg(p) == Head(call[p].todo)

\* Deviation: a write only looks at its context, not at the latch.
RefusedIfExpired(p) == call[p].expired

\* guardedSend's reasons not to write.
Refused(p) == call[p].expired \/ (IsGuarded(p) /\ Latched)
--------------------------------------------------------------------------------
\* The service accepts a call; the automatic ones yield to a latched failsafe.
Start(p, k) ==
    /\ p \in Calls
    /\ call[p].at = "idle"
    /\ \E todo \in IF k \in Guarded /\ Latched THEN {<<>>} ELSE Stages(k) :
          call' = [call EXCEPT ![p] = Begin(k, todo)]
    /\ UNCHANGED <<sendMu, pending, up, down, link, batt, flight, current,
                   rescued, gaveUp, herds>>

\* Deviation: sendCmd does not take sendMu.
LockAtOnce(p) ==
    /\ call[p].at = "ready"
    /\ Stg(p) \in AckStages
    /\ sendMu' = p
    /\ pending' = [pending EXCEPT ![Code(Stg(p))] = p]
    /\ call' = [call EXCEPT ![p].at = "holding", ![p].got = NoAck]
    /\ UNCHANGED <<up, down, link, batt, flight, current, rescued, gaveUp,
                   herds>>

\* sendCmd up to the transport write.
Lock(p) ==
    /\ call[p].at = "ready"
    /\ Stg(p) \in AckStages
    /\ sendMu = None
    /\ sendMu' = p
    /\ pending' = [pending EXCEPT ![Code(Stg(p))] = p]
    /\ call' = [call EXCEPT ![p].at = "holding", ![p].got = NoAck]
    /\ UNCHANGED <<up, down, link, batt, flight, current, rescued, gaveUp,
                   herds>>

\* guardedSend: the context and the latch are looked at with the write.
Write(p) ==
    up' = Append(up, [id |-> <<p, call[p].writes>>, stage |-> Stg(p),
                      guarded |-> IsGuarded(p)])

Send(p) ==
    /\ call[p].at = "holding"
    /\ ~Refused(p)
    /\ Write(p)
    /\ call' = [call EXCEPT ![p].at = "waiting", ![p].writes = @ + 1]
    /\ UNCHANGED <<sendMu, pending, down, link, batt, flight, current, rescued,
                   gaveUp, herds>>

\* A setpoint (GotoContext) needs neither the lock nor an ACK.
SendPosition(p) ==
    /\ call[p].at = "ready"
    /\ Stg(p) = "position"
    /\ ~Refused(p)
    /\ Write(p)
    /\ call' = [call EXCEPT ![p] = Done]
    /\ UNCHANGED <<sendMu, pending, down, link, batt, flight, current, rescued,
                   gaveUp, herds>>

\* Deviation: sendCmd returns without unlocking.
ReleaseChannel(p) ==
    /\ pending' = [pending EXCEPT ![Code(Stg(p))] = None]
    /\ UNCHANGED sendMu

\* sendCmd returns: the deferred calls take the channel out and unlock.
Release(p) ==
    /\ sendMu' = None
    /\ pending' = [pending EXCEPT ![Code(Stg(p))] = None]

NextStage(c) ==
    IF Len(c.todo) = 1 THEN Done
    ELSE [c EXCEPT !.at = "ready", !.todo = Tail(@), !.expired = FALSE]

\* Deviation: the attempts to arm are not counted.
AfterUncounted(c, ok) ==
    {Done}
    \cup (IF ok THEN {NextStage(c)} ELSE {})
    \cup (IF ~ok /\ Head(c.todo) = "arm" /\ c.kind = "takeoff"
          THEN {[c EXCEPT !.at = "ready", !.expired = FALSE]}
          ELSE {})

\* What follows a stage: the next one unless the call was preempted meanwhile;
\* after a failure only the arm stage of a takeoff is tried again.
After(c, ok) ==
    {Done}
    \cup (IF ok THEN {NextStage(c)} ELSE {})
    \cup (IF ~ok /\ Head(c.todo) = "arm" /\ c.kind = "takeoff"
             /\ c.retries < Retries
          THEN {[c EXCEPT !.at = "ready", !.retries = @ + 1, !.expired = FALSE]}
          ELSE {})

\* The write was refused, by the context or by the latch: a failure as any other,
\* so an arm whose context expired while it waited for sendMu is tried again.
Refuse(p) ==
    /\ Refused(p)
    /\ \/ /\ call[p].at = "holding"
          /\ Release(p)
       \/ /\ call[p].at = "ready" /\ Stg(p) = "position"
          /\ UNCHANGED <<sendMu, pending>>
    /\ \E c \in After(call[p], FALSE) : call' = [call EXCEPT ![p] = c]
    /\ UNCHANGED <<up, down, link, batt, flight, current, rescued, gaveUp,
                   herds>>

TakeAnswer(p) ==
    /\ call[p].at = "waiting"
    /\ call[p].got # NoAck
    /\ Release(p)
    /\ \E c \in After(call[p], call[p].got.ok) : call' = [call EXCEPT ![p] = c]
    /\ UNCHANGED <<up, down, link, batt, flight, current, rescued, gaveUp,
                   herds>>

\* "no ACK (timeout)"
GiveUp(p) ==
    /\ call[p].at = "waiting"
    /\ call[p].expired
    /\ Release(p)
    /\ \E c \in After(call[p], FALSE) : call' = [call EXCEPT ![p] = c]
    /\ gaveUp' = IF call[p].got = NoAck THEN gaveUp \cup {Code(Stg(p))}
                 ELSE gaveUp
    /\ UNCHANGED <<up, down, link, batt, flight, current, rescued, herds>>

\* The context of a call times out or is cancelled.  A failsafe RTL runs with
\* the context of the process.
Expire(p) ==
    /\ p \in Calls
    /\ call[p].at \in {"ready", "holding", "waiting"}
    /\ ~call[p].expired
    /\ call' = [call EXCEPT ![p].expired = TRUE]
    /\ UNCHANGED <<sendMu, pending, up, down, link, batt, flight, current,
                   rescued, gaveUp, herds>>
--------------------------------------------------------------------------------
\* failsafeTick sets the latches; a latch of an armed drone starts an RTL.
\* Bound: there is a goroutine left for it.
Latch(armed) ==
    IF armed
    THEN \E r \in Rescues :
            /\ call[r].at = "idle"
            /\ call' = [call EXCEPT ![r] = Begin("failsafe", <<"rtl">>)]
            /\ current' = current \cup {r}
    ELSE UNCHANGED <<call, current>>

Unlatch ==
    /\ current' = IF Latched' THEN current ELSE {}
    /\ rescued' = (Latched' /\ rescued)
    /\ UNCHANGED call

LinkCheck(armed) ==
    /\ link' = ~link
    /\ UNCHANGED batt
    /\ IF link' THEN Latch(armed) /\ UNCHANGED rescued ELSE Unlatch
    /\ UNCHANGED <<sendMu, pending, up, down, flight, gaveUp, herds>>

BattCheck ==
    /\ batt' = ~batt
    /\ UNCHANGED link
    /\ IF batt' THEN Latch(TRUE) /\ UNCHANGED rescued ELSE Unlatch
    /\ UNCHANGED <<sendMu, pending, up, down, flight, gaveUp, herds>>

\* The geofence pulls an armed drone back with a setpoint nothing guards.
Herd ==
    /\ herds < MaxHerds
    /\ herds' = herds + 1
    /\ up' = Append(up, Pull)
    /\ UNCHANGED <<call, sendMu, pending, down, link, batt, flight, current,
                   rescued, gaveUp>>
--------------------------------------------------------------------------------
\* The flight controller: setpoints count in GUIDED only.
Flown(s) ==
    CASE s = "mode"               -> "guided"
      [] s \in {"rtl", "land"}    -> s
      [] s \in {"disarm", "kill"} -> "off"
      [] s = "position" /\ flight = "guided" -> "moving"
      [] OTHER                    -> flight

Owner(m) == m.id[1]

\* The operator may override the failsafe, an automatic command may not.
TakesOver(m) ==
    ~m.guarded /\ m.stage \in {"mode", "rtl", "land", "disarm", "kill"}

Obey(m) ==
    /\ flight' = Flown(m.stage)
    /\ rescued' = (Owner(m) \in current \/ (rescued /\ ~TakesOver(m)))

Hear ==
    /\ up # <<>>
    /\ up' = Tail(up)
    /\ LET m == Head(up)
       IN  \/ UNCHANGED <<flight, rescued, down>>
           \/ m.stage = "position" /\ Obey(m) /\ UNCHANGED down
           \/ m.stage # "position" /\ \E ok \in BOOLEAN :
                 /\ IF ok THEN Obey(m) ELSE UNCHANGED <<flight, rescued>>
                 /\ down' = down \cup {[id |-> m.id, code |-> Code(m.stage),
                                        ok |-> ok]}
    /\ UNCHANGED <<call, sendMu, pending, link, batt, current, gaveUp, herds>>

\* deliverAck: the channel holds one answer; without a waiter it is dropped.
Deliver(a) ==
    LET p == pending[a.code]
    IN  IF p # None /\ call[p].got = NoAck
        THEN call' = [call EXCEPT ![p].got = a]
        ELSE UNCHANGED call

Acknowledge(a) ==
    /\ a \in down
    /\ down' = down \ {a}
    /\ Deliver(a) \/ UNCHANGED call
    /\ UNCHANGED <<sendMu, pending, up, link, batt, flight, current, rescued,
                   gaveUp, herds>>
--------------------------------------------------------------------------------
Init ==
    /\ call = [p \in Procs |-> Idle]
    /\ sendMu = None
    /\ pending = [c \in Codes |-> None]
    /\ up = <<>>
    /\ down = {}
    /\ link = FALSE
    /\ batt = FALSE
    /\ flight = "moving"
    /\ current = {}
    /\ rescued = FALSE
    /\ gaveUp = {}
    /\ herds = 0

Run(p) ==
    \/ Lock(p)
    \/ Send(p)
    \/ SendPosition(p)
    \/ Refuse(p)
    \/ TakeAnswer(p)
    \/ GiveUp(p)
    \/ Expire(p)

Next ==
    \/ \E p \in Calls, k \in Kinds : Start(p, k)
    \/ \E p \in Procs : Run(p)
    \/ \E armed \in BOOLEAN : LinkCheck(armed)
    \/ BattCheck
    \/ Herd
    \/ Hear
    \/ \E a \in down : Acknowledge(a)

Spec == Init /\ [][Next]_vars

\* Go runs every goroutine, hands a freed mutex to one that waits, and fires
\* the timers; a message on the link ends somewhere.
Fairness ==
    /\ \A p \in Procs : WF_vars(Run(p))
    /\ WF_vars(Hear)
    /\ WF_vars(\E a \in down : Acknowledge(a))

FairSpec == Spec /\ Fairness
--------------------------------------------------------------------------------
\* The answer a command takes is the answer to what it wrote ("one outstanding
\* ACK at a time, pendingAcks does not collide", sendCmd): only after some
\* command of the same MAV_CMD gave up may a late ACK answer for the next one.
OwnAnswer ==
    \A p \in Procs :
       call[p].at \in {"holding", "waiting"} /\ call[p].got # NoAck
       => \/ call[p].got.id = <<p, call[p].writes - 1>>
          \/ call[p].got.code \in gaveUp

\* Once the flight controller accepted the failsafe's RTL, nothing automatic
\* takes the aircraft out of it while the latch holds: neither a HOLD, GOTO or
\* mission Return caught between its check and its write, nor one of its later
\* stages, nor the pull of the geofence (DoIfFailsafeInactive: "once the latch
\* is established, every later caller is refused").
FailsafePrevails == rescued => flight = "rtl"

\* Who sends or waits for its ACK holds sendMu, nobody else does, and the channels
\* registered are its own ("one outstanding ACK at a time, pendingAcks does not
\* collide", sendCmd).  So nobody waits for one that waits for sendMu itself.
OneOutstanding ==
    /\ \A p \in Procs :
          /\ call[p].at \in {"holding", "waiting"} <=> sendMu = p
          /\ sendMu = p => pending[Code(Stg(p))] = p
    /\ \A c \in Codes : pending[c] \in {sendMu, None}

\* What is left of a call: its stages and attempts, and in a stage the steps of
\* sendCmd and the timer.
Left(p) ==
    IF call[p].at = "done" THEN 0
    ELSE 8 * (Len(call[p].todo) + Retries - call[p].retries)
         + 2 * (CASE call[p].at = "ready"   -> 3
                  [] call[p].at = "holding" -> 2
                  [] OTHER                  -> 1)
         + (IF call[p].expired THEN 0 ELSE 1)

\* Each step of a command's own brings it nearer to its end, and nothing that
\* anybody else does sets it back: no loop of retries, stages and timeouts.
NearerTheEnd ==
    [][\A p \in Procs : call[p].at # "idle" =>
          /\ Left(p)' <= Left(p)
          /\ Run(p) => Left(p)' < Left(p)]_vars

\* A failsafe RTL whose ACK will never come: nothing can end its wait.
Jammed ==
    \E r \in Rescues :
       /\ call[r].at = "waiting"
       /\ call[r].got = NoAck
       /\ \A a \in down : a.code # "rtl"
       /\ \A i \in DOMAIN up : up[i].stage # "rtl"

\* Every command ends, answered, refused or timed out, whatever the link loses,
\* as long as no failsafe RTL keeps sendMu for ever.
EveryCommandReturns ==
    \A p \in Calls : call[p].at # "idle" ~> (call[p].at = "done" \/ Jammed)

\* A KILL ends: each sub-command has a timeout of its own, or else "sendMu of
\* that drone is held long and blocks the other commands too" (Takeoff,
\* command/service.go:285), and "KILL cannot be serialized behind a long FC ACK"
\* (docs/V3_S09_CROSS_REVIEW_ROUND3.md:303).
KillReturns ==
    \A p \in Calls :
       call[p].kind = "kill" ~> call[p].at = "done"
================================================================================
