-------------------------- MODULE DroneCommandsProofs --------------------------
(***************************************************************************)
(* The answer a command takes is its own, one command is outstanding at a  *)
(* time, each step of a command is one nearer to its end, and nothing      *)
(* automatic takes the aircraft out of the failsafe's RTL, for any calls,  *)
(* failsafes, commands, retries and losses.                                *)
(*                                                                         *)
(* Answers: whoever holds sendMu is the only one between a channel and its *)
(* removal, so while nobody gave up on a MAV_CMD the only message or ACK   *)
(* of it on the link is the one the holder waits for (Owned, Single).      *)
(*                                                                         *)
(* Failsafe: a guarded write only happens without a latch, the RTL only    *)
(* after it, and the link keeps the order; so behind an RTL of this latch  *)
(* nothing guarded is on its way (Behind), and once it was accepted        *)
(* nothing guarded is on its way at all (Prevails).                        *)
(*                                                                         *)
(* Progress: a call changes by its own steps, but for an answer put in its *)
(* channel (CallsAdvance); and the end of a stage, or an attempt, weighs   *)
(* more than all the steps of the next one (AfterIsNearer).                *)
(***************************************************************************)
EXTENDS DroneCommands, TLAPS

Holds(p) == call[p].at \in {"holding", "waiting"}
Active(p) == call[p].at \in {"ready", "holding", "waiting"}

Shape ==
    \A p \in Procs : /\ Active(p) => call[p].todo # <<>>
                     /\ Holds(p) => Stg(p) \in AckStages

Mutex == \A p \in Procs : Holds(p) <=> sendMu = p

Channels ==
    \A c \in Codes : pending[c] # None =>
       pending[c] = sendMu /\ Code(Stg(sendMu)) = c

Matches ==
    \A p \in Procs : Holds(p) /\ call[p].got # NoAck =>
       /\ call[p].got.code = Code(Stg(p))
       /\ call[p].at = "holding" => call[p].got.code \in gaveUp

\* The holder waits for the answer to the write id.
Waits(id, c) ==
    /\ sendMu \in Procs
    /\ call[sendMu].at = "waiting"
    /\ id = <<sendMu, call[sendMu].writes - 1>>
    /\ Code(Stg(sendMu)) = c
    /\ call[sendMu].got = NoAck

Live(c) == c \in Codes /\ c \notin gaveUp

Owned ==
    /\ \A i \in DOMAIN up : Live(Code(up[i].stage)) =>
          Waits(up[i].id, Code(up[i].stage))
    /\ \A a \in down : Live(a.code) => Waits(a.id, a.code)

Single ==
    /\ \A i, j \in DOMAIN up :
          Live(Code(up[i].stage)) /\ Live(Code(up[j].stage)) => i = j
    /\ \A i \in DOMAIN up, a \in down : ~(Live(Code(up[i].stage)) /\ Live(a.code))
    /\ \A a, b \in down : Live(a.code) /\ Live(b.code) => a = b

AInv == TypeOK /\ Shape /\ Mutex /\ Channels /\ Matches /\ Owned /\ Single
           /\ OwnAnswer
--------------------------------------------------------------------------------
RescueShape ==
    \A r \in Rescues : Active(r) =>
       call[r].kind = "failsafe" /\ call[r].todo = <<"rtl">>

RescueWrites ==
    \A i \in DOMAIN up : Owner(up[i]) \in Rescues =>
       /\ up[i].stage = "rtl"
       /\ ~up[i].guarded
       /\ call[Owner(up[i])].at # "idle"

Latching == current # {} \/ rescued => Latched

Behind ==
    \A i, j \in DOMAIN up :
       i < j /\ Owner(up[i]) \in current => ~up[j].guarded

Prevails ==
    rescued => flight = "rtl" /\ \A i \in DOMAIN up : ~up[i].guarded

FInv == RescueShape /\ RescueWrites /\ Latching /\ Behind /\ Prevails
--------------------------------------------------------------------------------
LEMMA CodesAre ==
    /\ Codes = {"mode", "arm_disarm", "takeoff", "rtl", "land"}
    /\ \A s \in AckStages : Code(s) \in Codes
    /\ \A s \in Stage : Code(s) \in Codes => s \in AckStages
    /\ "none" \notin Codes
  BY DEF Codes, Code, AckStages, Stage

LEMMA NoAckIsNone == NoAck \notin Ack /\ NoAck.code = "none"
  BY CodesAre DEF NoAck, Ack

LEMMA Ids == None \notin Procs
  BY ProcAssumption DEF Procs

LEMMA DoneTyped == Done \in Call /\ Done.at = "done" /\ Idle \in Call
                     /\ Idle.at = "idle" /\ Done.got = NoAck
  <1> DEFINE c == Idle
  <1>1. c \in Call /\ c.at = "idle" /\ c.got = NoAck
    BY BoundAssumption DEF Idle, Call
  <1>2. Done = [c EXCEPT !.at = "done"]
    BY DEF Done
  <1> HIDE DEF c
  <1>3. Done \in Call /\ Done.at = "done" /\ Done.got = NoAck
    BY <1>1, <1>2 DEF Call
  <1>4. QED
    BY <1>1, <1>3 DEF c

LEMMA TailTyped ==
    ASSUME NEW S, NEW s \in Seq(S), s # <<>>
    PROVE  /\ Tail(s) \in Seq(S)
           /\ Len(Tail(s)) = Len(s) - 1
           /\ \A i \in DOMAIN Tail(s) : i + 1 \in DOMAIN s /\ Tail(s)[i] = s[i + 1]
           /\ 1 \in DOMAIN s /\ Head(s) = s[1]
  OBVIOUS

LEMMA BeginTyped ==
    ASSUME NEW k \in AllKinds \cup {"failsafe"}, NEW todo \in Seq(Stage)
    PROVE  /\ Begin(k, todo) \in Call
           /\ Begin(k, todo).at \in {"ready", "done"}
           /\ Begin(k, todo).at = "ready" => todo # <<>>
           /\ Begin(k, todo).kind = k
           /\ Begin(k, todo).todo = todo
  <1> DEFINE at == IF todo = <<>> THEN "done" ELSE "ready"
             c == Idle
             b == [c EXCEPT !.kind = k, !.todo = todo, !.at = at]
  <1>1. c \in Call
    BY DoneTyped
  <1>2. Begin(k, todo) = b
    BY DEF Begin
  <1>3. at \in {"done", "ready"} /\ (at = "ready" => todo # <<>>)
    OBVIOUS
  <1> HIDE DEF at, c
  <1>4. b \in Call /\ b.at = at /\ b.kind = k /\ b.todo = todo
    BY <1>1, <1>3 DEF Call
  <1>5. QED
    BY <1>2, <1>3, <1>4

LEMMA RescueBegins ==
    LET b == Begin("failsafe", <<"rtl">>)
    IN  b \in Call /\ b.at = "ready" /\ b.kind = "failsafe" /\ b.todo = <<"rtl">>
  <1> DEFINE t == <<"rtl">>
  <1>1. t \in Seq(Stage) /\ t # <<>>
    BY DEF Stage, AckStages
  <1> HIDE DEF t
  <1>2. Begin("failsafe", t).at = "ready"
    BY <1>1, DoneTyped DEF Begin, Idle, Call
  <1>3. QED
    BY <1>1, <1>2, BeginTyped DEF t

LEMMA StagesTyped ==
    ASSUME NEW k \in AllKinds
    PROVE  Stages(k) \subseteq Seq(Stage)
  <1>1. CASE k \in {"rtl", "land", "arm", "disarm", "kill"}
    <2>1. Stages(k) = {<<k>>} /\ k \in Stage
      BY <1>1 DEF Stages, Stage, AckStages
    <2>2. QED
      BY <2>1
  <1>2. CASE k = "hold"
    BY <1>2 DEF Stages, Stage, AckStages
  <1>3. CASE k = "goto"
    BY <1>3 DEF Stages, Stage, AckStages
  <1>4. CASE k = "mission_rtl"
    BY <1>4 DEF Stages, Stage, AckStages
  <1>5. CASE k = "set_mode"
    BY <1>5 DEF Stages, Stage, AckStages
  <1>6. CASE k = "takeoff"
    BY <1>6 DEF Stages, Stage, AckStages
  <1>7. QED
    BY <1>1, <1>2, <1>3, <1>4, <1>5, <1>6 DEF AllKinds

LEMMA TailLeft ==
    ASSUME NEW S, NEW s \in Seq(S), s # <<>>, Len(s) # 1
    PROVE  Tail(s) # <<>> /\ Len(s) > 1
  <1> DEFINE n == Len(s)
  <1>1. n \in Nat /\ n # 0 /\ n # 1
    OBVIOUS
  <1>2. Len(Tail(s)) = n - 1
    BY TailTyped
  <1> HIDE DEF n
  <1>3. n > 1 /\ n - 1 # 0
    BY <1>1
  <1>4. Tail(s) # <<>>
    BY <1>2, <1>3
  <1>5. QED
    BY <1>3, <1>4 DEF n

LEMMA NextStageTyped ==
    ASSUME NEW c \in Call, c.todo # <<>>
    PROVE  /\ NextStage(c) \in Call
           /\ NextStage(c).at \in {"ready", "done"}
           /\ NextStage(c).at = "ready" => /\ NextStage(c).todo # <<>>
                                          /\ NextStage(c).kind = c.kind
                                          /\ Len(c.todo) > 1
  <1>1. c.todo \in Seq(Stage)
    BY DEF Call
  <1>2. CASE Len(c.todo) = 1
    BY <1>2, DoneTyped DEF NextStage
  <1>3. CASE Len(c.todo) # 1
    <2> DEFINE t == Tail(c.todo)
               d == [c EXCEPT !.at = "ready", !.todo = t, !.expired = FALSE]
    <2>1. t \in Seq(Stage) /\ t # <<>> /\ Len(c.todo) > 1
      BY <1>1, <1>3, TailTyped, TailLeft
    <2>2. NextStage(c) = d
      BY <1>3 DEF NextStage
    <2> HIDE DEF t
    <2>3. d \in Call /\ d.at = "ready" /\ d.todo = t /\ d.kind = c.kind
      BY <2>1 DEF Call
    <2> HIDE DEF d
    <2>4. QED
      BY <2>1, <2>2, <2>3
  <1>4. QED
    BY <1>2, <1>3

LEMMA AfterIs ==
    ASSUME NEW c \in Call, NEW ok, NEW d \in After(c, ok)
    PROVE  \/ d = Done
           \/ d = NextStage(c)
           \/ /\ c.kind = "takeoff" /\ d \in Call /\ d.at = "ready"
              /\ d.todo = c.todo /\ d.kind = c.kind
  <1>1. CASE /\ c.kind = "takeoff" /\ c.retries < Retries
             /\ d = [c EXCEPT !.at = "ready", !.retries = c.retries + 1,
                              !.expired = FALSE]
    <2>1. c.retries + 1 \in 0 .. Retries
      BY <1>1, BoundAssumption DEF Call
    <2>2. d \in Call /\ d.at = "ready" /\ d.todo = c.todo /\ d.kind = c.kind
      BY <1>1, <2>1 DEF Call
    <2>3. QED
      BY <2>2, <1>1
  <1>2. QED
    BY <1>1 DEF After

LEMMA AfterTyped ==
    ASSUME NEW c \in Call, c.todo # <<>>, NEW ok, NEW d \in After(c, ok)
    PROVE  d \in Call
  BY AfterIs, DoneTyped, NextStageTyped

LEMMA AfterEnds ==
    ASSUME NEW c \in Call, c.todo # <<>>, NEW ok, NEW d \in After(c, ok)
    PROVE  d.at \in {"ready", "done"} /\ (d.at = "ready" => d.todo # <<>>)
  <1>1. CASE d = Done
    BY <1>1, DoneTyped
  <1>2. CASE d = NextStage(c)
    BY <1>2, NextStageTyped
  <1>3. QED
    BY <1>1, <1>2, AfterIs

--------------------------------------------------------------------------------
LEMMA InitTyped == Init => TypeOK
  <1> DEFINE c == Idle
  <1>1. c \in Call
    BY DoneTyped
  <1>2. Init => call = [p \in Procs |-> c]
    BY DEF Init
  <1> HIDE DEF c
  <1>3. Init => call \in [Procs -> Call]
    BY <1>1, <1>2
  <1>4. Init => up \in Seq(Message) /\ herds \in 0 .. MaxHerds
    BY BoundAssumption DEF Init
  <1>5. QED
    BY <1>3, <1>4 DEF Init, TypeOK

\* What changes call[p] leaves a call.
LEMMA CallTyped ==
    ASSUME TypeOK, NEW p \in Procs, NEW c \in Call,
           call' = [call EXCEPT ![p] = c]
    PROVE  call' \in [Procs -> Call]
  BY DEF TypeOK

LEMMA StartTyped ==
    ASSUME TypeOK, NEW p, NEW k \in Kinds, Start(p, k)
    PROVE  TypeOK'
  <1>1. PICK todo \in Seq(Stage) : call' = [call EXCEPT ![p] = Begin(k, todo)]
    <2>1. <<>> \in Seq(Stage) /\ k \in AllKinds
      BY KindAssumption
    <2>2. QED
      BY <2>1, StagesTyped DEF Start
  <1>2. Begin(k, todo) \in Call
    BY BeginTyped, KindAssumption
  <1>3. call' \in [Procs -> Call]
    BY <1>1, <1>2, CallTyped DEF Start, Procs
  <1>4. QED
    BY <1>3 DEF Start, TypeOK

LEMMA LockTyped ==
    ASSUME TypeOK, NEW p \in Procs, Lock(p)
    PROVE  TypeOK'
  <1> DEFINE c == [call[p] EXCEPT !.at = "holding", !.got = NoAck]
  <1>1. c \in Call
    BY DEF TypeOK, Call
  <1>2. call' = [call EXCEPT ![p] = c]
    BY DEF Lock, TypeOK
  <1> HIDE DEF c
  <1>3. call' \in [Procs -> Call]
    BY <1>1, <1>2, CallTyped
  <1>4. Code(Stg(p)) \in Codes
    BY CodesAre DEF Lock
  <1>5. QED
    BY <1>3, <1>4 DEF Lock, TypeOK

LEMMA WriteTyped ==
    ASSUME TypeOK, NEW p \in Procs, Stg(p) \in Stage, Write(p)
    PROVE  up' \in Seq(Message)
  <1> DEFINE m == [id |-> <<p, call[p].writes>>, stage |-> Stg(p),
                   guarded |-> IsGuarded(p)]
  <1>1. call[p].writes \in Nat /\ IsGuarded(p) \in BOOLEAN
    BY DEF TypeOK, Call, IsGuarded
  <1>2. m \in Message
    BY <1>1 DEF Message, Id
  <1>3. up' = Append(up, m)
    BY DEF Write
  <1> HIDE DEF m
  <1>4. QED
    BY <1>2, <1>3 DEF TypeOK

LEMMA SendTyped ==
    ASSUME TypeOK, NEW p \in Procs, Stg(p) \in AckStages, Send(p)
    PROVE  TypeOK'
  <1> DEFINE w == call[p].writes + 1
             c == [call[p] EXCEPT !.at = "waiting", !.writes = w]
  <1>1. c \in Call
    <2>1. call[p] \in Call /\ w \in Nat
      BY DEF TypeOK, Call
    <2> HIDE DEF w
    <2>2. QED
      BY <2>1 DEF Call
  <1>2. call' = [call EXCEPT ![p] = c]
    BY DEF Send, TypeOK
  <1> HIDE DEF c
  <1>3. call' \in [Procs -> Call]
    BY <1>1, <1>2, CallTyped
  <1>4. up' \in Seq(Message)
    BY WriteTyped DEF Send, Stage
  <1>5. QED
    BY <1>3, <1>4 DEF Send, TypeOK

LEMMA SendPositionTyped ==
    ASSUME TypeOK, NEW p \in Procs, SendPosition(p)
    PROVE  TypeOK'
  <1>1. call' \in [Procs -> Call]
    BY CallTyped, DoneTyped DEF SendPosition
  <1>2. up' \in Seq(Message)
    BY WriteTyped DEF SendPosition, Stage
  <1>3. QED
    BY <1>1, <1>2 DEF SendPosition, TypeOK

LEMMA ReleaseTyped ==
    ASSUME TypeOK, NEW p \in Procs, Release(p)
    PROVE  sendMu' \in Procs \cup {None} /\ pending' \in [Codes -> Procs \cup {None}]
  BY DEF Release, TypeOK

LEMMA RefuseTyped ==
    ASSUME TypeOK, NEW p \in Procs, call[p].todo # <<>>, Refuse(p)
    PROVE  TypeOK'
  <1>1. call' \in [Procs -> Call]
    <2>1. PICK c \in After(call[p], FALSE) : call' = [call EXCEPT ![p] = c]
      BY DEF Refuse
    <2>2. QED
      BY <2>1, AfterTyped, CallTyped DEF TypeOK
  <1>2. sendMu' \in Procs \cup {None} /\ pending' \in [Codes -> Procs \cup {None}]
    BY ReleaseTyped DEF Refuse, TypeOK
  <1>3. QED
    BY <1>1, <1>2 DEF Refuse, TypeOK

\* The two ways a wait ends.
LEMMA EndTyped ==
    ASSUME TypeOK, NEW p \in Procs, call[p].todo # <<>>,
           Stg(p) \in AckStages, TakeAnswer(p) \/ GiveUp(p)
    PROVE  TypeOK'
  <1>1. PICK ok \in BOOLEAN :
           \E c \in After(call[p], ok) : call' = [call EXCEPT ![p] = c]
    <2>1. CASE TakeAnswer(p)
      <3>1. call[p].got \in Ack
        BY <2>1 DEF TypeOK, Call, TakeAnswer
      <3>2. call[p].got.ok \in BOOLEAN
        BY <3>1 DEF Ack
      <3>3. QED
        BY <2>1, <3>2 DEF TakeAnswer
    <2>2. CASE GiveUp(p)
      BY <2>2 DEF GiveUp
    <2>3. QED
      BY <2>1, <2>2
  <1>2. call' \in [Procs -> Call]
    BY <1>1, AfterTyped, CallTyped DEF TypeOK
  <1>3. sendMu' \in Procs \cup {None} /\ pending' \in [Codes -> Procs \cup {None}]
    BY ReleaseTyped DEF TakeAnswer, GiveUp
  <1>4. gaveUp' \subseteq Codes
    BY CodesAre DEF TakeAnswer, GiveUp, TypeOK
  <1>5. QED
    BY <1>2, <1>3, <1>4 DEF TakeAnswer, GiveUp, TypeOK

LEMMA ExpireTyped ==
    ASSUME TypeOK, NEW p \in Procs, Expire(p)
    PROVE  TypeOK'
  <1> DEFINE c == [call[p] EXCEPT !.expired = TRUE]
  <1>1. c \in Call
    BY DEF TypeOK, Call
  <1>2. call' = [call EXCEPT ![p] = c]
    BY DEF Expire, TypeOK
  <1> HIDE DEF c
  <1>3. call' \in [Procs -> Call]
    BY <1>1, <1>2, CallTyped
  <1>4. QED
    BY <1>3 DEF Expire, TypeOK

LEMMA LatchTyped ==
    ASSUME TypeOK, NEW armed \in BOOLEAN, Latch(armed) \/ Unlatch
    PROVE  call' \in [Procs -> Call] /\ current' \subseteq Rescues
  <1>1. CASE Unlatch \/ ~armed
    BY <1>1 DEF Unlatch, Latch, TypeOK
  <1>2. CASE armed /\ Latch(armed)
    <2>1. PICK r \in Rescues :
             /\ call' = [call EXCEPT ![r] = Begin("failsafe", <<"rtl">>)]
             /\ current' = current \cup {r}
      BY <1>2 DEF Latch
    <2>3. Begin("failsafe", <<"rtl">>) \in Call
      BY RescueBegins
    <2>4. call' \in [Procs -> Call]
      BY <2>1, <2>3, CallTyped DEF Procs
    <2>5. current \subseteq Rescues
      BY DEF TypeOK
    <2>6. current' \subseteq Rescues
      BY <2>1, <2>5
    <2>7. QED
      BY <2>4, <2>6
  <1>3. QED
    BY <1>1, <1>2

LEMMA FailsafeTyped ==
    ASSUME TypeOK, (\E armed \in BOOLEAN : LinkCheck(armed)) \/ BattCheck
    PROVE  TypeOK'
  <1>1. call' \in [Procs -> Call] /\ current' \subseteq Rescues
    BY LatchTyped DEF LinkCheck, BattCheck
  <1>2. rescued' \in BOOLEAN
    BY DEF LinkCheck, BattCheck, Unlatch, TypeOK, Latched
  <1>3. link' \in BOOLEAN /\ batt' \in BOOLEAN
    BY DEF LinkCheck, BattCheck, TypeOK
  <1>4. QED
    BY <1>1, <1>2, <1>3 DEF LinkCheck, BattCheck, TypeOK

LEMMA HerdTyped ==
    ASSUME TypeOK, Herd
    PROVE  TypeOK'
  <1>1. up' \in Seq(Message)
    BY DEF Herd, TypeOK, Message
  <1>2. QED
    BY <1>1, BoundAssumption DEF Herd, TypeOK

LEMMA HearTyped ==
    ASSUME TypeOK, Hear
    PROVE  TypeOK'
  <1> DEFINE m == Head(up)
  <1>1. up' \in Seq(Message) /\ m \in Message /\ 1 \in DOMAIN up /\ m = up[1]
    BY TailTyped DEF Hear, TypeOK
  <1>2. flight' \in {"guided", "moving", "rtl", "land", "off"}
    BY DEF Hear, Obey, Flown, TypeOK
  <1>3. rescued' \in BOOLEAN
    BY DEF Hear, Obey, TypeOK
  <1>4. down' \subseteq Ack
    <2>1. CASE UNCHANGED down
      BY <2>1 DEF TypeOK
    <2>2. CASE m.stage # "position" /\ \E ok \in BOOLEAN :
                 down' = down \cup {[id |-> m.id, code |-> Code(m.stage),
                                     ok |-> ok]}
      <3>1. Code(m.stage) \in Codes
        BY <1>1, <2>2, CodesAre DEF Message, Stage, Pull
      <3>2. m.id \in Id
        BY <1>1, <2>2 DEF Message, Pull
      <3>3. QED
        BY <2>2, <3>1, <3>2 DEF TypeOK, Ack
    <2>3. QED
      BY <2>1, <2>2 DEF Hear
  <1>5. QED
    BY <1>1, <1>2, <1>3, <1>4 DEF Hear, TypeOK

LEMMA AcknowledgeTyped ==
    ASSUME TypeOK, NEW a \in down, Acknowledge(a)
    PROVE  TypeOK'
  <1>1. call' \in [Procs -> Call]
    <2>1. CASE UNCHANGED call
      BY <2>1 DEF TypeOK
    <2>2. CASE \E p \in Procs : call' = [call EXCEPT ![p].got = a]
      <3>1. PICK p \in Procs : call' = [call EXCEPT ![p].got = a]
        BY <2>2
      <3> DEFINE c == [call[p] EXCEPT !.got = a]
      <3>2. c \in Call
        BY DEF TypeOK, Call
      <3>3. call' = [call EXCEPT ![p] = c]
        BY <3>1 DEF TypeOK
      <3> HIDE DEF c
      <3>4. QED
        BY <3>2, <3>3, CallTyped
    <2>3. a.code \in Codes
      BY DEF TypeOK, Ack
    <2>4. QED
      BY <2>1, <2>2, <2>3 DEF Acknowledge, Deliver, TypeOK
  <1>2. QED
    BY <1>1 DEF Acknowledge, TypeOK
--------------------------------------------------------------------------------
\* Answers.  First a step of a call that neither holds sendMu nor gets it; it
\* may write a setpoint.
Bundle == Shape /\ Mutex /\ Channels /\ Matches /\ Owned /\ Single /\ OwnAnswer

LEMMA BystanderStep ==
    ASSUME AInv, TypeOK', NEW p \in Procs, ~Holds(p),
           NEW c, call' = [call EXCEPT ![p] = c],
           c.at \notin {"holding", "waiting"}, c.at = "ready" => c.todo # <<>>,
           UNCHANGED <<sendMu, pending, down, gaveUp>>,
           UNCHANGED up \/ \E m : up' = Append(up, m) /\ Code(m.stage) \notin Codes
    PROVE  Bundle'
  <1>1. call'[p] = c /\ \A q \in Procs \ {p} : call'[q] = call[q]
    BY DEF AInv, TypeOK
  <1>2. sendMu # p
    BY DEF AInv, Mutex
  <1>3. Shape' /\ Mutex' /\ Matches' /\ OwnAnswer'
    BY <1>1, <1>2 DEF AInv, Shape, Mutex, Matches, OwnAnswer, Active, Holds, Stg
  <1>4. Channels'
    BY <1>1, <1>2, Ids DEF AInv, Channels, Stg, TypeOK
  <1>5. \A id, k : Waits(id, k) => Waits(id, k)'
    BY <1>1, <1>2 DEF Waits, Stg
  <1>6. \A k : Live(k)' <=> Live(k)
    BY DEF Live
  <1>7. \A i \in DOMAIN up' : Live(Code(up'[i].stage)) =>
           i \in DOMAIN up /\ up'[i] = up[i]
    BY DEF Live, AInv, TypeOK
  <1>8. Owned' /\ Single'
    BY <1>5, <1>6, <1>7 DEF AInv, Owned, Single
  <1>9. QED
    BY <1>3, <1>4, <1>8 DEF Bundle

\* A step that takes nobody's turn: the link and the latches.
LEMMA IdleStep ==
    ASSUME AInv, TypeOK', UNCHANGED <<call, sendMu, pending, down, gaveUp>>,
           UNCHANGED up \/ \E m : up' = Append(up, m) /\ Code(m.stage) \notin Codes
    PROVE  Bundle'
  <1>3. Shape' /\ Mutex' /\ Matches' /\ OwnAnswer' /\ Channels'
    BY DEF AInv, Shape, Mutex, Matches, OwnAnswer, Channels, Active, Holds, Stg
  <1>5. \A id, k : Waits(id, k) => Waits(id, k)'
    BY DEF Waits, Stg
  <1>6. \A k : Live(k)' <=> Live(k)
    BY DEF Live
  <1>7. \A i \in DOMAIN up' : Live(Code(up'[i].stage)) =>
           i \in DOMAIN up /\ up'[i] = up[i]
    BY SMTT(30) DEF Live, AInv, TypeOK
  <1>8. Owned' /\ Single'
    BY <1>5, <1>6, <1>7 DEF AInv, Owned, Single
  <1>9. QED
    BY <1>3, <1>8 DEF Bundle

\* sendCmd returns while nothing it still waits for is on the link.
LEMMA ReleaseStep ==
    ASSUME AInv, TypeOK', NEW p \in Procs, Holds(p), Release(p),
           NEW c, call' = [call EXCEPT ![p] = c],
           c.at \in {"ready", "done"}, c.at = "ready" => c.todo # <<>>,
           UNCHANGED <<up, down>>, gaveUp \subseteq gaveUp',
           \A id, k : Waits(id, k) => k \in gaveUp'
    PROVE  Bundle'
  <1>1. call'[p] = c /\ \A q \in Procs \ {p} : call'[q] = call[q]
    BY DEF AInv, TypeOK
  <1>2. sendMu = p /\ sendMu' = None /\ p # None
    BY Ids DEF AInv, Mutex, Release
  <1>3. Shape'
    BY <1>1 DEF AInv, Shape, Active, Holds, Stg
  <1>4. Mutex' /\ Matches' /\ OwnAnswer'
    BY <1>1, <1>2, Ids DEF AInv, Mutex, Matches, OwnAnswer, Holds, Stg
  <1>5. Channels'
    BY <1>2 DEF AInv, Channels, Release, TypeOK
  <1>6. \A k : Live(k)' => Live(k) /\ \A id : ~Waits(id, k)
    BY DEF Live
  <1>7. Owned' /\ Single'
    BY <1>6 DEF AInv, Owned, Single
  <1>8. QED
    BY <1>3, <1>4, <1>5, <1>7 DEF Bundle

LEMMA LockStep ==
    ASSUME AInv, TypeOK', NEW p \in Procs, Lock(p)
    PROVE  Bundle'
  <1>1. /\ call'[p].at = "holding" /\ call'[p].got = NoAck
        /\ call'[p].todo = call[p].todo /\ call[p].todo # <<>>
        /\ Stg(p) \in AckStages
        /\ \A q \in Procs \ {p} : call'[q] = call[q]
    BY DEF AInv, TypeOK, Call, Lock, Shape, Active
  <1>2. sendMu = None /\ sendMu' = p /\ p # None
    BY Ids DEF Lock
  <1>3. Shape'
    BY <1>1 DEF AInv, Shape, Active, Holds, Stg
  <1>4. Mutex' /\ Matches' /\ OwnAnswer'
    BY <1>1, <1>2, Ids DEF AInv, Mutex, Matches, OwnAnswer, Holds, Stg, Lock
  <1>5. Channels'
    BY <1>1, <1>2 DEF AInv, Channels, Lock, TypeOK, Stg
  <1>6. \A id, k : ~Waits(id, k)
    BY <1>2, Ids DEF Waits
  <1>7. \A k : Live(k)' <=> Live(k)
    BY DEF Live, Lock
  <1>8. Owned' /\ Single'
    BY <1>6, <1>7 DEF AInv, Owned, Single, Lock
  <1>9. QED
    BY <1>3, <1>4, <1>5, <1>8 DEF Bundle

LEMMA SendStep ==
    ASSUME AInv, TypeOK', NEW p \in Procs, Send(p)
    PROVE  Bundle'
  <1> DEFINE m == [id |-> <<p, call[p].writes>>, stage |-> Stg(p),
                   guarded |-> IsGuarded(p)]
             code == Code(Stg(p))
  <1>1. /\ call[p].at = "holding" /\ call'[p].at = "waiting"
        /\ call'[p].todo = call[p].todo /\ call'[p].got = call[p].got
        /\ call[p].writes \in Nat /\ call'[p].writes = call[p].writes + 1
        /\ \A q \in Procs \ {p} : call'[q] = call[q]
    BY DEF AInv, TypeOK, Call, Send
  <1>2. sendMu = p /\ sendMu' = p
    BY <1>1 DEF AInv, Mutex, Holds, Send
  <1>3. Shape' /\ Mutex' /\ Matches' /\ Channels'
    <2>1. \A q \in Procs : /\ Holds(q)' <=> Holds(q)
                           /\ Active(q)' <=> Active(q)
                           /\ Stg(q)' = Stg(q)
                           /\ call'[q].todo = call[q].todo
                           /\ call'[q].got = call[q].got
      BY <1>1 DEF Active, Holds, Stg
    <2>2. Shape' /\ Mutex'
      BY <2>1, <1>2 DEF AInv, Shape, Mutex
    <2>3. Matches'
      <3>1. gaveUp' = gaveUp
        BY DEF Send
      <3>2. \A q \in Procs : call'[q].at = "holding" => call[q].at = "holding"
        BY <1>1
      <3> SUFFICES ASSUME NEW q \in Procs, Holds(q)', call'[q].got # NoAck
                   PROVE  /\ call'[q].got.code = Code(Stg(q)')
                          /\ call'[q].at = "holding" => call'[q].got.code \in gaveUp'
        BY DEF Matches
      <3> QED
        BY <2>1, <3>1, <3>2 DEF AInv, Matches
    <2>4. Channels'
      BY <2>1, <1>2 DEF AInv, Channels, Send
    <2> QED
      BY <2>2, <2>3, <2>4
  <1>a. call[p].got # NoAck => call[p].got.code = code /\ code \in gaveUp
    BY <1>1 DEF AInv, Matches, Holds
  <1>4. OwnAnswer'
    <2>1. SUFFICES ASSUME NEW q \in Procs,
                          call'[q].at \in {"holding", "waiting"},
                          call'[q].got # NoAck
                   PROVE  \/ call'[q].got.id = <<q, call'[q].writes - 1>>
                          \/ call'[q].got.code \in gaveUp
      BY DEF OwnAnswer, Send
    <2>2. CASE q = p
      BY <1>1, <1>a, <2>1, <2>2
    <2>3. CASE q # p
      BY <1>1, <2>1, <2>3 DEF AInv, OwnAnswer
    <2>4. QED
      BY <2>2, <2>3
  <1>5. \A id, k : ~Waits(id, k)
    BY <1>1, <1>2 DEF Waits
  <1>6. \A k : Live(k)' <=> Live(k)
    BY DEF Live, Send
  <1>7. up' = Append(up, m) /\ m.id = <<p, call[p].writes>> /\ Code(m.stage) = code
    BY DEF Send, Write
  <1>8. \A i \in DOMAIN up' : Live(Code(up'[i].stage)) => i = Len(up) + 1
    <2> HIDE DEF m
    <2>1. \A i \in DOMAIN up : ~Live(Code(up[i].stage))
      BY <1>5 DEF AInv, Owned
    <2>2. \A i \in DOMAIN up' : i = Len(up) + 1 \/ (i \in DOMAIN up /\ up'[i] = up[i])
      BY <1>7 DEF AInv, TypeOK
    <2>3. QED
      BY <2>1, <2>2
  <1>9. up'[Len(up) + 1] = m
    BY <1>7 DEF AInv, TypeOK
  <1>10. \A a \in down' : ~Live(a.code)
    BY <1>5 DEF AInv, Owned, Send
  <1>11. \A id, k : id = m.id /\ k = code /\ Live(k) => Waits(id, k)'
    <2>1. Live(code) => call[p].got = NoAck
      BY <1>a DEF Live
    <2>2. call'[p].writes - 1 = call[p].writes
      BY <1>1
    <2>3. Code(Stg(p)') = code
      BY <1>1 DEF Stg
    <2> HIDE DEF m
    <2>4. QED
      BY <1>1, <1>2, <1>7, <2>1, <2>2, <2>3 DEF Waits
  <1> HIDE DEF m, code
  <1>12. Owned'
    BY <1>6, <1>7, <1>8, <1>9, <1>10, <1>11 DEF Owned
  <1>13. Single'
    BY <1>6, <1>8, <1>10 DEF Single
  <1>14. QED
    BY <1>3, <1>4, <1>12, <1>13 DEF Bundle

LEMMA ExpireStep ==
    ASSUME AInv, TypeOK', NEW p \in Procs, Expire(p)
    PROVE  Bundle'
  <1>1. /\ call'[p].at = call[p].at /\ call'[p].todo = call[p].todo
        /\ call'[p].got = call[p].got /\ call'[p].writes = call[p].writes
        /\ \A q \in Procs \ {p} : call'[q] = call[q]
    BY DEF AInv, TypeOK, Call, Expire
  <1>2. \A q \in Procs :
           /\ call'[q].at = call[q].at /\ call'[q].todo = call[q].todo
           /\ call'[q].got = call[q].got /\ call'[q].writes = call[q].writes
    BY <1>1
  <1>3. Shape' /\ Mutex' /\ Matches' /\ OwnAnswer'
    BY <1>2 DEF AInv, Shape, Mutex, Matches, OwnAnswer, Active, Holds, Stg, Expire
  <1>4. Channels'
    BY <1>2, Ids DEF AInv, Channels, Stg, Expire, TypeOK
  <1>5. \A id, k : Waits(id, k) => Waits(id, k)'
    BY <1>2 DEF Waits, Stg, Expire
  <1>6. \A k : Live(k)' <=> Live(k)
    BY DEF Live, Expire
  <1>7. Owned' /\ Single'
    BY <1>5, <1>6 DEF AInv, Owned, Single, Expire
  <1>8. QED
    BY <1>3, <1>4, <1>7 DEF Bundle

LEMMA HearStep ==
    ASSUME AInv, TypeOK', Hear
    PROVE  Bundle'
  <1> DEFINE m == Head(up)
  <1>1. /\ 1 \in DOMAIN up /\ m = up[1]
        /\ \A i \in DOMAIN up' : i + 1 \in DOMAIN up /\ up'[i] = up[i + 1]
        /\ \A i \in DOMAIN up' : i \in Nat /\ i + 1 # 1
    BY TailTyped DEF AInv, TypeOK, Hear
  <1>2. Shape' /\ Mutex' /\ Matches' /\ OwnAnswer' /\ Channels'
    BY DEF AInv, Shape, Mutex, Matches, OwnAnswer, Channels, Active, Holds, Stg,
           Hear
  <1>3. \A id, k : Waits(id, k) => Waits(id, k)'
    BY DEF Waits, Stg, Hear
  <1>4. \A k : Live(k)' <=> Live(k)
    BY DEF Live, Hear
  <1>5. \A a \in down' : a \in down \/ (a.id = m.id /\ a.code = Code(m.stage))
    BY DEF Hear
  <1>6. \A a, b \in down' : a \in down \/ b \in down \/ a = b
    BY DEF Hear
  <1> HIDE DEF m
  <1>7. Owned'
    BY <1>1, <1>3, <1>4, <1>5 DEF AInv, Owned
  <1>8. \A i, j \in DOMAIN up' :
           Live(Code(up'[i].stage)) /\ Live(Code(up'[j].stage)) => i = j
    BY <1>1 DEF AInv, Single
  <1>9. \A i \in DOMAIN up', a \in down' :
           ~(Live(Code(up'[i].stage)) /\ Live(a.code))
    BY <1>1, <1>5 DEF AInv, Single
  <1>10. \A a, b \in down' : Live(a.code) /\ Live(b.code) => a = b
    BY <1>1, <1>5, <1>6 DEF AInv, Single
  <1>11. Single'
    BY <1>4, <1>8, <1>9, <1>10 DEF Single
  <1>12. QED
    BY <1>2, <1>7, <1>11 DEF Bundle

LEMMA AcknowledgeStep ==
    ASSUME AInv, TypeOK', NEW a \in down, Acknowledge(a)
    PROVE  Bundle'
  <1>1. \A k : Live(k)' <=> Live(k)
    BY DEF Live, Acknowledge
  <1>2. a.code \in Codes
    BY DEF AInv, TypeOK, Ack
  <1>3. CASE UNCHANGED call
    <2>1. Shape' /\ Mutex' /\ Matches' /\ OwnAnswer' /\ Channels'
      BY <1>3 DEF AInv, Shape, Mutex, Matches, OwnAnswer, Channels, Active, Holds,
                  Stg, Acknowledge
    <2>2. \A id, k : Waits(id, k) => Waits(id, k)'
      BY <1>3 DEF Waits, Stg, Acknowledge
    <2>3. Owned' /\ Single'
      BY <1>1, <2>2 DEF AInv, Owned, Single, Acknowledge
    <2>4. QED
      BY <2>1, <2>3 DEF Bundle
  <1>4. CASE /\ pending[a.code] # None
             /\ call[pending[a.code]].got = NoAck
             /\ call' = [call EXCEPT ![pending[a.code]].got = a]
    <2> DEFINE p == pending[a.code]
    <2>1. p \in Procs /\ p = sendMu /\ Code(Stg(p)) = a.code
      BY <1>2, <1>4 DEF AInv, TypeOK, Channels
    <2>2. /\ call'[p].at = call[p].at /\ call'[p].todo = call[p].todo
          /\ call'[p].got = a /\ call'[p].writes = call[p].writes
          /\ \A q \in Procs \ {p} : call'[q] = call[q]
      BY <1>4, <2>1 DEF AInv, TypeOK, Call
    <2>3. Live(a.code) => call[p].at = "waiting"
                          /\ a.id = <<p, call[p].writes - 1>>
      BY <2>1 DEF AInv, Owned, Waits
    <2> HIDE DEF p
    <2>4. Shape' /\ Mutex'
      BY <2>2 DEF AInv, Shape, Mutex, Active, Holds, Stg, Acknowledge
    <2>5. Matches' /\ OwnAnswer'
      BY <1>2, <2>1, <2>2, <2>3 DEF AInv, Matches, OwnAnswer, Holds, Stg, Live,
                                    Acknowledge
    <2>6. Channels'
      BY <2>1, <2>2 DEF AInv, Channels, Stg, Acknowledge
    <2>7. \A k : Live(k) => \A i \in DOMAIN up : Code(up[i].stage) # k
      <3>1. SUFFICES ASSUME NEW k, Live(k), NEW i \in DOMAIN up,
                            Code(up[i].stage) = k
                     PROVE  FALSE
        OBVIOUS
      <3>2. k = a.code
        BY <3>1, <2>1 DEF AInv, Owned, Waits
      <3>3. QED
        BY <3>1, <3>2 DEF AInv, Single
    <2>8. \A b \in down' : ~Live(b.code)
      <3>1. SUFFICES ASSUME NEW b \in down, b # a, Live(b.code)
                     PROVE  FALSE
        BY DEF Acknowledge
      <3>2. b.code = a.code
        BY <3>1, <2>1 DEF AInv, Owned, Waits
      <3>3. QED
        BY <3>1, <3>2 DEF AInv, Single
    <2>9. Owned' /\ Single'
      BY <1>1, <2>7, <2>8 DEF Owned, Single, Acknowledge, Live
    <2>10. QED
      BY <2>4, <2>5, <2>6, <2>9 DEF Bundle
  <1>5. QED
    BY <1>3, <1>4 DEF Acknowledge, Deliver

LEMMA InitAInv == Init => AInv
  <1> SUFFICES ASSUME Init PROVE AInv
    OBVIOUS
  <1>1. \A p \in Procs : call[p].at = "idle"
    BY DoneTyped DEF Init
  <1>2. DOMAIN up = {}
    BY DEF Init
  <1>3. Shape /\ Mutex /\ Channels /\ Matches /\ Owned /\ Single /\ OwnAnswer
    BY <1>1, <1>2, Ids DEF Init, Shape, Mutex, Channels, Matches, Owned, Single,
                           OwnAnswer, Active, Holds
  <1>4. QED
    BY <1>3, InitTyped DEF AInv

\* Every step of a call keeps the types; what its stage is comes from Shape.
LEMMA RunTyped ==
    ASSUME TypeOK, Shape, NEW p \in Procs, Run(p)
    PROVE  TypeOK'
  <1>1. CASE Lock(p)
    BY <1>1, LockTyped
  <1>2. CASE Send(p)
    <2>1. Stg(p) \in AckStages
      BY <1>2 DEF Send, Shape, Holds
    <2>2. QED
      BY <1>2, <2>1, SendTyped
  <1>3. CASE SendPosition(p)
    BY <1>3, SendPositionTyped
  <1>4. CASE Refuse(p)
    <2>1. call[p].todo # <<>>
      BY <1>4 DEF Refuse, Shape, Active
    <2>2. QED
      BY <1>4, <2>1, RefuseTyped
  <1>5. CASE TakeAnswer(p) \/ GiveUp(p)
    <2>1. Stg(p) \in AckStages /\ call[p].todo # <<>>
      BY <1>5 DEF TakeAnswer, GiveUp, Shape, Holds, Active
    <2>2. QED
      BY <1>5, <2>1, EndTyped
  <1>6. CASE Expire(p)
    BY <1>6, ExpireTyped
  <1>7. QED
    BY <1>1, <1>2, <1>3, <1>4, <1>5, <1>6 DEF Run

LEMMA NextTyped ==
    ASSUME TypeOK, Shape, [Next]_vars
    PROVE  TypeOK'
  <1>1. CASE UNCHANGED vars
    BY <1>1 DEF vars, TypeOK
  <1>2. CASE \E p \in Calls, k \in Kinds : Start(p, k)
    BY <1>2, StartTyped
  <1>3. CASE \E p \in Procs : Run(p)
    BY <1>3, RunTyped
  <1>4. CASE (\E armed \in BOOLEAN : LinkCheck(armed)) \/ BattCheck
    BY <1>4, FailsafeTyped
  <1>5. CASE Herd
    BY <1>5, HerdTyped
  <1>6. CASE Hear
    BY <1>6, HearTyped
  <1>7. CASE \E a \in down : Acknowledge(a)
    BY <1>7, AcknowledgeTyped
  <1>8. QED
    BY <1>1, <1>2, <1>3, <1>4, <1>5, <1>6, <1>7 DEF Next

LEMMA StartStep ==
    ASSUME AInv, TypeOK', NEW p, NEW k \in Kinds, Start(p, k)
    PROVE  Bundle'
  <1>1. PICK todo \in Seq(Stage) : call' = [call EXCEPT ![p] = Begin(k, todo)]
    <2>1. <<>> \in Seq(Stage) /\ k \in AllKinds
      BY KindAssumption
    <2>2. QED
      BY <2>1, StagesTyped DEF Start
  <1> DEFINE c == Begin(k, todo)
  <1>2. c.at \in {"ready", "done"} /\ (c.at = "ready" => c.todo # <<>>)
    BY BeginTyped, KindAssumption
  <1>3. p \in Procs /\ ~Holds(p)
    BY DEF Start, Procs, Holds
  <1> HIDE DEF c
  <1>4. QED
    BY <1>1, <1>2, <1>3, BystanderStep DEF Start, c

LEMMA SendPositionStep ==
    ASSUME AInv, TypeOK', NEW p \in Procs, SendPosition(p)
    PROVE  Bundle'
  <1> DEFINE m == [id |-> <<p, call[p].writes>>, stage |-> Stg(p),
                   guarded |-> IsGuarded(p)]
  <1>1. ~Holds(p)
    BY DEF SendPosition, Holds
  <1>2. up' = Append(up, m)
    BY DEF SendPosition, Write
  <1>3. Code(m.stage) \notin Codes
    BY CodesAre DEF SendPosition, Code
  <1> HIDE DEF m
  <1>4. QED
    BY <1>1, <1>2, <1>3, DoneTyped, BystanderStep DEF SendPosition

LEMMA RefuseStep ==
    ASSUME AInv, TypeOK', NEW p \in Procs, Refuse(p)
    PROVE  Bundle'
  <1>1. call[p] \in Call /\ call[p].todo # <<>>
    BY DEF AInv, TypeOK, Shape, Active, Refuse
  <1>2. PICK c : /\ call' = [call EXCEPT ![p] = c]
                 /\ c.at \in {"ready", "done"}
                 /\ c.at = "ready" => c.todo # <<>>
    <2>1. PICK c \in After(call[p], FALSE) : call' = [call EXCEPT ![p] = c]
      BY DEF Refuse
    <2>2. QED
      BY <1>1, <2>1, AfterEnds
  <1>3. CASE call[p].at = "holding" /\ Release(p)
    <2>1. Holds(p) /\ sendMu = p
      BY <1>3 DEF Holds, AInv, Mutex
    <2>2. \A id, k : ~Waits(id, k)
      BY <1>3, <2>1 DEF Waits
    <2>3. QED
      BY <1>2, <1>3, <2>1, <2>2, ReleaseStep DEF Refuse
  <1>4. CASE call[p].at = "ready" /\ UNCHANGED <<sendMu, pending>>
    BY <1>2, <1>4, BystanderStep DEF Refuse, Holds
  <1>5. QED
    BY <1>3, <1>4 DEF Refuse

LEMMA EndStep ==
    ASSUME AInv, TypeOK', NEW p \in Procs, TakeAnswer(p) \/ GiveUp(p)
    PROVE  Bundle'
  <1>1. /\ call[p] \in Call /\ call[p].todo # <<>> /\ Holds(p)
        /\ sendMu = p /\ Release(p) /\ UNCHANGED <<up, down>>
    BY DEF AInv, TypeOK, Shape, Mutex, Active, Holds, TakeAnswer, GiveUp
  <1>2. PICK c : /\ call' = [call EXCEPT ![p] = c]
                 /\ c.at \in {"ready", "done"}
                 /\ c.at = "ready" => c.todo # <<>>
    <2>1. CASE TakeAnswer(p)
      <3> DEFINE ok == call[p].got.ok
      <3>1. PICK c \in After(call[p], ok) : call' = [call EXCEPT ![p] = c]
        BY <2>1 DEF TakeAnswer
      <3> HIDE DEF ok
      <3>2. QED
        BY <1>1, <3>1, AfterEnds
    <2>2. CASE GiveUp(p)
      <3>1. PICK c \in After(call[p], FALSE) : call' = [call EXCEPT ![p] = c]
        BY <2>2 DEF GiveUp
      <3>2. QED
        BY <1>1, <3>1, AfterEnds
    <2>3. QED
      BY <2>1, <2>2
  <1>5. gaveUp \subseteq gaveUp'
    BY DEF TakeAnswer, GiveUp
  <1>6. \A id, k : Waits(id, k) => k \in gaveUp'
    BY <1>1 DEF Waits, TakeAnswer, GiveUp
  <1>7. QED
    BY <1>1, <1>2, <1>5, <1>6, ReleaseStep

LEMMA StepBundle ==
    ASSUME AInv, TypeOK', [Next]_vars
    PROVE  Bundle'
  <1>2. CASE UNCHANGED vars
    BY <1>2, IdleStep DEF vars
  <1>3. CASE \E p \in Calls, k \in Kinds : Start(p, k)
    BY <1>3, StartStep
  <1>4. CASE \E p \in Procs : Run(p)
    BY <1>4, LockStep, SendStep, SendPositionStep, RefuseStep, EndStep,
       ExpireStep DEF Run
  <1>5. CASE (\E armed \in BOOLEAN : LinkCheck(armed)) \/ BattCheck
    <2>1. UNCHANGED <<sendMu, pending, up, down, gaveUp>>
      BY <1>5 DEF LinkCheck, BattCheck
    <2>2. UNCHANGED call \/ \E r \in Rescues :
             call[r].at = "idle"
             /\ call' = [call EXCEPT ![r] = Begin("failsafe", <<"rtl">>)]
      BY <1>5 DEF LinkCheck, BattCheck, Latch, Unlatch
    <2>3. CASE UNCHANGED call
      BY <2>1, <2>3, IdleStep
    <2>4. CASE \E r \in Rescues :
             call[r].at = "idle"
             /\ call' = [call EXCEPT ![r] = Begin("failsafe", <<"rtl">>)]
      <3>1. PICK r \in Rescues :
               call[r].at = "idle"
               /\ call' = [call EXCEPT ![r] = Begin("failsafe", <<"rtl">>)]
        BY <2>4
      <3> DEFINE c == Begin("failsafe", <<"rtl">>)
      <3>2. c.at = "ready" /\ c.todo # <<>>
        BY RescueBegins
      <3>3. r \in Procs /\ ~Holds(r)
        BY <3>1 DEF Procs, Holds
      <3> HIDE DEF c
      <3>4. QED
        BY <2>1, <3>1, <3>2, <3>3, BystanderStep DEF c
    <2>5. QED
      BY <2>2, <2>3, <2>4
  <1>6. CASE Herd
    <2>1. up' = Append(up, Pull) /\ Code(Pull.stage) \notin Codes
      BY <1>6, CodesAre DEF Herd, Pull, Code
    <2>2. QED
      BY <1>6, <2>1, IdleStep DEF Herd
  <1>7. CASE Hear
    BY <1>7, HearStep
  <1>8. CASE \E a \in down : Acknowledge(a)
    BY <1>8, AcknowledgeStep
  <1>9. QED
    BY <1>2, <1>3, <1>4, <1>5, <1>6, <1>7, <1>8 DEF Next

LEMMA StepAInv == AInv /\ [Next]_vars => AInv'
  <1> SUFFICES ASSUME AInv, [Next]_vars
               PROVE  AInv'
    OBVIOUS
  <1>1. TypeOK'
    BY NextTyped DEF AInv
  <1>2. Bundle'
    BY <1>1, StepBundle
  <1>3. QED
    BY <1>1, <1>2 DEF AInv, Bundle

LEMMA AInvariance == Spec => []AInv
  <1>1. QED
    BY InitAInv, StepAInv, PTL DEF Spec
--------------------------------------------------------------------------------
\* Every variable keeps its type, for any calls, rescues and bounds.
THEOREM TypeCorrect == Spec => []TypeOK
  <1>1. AInv => TypeOK
    BY DEF AInv
  <1>2. QED
    BY <1>1, AInvariance, PTL

\* A command takes the answer to its own write, unless some command of the same
\* MAV_CMD gave up before (sendCmd, deliverAck).
THEOREM AnswersAreOwn == Spec => []OwnAnswer
  <1>1. AInv => OwnAnswer
    BY DEF AInv
  <1>2. QED
    BY <1>1, AInvariance, PTL
--------------------------------------------------------------------------------
\* The failsafe.  What the steps of a call do to the rescues.
Started == \A r \in Rescues : call[r].at # "idle" => call'[r].at # "idle"

LEMMA CallShape ==
    ASSUME AInv, RescueShape, NEW p \in Procs, NEW c,
           call' = [call EXCEPT ![p] = c],
           p \in Rescues => /\ c.at # "idle"
                            /\ \/ c.at = "done"
                               \/ /\ Active(p)
                                  /\ c.kind = call[p].kind
                                  /\ c.todo = call[p].todo
    PROVE  RescueShape' /\ Started
  <1>1. call'[p] = c /\ \A q \in Procs \ {p} : call'[q] = call[q]
    BY DEF AInv, TypeOK
  <1>2. Rescues \subseteq Procs
    BY DEF Procs
  <1>3. QED
    BY <1>1, <1>2 DEF RescueShape, Started, Active

\* A rescue has one stage and never tries it again.
LEMMA RescueEnds ==
    ASSUME AInv, RescueShape, NEW p \in Rescues, Active(p),
           NEW ok, NEW c \in After(call[p], ok)
    PROVE  c.at = "done"
  <1>1. call[p] \in Call /\ call[p].kind = "failsafe" /\ call[p].todo = <<"rtl">>
    BY DEF AInv, TypeOK, RescueShape, Holds, Active, Procs
  <1>2. Len(call[p].todo) = 1
    BY <1>1
  <1>3. NextStage(call[p]) = Done
    BY <1>2 DEF NextStage
  <1>4. QED
    BY <1>1, <1>3, AfterIs, DoneTyped

LEMMA EndShape ==
    ASSUME AInv, RescueShape, NEW p \in Procs,
           TakeAnswer(p) \/ GiveUp(p) \/ Refuse(p)
    PROVE  RescueShape' /\ Started
  <1>1. Active(p)
    BY DEF Active, TakeAnswer, GiveUp, Refuse
  <1>2. PICK c : /\ call' = [call EXCEPT ![p] = c]
                 /\ p \in Rescues => c.at = "done"
    <2>1. CASE TakeAnswer(p)
      <3> DEFINE ok == call[p].got.ok
      <3>1. PICK c \in After(call[p], ok) : call' = [call EXCEPT ![p] = c]
        BY <2>1 DEF TakeAnswer
      <3> HIDE DEF ok
      <3>2. QED
        BY <1>1, <3>1, RescueEnds
    <2>2. CASE GiveUp(p) \/ Refuse(p)
      <3>1. PICK c \in After(call[p], FALSE) : call' = [call EXCEPT ![p] = c]
        BY <2>2 DEF GiveUp, Refuse
      <3>2. QED
        BY <1>1, <3>1, RescueEnds
    <2>3. QED
      BY <2>1, <2>2
  <1>3. QED
    BY <1>2, CallShape

LEMMA RunShape ==
    ASSUME AInv, RescueShape, NEW p \in Procs, Run(p)
    PROVE  RescueShape' /\ Started
  <1>0. call[p] \in Call
    BY DEF AInv, TypeOK
  <1>1. CASE Lock(p)
    <2> DEFINE c == [call[p] EXCEPT !.at = "holding", !.got = NoAck]
    <2>1. /\ call' = [call EXCEPT ![p] = c] /\ c.at = "holding" /\ Active(p)
          /\ c.kind = call[p].kind /\ c.todo = call[p].todo
      BY <1>0, <1>1 DEF Lock, AInv, TypeOK, Call, Active
    <2> HIDE DEF c
    <2>2. QED
      BY <2>1, CallShape
  <1>2. CASE Send(p)
    <2> DEFINE w == call[p].writes + 1
               c == [call[p] EXCEPT !.at = "waiting", !.writes = w]
    <2>1. /\ call' = [call EXCEPT ![p] = c] /\ c.at = "waiting" /\ Active(p)
          /\ c.kind = call[p].kind /\ c.todo = call[p].todo
      BY <1>0, <1>2 DEF Send, AInv, TypeOK, Call, Active
    <2> HIDE DEF c
    <2>2. QED
      BY <2>1, CallShape
  <1>3. CASE SendPosition(p)
    <2>1. call' = [call EXCEPT ![p] = Done] /\ Done.at = "done"
      BY <1>3, DoneTyped DEF SendPosition
    <2>2. QED
      BY <2>1, CallShape
  <1>4. CASE TakeAnswer(p) \/ GiveUp(p) \/ Refuse(p)
    BY <1>4, EndShape
  <1>5. CASE Expire(p)
    <2>1. p \notin Rescues
      BY <1>5, ProcAssumption DEF Expire
    <2> DEFINE c == [call[p] EXCEPT !.expired = TRUE]
    <2>2. call' = [call EXCEPT ![p] = c]
      BY <1>5 DEF Expire, AInv, TypeOK
    <2> HIDE DEF c
    <2>3. QED
      BY <2>1, <2>2, CallShape
  <1>6. QED
    BY <1>1, <1>2, <1>3, <1>4, <1>5 DEF Run

\* A step that leaves the link and the failsafe alone.
LEMMA CalmStep ==
    ASSUME AInv, FInv, RescueShape', Started,
           UNCHANGED <<up, link, batt, flight, current, rescued>>
    PROVE  FInv'
  <1>1. RescueWrites'
    BY DEF FInv, RescueWrites, Started, Owner
  <1>2. Latching' /\ Behind' /\ Prevails'
    BY DEF FInv, Latching, Behind, Prevails, Latched, Owner
  <1>3. QED
    BY <1>1, <1>2 DEF FInv

\* A write: what is guarded is written without a latch.
LEMMA AppendStep ==
    ASSUME AInv, FInv, RescueShape', Started, NEW m, up' = Append(up, m),
           UNCHANGED <<link, batt, flight, current, rescued>>,
           m.guarded => ~Latched,
           Owner(m) \in Rescues => /\ m.stage = "rtl" /\ ~m.guarded
                                  /\ call'[Owner(m)].at # "idle"
    PROVE  FInv'
  <1>1. \A i \in DOMAIN up' : \/ i \in DOMAIN up /\ up'[i] = up[i]
                              \/ i = Len(up) + 1 /\ up'[i] = m
    BY DEF AInv, TypeOK
  <1>2. \A i \in DOMAIN up' : i <= Len(up) + 1 /\ i \in Nat
    BY DEF AInv, TypeOK
  <1>3. RescueWrites'
    BY <1>1 DEF FInv, RescueWrites, Started, Owner
  <1>4. Latching'
    BY DEF FInv, Latching, Latched
  <1>5. Behind'
    <2>1. SUFFICES ASSUME NEW i \in DOMAIN up', NEW j \in DOMAIN up', i < j,
                          Owner(up'[i]) \in current, up'[j].guarded
                   PROVE  FALSE
      BY DEF Behind, Owner
    <2>2. i \in DOMAIN up /\ up'[i] = up[i]
      BY <1>1, <1>2, <2>1 DEF AInv, TypeOK
    <2>3. CASE j \in DOMAIN up /\ up'[j] = up[j]
      BY <2>1, <2>2, <2>3 DEF FInv, Behind, Owner
    <2>4. CASE up'[j] = m
      BY <2>1, <2>4 DEF FInv, Latching
    <2>5. QED
      BY <1>1, <2>3, <2>4
  <1>6. Prevails'
    BY <1>1 DEF FInv, Prevails, Latching
  <1>7. QED
    BY <1>3, <1>4, <1>5, <1>6 DEF FInv

LEMMA WriteStep ==
    ASSUME AInv, FInv, NEW p \in Procs, Send(p) \/ SendPosition(p)
    PROVE  FInv'
  <1> DEFINE m == [id |-> <<p, call[p].writes>>, stage |-> Stg(p),
                   guarded |-> IsGuarded(p)]
  <1>1. RescueShape' /\ Started
    BY RunShape DEF Run, FInv
  <1>2. up' = Append(up, m) /\ UNCHANGED <<link, batt, flight, current, rescued>>
    BY DEF Send, SendPosition, Write
  <1>3. m.guarded => ~Latched
    BY DEF Send, SendPosition, Refused
  <1>4. Owner(m) = p
    BY DEF Owner
  <1>5. p \in Rescues => /\ m.stage = "rtl" /\ ~m.guarded
                         /\ call'[p].at # "idle"
    <2>1. SUFFICES ASSUME p \in Rescues
                   PROVE  m.stage = "rtl" /\ ~m.guarded /\ call'[p].at # "idle"
      OBVIOUS
    <2>2. call[p].kind = "failsafe" /\ call[p].todo = <<"rtl">>
      BY <2>1 DEF FInv, RescueShape, Active, Send, SendPosition
    <2>a. Stg(p) = "rtl"
      BY <2>2 DEF Stg
    <2>b. ~IsGuarded(p)
      BY <2>2 DEF IsGuarded, Guarded
    <2>3. m.stage = "rtl" /\ ~m.guarded
      BY <2>a, <2>b
    <2>4. call'[p].at # "idle"
      BY <1>1, <2>1 DEF Started, Send, SendPosition
    <2>5. QED
      BY <2>3, <2>4
  <1> HIDE DEF m
  <1>6. QED
    BY <1>1, <1>2, <1>3, <1>4, <1>5, AppendStep

LEMMA LatchStep ==
    ASSUME AInv, FInv, UNCHANGED <<up, flight>>, Latched',
           UNCHANGED rescued,
           \/ UNCHANGED <<call, current>>
           \/ \E r \in Rescues :
                 /\ call[r].at = "idle"
                 /\ call' = [call EXCEPT ![r] = Begin("failsafe", <<"rtl">>)]
                 /\ current' = current \cup {r}
    PROVE  FInv'
  <1>1. Latching' /\ Prevails'
    BY DEF FInv, Latching, Prevails
  <1>2. CASE UNCHANGED <<call, current>>
    BY <1>1, <1>2 DEF FInv, RescueShape, RescueWrites, Behind, Owner, Active
  <1>3. CASE \E r \in Rescues :
                 /\ call[r].at = "idle"
                 /\ call' = [call EXCEPT ![r] = Begin("failsafe", <<"rtl">>)]
                 /\ current' = current \cup {r}
    <2>1. PICK r \in Rescues :
                 /\ call[r].at = "idle"
                 /\ call' = [call EXCEPT ![r] = Begin("failsafe", <<"rtl">>)]
                 /\ current' = current \cup {r}
      BY <1>3
    <2> DEFINE c == Begin("failsafe", <<"rtl">>)
    <2>2. c.at = "ready" /\ c.kind = "failsafe" /\ c.todo = <<"rtl">>
      BY RescueBegins
    <2>3. call' = [call EXCEPT ![r] = c]
      BY <2>1
    <2> HIDE DEF c
    <2>4. call'[r] = c /\ \A q \in Procs \ {r} : call'[q] = call[q]
      BY <2>3 DEF AInv, TypeOK, Procs
    <2>5. RescueShape'
      BY <2>2, <2>4 DEF FInv, RescueShape, Active, Procs
    <2>6. RescueWrites'
      BY <2>2, <2>4 DEF FInv, RescueWrites, Owner, Procs
    <2>7. \A i \in DOMAIN up : Owner(up[i]) # r
      BY <2>1 DEF FInv, RescueWrites
    <2>8. Behind'
      BY <2>1, <2>7 DEF FInv, Behind, Owner
    <2>9. QED
      BY <1>1, <2>5, <2>6, <2>8 DEF FInv
  <1>4. QED
    BY <1>2, <1>3

LEMMA FailsafeStep ==
    ASSUME AInv, FInv, (\E armed \in BOOLEAN : LinkCheck(armed)) \/ BattCheck
    PROVE  FInv'
  <1>1. UNCHANGED <<up, flight>>
    BY DEF LinkCheck, BattCheck
  <1>2. CASE \E armed \in BOOLEAN : Latched' /\ UNCHANGED rescued /\ Latch(armed)
    <2>1. Latched' /\ UNCHANGED rescued
      BY <1>2
    <2>2. \/ UNCHANGED <<call, current>>
          \/ \E r \in Rescues :
                 /\ call[r].at = "idle"
                 /\ call' = [call EXCEPT ![r] = Begin("failsafe", <<"rtl">>)]
                 /\ current' = current \cup {r}
      BY <1>2 DEF Latch
    <2>3. QED
      BY <1>1, <2>1, <2>2, LatchStep
  <1>3. CASE Unlatch
    <2>1. /\ current' \subseteq current
          /\ rescued' => rescued /\ Latched'
          /\ current' # {} => Latched'
          /\ UNCHANGED call
      BY <1>3 DEF Unlatch
    <2>2. RescueShape' /\ RescueWrites' /\ Latching' /\ Prevails'
      BY <1>1, <2>1 DEF FInv, RescueShape, RescueWrites, Latching, Prevails,
                        Owner, Active
    <2>3. Behind'
      BY <1>1, <2>1 DEF FInv, Behind, Owner
    <2>4. QED
      BY <2>2, <2>3 DEF FInv
  <1>4. QED
    BY <1>2, <1>3 DEF LinkCheck, BattCheck, Latched

\* What the flight controller takes off the link.
LEMMA HeardStep ==
    ASSUME AInv, FInv, Hear
    PROVE  FInv'
  <1> DEFINE m == Head(up)
  <1>1. /\ 1 \in DOMAIN up /\ m = up[1]
        /\ \A i \in DOMAIN up' : i + 1 \in DOMAIN up /\ up'[i] = up[i + 1]
        /\ \A i \in DOMAIN up' : i \in Nat /\ 1 < i + 1
    BY TailTyped DEF AInv, TypeOK, Hear
  <1>2. UNCHANGED <<call, current, link, batt>>
    BY DEF Hear
  <1>3. UNCHANGED <<flight, rescued>> \/ Obey(m)
    BY DEF Hear
  <1>4. m.stage \in Stage
    BY <1>1 DEF AInv, TypeOK, Message, Pull, Stage
  <1> HIDE DEF m
  <1>5. RescueShape' /\ RescueWrites'
    BY <1>1, <1>2 DEF FInv, RescueShape, RescueWrites, Owner, Active
  <1>6. Behind'
    <2>1. SUFFICES ASSUME NEW i \in DOMAIN up', NEW j \in DOMAIN up', i < j,
                          Owner(up'[i]) \in current, up'[j].guarded
                   PROVE  FALSE
      BY <1>2 DEF Behind, Owner
    <2>2. i + 1 < j + 1 /\ Owner(up[i + 1]) \in current /\ up[j + 1].guarded
      BY <1>1, <2>1
    <2>3. QED
      BY <1>1, <2>1, <2>2 DEF FInv, Behind
  <1>7. CASE UNCHANGED <<flight, rescued>>
    BY <1>1, <1>2, <1>5, <1>6, <1>7 DEF FInv, Latching, Prevails, Latched
  <1>8. CASE Obey(m) /\ Owner(m) \in current
    <2>1. Latching'
      BY <1>2, <1>8 DEF FInv, Latching, Latched
    <2>2. m.stage = "rtl"
      BY <1>1, <1>8 DEF FInv, RescueWrites, AInv, TypeOK
    <2>3. \A i \in DOMAIN up' : ~up'[i].guarded
      BY <1>1, <1>8 DEF FInv, Behind
    <2>4. flight' = "rtl"
      BY <1>8, <2>2 DEF Obey, Flown
    <2>5. QED
      BY <1>5, <1>6, <2>1, <2>3, <2>4 DEF FInv, Prevails
  <1>9. CASE Obey(m) /\ Owner(m) \notin current
    <2>1. rescued' => rescued /\ ~TakesOver(m)
      BY <1>9 DEF Obey
    <2>2. Latching'
      BY <1>2, <2>1 DEF FInv, Latching, Latched
    <2>3. ASSUME rescued' PROVE flight' = "rtl" /\ \A i \in DOMAIN up' : ~up'[i].guarded
      <3>1. flight = "rtl" /\ \A i \in DOMAIN up : ~up[i].guarded
        BY <2>1, <2>3 DEF FInv, Prevails
      <3>2. m.stage \notin {"mode", "rtl", "land", "disarm", "kill"}
        BY <1>1, <2>1, <2>3, <3>1 DEF TakesOver
      <3>3. flight' = "rtl"
        BY <1>9, <3>1, <3>2 DEF Obey, Flown
      <3>4. QED
        BY <1>1, <3>1, <3>3
    <2>4. QED
      BY <1>5, <1>6, <2>2, <2>3 DEF FInv, Prevails
  <1>10. QED
    BY <1>3, <1>7, <1>8, <1>9

LEMMA InitFInv == Init => FInv
  <1> SUFFICES ASSUME Init PROVE FInv
    OBVIOUS
  <1>1. \A p \in Procs : call[p].at = "idle"
    BY DoneTyped DEF Init
  <1>2. DOMAIN up = {}
    BY DEF Init
  <1>3. QED
    BY <1>1, <1>2 DEF Init, FInv, RescueShape, RescueWrites, Latching, Behind,
                      Prevails, Active, Procs

LEMMA StepFInv ==
    ASSUME AInv, FInv, [Next]_vars
    PROVE  FInv'
  <1>1. CASE UNCHANGED vars
    BY <1>1 DEF vars, FInv, RescueShape, RescueWrites, Latching, Behind, Prevails,
                Latched, Owner, Active
  <1>2. CASE \E p \in Calls, k \in Kinds : Start(p, k)
    <2>1. PICK p \in Calls, k \in Kinds : Start(p, k)
      BY <1>2
    <2>2. p \in Procs /\ p \notin Rescues
      BY ProcAssumption DEF Procs
    <2>3. \E c : call' = [call EXCEPT ![p] = c]
      BY <2>1 DEF Start
    <2>4. RescueShape' /\ Started
      BY <2>2, <2>3, CallShape DEF FInv
    <2>5. QED
      BY <2>1, <2>4, CalmStep DEF Start
  <1>3. CASE \E p \in Procs : Run(p)
    <2>1. PICK p \in Procs : Run(p)
      BY <1>3
    <2>2. RescueShape' /\ Started
      BY <2>1, RunShape DEF FInv
    <2>3. CASE Send(p) \/ SendPosition(p)
      BY <2>3, WriteStep
    <2>4. CASE Lock(p) \/ Refuse(p) \/ TakeAnswer(p) \/ GiveUp(p) \/ Expire(p)
      <3>1. UNCHANGED <<up, link, batt, flight, current, rescued>>
        BY <2>4 DEF Lock, Refuse, TakeAnswer, GiveUp, Expire
      <3>2. QED
        BY <2>2, <3>1, CalmStep
    <2>5. QED
      BY <2>1, <2>3, <2>4 DEF Run
  <1>4. CASE (\E armed \in BOOLEAN : LinkCheck(armed)) \/ BattCheck
    BY <1>4, FailsafeStep
  <1>5. CASE Herd
    <2>1. RescueShape' /\ Started
      BY <1>5 DEF Herd, FInv, RescueShape, Started, Active
    <2>2. Owner(Pull) \notin Rescues /\ ~Pull.guarded
      BY Ids DEF Owner, Pull, Procs
    <2>3. up' = Append(up, Pull) /\ UNCHANGED <<link, batt, flight, current, rescued>>
      BY <1>5 DEF Herd
    <2>4. QED
      BY <2>1, <2>2, <2>3, AppendStep
  <1>6. CASE Hear
    BY <1>6, HeardStep
  <1>7. CASE \E a \in down : Acknowledge(a)
    <2>1. \A r \in Procs : /\ call'[r].at = call[r].at
                           /\ call'[r].kind = call[r].kind
                           /\ call'[r].todo = call[r].todo
      <3>1. PICK a \in down : Acknowledge(a)
        BY <1>7
      <3>2. CASE UNCHANGED call
        BY <3>2
      <3>3. CASE call' = [call EXCEPT ![pending[a.code]].got = a]
        BY <3>3 DEF AInv, TypeOK, Call
      <3>4. QED
        BY <3>1, <3>2, <3>3 DEF Acknowledge, Deliver
    <2>2. RescueShape' /\ Started
      BY <2>1 DEF FInv, RescueShape, Started, Active, Procs
    <2>3. QED
      BY <1>7, <2>2, CalmStep DEF Acknowledge
  <1>8. QED
    BY <1>1, <1>2, <1>3, <1>4, <1>5, <1>6, <1>7 DEF Next

\* Nothing automatic takes the aircraft out of the failsafe's RTL
\* (DoIfFailsafeInactive, guardedSend, failsafeTick).
THEOREM FailsafeWins == Spec => []FailsafePrevails
  <1>1. Init => FInv
    BY InitFInv
  <1>2. AInv /\ FInv /\ [Next]_vars => FInv'
    BY StepFInv
  <1>3. FInv => FailsafePrevails
    BY DEF FInv, Prevails, FailsafePrevails
  <1>4. QED
    BY <1>1, <1>2, <1>3, AInvariance, PTL DEF Spec
--------------------------------------------------------------------------------
\* One outstanding command: the channel of the holder's own MAV_CMD is its own.
Registered == sendMu # None => pending[Code(Stg(sendMu))] = sendMu

\* What a step does to one call.  It began, took a step of its own, received an
\* answer, or is as it was.
Advanced(q) ==
    \/ call'[q] = call[q]
    \/ call[q].at = "idle" /\ call'[q].at \in {"ready", "done"}
    \/ Run(q)
    \/ \E a \in Ack : call'[q] = [call[q] EXCEPT !.got = a]

LEMMA OtherCalls ==
    ASSUME AInv, NEW p \in Procs, Run(p), NEW q \in Procs, q # p
    PROVE  call'[q] = call[q]
  BY DEF AInv, TypeOK, Run, Lock, Send, SendPosition, Refuse, TakeAnswer, GiveUp,
         Expire

LEMMA CallsAdvance ==
    ASSUME AInv, [Next]_vars, NEW q \in Procs
    PROVE  Advanced(q)
  <1>1. CASE UNCHANGED vars
    BY <1>1 DEF vars, Advanced
  <1>2. CASE \E p \in Calls, k \in Kinds : Start(p, k)
    <2>1. PICK p \in Calls, k \in Kinds : Start(p, k)
      BY <1>2
    <2>2. PICK todo \in Seq(Stage) : call' = [call EXCEPT ![p] = Begin(k, todo)]
      <3>1. <<>> \in Seq(Stage) /\ k \in AllKinds
        BY KindAssumption
      <3>2. QED
        BY <2>1, <3>1, StagesTyped DEF Start
    <2>3. Begin(k, todo).at \in {"ready", "done"}
      BY BeginTyped, KindAssumption
    <2>4. call[p].at = "idle"
      BY <2>1 DEF Start
    <2>5. QED
      BY <2>2, <2>3, <2>4 DEF Advanced, AInv, TypeOK
  <1>3. CASE \E p \in Procs : Run(p)
    BY <1>3, OtherCalls DEF Advanced
  <1>4. CASE (\E armed \in BOOLEAN : LinkCheck(armed)) \/ BattCheck
    <2>1. UNCHANGED call \/ \E r \in Rescues :
             /\ call[r].at = "idle"
             /\ call' = [call EXCEPT ![r] = Begin("failsafe", <<"rtl">>)]
      BY <1>4 DEF LinkCheck, BattCheck, Latch, Unlatch
    <2>2. Begin("failsafe", <<"rtl">>).at = "ready"
      BY RescueBegins
    <2>3. QED
      BY <2>1, <2>2 DEF Advanced, AInv, TypeOK
  <1>5. CASE Herd \/ Hear
    BY <1>5 DEF Herd, Hear, Advanced
  <1>6. CASE \E a \in down : Acknowledge(a)
    <2>1. PICK a \in down : Acknowledge(a)
      BY <1>6
    <2>2. UNCHANGED call \/ \E p : call' = [call EXCEPT ![p].got = a]
      BY <2>1 DEF Acknowledge, Deliver
    <2>3. a \in Ack
      BY DEF AInv, TypeOK
    <2>4. QED
      BY <2>2, <2>3 DEF Advanced, AInv, TypeOK
  <1>7. QED
    BY <1>1, <1>2, <1>3, <1>4, <1>5, <1>6 DEF Next

\* Only the steps of the holder touch the channels and its stage.
LEMMA StepRegistered ==
    ASSUME AInv, Registered, [Next]_vars
    PROVE  Registered'
  <1>1. CASE \E p \in Procs : Run(p)
    <2>1. PICK p \in Procs : Run(p)
      BY <1>1
    <2>2. CASE Lock(p)
      <3>1. sendMu' = p /\ pending' = [pending EXCEPT ![Code(Stg(p))] = p]
        BY <2>2 DEF Lock
      <3>2. Code(Stg(p)) \in Codes
        BY <2>2, CodesAre DEF Lock
      <3>3. call'[p].todo = call[p].todo
        BY <2>2 DEF Lock, AInv, TypeOK, Call
      <3>4. QED
        BY <3>1, <3>2, <3>3 DEF Registered, AInv, TypeOK, Stg
    <2>3. CASE sendMu' = None
      BY <2>3 DEF Registered
    <2>4. CASE Send(p) \/ Expire(p)
      <3>1. \A q \in Procs : call'[q].todo = call[q].todo
        <4>1. call'[p].todo = call[p].todo
          BY <2>4 DEF Send, Expire, AInv, TypeOK, Call
        <4>2. QED
          BY <2>1, <4>1, OtherCalls
      <3>2. UNCHANGED <<sendMu, pending>>
        BY <2>4 DEF Send, Expire
      <3>3. QED
        BY <3>1, <3>2 DEF Registered, AInv, TypeOK, Stg
    <2>5. CASE /\ call[p].at = "ready" /\ UNCHANGED <<sendMu, pending>>
               /\ SendPosition(p) \/ Refuse(p)
      <3>1. sendMu # p
        BY <2>5 DEF AInv, Mutex, Holds
      <3>2. \A q \in Procs : q # p => call'[q] = call[q]
        BY <2>1, OtherCalls
      <3>3. QED
        BY <2>5, <3>1, <3>2 DEF Registered, AInv, TypeOK, Stg
    <2>6. QED
      BY <2>1, <2>2, <2>3, <2>4, <2>5
         DEF Run, SendPosition, Refuse, TakeAnswer, GiveUp, Release
  <1>2. CASE ~\E p \in Procs : Run(p)
    <2>1. UNCHANGED <<sendMu, pending>>
      BY <1>2 DEF Next, vars, Start, LinkCheck, BattCheck, Herd, Hear, Acknowledge
    <2>2. SUFFICES ASSUME sendMu # None
                   PROVE  call'[sendMu].todo = call[sendMu].todo
      BY <2>1 DEF Registered, Stg
    <2>3. sendMu \in Procs /\ call[sendMu].at # "idle" /\ call[sendMu] \in Call
      BY <2>2 DEF AInv, TypeOK, Mutex, Holds
    <2>4. QED
      BY <1>2, <2>3, CallsAdvance DEF Advanced, Call
  <1>3. QED
    BY <1>1, <1>2

\* At most one command is between its lock and its return; the only channel
\* registered is its own (sendCmd: "one outstanding ACK at a time").
THEOREM OneCommandAtATime == Spec => []OneOutstanding
  <1>1. Init => Registered
    BY DEF Init, Registered
  <1>2. AInv /\ Registered /\ [Next]_vars => Registered'
    BY StepRegistered
  <1>3. AInv /\ Registered => OneOutstanding
    BY Ids DEF AInv, TypeOK, Registered, Mutex, Channels, OneOutstanding, Holds
  <1>4. QED
    BY <1>1, <1>2, <1>3, AInvariance, PTL DEF Spec
--------------------------------------------------------------------------------
\* Progress.  What is left of the call c.
Rank(at) == CASE at = "ready" -> 3 [] at = "holding" -> 2 [] OTHER -> 1
Timer(c) == IF c.expired THEN 0 ELSE 1
LeftOf(c) ==
    IF c.at = "done" THEN 0
    ELSE 8 * (Len(c.todo) + Retries - c.retries) + 2 * Rank(c.at) + Timer(c)

LEMMA LeftIs == \A p \in Procs : Left(p) = LeftOf(call[p])
  BY DEF Left, LeftOf, Rank, Timer

\* What is left is a number, and more than nothing before the end.
LEMMA SomethingLeft ==
    ASSUME NEW c \in Call, c.todo # <<>>
    PROVE  /\ Len(c.todo) + Retries - c.retries \in Nat \ {0}
           /\ LeftOf(c) \in Nat
           /\ c.at # "done" => LeftOf(c) > 0
  <1>1. Len(c.todo) \in Nat \ {0} /\ c.retries \in 0 .. Retries
    BY DEF Call
  <1> DEFINE m == Len(c.todo) + Retries - c.retries
  <1>2. m \in Nat \ {0}
    BY <1>1, BoundAssumption
  <1>3. Rank(c.at) \in 1 .. 3 /\ Timer(c) \in 0 .. 1
    BY DEF Rank, Timer
  <1> HIDE DEF m
  <1>4. 8 * m + 2 * Rank(c.at) + Timer(c) \in Nat
        /\ 8 * m + 2 * Rank(c.at) + Timer(c) > 0
    BY <1>2, <1>3
  <1>5. QED
    BY <1>2, <1>4 DEF LeftOf, m

\* A stage or an attempt less outweighs the steps of the next one.
LEMMA FewerStages ==
    ASSUME NEW c \in Call, NEW d \in Call, c.todo # <<>>, d.todo # <<>>,
           c.at # "done", d.at = "ready",
           Len(d.todo) - d.retries = Len(c.todo) - c.retries - 1
    PROVE  LeftOf(d) < LeftOf(c)
  <1> DEFINE m == Len(c.todo) + Retries - c.retries
             n == Len(d.todo) + Retries - d.retries
  <1>1. m \in Nat /\ n \in Nat
    BY SomethingLeft
  <1>2. n = m - 1
    <2>1. /\ Len(c.todo) \in Nat /\ Len(d.todo) \in Nat
          /\ c.retries \in Nat /\ d.retries \in Nat /\ Retries \in Nat
      BY BoundAssumption DEF Call
    <2>2. PICK i \in Nat, j \in Nat, k \in Nat, l \in Nat, r \in Nat :
             /\ i = Len(d.todo) /\ j = d.retries /\ k = Len(c.todo)
             /\ l = c.retries /\ r = Retries
      BY <2>1
    <2>3. i - j = k - l - 1
      BY <2>2
    <2>4. i + r - j = k + r - l - 1
      BY <2>3
    <2>5. n = i + r - j /\ m = k + r - l
      BY <2>2
    <2> HIDE DEF m, n
    <2>6. QED
      BY <2>4, <2>5
  <1>3. Rank(c.at) >= 1 /\ Timer(c) >= 0 /\ Rank(d.at) = 3 /\ Timer(d) <= 1
        /\ Rank(c.at) \in Nat /\ Timer(c) \in Nat /\ Timer(d) \in Nat
    BY DEF Rank, Timer
  <1>4. /\ LeftOf(c) = 8 * m + 2 * Rank(c.at) + Timer(c)
        /\ LeftOf(d) = 8 * n + 2 * Rank(d.at) + Timer(d)
    BY DEF LeftOf
  <1> HIDE DEF m, n
  <1>5. QED
    BY <1>1, <1>2, <1>3, <1>4

\* Within a stage, the steps of sendCmd and the timer.
LEMMA FewerSteps ==
    ASSUME NEW c \in Call, NEW d \in Call, c.todo # <<>>, d.todo = c.todo,
           d.retries = c.retries, c.at # "done", d.at # "done",
           2 * Rank(d.at) + Timer(d) < 2 * Rank(c.at) + Timer(c)
    PROVE  LeftOf(d) < LeftOf(c)
  <1> DEFINE m == Len(c.todo) + Retries - c.retries
  <1>1. m \in Nat
    BY SomethingLeft
  <1>2. /\ Rank(c.at) \in Nat /\ Timer(c) \in Nat
        /\ Rank(d.at) \in Nat /\ Timer(d) \in Nat
    BY DEF Rank, Timer
  <1>3. /\ LeftOf(c) = 8 * m + 2 * Rank(c.at) + Timer(c)
        /\ LeftOf(d) = 8 * m + 2 * Rank(d.at) + Timer(d)
    BY DEF LeftOf
  <1> HIDE DEF m
  <1>4. QED
    BY <1>1, <1>2, <1>3

\* Every outcome of a stage.
LEMMA AfterIsNearer ==
    ASSUME NEW c \in Call, c.todo # <<>>, c.at # "done",
           NEW ok, NEW d \in After(c, ok)
    PROVE  LeftOf(d) < LeftOf(c)
  <1>1. CASE d = Done
    BY <1>1, SomethingLeft, DoneTyped DEF LeftOf
  <1>2. CASE d = NextStage(c) /\ d # Done
    <2> DEFINE t == Tail(c.todo)
    <2>1. c.todo \in Seq(Stage) /\ Len(c.todo) # 1
      BY <1>2 DEF Call, NextStage
    <2>2. t \in Seq(Stage) /\ t # <<>> /\ Len(t) = Len(c.todo) - 1
      BY <2>1, TailTyped, TailLeft
    <2>3. d = [c EXCEPT !.at = "ready", !.todo = t, !.expired = FALSE]
      BY <1>2, <2>1 DEF NextStage
    <2> HIDE DEF t
    <2>4. d.at = "ready" /\ d.todo = t /\ d.retries = c.retries
      BY <2>3 DEF Call
    <2>5. d \in Call
      BY <1>2, NextStageTyped
    <2>6. Len(d.todo) - d.retries = Len(c.todo) - c.retries - 1
      BY <2>1, <2>2, <2>4 DEF Call
    <2>7. QED
      BY <2>2, <2>4, <2>5, <2>6, FewerStages
  <1>3. CASE /\ c.retries < Retries
             /\ d = [c EXCEPT !.at = "ready", !.retries = c.retries + 1,
                              !.expired = FALSE]
    <2>1. c.retries + 1 \in 0 .. Retries
      BY <1>3, BoundAssumption DEF Call
    <2>2. d \in Call /\ d.at = "ready" /\ d.todo = c.todo
          /\ d.retries = c.retries + 1
      BY <1>3, <2>1 DEF Call
    <2>3. Len(d.todo) - d.retries = Len(c.todo) - c.retries - 1
      BY <2>2, BoundAssumption DEF Call
    <2>4. QED
      BY <2>2, <2>3, FewerStages
  <1>4. QED
    BY <1>1, <1>2, <1>3 DEF After

LEMMA RunIsNearer ==
    ASSUME AInv, NEW p \in Procs, Run(p)
    PROVE  Left(p)' < Left(p)
  <1> DEFINE c == call[p]
             d == call'[p]
  <1>1. c \in Call /\ d \in Call /\ c.at # "done" /\ c.todo # <<>>
    <2>1. Active(p)
      BY DEF Run, Lock, Send, SendPosition, Refuse, TakeAnswer, GiveUp, Expire, Active
    <2>2. TypeOK'
      BY RunTyped DEF AInv
    <2>3. QED
      BY <2>1, <2>2 DEF AInv, TypeOK, Shape, Active
  <1>2. SUFFICES LeftOf(d) < LeftOf(c)
    BY DEF Left, LeftOf, Rank, Timer
  <1>3. CASE d = Done
    BY <1>1, <1>3, SomethingLeft, DoneTyped DEF LeftOf
  <1>4. CASE Lock(p)
    <2>1. /\ c.at = "ready" /\ d.at = "holding" /\ d.todo = c.todo
          /\ d.retries = c.retries /\ d.expired = c.expired
      BY <1>4 DEF Lock, AInv, TypeOK, Call
    <2> HIDE DEF c, d
    <2>2. QED
      BY <1>1, <2>1, FewerSteps DEF Rank, Timer
  <1>5. CASE Send(p)
    <2>1. /\ c.at = "holding" /\ d.at = "waiting" /\ d.todo = c.todo
          /\ d.retries = c.retries /\ d.expired = c.expired
      BY <1>5 DEF Send, AInv, TypeOK, Call
    <2> HIDE DEF c, d
    <2>2. QED
      BY <1>1, <2>1, FewerSteps DEF Rank, Timer
  <1>6. CASE Expire(p)
    <2>1. /\ d.at = c.at /\ d.todo = c.todo /\ d.retries = c.retries
          /\ d.expired /\ ~c.expired
      BY <1>6 DEF Expire, AInv, TypeOK, Call
    <2> HIDE DEF c, d
    <2>2. QED
      BY <1>1, <2>1, FewerSteps DEF Rank, Timer
  <1>7. CASE TakeAnswer(p) \/ GiveUp(p) \/ Refuse(p)
    <2>1. \E ok : d \in After(c, ok)
      BY <1>7 DEF TakeAnswer, GiveUp, Refuse, AInv, TypeOK
    <2> HIDE DEF c, d
    <2>2. QED
      BY <1>1, <2>1, AfterIsNearer
  <1>8. d = Done \/ Lock(p) \/ Send(p) \/ Expire(p) \/ TakeAnswer(p) \/ GiveUp(p)
        \/ Refuse(p)
    BY DEF Run, SendPosition, AInv, TypeOK
  <1>9. QED
    BY <1>3, <1>4, <1>5, <1>6, <1>7, <1>8

\* A call under way has something left, whatever happens to it.
LEMMA StepIsNearer ==
    ASSUME AInv, [Next]_vars, NEW p \in Procs, call[p].at # "idle"
    PROVE  Left(p)' <= Left(p) /\ (Run(p) => Left(p)' < Left(p))
  <1> DEFINE c == call[p]
             d == call'[p]
  <1>1. Left(p) = LeftOf(c) /\ Left(p)' = LeftOf(d)
    BY DEF Left, LeftOf, Rank, Timer
  <1>2. c \in Call
    BY DEF AInv, TypeOK
  <1>3. LeftOf(c) \in Nat
    <2>1. CASE c.at = "done"
      BY <2>1 DEF LeftOf
    <2>2. CASE c.at # "done"
      BY <1>2, <2>2, SomethingLeft DEF AInv, Shape, Active, Call
    <2>3. QED
      BY <2>1, <2>2
  <1>4. CASE Run(p)
    <2>1. Left(p)' < Left(p)
      BY <1>4, RunIsNearer
    <2>2. LeftOf(d) \in Int
      <3>1. d \in Call
        BY <1>4, RunTyped DEF AInv, TypeOK
      <3> HIDE DEF d
      <3> DEFINE m == Len(d.todo) + Retries - d.retries
      <3>2. m \in Int
        BY <3>1, BoundAssumption DEF Call
      <3>3. Rank(d.at) \in Int /\ Timer(d) \in Int
        BY DEF Rank, Timer
      <3>4. LeftOf(d) = 0 \/ LeftOf(d) = 8 * m + 2 * Rank(d.at) + Timer(d)
        BY DEF LeftOf
      <3> HIDE DEF m
      <3>5. QED
        BY <3>2, <3>3, <3>4
    <2>3. QED
      BY <1>1, <1>3, <2>1, <2>2
  <1>5. CASE ~Run(p)
    <2>1. d = c \/ \E a \in Ack : d = [c EXCEPT !.got = a]
      BY <1>5, CallsAdvance DEF Advanced
    <2>2. d.at = c.at /\ d.todo = c.todo /\ d.retries = c.retries
          /\ d.expired = c.expired
      BY <1>2, <2>1 DEF Call
    <2>3. LeftOf(d) = LeftOf(c)
      BY <2>2 DEF LeftOf, Rank, Timer
    <2>4. QED
      BY <1>1, <1>3, <1>5, <2>3
  <1>6. QED
    BY <1>4, <1>5

\* The steps of a command bring it nearer to its end, those of everybody else do
\* not set it back (sendCmd, Takeoff's retries, deliverAck, failsafeTick).
THEOREM EveryStepIsNearer == Spec => NearerTheEnd
  <1>1. AInv /\ [Next]_vars =>
        [\A p \in Procs : call[p].at # "idle" =>
           /\ Left(p)' <= Left(p)
           /\ Run(p) => Left(p)' < Left(p)]_vars
    BY StepIsNearer
  <1>2. QED
    BY <1>1, AInvariance, PTL DEF Spec, NearerTheEnd
=============================================================================
