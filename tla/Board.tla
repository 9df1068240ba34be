------------------------------- MODULE Board -------------------------------
(***************************************************************************)
(* The outputs of the car and who writes them: the brakes and the rear     *)
(* lamp on port P02, the directions and the buzzer on P10, the duty of the *)
(* two PWM channels (BSW/Service/motor.c, ledport.c, buzzerport.c,         *)
(* BSW/MCAL/gtm_atom_pwm.c, gpt12.c).                                      *)
(*                                                                         *)
(* A call is the sequence of its writes.  The foreground loop makes them   *)
(* one by one, and each in two halves: a port bit is changed in a copy of  *)
(* the port that is written back, a duty goes through the configuration of *)
(* its channel.  An interrupt makes all of its writes at once, between two *)
(* steps of the loop.  Delays only let interrupts in, which may come       *)
(* anywhere.  The turn signals on P13 and their blinking are left out.     *)
(***************************************************************************)
EXTENDS Integers, Sequences, FiniteSetsExt

CONSTANTS
  Dirs,         \* directions of the drive commands
  Duties,       \* duties of the drive commands
  FoundTick     \* parkingFoundTick: measurements in a row that make a gap

ASSUME BoardAssumption ==
  /\ Dirs \subseteq 0..255
  /\ Duties \subseteq 0..1000
  /\ FoundTick \in Nat \ {0}

VARIABLES
  out,         \* what is put out: the pins, the duties, and the enable bit of
               \* the beeper's interrupt
  cfg,         \* the configurations of the PWM channels
  todo,        \* the calls the loop has still to make
  writes,      \* the writes left of the one it is in
  half, held,  \* is it between the halves of a write, and the port it has read
  task,        \* what the loop is in: "drive", "warn", "park"
  parkStep,    \* position in autoPark
  curTick,     \* measurements in a row that found room
  room, wall,  \* what the left and the rear measurement would show
  asked,       \* history: the movement asked for last
  motor,       \* history: the loop was last in a call of the motor
  crossed      \* history: what the last command crossed

callVars == <<todo, writes, half, held, motor>>
motorVars == <<out, cfg, callVars, asked, crossed>>
parkVars == <<task, parkStep, curTick>>
sensorVars == <<room, wall>>
vars == <<motorVars, parkVars, sensorVars>>

---------------------------------------------------------------------------
(* Outputs and writes.                                                     *)

P02 == {"brakeA", "brakeB", "rear"}
P10 == {"dirA", "dirB", "buzzer"}
Pins == P02 \cup P10
Port(pin) == IF pin \in P02 THEN P02 ELSE P10
Channels == {"dutyA", "dutyB"}
Enable == "sre"
Outputs == Pins \cup Channels \cup {Enable}

STOP == 5
PARKING_SPEED == 350
ROTATE_SPEED == 1000

Set(output, v) == [to |-> output, v |-> v]

\* What is left in an output after the writes: the last of them to it.
Left(ws, output, old) ==
  LET to == {i \in DOMAIN ws : ws[i].to = output}
  IN  IF to = {} THEN old ELSE ws[Max(to)].v

\* Writes made without interruption.
After(o, ws) == [x \in DOMAIN o |-> Left(ws, x, o[x])]

---------------------------------------------------------------------------
(* Calls: whether the motor is called, the movement that is asked of the   *)
(* left (A) and the right (B) wheel, positive is forward, and the writes.  *)

MotorCall(move, ws) == [motor |-> TRUE, move |-> move, writes |-> ws]
OtherCall(ws) == [motor |-> FALSE, move |-> <<0, 0>>, writes |-> ws]

Brake == [A |-> "brakeA", B |-> "brakeB"]
DirOf == [A |-> "dirA", B |-> "dirB"]
Duty == [A |-> "dutyA", B |-> "dutyB"]

\* (Mistakes: the duty is not taken back; channel B turns the pin of A.)
StopBrakesOnly == <<Set("brakeA", 1), Set("brakeB", 1)>>
MovSamePin(ch, duty, dir) ==
  <<Set(Duty[ch], duty), Set("dirA", dir), Set(Brake[ch], 0)>>

StopWrites ==
  <<Set("brakeA", 1), Set("brakeB", 1), Set("dutyA", 0), Set("dutyB", 0)>>
MovChPwm(ch, duty, dir) ==
  <<Set(Duty[ch], duty), Set(DirOf[ch], dir), Set(Brake[ch], 0)>>
StopCh(ch) == <<Set(Brake[ch], 1)>>
MoveStraight(duty, dir) ==
  <<Set("dirA", dir), Set("dirB", dir), Set("brakeA", 0), Set("brakeB", 0),
    Set("dutyA", duty), Set("dutyB", duty)>>

motorStop == MotorCall(<<0, 0>>, StopWrites)
motorMoveForward(duty) == MotorCall(<<duty, duty>>, MoveStraight(duty, 1))
motorMoveReverse(duty) == MotorCall(<<-duty, -duty>>, MoveStraight(duty, 0))

ledStopAll == OtherCall(<<Set("rear", 0)>>)
ledTurn == OtherCall(<<>>)   \* one turn signal on, the other off: on P13
buzzerOn == Set("buzzer", 1)
buzzerOff == Set("buzzer", 0)
emergencyBuzzer == OtherCall(<<buzzerOn, buzzerOff, buzzerOn, buzzerOff>>)

\* What a direction and a duty ask for, as the comments of control.c say it.
Movement(dir, duty) ==
  CASE dir = 8 -> <<duty, duty>>
    [] dir = 2 -> <<-duty, -duty>>
    [] dir = 4 -> <<-duty, duty>>
    [] dir = 6 -> <<duty, -duty>>
    [] dir = 7 -> <<duty \div 3, duty>>
    [] dir = 9 -> <<duty, duty \div 3>>
    [] dir = 1 -> <<0, -duty>>
    [] dir = 3 -> <<-duty, 0>>

\* (A mistake: the inner wheel turns faster instead of slower.)
InnerFaster(duty) == duty * 3

\* The duty of the inner wheel in a turn.
InnerDuty(duty) == duty \div 3

DriveWrites(dir, duty) ==
  CASE dir = 8 -> MovChPwm("A", duty, 1) \o MovChPwm("B", duty, 1)
    [] dir = 2 -> MovChPwm("A", duty, 0) \o MovChPwm("B", duty, 0)
    [] dir = 4 -> MovChPwm("A", duty, 0) \o MovChPwm("B", duty, 1)
    [] dir = 6 -> MovChPwm("A", duty, 1) \o MovChPwm("B", duty, 0)
    [] dir = 7 -> MovChPwm("B", duty, 1) \o MovChPwm("A", InnerDuty(duty), 1)
    [] dir = 9 -> MovChPwm("A", duty, 1) \o MovChPwm("B", InnerDuty(duty), 1)
    [] dir = 1 -> MovChPwm("B", duty, 0) \o StopCh("A")
    [] dir = 3 -> MovChPwm("A", duty, 0) \o StopCh("B")

\* motorRunCommand: a call of the motor and one of the lamps; in some
\* directions the lamps come first.
Stops(dir, duty) == dir \notin (1..9) \ {STOP} \/ duty = 0
Straight == {1, 2, 3, 8}
MotorPart(dir, duty) ==
  IF Stops(dir, duty) THEN motorStop
  ELSE MotorCall(Movement(dir, duty), DriveWrites(dir, duty))
LampPart(dir, duty) ==
  IF Stops(dir, duty) \/ dir \in Straight THEN ledStopAll ELSE ledTurn
motorRunCommand(dir, duty) ==
  IF ~Stops(dir, duty) /\ dir \in Straight
    THEN <<LampPart(dir, duty), MotorPart(dir, duty)>>
    ELSE <<MotorPart(dir, duty), LampPart(dir, duty)>>

---------------------------------------------------------------------------
NoCopy == [pin \in {} |-> 0]

Init ==
  /\ out = [x \in Outputs |-> 0] /\ cfg = [ch \in Channels |-> 0]
  /\ todo = <<>> /\ writes = <<>> /\ half = FALSE /\ held = NoCopy
  /\ task = "drive" /\ parkStep = 0 /\ curTick = 0
  /\ room \in BOOLEAN /\ wall \in BOOLEAN
  /\ asked = <<0, 0>> /\ motor = FALSE /\ crossed = "nothing"

(* The loop writes.                                                        *)

InCall == motor /\ writes # <<>>

BeginCall ==
  /\ writes = <<>> /\ todo # <<>>
  /\ LET call == Head(todo) IN
       /\ motor' = call.motor /\ writes' = call.writes
       /\ \/ call.motor /\ asked' = call.move /\ crossed' = "nothing"
          \/ ~call.motor /\ UNCHANGED <<asked, crossed>>
  /\ todo' = Tail(todo)
  /\ UNCHANGED <<out, cfg, half, held, parkVars, sensorVars>>

\* First half: the port is copied, the configuration set.
BeginWrite ==
  /\ writes # <<>> /\ ~half
  /\ LET w == Head(writes) IN
       \/ /\ w.to \in Pins
          /\ held' = [pin \in Port(w.to) |-> out[pin]]
          /\ UNCHANGED cfg
       \/ /\ w.to \in Channels
          /\ cfg' = [cfg EXCEPT ![w.to] = w.v]
          /\ UNCHANGED held
  /\ half' = TRUE
  /\ UNCHANGED <<out, todo, writes, motor, asked, crossed, parkVars, sensorVars>>

\* Second half: the copy is written back, the channel takes its configuration.
EndWrite ==
  /\ writes # <<>> /\ half
  /\ LET w == Head(writes) IN
       \/ /\ w.to \in Pins
          /\ out' = [x \in Outputs |-> IF x = w.to THEN w.v
                                       ELSE IF x \in Port(w.to) THEN held[x]
                                       ELSE out[x]]
       \/ /\ w.to \in Channels
          /\ out' = [out EXCEPT ![w.to] = cfg[w.to]]
  /\ writes' = Tail(writes) /\ half' = FALSE /\ held' = NoCopy
  /\ UNCHANGED <<cfg, todo, motor, asked, crossed, parkVars, sensorVars>>

\* Gpt1_Interrupt_Enable, Gpt1_Interrupt_Disable.
WriteEnable ==
  /\ writes # <<>> /\ Head(writes).to = Enable
  /\ out' = [out EXCEPT ![Enable] = Head(writes).v]
  /\ writes' = Tail(writes)
  /\ UNCHANGED <<cfg, todo, half, held, motor, asked, crossed, parkVars,
                 sensorVars>>

Write == BeginCall \/ BeginWrite \/ EndWrite \/ WriteEnable

---------------------------------------------------------------------------
(* What the loop calls; which of it when is the subject of Vehicle.        *)

Idle == todo = <<>> /\ writes = <<>>

Calls(t, calls) ==
  /\ Idle
  /\ task' = t /\ todo' = calls
  /\ UNCHANGED <<out, cfg, writes, half, held, motor, asked, crossed, sensorVars>>

\* handleStateMachine: logged out, or the start of an iteration, or a drive.
LoopDrives ==
  /\ Idle /\ task # "park"
  /\ \/ Calls("drive", <<motorStop>>)
     \/ Calls("drive", <<ledStopAll>>)
     \/ \E dir \in Dirs, duty \in Duties :
          Calls("drive", motorRunCommand(dir, duty))
  /\ UNCHANGED <<parkStep, curTick>>

\* performEmergencyStop, with the warning of the first one and without.
LoopWarns ==
  /\ Idle /\ task # "park"
  /\ \E duty \in Duties, again \in {<<>>, <<emergencyBuzzer>>} :
       Calls("warn", <<emergencyBuzzer, motorMoveReverse(duty), motorStop>>
                     \o again)
  /\ UNCHANGED <<parkStep, curTick>>

\* autoPark.  Step 1 is foundSpace, step 3 the backing of goBackWard.
LoopParks ==
  /\ Idle /\ task # "park"
  /\ Calls("park", <<motorMoveForward(PARKING_SPEED)>>)
  /\ parkStep' = 1 /\ curTick' = 0

rotate ==
  <<motorMoveForward(PARKING_SPEED), motorStop,
    MotorCall(<<0, -ROTATE_SPEED>>,
              MovChPwm("A", 0, 1) \o MovChPwm("B", ROTATE_SPEED, 0)),
    motorStop>>

\* (A mistake: the count starts again with every measurement.)
CountAfresh(tick) == IF room THEN 1 ELSE 0

\* The measurements in a row with room on the left; an echo that never came (-1)
\* shows none.
CountRoom(tick) == IF room THEN tick + 1 ELSE 0

FoundSpace ==
  /\ Idle /\ task = "park" /\ parkStep = 1
  /\ LET tick == CountRoom(curTick) IN
       IF tick < FoundTick
         THEN curTick' = tick /\ UNCHANGED <<motorVars, task, parkStep>>
         ELSE /\ Calls("park", <<motorStop>> \o rotate
                                \o <<motorMoveReverse(PARKING_SPEED)>>)
              /\ parkStep' = 2 /\ curTick' = 0
  /\ UNCHANGED sensorVars

\* The first rear measurement, and the beeper.
StartBeeper ==
  /\ Idle /\ task = "park" /\ parkStep = 2
  /\ Calls("park", <<OtherCall(<<buzzerOn, Set(Enable, 1)>>)>>)
  /\ parkStep' = 3 /\ UNCHANGED curTick

\* (A mistake: the beeper is switched off last.)
SilencedLate == OtherCall(<<buzzerOn, buzzerOff, Set(Enable, 0)>>)

Silenced == OtherCall(<<Set(Enable, 0), buzzerOn, buzzerOff>>)
EndOfBacking == <<motorStop, Silenced>>

\* Backing ends at the wall, and as well when the echo never comes (-1): wall
\* stands for both.
StopBacking ==
  /\ Idle /\ task = "park" /\ parkStep = 3
  /\ wall
  /\ Calls("park", EndOfBacking)
  /\ parkStep' = 4 /\ UNCHANGED curTick

ParkReturns ==
  /\ Idle /\ task = "park" /\ parkStep = 4
  /\ Calls("drive", <<>>)
  /\ parkStep' = 0 /\ UNCHANGED curTick

LoopCalls ==
  LoopDrives \/ LoopWarns \/ LoopParks
Parks == FoundSpace \/ StartBeeper \/ StopBacking \/ ParkReturns

---------------------------------------------------------------------------
(* The interrupts and the world.                                           *)

\* canRxIsrHandler: motorRunCommand.
CommandArrives(dir, duty) ==
  /\ LET ws == MotorPart(dir, duty).writes \o LampPart(dir, duty).writes IN
       out' = After(out, ws) /\ cfg' = After(cfg, ws)
  /\ asked' = MotorPart(dir, duty).move
  /\ crossed' = IF InCall THEN "call" ELSE IF half THEN "port" ELSE "nothing"
  /\ UNCHANGED <<callVars, parkVars, sensorVars>>

\* IsrGpt1T3Handler.
Beeps ==
  /\ out[Enable] = 1
  /\ out' = [out EXCEPT !["buzzer"] = 1 - @]
  /\ UNCHANGED <<cfg, callVars, asked, crossed, parkVars, sensorVars>>

SensorsChange ==
  /\ room' \in BOOLEAN /\ wall' \in BOOLEAN
  /\ UNCHANGED <<motorVars, parkVars>>

Next ==
  \/ Write \/ LoopCalls \/ Parks
  \/ \E dir \in Dirs, duty \in Duties : CommandArrives(dir, duty)
  \/ Beeps
  \/ SensorsChange

Spec == Init /\ [][Next]_vars

\* The loop runs.
FairSpec == Spec /\ WF_vars(Write) /\ WF_vars(Parks)

---------------------------------------------------------------------------
Bit == 0..1
Value(x) == IF x \in Channels THEN 0..1000 ELSE Bit
AllWrites == {w \in [to : Outputs, v : 0..1000] : w.v \in Value(w.to)}

\* The state is well formed, and while the loop changes a bit it holds a copy
\* of the port that bit is on.
TypeOK ==
  /\ DOMAIN out = Outputs /\ \A x \in Outputs : out[x] \in Value(x)
  /\ cfg \in [Channels -> 0..1000]
  /\ writes \in Seq(AllWrites)
  /\ half => writes # <<>> /\ Head(writes).to # Enable
  /\ IF half /\ Head(writes).to \in Pins
       THEN held \in [Port(Head(writes).to) -> Bit] ELSE held = NoCopy
  /\ task \in {"drive", "warn", "park"}
  /\ parkStep \in 0..4 /\ curTick \in 0..FoundTick
  /\ {room, wall, half, motor} \subseteq BOOLEAN
  /\ crossed \in {"nothing", "port", "call"}

\* How a wheel turns: not at all under its brake or without a duty.
Wheel(o, ch) ==
  IF o[Brake[ch]] = 1 THEN 0
  ELSE IF o[DirOf[ch]] = 1 THEN o[Duty[ch]] ELSE -o[Duty[ch]]
Moves(o) == <<Wheel(o, "A"), Wheel(o, "B")>>

\* Outside the motor calls the car moves as the last of them asked, whoever made
\* it, unless that one came from an interrupt that crossed a motor call of the
\* loop, or a write of the loop to a port the command writes as well
\* (motor.c:16-117, control.c:8-61, ledport.c:13-16, buzzerport.c:12-20).
MovesAsAsked == ~InCall /\ crossed = "nothing" => Moves(out) = asked

\* A STOP stops both wheels even when the interrupt that brings it crosses a
\* write to the rear lamp or the buzzer, which puts the released brakes back:
\* there is no duty left (motor.c:111-117, ledport.c:15).
StopSurvivesCrossing ==
  ~InCall /\ crossed # "call" /\ asked = <<0, 0>> => Moves(out) = <<0, 0>>

\* Outside of a warning and of a parking run the buzzer is silent, whenever the
\* timer toggled it during the run (autopark.c:125-138, gpt12.c:7-25, aeb.c:10-16).
BeeperSilent ==
  task = "drive" => out["buzzer"] = 0 /\ out[Enable] = 0

\* A parking run ends if there is room on the left for good from some time on,
\* and the same for the wall behind: however often a measurement went wrong
\* before, and whatever commands arrive (autopark.c:86-105, 119-139).
ParkingEnds ==
  <>[]room /\ <>[]wall => (task = "park" ~> task # "park")
=============================================================================
