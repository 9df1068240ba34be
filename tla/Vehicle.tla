------------------------------ MODULE Vehicle ------------------------------
(***************************************************************************)
(* The driving core of the TC375 firmware: the foreground loop of          *)
(* app/main0.c running handleStateMachine (ASW/fsm/fsm.c) with the AEB,    *)
(* motor, LED and publisher functions it calls, preempted by the CAN       *)
(* receive interrupt (SOA commands and ToF frames) and by the STM0 compare *)
(* interrupt (ToF timeout).                                                *)
(*                                                                         *)
(* All of it runs on CPU0.  An interrupt service routine starts with       *)
(* interrupts disabled and never enables them, so an ISR is one atomic     *)
(* action.  The foreground loop may be preempted anywhere: its control     *)
(* point is pc, and it is cut wherever it uses a value it read earlier, or *)
(* waits (delayMs, the busy-wait of canSendMsg).                           *)
(***************************************************************************)
EXTENDS Integers

CONSTANTS
  DirPayloads,      \* payload bytes of the CMD_SET_DIR frames that arrive
  SpeedPayloads,    \* payload bytes of the CMD_SET_SPEED frames that arrive
  AebPayloads,      \* payloads of CMD_CTRL_AEB: TRUE for a non-zero byte
  AuthPayloads,     \* CMD_AUTH_PASSWORD frames: TRUE when the password matches
  AutoparkFrames,   \* whether CMD_CTRL_AUTOPARK frames arrive
  EmergencyFrames,  \* whether CMD_EMERGENCY_STOP frames arrive
  TofDistances      \* distances (mm) of the valid ToF frames that arrive

TOF_INVALID_VALUE == 16777216 \* 0xFFFFFFFF: above every 24-bit distance

ASSUME FrameAssumption ==
  /\ DirPayloads \subseteq 0..255
  /\ SpeedPayloads \subseteq 0..255
  /\ AebPayloads \subseteq BOOLEAN
  /\ AuthPayloads \subseteq BOOLEAN
  /\ AutoparkFrames \in BOOLEAN
  /\ EmergencyFrames \in BOOLEAN
  /\ TofDistances \subseteq 0..(TOF_INVALID_VALUE - 1)

VARIABLES
  \* motorState, the structure shared by the loop and the ISRs
  currentDuty, currentDir, aebActiveFlag, autoParkFlag,
  \* other globals
  aebEnableFlag, g_TofValue, g_isLogin, currentState, buzzerFlag, activeLed,
  prevAebState, prevAutoparkState, prevAuthState,
  \* peripherals: motor outputs, ToF timeout comparator and its request
  motor, cmp0en, stm0Pending,
  \* what the receiver of the AEB_STATE frames was last told
  busAeb,
  \* the foreground loop: control point and locals
  pc, distance, cmd, txAeb,
  \* history: a CAN frame was handled since the loop sampled the distance
  rxSinceSample

\* Written by the interrupts only.
inputVars == <<currentDir, aebEnableFlag, g_isLogin, prevAuthState,
               g_TofValue, cmp0en, stm0Pending>>
\* Written by the loop only.
fsmVars == <<currentState, buzzerFlag, prevAutoparkState>>
locals == <<distance, cmd, txAeb, rxSinceSample>>
\* Written by both.
aebPubVars == <<prevAebState, busAeb>>
outVars == <<motor, activeLed>>
vars == <<inputVars, fsmVars, locals, aebPubVars, outVars, pc,
          currentDuty, aebActiveFlag, autoParkFlag>>

---------------------------------------------------------------------------
DUTY_LIMIT_DISTANCE_MM == 950
AEB_DISTANCE_MM == 350
SAFETY_DISTANCE_MM == 500
TOF_DEFAULT_VALUE_MM == 5000
MAX_DUTY == 1000
LIMITED_DUTY == 500
PARKING_SPEED == 350

STOP == 5
FORWARD == 8
BACKWARD == 2
PIVOT == 256            \* no command: left wheel still, right wheel back
ReverseDirs == {1, 2, 3}
CommandDirs == 1..9
DriveDirs == CommandDirs \ {STOP}

VehicleStates == {"IDLE", "MANUAL_DRIVE", "EMERGENCY_STOP", "AUTO_PARK"}
Leds == {"NONE", "LEFT", "RIGHT", "BOTH"}
Distances == 0..TOF_INVALID_VALUE
Commands == [dir : 0..255, duty : 0..MAX_DUTY]
Outputs == [dir : CommandDirs \cup {PIVOT}, duty : 0..MAX_DUTY]

\* What the two channels do: a movement and its duty.
Moving(dir, duty) == [dir |-> dir, duty |-> duty]
Stopped == Moving(STOP, 0)

\* Seeded fault for MotorOf: the early stop test covers the duty only.
MotorWithoutStop(dir, duty) ==
  IF dir \in CommandDirs /\ duty > 0 THEN Moving(dir, duty) ELSE Stopped

\* motorRunCommand: the outputs and the blinking side a command produces.
MotorOf(dir, duty) ==
  IF dir \in DriveDirs /\ duty > 0 THEN Moving(dir, duty) ELSE Stopped

LedOf(dir, duty) ==
  IF duty = 0 THEN "NONE"
  ELSE IF dir \in {4, 7} THEN "LEFT"
  ELSE IF dir \in {6, 9} THEN "RIGHT" ELSE "NONE"

\* Seeded fault for DutyOf: no upper clamp.
DutyUnclamped(payload) == payload * 10

\* CMD_SET_SPEED: percent to duty, clamped.
DutyOf(payload) == IF payload * 10 > MAX_DUTY THEN MAX_DUTY ELSE payload * 10

\* Seeded fault for AebFlagAfter: the flag is recomputed without its memory.
AebFlagUnlatched(v) == aebEnableFlag /\ ~aebActiveFlag /\ v < AEB_DISTANCE_MM

\* updateAebFlagByTof(v): the flag it leaves, the duty it leaves, and whether
\* it calls sendAebStateIfChanged.
AebFlagAfter(v) ==
  /\ aebEnableFlag
  /\ v < (IF aebActiveFlag THEN SAFETY_DISTANCE_MM ELSE AEB_DISTANCE_MM)

\* Seeded fault for AebDutyAfter: the limit holds under the braking distance only.
AebDutyLate(v) ==
  IF aebEnableFlag /\ ~aebActiveFlag /\ v < AEB_DISTANCE_MM
    THEN LIMITED_DUTY ELSE currentDuty

AebDutyAfter(v) ==
  IF aebEnableFlag /\ ~aebActiveFlag /\ v <= DUTY_LIMIT_DISTANCE_MM
    THEN LIMITED_DUTY ELSE currentDuty

AebPublishes(v) == ~aebEnableFlag \/ AebFlagAfter(v) # aebActiveFlag

---------------------------------------------------------------------------
Init ==
  /\ currentDuty = 0 /\ currentDir = STOP
  /\ aebActiveFlag = FALSE /\ autoParkFlag = FALSE
  /\ aebEnableFlag = FALSE /\ g_TofValue = TOF_DEFAULT_VALUE_MM
  /\ g_isLogin = FALSE /\ currentState = "IDLE" /\ buzzerFlag = TRUE
  /\ activeLed = "NONE"
  /\ prevAebState = FALSE /\ prevAutoparkState = 0 /\ prevAuthState = FALSE
  /\ motor = Stopped /\ cmp0en = TRUE /\ stm0Pending = FALSE
  /\ busAeb = FALSE
  /\ pc = "gate" /\ distance = TOF_DEFAULT_VALUE_MM
  /\ cmd = Stopped /\ txAeb = FALSE /\ rxSinceSample = FALSE

---------------------------------------------------------------------------
(* The CAN receive interrupt: one frame per run, canSOAHandler or          *)
(* tofUpdateFromCAN to its end.                                            *)

Received ==
  /\ rxSinceSample' = (pc \notin {"gate", "sample"})
  /\ UNCHANGED <<pc, distance, cmd, txAeb, fsmVars>>

\* motorRunCommand called from the interrupt, on the state it just wrote.
RunCommandNow(dir, duty) ==
  /\ motor' = MotorOf(dir, duty)
  /\ activeLed' = LedOf(dir, duty)

\* Seeded fault for SendAebNow: the published state is not remembered.
SendAebForgets(active) ==
  /\ busAeb' = IF prevAebState # active THEN active ELSE busAeb
  /\ UNCHANGED prevAebState

\* sendAebStateIfChanged called from the interrupt: nothing comes between
\* the test, the frame and the assignment.
SendAebNow(active) ==
  /\ busAeb' = IF prevAebState # active THEN active ELSE busAeb
  /\ prevAebState' = active

RxSetDir ==
  \E dir \in DirPayloads :
    /\ currentDir' = dir
    /\ RunCommandNow(dir, currentDuty)
    /\ Received
    /\ UNCHANGED <<currentDuty, aebActiveFlag, autoParkFlag, aebEnableFlag,
                   g_isLogin, prevAuthState, g_TofValue, cmp0en, stm0Pending,
                   aebPubVars>>

RxSetSpeed ==
  \E payload \in SpeedPayloads :
    /\ currentDuty' = DutyOf(payload)
    /\ RunCommandNow(currentDir, DutyOf(payload))
    /\ Received
    /\ UNCHANGED <<inputVars, aebActiveFlag, autoParkFlag, aebPubVars>>

RxCtrlAeb ==
  \E on \in AebPayloads :
    /\ aebEnableFlag' = on
    /\ Received
    /\ UNCHANGED <<currentDir, currentDuty, aebActiveFlag, autoParkFlag,
                   g_isLogin, prevAuthState, g_TofValue, cmp0en, stm0Pending,
                   aebPubVars, outVars>>

RxCtrlAutopark ==
  /\ AutoparkFrames
  /\ autoParkFlag' = TRUE
  /\ Received
  /\ UNCHANGED <<inputVars, currentDuty, aebActiveFlag, aebPubVars, outVars>>

\* canAuthHandler: a wrong password logs out.
RxAuth ==
  \E match \in AuthPayloads :
    /\ g_isLogin' = match
    /\ prevAuthState' = IF match # g_isLogin THEN match ELSE prevAuthState
    /\ Received
    /\ UNCHANGED <<currentDir, currentDuty, aebActiveFlag, autoParkFlag,
                   aebEnableFlag, g_TofValue, cmp0en, stm0Pending, aebPubVars,
                   outVars>>

RxEmergencyStop ==
  /\ EmergencyFrames
  /\ currentDir' = STOP
  /\ currentDuty' = 0
  /\ aebEnableFlag' = TRUE
  /\ RunCommandNow(STOP, 0)
  /\ SendAebNow(aebActiveFlag)
  /\ Received
  /\ UNCHANGED <<aebActiveFlag, autoParkFlag, g_isLogin, prevAuthState,
                 g_TofValue, cmp0en, stm0Pending>>

\* Seeded fault for ResetTofTimeoutTimer: the interrupt is not enabled again.
TimerStaysOff == UNCHANGED <<cmp0en, stm0Pending>>

\* The comparator is re-armed and its flag cleared; a request already latched
\* for the CPU is not.
ResetTofTimeoutTimer == cmp0en' = TRUE /\ UNCHANGED stm0Pending

\* tofUpdateFromCAN on a frame with a signal.
RxTof ==
  \E v \in TofDistances :
    /\ g_TofValue' = v
    /\ aebActiveFlag' = AebFlagAfter(v)
    /\ currentDuty' = AebDutyAfter(v)
    /\ IF AebPublishes(v) THEN SendAebNow(AebFlagAfter(v))
                          ELSE UNCHANGED aebPubVars
    /\ ResetTofTimeoutTimer
    /\ Received
    /\ UNCHANGED <<currentDir, autoParkFlag, aebEnableFlag, g_isLogin,
                   prevAuthState, outVars>>

CanRx == \/ RxSetDir \/ RxSetSpeed \/ RxCtrlAeb \/ RxCtrlAutopark
         \/ RxAuth \/ RxEmergencyStop \/ RxTof

---------------------------------------------------------------------------
(* The ToF timeout: 150 ms after the last re-arm the comparator latches an *)
(* interrupt request; the CPU serves it when no CAN interrupt is pending.  *)

ToFTimeout ==
  /\ cmp0en /\ ~stm0Pending
  /\ stm0Pending' = TRUE
  /\ UNCHANGED <<currentDir, aebEnableFlag, g_isLogin, prevAuthState,
                 g_TofValue, cmp0en, fsmVars, locals, aebPubVars, outVars, pc,
                 currentDuty, aebActiveFlag, autoParkFlag>>

Stm0Isr ==
  /\ stm0Pending
  /\ stm0Pending' = FALSE
  /\ g_TofValue' = TOF_INVALID_VALUE
  /\ cmp0en' = FALSE
  /\ UNCHANGED <<currentDir, aebEnableFlag, g_isLogin, prevAuthState, fsmVars,
                 locals, aebPubVars, outVars, pc, currentDuty, aebActiveFlag,
                 autoParkFlag>>

---------------------------------------------------------------------------
(* The foreground loop: handleStateMachine, over and over.                 *)

Step(from, to) == pc = from /\ pc' = to /\ UNCHANGED inputVars

\* handleStateMachine returns: its locals are gone.
ReturnFrom(from) ==
  /\ Step(from, "gate")
  /\ distance' = TOF_DEFAULT_VALUE_MM
  /\ cmd' = Stopped
  /\ txAeb' = FALSE
  /\ rxSinceSample' = FALSE

\* sendAebStateIfChanged called from the loop: the flag is tested and the frame
\* built from it; after a possible interrupt the frame leaves, and the flag is
\* read again for the memory.
BuildFrame(test, window, after) ==
  LET send == prevAebState # aebActiveFlag
  IN /\ Step(test, IF send THEN window ELSE after)
     /\ txAeb' = (send /\ aebActiveFlag)
     /\ UNCHANGED <<fsmVars, distance, cmd, rxSinceSample, aebPubVars, outVars,
                    currentDuty, aebActiveFlag, autoParkFlag>>

SendFrame(window, after) ==
  /\ Step(window, after)
  /\ busAeb' = txAeb
  /\ prevAebState' = aebActiveFlag
  /\ txAeb' = FALSE
  /\ UNCHANGED <<fsmVars, distance, cmd, rxSinceSample, outVars, currentDuty,
                 aebActiveFlag, autoParkFlag>>

\* Seeded fault for GateClosed: the lamps blink but the motor keeps running.
GateClosedRunning ==
  /\ ReturnFrom("gate")
  /\ ~g_isLogin
  /\ currentState' = "IDLE"
  /\ activeLed' = "BOTH"
  /\ UNCHANGED <<buzzerFlag, prevAutoparkState, motor, aebPubVars, currentDuty,
                 aebActiveFlag, autoParkFlag>>

\* Not logged in: IDLE, motor stopped, both lamps blink, no state machine.
GateClosed ==
  /\ ReturnFrom("gate")
  /\ ~g_isLogin
  /\ currentState' = "IDLE"
  /\ motor' = Stopped
  /\ activeLed' = "BOTH"
  /\ UNCHANGED <<buzzerFlag, prevAutoparkState, aebPubVars, currentDuty,
                 aebActiveFlag, autoParkFlag>>

GateOpen ==
  /\ Step("gate", "sample")
  /\ g_isLogin
  /\ activeLed' = "NONE"
  /\ UNCHANGED <<fsmVars, locals, aebPubVars, motor, currentDuty,
                 aebActiveFlag, autoParkFlag>>

Sample ==
  /\ Step("sample", "update")
  /\ distance' = g_TofValue
  /\ UNCHANGED <<fsmVars, cmd, txAeb, rxSinceSample, aebPubVars, outVars,
                 currentDuty, aebActiveFlag, autoParkFlag>>

\* The test of aebEnableFlag: off clears the flag, after a possible interrupt,
\* and tells nobody.
UpdateOff ==
  /\ Step("update", "clear")
  /\ ~aebEnableFlag
  /\ UNCHANGED <<fsmVars, locals, aebPubVars, outVars, currentDuty,
                 aebActiveFlag, autoParkFlag>>

ClearFlag ==
  /\ Step("clear", "dispatch")
  /\ aebActiveFlag' = FALSE
  /\ UNCHANGED <<fsmVars, locals, aebPubVars, outVars, currentDuty,
                 autoParkFlag>>

UpdateOn ==
  /\ Step("update", "decide")
  /\ aebEnableFlag
  /\ UNCHANGED <<fsmVars, locals, aebPubVars, outVars, currentDuty,
                 aebActiveFlag, autoParkFlag>>

\* updateAebFlagByTof(distance), which tests aebEnableFlag once more.
Decide ==
  /\ Step("decide",
          IF AebPublishes(distance) THEN "tellDecision" ELSE "dispatch")
  /\ aebActiveFlag' = AebFlagAfter(distance)
  /\ currentDuty' = AebDutyAfter(distance)
  /\ UNCHANGED <<fsmVars, locals, aebPubVars, outVars, autoParkFlag>>

TellDecision == BuildFrame("tellDecision", "publishDecision", "dispatch")
PublishDecision == SendFrame("publishDecision", "dispatch")

IdleNext == IF currentDir \in CommandDirs THEN "MANUAL_DRIVE"
            ELSE IF autoParkFlag THEN "AUTO_PARK" ELSE "IDLE"

\* Seeded fault for MustBrake: the negation of the reverse test is lost.
BrakeOnReverse == aebActiveFlag /\ currentDir \in ReverseDirs

MustBrake == aebActiveFlag /\ currentDir \notin ReverseDirs

\* A case of the switch that only moves to another state.
Transit(from, to) ==
  /\ ReturnFrom("dispatch")
  /\ currentState = from
  /\ currentState' = to
  /\ UNCHANGED <<buzzerFlag, prevAutoparkState, aebPubVars, outVars,
                 currentDuty, aebActiveFlag, autoParkFlag>>

DispatchIdle == Transit("IDLE", IdleNext)
DispatchBrake == MustBrake /\ Transit("MANUAL_DRIVE", "EMERGENCY_STOP")

\* A case that goes on.
Enter(state, next) ==
  /\ Step("dispatch", next)
  /\ currentState = state
  /\ UNCHANGED <<fsmVars, locals, aebPubVars, outVars, currentDuty,
                 aebActiveFlag, autoParkFlag>>

DispatchManual == ~MustBrake /\ Enter("MANUAL_DRIVE", "cmdRead")
DispatchEmergency == Enter("EMERGENCY_STOP", "stopFlag")
DispatchPark == Enter("AUTO_PARK", "parkStart")

\* motorRunCommand called from the loop: read the command, ...
CmdRead ==
  /\ Step("cmdRead", "cmdDrive")
  /\ cmd' = Moving(currentDir, currentDuty)
  /\ UNCHANGED <<fsmVars, distance, txAeb, rxSinceSample, aebPubVars, outVars,
                 currentDuty, aebActiveFlag, autoParkFlag>>

\* ... then drive the channels with what was read.
CmdDrive ==
  /\ ReturnFrom("cmdDrive")
  /\ motor' = MotorOf(cmd.dir, cmd.duty)
  /\ activeLed' = LedOf(cmd.dir, cmd.duty)
  /\ UNCHANGED <<fsmVars, aebPubVars, currentDuty, aebActiveFlag,
                 autoParkFlag>>

(* performEmergencyStop and the rest of the EMERGENCY_STOP case.           *)

\* Seeded fault for StopFlag: the AEB is left as the update made it.
StopUnarmed ==
  /\ Step("stopFlag", IF aebActiveFlag THEN "stopReverse" ELSE "tellStop")
  /\ UNCHANGED <<fsmVars, locals, aebPubVars, outVars, currentDuty,
                 aebActiveFlag, autoParkFlag>>

StopFlag ==
  /\ Step("stopFlag", IF aebActiveFlag THEN "stopReverse" ELSE "tellStop")
  /\ aebActiveFlag' = TRUE
  /\ UNCHANGED <<fsmVars, locals, aebPubVars, outVars, currentDuty,
                 autoParkFlag>>

TellStop == BuildFrame("tellStop", "publishStop", "stopReverse")
PublishStop == SendFrame("publishStop", "stopReverse")

\* After the 350 ms of the buzzer.
StopReverse ==
  /\ Step("stopReverse", "stopZero")
  /\ motor' = Moving(BACKWARD, currentDuty)
  /\ UNCHANGED <<fsmVars, locals, aebPubVars, activeLed, currentDuty,
                 aebActiveFlag, autoParkFlag>>

\* After REVERSE_TIME_MS.
StopZero ==
  /\ Step("stopZero", "stopHalt")
  /\ currentDuty' = 0
  /\ UNCHANGED <<fsmVars, locals, aebPubVars, outVars, aebActiveFlag,
                 autoParkFlag>>

StopHalt ==
  /\ Step("stopHalt", "stopWarn")
  /\ motor' = Stopped
  /\ UNCHANGED <<fsmVars, locals, aebPubVars, activeLed, currentDuty,
                 aebActiveFlag, autoParkFlag>>

StopWarn ==
  /\ Step("stopWarn", "stopExit")
  /\ buzzerFlag' = FALSE
  /\ activeLed' = IF buzzerFlag THEN "BOTH" ELSE activeLed
  /\ UNCHANGED <<currentState, prevAutoparkState, locals, aebPubVars, motor,
                 currentDuty, aebActiveFlag, autoParkFlag>>

\* Seeded fault for StopExit: the warning is not armed again.
StopExitSilent ==
  /\ ReturnFrom("stopExit")
  /\ currentState' = IF MustBrake THEN "EMERGENCY_STOP" ELSE "MANUAL_DRIVE"
  /\ activeLed' = IF MustBrake THEN activeLed ELSE "NONE"
  /\ UNCHANGED <<buzzerFlag, prevAutoparkState, aebPubVars, motor, currentDuty,
                 aebActiveFlag, autoParkFlag>>

StopExit ==
  /\ ReturnFrom("stopExit")
  /\ IF MustBrake
       THEN UNCHANGED <<buzzerFlag, activeLed, currentState>>
       ELSE /\ buzzerFlag' = TRUE
            /\ activeLed' = "NONE"
            /\ currentState' = "MANUAL_DRIVE"
  /\ UNCHANGED <<prevAutoparkState, aebPubVars, motor, currentDuty,
                 aebActiveFlag, autoParkFlag>>

(* autoPark: search forward, rotate, back in.  What ends the two loops is  *)
(* what the ultrasonic sensors report.                                     *)

ParkStep(from, to, state, output) ==
  /\ Step(from, to)
  /\ prevAutoparkState' = state
  /\ motor' = output
  /\ UNCHANGED <<currentState, buzzerFlag, locals, aebPubVars, currentDuty,
                 aebActiveFlag, autoParkFlag>>

ParkLeg(from, to, state, output) ==
  ParkStep(from, to, state, output) /\ UNCHANGED activeLed

ParkSearch ==
  ParkLeg("parkStart", "parkFound", 1, Moving(FORWARD, PARKING_SPEED))
ParkFound == ParkLeg("parkFound", "parkForward", 2, Stopped)
ParkForward ==
  ParkLeg("parkForward", "parkPause", 2, Moving(FORWARD, PARKING_SPEED))
ParkPause == ParkLeg("parkPause", "parkPivot", 2, Stopped)
ParkPivot == ParkLeg("parkPivot", "parkTurned", 2, Moving(PIVOT, MAX_DUTY))
ParkTurned == ParkLeg("parkTurned", "parkBack", 2, Stopped)
ParkBack ==
  ParkLeg("parkBack", "parkReached", 2, Moving(BACKWARD, PARKING_SPEED))
ParkReached ==
  ParkStep("parkReached", "parkDone", 2, Stopped) /\ activeLed' = "BOTH"

ParkDone ==
  /\ ReturnFrom("parkDone")
  /\ prevAutoparkState' = 3
  /\ autoParkFlag' = FALSE
  /\ currentState' = "IDLE"
  /\ UNCHANGED <<buzzerFlag, aebPubVars, outVars, currentDuty, aebActiveFlag>>

---------------------------------------------------------------------------
\* The steps the CPU takes by itself.
LoopStep ==
  \/ GateClosed \/ GateOpen \/ Sample
  \/ UpdateOff \/ ClearFlag \/ UpdateOn
  \/ Decide \/ TellDecision \/ PublishDecision
  \/ DispatchIdle \/ DispatchBrake \/ DispatchManual \/ DispatchEmergency
  \/ DispatchPark \/ CmdRead \/ CmdDrive
  \/ StopFlag \/ TellStop \/ PublishStop \/ StopReverse \/ StopZero \/ StopHalt
  \/ StopWarn \/ StopExit
  \/ ParkSearch \/ ParkForward \/ ParkPause \/ ParkPivot \/ ParkTurned
  \/ ParkBack \/ ParkDone

\* The steps that wait for an ultrasonic reading.
SensorStep == ParkFound \/ ParkReached

Next == CanRx \/ ToFTimeout \/ Stm0Isr \/ LoopStep \/ SensorStep

Spec == Init /\ [][Next]_vars

\* The processor keeps running the loop; frames, timeouts and the parking
\* sensors are under no obligation.
FairSpec == Spec /\ WF_vars(LoopStep)

---------------------------------------------------------------------------
(* Properties.                                                             *)

ControlPoints ==
  {"gate", "sample", "update", "clear", "decide", "tellDecision",
   "publishDecision", "dispatch", "cmdRead", "cmdDrive", "stopFlag",
   "tellStop", "publishStop", "stopReverse",
   "stopZero", "stopHalt", "stopWarn", "stopExit", "parkStart", "parkFound",
   "parkForward", "parkPause", "parkPivot", "parkTurned", "parkBack",
   "parkReached", "parkDone"}

FlagTypes ==
  /\ aebActiveFlag \in BOOLEAN /\ autoParkFlag \in BOOLEAN
  /\ aebEnableFlag \in BOOLEAN /\ g_isLogin \in BOOLEAN
  /\ buzzerFlag \in BOOLEAN /\ prevAebState \in BOOLEAN
  /\ prevAuthState \in BOOLEAN /\ busAeb \in BOOLEAN /\ txAeb \in BOOLEAN
  /\ cmp0en \in BOOLEAN /\ stm0Pending \in BOOLEAN
  /\ rxSinceSample \in BOOLEAN

ValueTypes ==
  /\ currentDuty \in 0..MAX_DUTY /\ currentDir \in 0..255
  /\ g_TofValue \in Distances /\ distance \in Distances
  /\ currentState \in VehicleStates /\ activeLed \in Leds
  /\ prevAutoparkState \in 0..3
  /\ motor \in Outputs /\ cmd \in Commands
  /\ pc \in ControlPoints

\* Types.  The duty a command sets never leaves 0..1000 and nothing but an
\* output of the program reaches the motor (soa_handler.c:33-37).
TypeOK == FlagTypes /\ ValueTypes

\* A distance the AEB may act on is under timeout supervision: whenever the
\* value is not the error value, the 150 ms comparator that would invalidate
\* it is enabled, in whatever order frames and timeouts are served
\* (tof.c:26-31, stm.c:29-32, stm.c:153).
TofSupervised == g_TofValue # TOF_INVALID_VALUE => cmp0en

\* An iteration of the loop that no CAN frame interrupted never drives towards
\* an obstacle: with the AEB enabled and the distance it sampled under the
\* braking distance, the command it is about to apply is a reverse one
\* (fsm.c:44-48, fsm.c:83-92).
NoBlindDrive ==
  /\ pc = "cmdDrive"
  /\ ~rxSinceSample
  /\ aebEnableFlag
  /\ distance < AEB_DISTANCE_MM
  => MotorOf(cmd.dir, cmd.duty).dir \in ReverseDirs \cup {STOP}

\* Why it holds: on such an iteration the brake decision, once taken, stands
\* until the command is applied.
BrakeDecided ==
  (~rxSinceSample /\ aebEnableFlag /\ distance < AEB_DISTANCE_MM) =>
    /\ pc # "clear"
    /\ pc \in {"tellDecision", "publishDecision", "dispatch", "cmdRead"}
         => aebActiveFlag
    /\ pc = "cmdRead" => currentDir \in ReverseDirs
    /\ pc = "cmdDrive" => cmd.dir \in ReverseDirs

\* The modes of the car, as a reader of the state machine is told them
\* (VehicleModes): whatever interrupts do meanwhile, the loop moves between them
\* as that specification allows, warns once per emergency stop, and parks only on
\* a request (fsm.c:30-133, soa_handler.c:49-52).
Modes == INSTANCE VehicleModes
           WITH mode <- currentState, armed <- buzzerFlag, request <- autoParkFlag
ImplementsModes == Modes!Spec

\* Why it holds: a case of the switch keeps the state it was entered in, and the
\* stop is left only after its warning.
StopPoints == {"stopFlag", "tellStop", "publishStop", "stopReverse", "stopZero",
               "stopHalt", "stopWarn", "stopExit"}
ParkPoints == {"parkStart", "parkFound", "parkForward", "parkPause", "parkPivot",
               "parkTurned", "parkBack", "parkReached", "parkDone"}

CaseKept ==
  /\ pc \in StopPoints => currentState = "EMERGENCY_STOP"
  /\ pc \in ParkPoints => currentState = "AUTO_PARK"
  /\ pc = "stopExit" => ~buzzerFlag

\* A parking run belongs to a request that is still standing: whatever commands
\* arrive during the run, AUTO_PARK is never entered or continued without it
\* (fsm.c:70-73, fsm.c:127-130, soa_handler.c:49-52).
ParkKeepsRequest == currentState = "AUTO_PARK" => autoParkFlag

\* The publisher's memory and what the bus was last told part in one way only:
\* a frame of the loop whose flag an interrupt changed after it was built
\* (soa_publisher.c:22-25, called from the loop and from the CAN interrupt).
TornOnlyByInterrupt ==
  [][ /\ busAeb = prevAebState
      /\ busAeb' # prevAebState'
      => /\ pc \in {"publishDecision", "publishStop"}
         /\ aebActiveFlag # txAeb ]_vars

\* An emergency stop is left only for a reverse command or because a frame of
\* this very iteration ended it: what the loop itself released, or what was
\* switched off before, performEmergencyStop has activated again
\* (aeb.c:23-25, fsm.c:47-50, fsm.c:113-119).
ReleasedByFrame ==
  [][ currentState = "EMERGENCY_STOP" /\ currentState' = "MANUAL_DRIVE"
      => currentDir \in ReverseDirs \/ rxSinceSample ]_vars

\* Why it holds: the flag set at the start of the emergency stop stands until
\* an interrupt clears it.
StopArmed ==
  pc \in {"tellStop", "publishStop", "stopReverse", "stopZero", "stopHalt",
          "stopWarn", "stopExit"}
    => aebActiveFlag \/ rxSinceSample

\* A STOP command wins in the end: if the driver stays logged in, in manual
\* drive and on STOP, the motor ends up stopped for good, even when the loop
\* was just about to apply an older command (control.c:75-84).
StopPrevails ==
  <>[](g_isLogin /\ currentDir = STOP /\ currentState = "MANUAL_DRIVE")
    => <>[](motor = Stopped)

\* An obstacle that stays wins in the end: with the AEB on, the distance under
\* the braking distance and a drive command that is not a reverse one, the
\* state machine settles in EMERGENCY_STOP whatever it was doing
\* (fsm.c:47-48, fsm.c:83-86, fsm.c:113-119).
ObstaclePrevails ==
  <>[](/\ g_isLogin /\ aebEnableFlag /\ g_TofValue < AEB_DISTANCE_MM
       /\ currentDir \in DriveDirs \ ReverseDirs
       /\ currentState # "AUTO_PARK")
    => <>[](currentState = "EMERGENCY_STOP")

\* The speed limit wins in the end: with the AEB on and the distance in the zone
\* of the limit, a car that is driven by nothing but directions settles at the
\* limited duty or under it, although the iteration that releases the braking
\* does not limit it and the interrupt may drive before the loop does
\* (aeb.c:57-76, control.c:75-84).
LimitPrevails ==
  (/\ <>[](/\ g_isLogin /\ aebEnableFlag
           /\ g_TofValue \in SAFETY_DISTANCE_MM..DUTY_LIMIT_DISTANCE_MM
           /\ currentState # "AUTO_PARK")
   /\ <>[][currentDuty' \in {currentDuty, LIMITED_DUTY, 0}]_vars)
    => <>[](motor.duty <= LIMITED_DUTY)

\* Logging out wins in the end: outside a parking run, a car that stays logged
\* out goes to IDLE for good and its motor is stopped again and again, whatever
\* the commands that keep arriving (fsm.c:33-38).
LogoutPrevails ==
  <>[](~g_isLogin /\ currentState # "AUTO_PARK")
    => <>[](currentState = "IDLE") /\ []<>(motor = Stopped)

---------------------------------------------------------------------------
(* What the comments of the code claim and the code does not do.           *)

\* fsm.c:50: with the function off the AEB does not operate.
OffMeansOff ==
  [][~aebEnableFlag /\ ~aebActiveFlag => ~aebActiveFlag']_vars

\* soa_handler.c:70: the emergency stop takes effect at once, and a stopped car
\* under STOP stays stopped.
StopHolds ==
  [][ motor = Stopped /\ currentDir = STOP
      => motor' = Stopped \/ currentDir' # STOP ]_vars

\* fsm.c:61, fsm.c:69: an AutoPark command takes IDLE to AUTO_PARK.
ParkRequestServed ==
  (g_isLogin /\ autoParkFlag) ~> (currentState = "AUTO_PARK" \/ ~g_isLogin)
=============================================================================
