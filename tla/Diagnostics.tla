---------------------------- MODULE Diagnostics ------------------------------
(***************************************************************************)
(* The diagnostic services of the ECU (BSW/Service/diagnostics): the       *)
(* session, the periodic transmissions with their timer interrupt, the     *)
(* motor routines, and the driving they share the processor with.          *)
(*                                                                         *)
(* A request is chosen where CANTP_MainFunction hands one over; IsoTpLink  *)
(* says how it got there and how its response leaves.  Time is counted in  *)
(* periods of the STM1 interrupt (PERIODIC_INTERVAL_MS).                   *)
(***************************************************************************)
EXTENDS Integers, Sequences

\* g_periodicTasks: what each slot sends.  The last three are not set up.
Dids == <<"TOF", "LEFT", "ZERO", "ZERO", "ZERO">>
Tasks == DOMAIN Dids
Sending == {t \in Tasks : Dids[t] # "ZERO"}

CONSTANT Interval   \* of each slot, in periods

ASSUME IntervalAssumption == Interval \in [Tasks -> Nat]

Sessions == {"DEFAULT", "EXTENDED"}

VARIABLES
  pc, slot,          \* the loop, and the slot it is working on
  session, aebSwitch, \* g_currentSession, g_config.isAebEnabled
  active, timer,     \* g_periodicTasks
  cmp0en, cmp1en,    \* the interrupt enables in STM0_ICR, and
  icr,               \* the first of them as the loop has read it
  tofValid,          \* g_TofValue is a distance
  motor,             \* what set the motor going, if it goes
  answer,            \* the kind of response to the last request
  since,             \* history: periods since a slot was started or served
  between            \* history: the last ToF frame came between the read and
                     \* the write of STM0_ICR, read with the timeout off

taskVars == <<active, timer, since>>
stmVars == <<cmp0en, cmp1en, icr, tofValid, between>>
udsVars == <<session, aebSwitch, answer>>
loopVars == <<pc, slot>>
diagVars == <<loopVars, udsVars, taskVars, stmVars, motor>>

diagInit ==
  /\ pc = "fsm" /\ slot = 1
  /\ session = "DEFAULT" /\ aebSwitch = TRUE /\ answer = "none"
  /\ active = [t \in Tasks |-> FALSE] /\ timer = [t \in Tasks |-> 0]
  /\ since = [t \in Tasks |-> 0]
  /\ cmp0en = TRUE /\ cmp1en = TRUE /\ icr = FALSE
  /\ tofValid = TRUE /\ between = FALSE
  /\ motor = "none"

---------------------------------------------------------------------------
(* The loop around the diagnostics (main0).                                *)

\* handleStateMachine drives, stops, or leaves the motor as it is.
StateMachine ==
  /\ pc = "fsm" /\ pc' = "uds"
  /\ motor' \in {"none", "driving", motor}
  /\ UNCHANGED <<slot, udsVars, taskVars, stmVars>>

Handled(kind) ==
  /\ pc' = "serve" /\ slot' = 1
  /\ answer' = kind

\* sendNegativeResponse: the length, an identifier or the session is wrong.
Refuse ==
  /\ Handled("negative")
  /\ UNCHANGED <<session, aebSwitch, taskVars, stmVars, motor>>

Confirm ==
  /\ Handled("positive")
  /\ UNCHANGED <<session, aebSwitch, taskVars, stmVars, motor>>

\* The bit that suppresses a positive response is set.
ConfirmSilently ==
  /\ Handled("none")
  /\ UNCHANGED <<session, aebSwitch, taskVars, stmVars, motor>>

NoRequest ==
  /\ pc' = "serve" /\ slot' = 1
  /\ UNCHANGED <<udsVars, taskVars, stmVars, motor>>

---------------------------------------------------------------------------
(* The services.                                                           *)

SetSession ==
  /\ \E kind \in {"positive", "none"} : Handled(kind)
  /\ session' \in Sessions
  /\ UNCHANGED <<aebSwitch, taskVars, stmVars, motor>>

\* The programming session is the boot loader's: BCB_RequestUpdate resets.
RequestUpdate ==
  /\ pc' = "reset" /\ answer' = "none"
  /\ UNCHANGED <<slot, session, aebSwitch, taskVars, stmVars, motor>>

handleSID10 == Refuse \/ SetSession \/ RequestUpdate

\* The reset that would follow the response is commented out.
handleSID11 ==
  \/ Refuse
  \/ session = "EXTENDED" /\ (Confirm \/ ConfirmSilently)

handleSID3E == Refuse \/ Confirm \/ ConfirmSilently

\* A sensor that has no value gives a negative response.
handleSID22 ==
  \/ Refuse
  \/ \E did \in {"TOF", "LEFT", "RIGHT", "REAR", "other"} :
       (did = "TOF" => tofValid) /\ Confirm

handleSID19 == Refuse \/ Confirm

handleSID2E ==
  \/ Refuse
  \/ /\ session = "EXTENDED"
     /\ aebSwitch' \in BOOLEAN
     /\ Handled("positive")
     /\ UNCHANGED <<session, taskVars, stmVars, motor>>

\* The response is sent, then the routine drives for five seconds.
handleSID31 ==
  \/ Refuse
  \/ /\ session = "EXTENDED"
     /\ answer' = "positive"
     /\ pc' = "routine" /\ motor' = "routine"
     /\ UNCHANGED <<slot, session, aebSwitch, taskVars, stmVars>>

\* Seeded fault for EndRoutine: the motor is left running.
EndRoutineDriving ==
  /\ pc = "routine"
  /\ pc' = "serve" /\ slot' = 1
  /\ UNCHANGED <<udsVars, taskVars, stmVars, motor>>

EndRoutine ==
  /\ pc = "routine"
  /\ motor' = "none"
  /\ pc' = "serve" /\ slot' = 1
  /\ UNCHANGED <<udsVars, taskVars, stmVars>>

\* The first slot with the identifier.
TaskOf(did) ==
  CHOOSE t \in Tasks :
    Dids[t] = did /\ \A u \in Tasks : Dids[u] = did => t <= u

StopSending ==
  /\ \E t \in Tasks : t = TaskOf(Dids[t]) /\ active' = [active EXCEPT ![t] = FALSE]
  /\ Handled("positive")
  /\ UNCHANGED <<session, aebSwitch, timer, since, stmVars, motor>>

StartSending ==
  /\ \E t \in Tasks :
       /\ t = TaskOf(Dids[t]) /\ slot' = t
       /\ active' = [active EXCEPT ![t] = TRUE]
  /\ pc' = "setTimer"
  /\ UNCHANGED <<udsVars, timer, since, stmVars, motor>>

handleSID2A == Refuse \/ StopSending \/ StartSending

SetTimer ==
  /\ pc = "setTimer" /\ pc' = "test"
  /\ timer' = [timer EXCEPT ![slot] = Interval[slot]]
  /\ since' = [since EXCEPT ![slot] = 0]
  /\ answer' = "positive"
  /\ UNCHANGED <<slot, session, aebSwitch, active, stmVars, motor>>

\* Seeded fault for TestTimer: the interrupt is taken for granted.
TestNothing ==
  /\ pc = "test" /\ pc' = "serve" /\ slot' = 1
  /\ UNCHANGED <<udsVars, taskVars, stmVars, motor>>

\* The interrupt is switched on again if it has switched itself off ...
TestTimer ==
  /\ pc = "test"
  /\ IF cmp1en THEN pc' = "serve" /\ slot' = 1
               ELSE pc' = "read" /\ UNCHANGED slot
  /\ UNCHANGED <<udsVars, taskVars, stmVars, motor>>

\* ... by a bit field, that is a register read, changed and written back.
ReadIcr ==
  /\ pc = "read" /\ pc' = "write"
  /\ icr' = cmp0en
  /\ UNCHANGED <<slot, udsVars, taskVars, cmp0en, cmp1en, tofValid, between, motor>>

\* Seeded fault for WriteIcr: the register is written with this enable only.
WriteOneEnable ==
  /\ pc = "write" /\ pc' = "serve" /\ slot' = 1
  /\ cmp0en' = FALSE /\ cmp1en' = TRUE /\ icr' = FALSE
  /\ UNCHANGED <<udsVars, taskVars, tofValid, between, motor>>

WriteIcr ==
  /\ pc = "write" /\ pc' = "serve" /\ slot' = 1
  /\ cmp0en' = icr /\ cmp1en' = TRUE /\ icr' = FALSE
  /\ UNCHANGED <<udsVars, taskVars, tofValid, between, motor>>

UDS_HandleMessage ==
  /\ pc = "uds"
  /\ \/ handleSID10 \/ handleSID11 \/ handleSID3E
     \/ handleSID22 \/ handleSID2A \/ handleSID2E
     \/ handleSID19 \/ handleSID31
     \/ Refuse   \* any other service

CANTP_MainFunction == pc = "uds" /\ NoRequest

\* BCB_HardReset, and the start of this application if it is to be the next.
Restart ==
  /\ pc = "reset"
  /\ pc' = "fsm" /\ slot' = 1
  /\ session' = "DEFAULT" /\ aebSwitch' = TRUE /\ answer' = "none"
  /\ active' = [t \in Tasks |-> FALSE] /\ timer' = [t \in Tasks |-> 0]
  /\ since' = [t \in Tasks |-> 0]
  /\ cmp0en' = TRUE /\ cmp1en' = TRUE /\ icr' = FALSE
  /\ tofValid' = TRUE /\ between' = FALSE
  /\ motor' = "none"

---------------------------------------------------------------------------
(* UDS_HandlePeriodicTransmission.                                         *)

Due(t) == active[t] /\ timer[t] = 0

NextSlot ==
  IF slot = Len(Dids) THEN pc' = "fsm" /\ slot' = 1
                      ELSE pc' = "serve" /\ slot' = slot + 1

SkipSlot ==
  /\ pc = "serve" /\ ~Due(slot)
  /\ NextSlot
  /\ UNCHANGED <<udsVars, taskVars, stmVars, motor>>

\* A slot that is not set up has nothing to send.
SendSlot ==
  /\ pc = "serve" /\ Due(slot)
  /\ pc' = "sent"
  /\ UNCHANGED <<slot, udsVars, taskVars, stmVars, motor>>

\* Seeded fault for RestartTimer: the slot is not timed again.
RestartNoTimer ==
  /\ pc = "sent"
  /\ since' = [since EXCEPT ![slot] = 0]
  /\ NextSlot
  /\ UNCHANGED <<udsVars, active, timer, stmVars, motor>>

RestartTimer ==
  /\ pc = "sent"
  /\ timer' = [timer EXCEPT ![slot] = Interval[slot]]
  /\ since' = [since EXCEPT ![slot] = 0]
  /\ NextSlot
  /\ UNCHANGED <<udsVars, active, stmVars, motor>>

---------------------------------------------------------------------------
(* The interrupts.                                                         *)

\* Seeded fault for stm1IsrHandler: it looks at the first slot only before it
\* switches itself off.
Stm1FirstSlot ==
  /\ cmp1en
  /\ IF active[1]
       THEN /\ timer' = [t \in Tasks |-> IF active[t] /\ timer[t] > 0
                                           THEN timer[t] - 1 ELSE timer[t]]
            /\ UNCHANGED cmp1en
       ELSE cmp1en' = FALSE /\ UNCHANGED timer
  /\ since' = [t \in Tasks |->
                 IF since[t] < Interval[t] THEN since[t] + 1 ELSE since[t]]
  /\ UNCHANGED <<loopVars, udsVars, active, cmp0en, icr, tofValid, between, motor>>

\* Seeded fault for stm1IsrHandler: a timer that is due goes on.
Stm1Underflow ==
  /\ cmp1en
  /\ timer' = [t \in Tasks |-> IF active[t] THEN timer[t] - 1 ELSE timer[t]]
  /\ cmp1en' = \E t \in Tasks : active[t]
  /\ UNCHANGED <<loopVars, udsVars, active, since, cmp0en, icr, tofValid, between, motor>>

\* since stops counting at the interval: bound.
stm1IsrHandler ==
  /\ cmp1en
  /\ timer' = [t \in Tasks |-> IF active[t] /\ timer[t] > 0 THEN timer[t] - 1
                                                            ELSE timer[t]]
  /\ since' = [t \in Tasks |->
                 IF since[t] < Interval[t] THEN since[t] + 1 ELSE since[t]]
  /\ cmp1en' = \E t \in Tasks : active[t]
  /\ UNCHANGED <<loopVars, udsVars, active, cmp0en, icr, tofValid, between, motor>>

stm0IsrHandler ==
  /\ cmp0en
  /\ tofValid' = FALSE /\ cmp0en' = FALSE
  /\ UNCHANGED <<loopVars, udsVars, taskVars, cmp1en, icr, between, motor>>

\* tofUpdateFromCAN and resetTofTimeoutTimer.
RxTof ==
  /\ tofValid' = TRUE /\ cmp0en' = TRUE
  /\ between' = (pc = "write" /\ ~icr)
  /\ UNCHANGED <<loopVars, udsVars, taskVars, cmp1en, icr, motor>>

\* canSOAHandler drives or stops, whatever the loop is doing.
RxSoa ==
  /\ motor' \in {"none", "driving"}
  /\ UNCHANGED <<loopVars, udsVars, taskVars, stmVars>>

LoopStep ==
  \/ StateMachine \/ UDS_HandleMessage \/ CANTP_MainFunction
  \/ EndRoutine \/ SetTimer \/ TestTimer \/ ReadIcr \/ WriteIcr \/ Restart
  \/ SkipSlot \/ SendSlot \/ RestartTimer

diagNext ==
  LoopStep \/ stm1IsrHandler \/ stm0IsrHandler \/ RxTof \/ RxSoa

diagSpec == diagInit /\ [][diagNext]_diagVars

\* The loop runs, and so does the timer as long as it is on; no frame need ever
\* come.
diagFairSpec ==
  diagSpec /\ WF_diagVars(LoopStep) /\ WF_diagVars(stm1IsrHandler)

---------------------------------------------------------------------------
(* Properties.                                                             *)

Starting == {"setTimer", "test", "read", "write"}

NumberTypes ==
  /\ pc \in {"fsm", "uds", "routine", "reset", "serve", "sent"} \cup Starting
  /\ slot \in Tasks
  /\ session \in Sessions /\ answer \in {"none", "positive", "negative"}
  /\ timer \in [Tasks -> Nat] /\ since \in [Tasks -> Nat]
  /\ \A t \in Tasks : timer[t] <= Interval[t]
  /\ motor \in {"none", "driving", "routine"}

FlagTypes ==
  /\ aebSwitch \in BOOLEAN /\ active \in [Tasks -> BOOLEAN]
  /\ cmp0en \in BOOLEAN /\ cmp1en \in BOOLEAN /\ icr \in BOOLEAN
  /\ tofValid \in BOOLEAN /\ between \in BOOLEAN

TypeOK == NumberTypes /\ FlagTypes

\* A started task keeps the interrupt that counts it down, though the interrupt
\* switches itself off when it finds no task, perhaps while one is being
\* started (readdatahandler.c:249-262, stm.c:53-62).
TaskTicks ==
  (\E t \in Tasks : active[t]) /\ pc \notin Starting => cmp1en

\* A task sends no sooner than its interval after it was started or sent last
\* (readdatahandler.c:252, diagnosticsdata.c:131).
NotTooOften == pc = "sent" => since[slot] >= Interval[slot]

\* What a routine set going does not outlast it, whatever commands arrive
\* meanwhile (routinecontrol.c:57-72).
RoutineStops == motor = "routine" => pc = "routine"

\* A task that is started, and not started again and again, keeps sending
\* (diagnosticsdata.c:84-134).
TaskServed ==
  \A t \in Sending :
    <>[](active[t] /\ ~(pc = "setTimer" /\ slot = t))
      => []<>(pc = "sent" /\ slot = t)

\* Who reads a distance reads one that a timeout will take away, unless its frame
\* came while a start of a task had read STM0_ICR with the timeout off and not yet
\* written it (readdatahandler.c:261, stm.c:146-153): no timeout watches over that
\* distance, and over the one of the next frame it does ("re-enabled by the next
\* message", stm.c:31).
WatchLostBetween == tofValid /\ pc # "write" => (cmp0en <=> ~between)
=============================================================================
