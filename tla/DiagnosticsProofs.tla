------------------------- MODULE DiagnosticsProofs -------------------------
(* Proofs about Diagnostics, for every choice of the intervals.            *)
EXTENDS Diagnostics, TLAPS

LEMMA TasksAre == Tasks = 1..5 /\ Len(Dids) = 5
BY DEF Tasks, Dids

---------------------------------------------------------------------------
(* The kinds of steps, by the state they may change.                       *)

\* The position of the loop and the response.
Plain ==
  /\ UNCHANGED <<session, aebSwitch, taskVars, stmVars, motor>>
  /\ pc \in {"uds", "serve"} /\ pc' \in {"fsm", "reset", "serve"}
  /\ slot' \in Tasks
  /\ answer' \in {"none", "positive", "negative"}

\* The session or the AEB switch.
Setting ==
  /\ UNCHANGED <<taskVars, stmVars, motor>>
  /\ pc = "uds" /\ pc' = "serve" /\ slot' = 1
  /\ session' \in Sessions
  /\ UNCHANGED aebSwitch \/ aebSwitch' \in BOOLEAN
  /\ answer' \in {"none", "positive"}

BeginRoutine ==
  /\ pc = "uds" /\ answer' = "positive"
  /\ pc' = "routine" /\ motor' = "routine"
  /\ UNCHANGED <<slot, session, aebSwitch, taskVars, stmVars>>

Served ==
  \/ Plain \/ Setting \/ BeginRoutine
  \/ pc = "uds" /\ StopSending
  \/ pc = "uds" /\ StartSending

LEMMA PlainSteps ==
  ASSUME NumberTypes
  PROVE  /\ pc = "uds" /\ Refuse => Plain
         /\ pc = "uds" /\ Confirm => Plain
         /\ pc = "uds" /\ ConfirmSilently => Plain
         /\ pc = "uds" /\ NoRequest => Plain
         /\ pc = "uds" /\ RequestUpdate => Plain
         /\ SkipSlot => Plain
<1> USE TasksAre DEF NumberTypes, Plain
<1>1. /\ pc = "uds" /\ Refuse => Plain
      /\ pc = "uds" /\ Confirm => Plain
      /\ pc = "uds" /\ ConfirmSilently => Plain
  BY DEF Refuse, Confirm, ConfirmSilently, Handled
<1>2. /\ pc = "uds" /\ NoRequest => Plain
      /\ pc = "uds" /\ RequestUpdate => Plain
  BY DEF NoRequest, RequestUpdate, udsVars
<1>3. SkipSlot => Plain
  BY DEF SkipSlot, NextSlot, udsVars
<1> QED
  BY <1>1, <1>2, <1>3

LEMMA ServedSteps ==
  ASSUME NumberTypes, UDS_HandleMessage \/ CANTP_MainFunction
  PROVE  Served
<1>0. pc = "uds"
  BY DEF UDS_HandleMessage, CANTP_MainFunction
<1>1. Refuse \/ Confirm \/ ConfirmSilently \/ NoRequest \/ RequestUpdate => Served
  BY <1>0, PlainSteps DEF Served
<1>2. handleSID10 => Served
  <2>1. SetSession => Setting
    BY <1>0 DEF SetSession, Setting, Handled
  <2> QED
    BY <1>1, <2>1 DEF handleSID10, Served
<1>3. handleSID11 \/ handleSID3E \/ handleSID22 \/ handleSID19 => Served
  BY <1>1 DEF handleSID11, handleSID3E, handleSID22, handleSID19
<1>4. handleSID2E => Served
  <2>1. ASSUME handleSID2E, ~Refuse PROVE Setting
    BY <1>0, <2>1 DEF NumberTypes, handleSID2E, Handled, Setting
  <2> QED
    BY <1>1, <2>1 DEF Served
<1>5. handleSID31 => Served
  <2>1. handleSID31 => Refuse \/ BeginRoutine
    BY <1>0 DEF handleSID31, BeginRoutine
  <2> QED
    BY <1>1, <2>1 DEF Served
<1>6. handleSID2A => Served
  BY <1>0, <1>1 DEF handleSID2A, Served
<1>7. CANTP_MainFunction => Served
  BY <1>1 DEF CANTP_MainFunction
<1> QED
  BY <1>1, <1>2, <1>3, <1>4, <1>5, <1>6, <1>7 DEF UDS_HandleMessage

---------------------------------------------------------------------------
(* Types.                                                                  *)

LEMMA NumbersInit == diagInit => NumberTypes
BY TasksAre, IntervalAssumption DEF diagInit, NumberTypes, Sessions

LEMMA ServedNumbers == NumberTypes /\ Served => NumberTypes'
<1> SUFFICES ASSUME NumberTypes, Served PROVE NumberTypes'
  OBVIOUS
<1> USE TasksAre DEF NumberTypes, taskVars
<1>1. CASE Plain
  BY <1>1 DEF Plain
<1>2. CASE Setting
  BY <1>2 DEF Setting
<1>3. CASE BeginRoutine
  BY <1>3 DEF BeginRoutine
<1>4. CASE pc = "uds" /\ StopSending
  BY <1>4 DEF StopSending, Handled
<1>5. CASE pc = "uds" /\ StartSending
  BY <1>5 DEF StartSending, Starting, udsVars
<1> QED
  BY <1>1, <1>2, <1>3, <1>4, <1>5 DEF Served

LEMMA LoopNumbers == NumberTypes /\ LoopStep => NumberTypes'
<1> SUFFICES ASSUME NumberTypes, LoopStep PROVE NumberTypes'
  OBVIOUS
<1> USE TasksAre, IntervalAssumption DEF NumberTypes, taskVars, udsVars, Starting
<1>1. CASE UDS_HandleMessage \/ CANTP_MainFunction
  BY <1>1, ServedSteps, ServedNumbers
<1>2. CASE StateMachine
  BY <1>2 DEF StateMachine
<1>3. CASE EndRoutine
  BY <1>3 DEF EndRoutine
<1>4. CASE SetTimer
  BY <1>4 DEF SetTimer
<1>5. CASE TestTimer \/ ReadIcr \/ WriteIcr
  BY <1>5 DEF TestTimer, ReadIcr, WriteIcr
<1>6. CASE Restart
  BY <1>6 DEF Restart, Sessions
<1>7. CASE SkipSlot
  BY <1>7, PlainSteps DEF Plain
<1>8. CASE SendSlot
  BY <1>8 DEF SendSlot
<1>9. CASE RestartTimer
  BY <1>9 DEF RestartTimer, NextSlot
<1> QED
  BY <1>1, <1>2, <1>3, <1>4, <1>5, <1>6, <1>7, <1>8, <1>9 DEF LoopStep

LEMMA NumbersNext == NumberTypes /\ [diagNext]_diagVars => NumberTypes'
<1> SUFFICES ASSUME NumberTypes, [diagNext]_diagVars PROVE NumberTypes'
  OBVIOUS
<1> USE IntervalAssumption DEF NumberTypes, taskVars, udsVars, loopVars
<1>1. CASE LoopStep
  BY <1>1, LoopNumbers
<1>2. CASE stm1IsrHandler
  BY <1>2 DEF stm1IsrHandler
<1>3. CASE stm0IsrHandler \/ RxTof \/ RxSoa
  BY <1>3 DEF stm0IsrHandler, RxTof, RxSoa
<1>4. CASE UNCHANGED diagVars
  BY <1>4 DEF diagVars
<1> QED
  BY <1>1, <1>2, <1>3, <1>4 DEF diagNext

LEMMA FlagsInit == diagInit => FlagTypes
BY Zenon DEF diagInit, FlagTypes

LEMMA ServedFlags == FlagTypes /\ Served => FlagTypes'
<1> SUFFICES ASSUME FlagTypes, Served PROVE FlagTypes'
  OBVIOUS
<1> USE DEF FlagTypes, taskVars, stmVars
<1>1. CASE Plain
  BY <1>1 DEF Plain
<1>2. CASE Setting
  BY <1>2, Zenon DEF Setting
<1>3. CASE BeginRoutine
  BY <1>3 DEF BeginRoutine
<1>4. CASE StopSending
  BY <1>4, Zenon DEF StopSending
<1>5. CASE StartSending
  BY <1>5, Zenon DEF StartSending, udsVars
<1> QED
  BY <1>1, <1>2, <1>3, <1>4, <1>5 DEF Served

LEMMA FlagsNext == NumberTypes /\ FlagTypes /\ [diagNext]_diagVars => FlagTypes'
<1> SUFFICES ASSUME NumberTypes, FlagTypes, [diagNext]_diagVars PROVE FlagTypes'
  OBVIOUS
<1> USE DEF FlagTypes, taskVars, stmVars, udsVars
<1>1. CASE UDS_HandleMessage \/ CANTP_MainFunction
  BY <1>1, ServedSteps, ServedFlags
<1>2. CASE StateMachine \/ EndRoutine \/ SetTimer \/ TestTimer
  BY <1>2, Zenon DEF StateMachine, EndRoutine, SetTimer, TestTimer
<1>3. CASE ReadIcr \/ WriteIcr
  BY <1>3, Zenon DEF ReadIcr, WriteIcr
<1>4. CASE Restart
  BY <1>4, Zenon DEF Restart
<1>5. CASE SkipSlot \/ SendSlot \/ RestartTimer
  BY <1>5, Zenon DEF SkipSlot, SendSlot, RestartTimer
<1>6. CASE stm1IsrHandler
  BY <1>6, Zenon DEF stm1IsrHandler
<1>7. CASE stm0IsrHandler \/ RxTof \/ RxSoa
  BY <1>7, Zenon DEF stm0IsrHandler, RxTof, RxSoa
<1>8. CASE UNCHANGED diagVars
  BY <1>8 DEF diagVars
<1> QED
  BY <1>1, <1>2, <1>3, <1>4, <1>5, <1>6, <1>7, <1>8 DEF diagNext, LoopStep

\* Every variable keeps its type.
THEOREM DiagTypes == diagSpec => []TypeOK
<1>1. diagInit => TypeOK
  BY NumbersInit, FlagsInit DEF TypeOK
<1>2. TypeOK /\ [diagNext]_diagVars => TypeOK'
  BY NumbersNext, FlagsNext DEF TypeOK
<1> QED
  BY <1>1, <1>2, PTL DEF diagSpec

---------------------------------------------------------------------------
(* The timer interrupt and the tasks.                                      *)

LEMMA TicksNext == NumberTypes /\ TaskTicks /\ [diagNext]_diagVars => TaskTicks'
<1> SUFFICES ASSUME NumberTypes, TaskTicks, [diagNext]_diagVars PROVE TaskTicks'
  OBVIOUS
<1> USE DEF TaskTicks, Starting, taskVars, stmVars
<1>1. CASE UDS_HandleMessage \/ CANTP_MainFunction
  <2>1. CASE Plain \/ Setting \/ BeginRoutine
    BY <2>1 DEF Plain, Setting, BeginRoutine
  <2>2. CASE pc = "uds" /\ StopSending
    <3>1. cmp1en' = cmp1en /\ \A t \in Tasks : active'[t] => active[t]
      BY <2>2 DEF StopSending
    <3> QED
      BY <2>2, <3>1
  <2>3. CASE pc = "uds" /\ StartSending
    BY <2>3 DEF StartSending
  <2> QED
    BY <1>1, <2>1, <2>2, <2>3, ServedSteps DEF Served
<1>2. CASE StateMachine \/ EndRoutine
  BY <1>2 DEF StateMachine, EndRoutine
<1>3. CASE SetTimer \/ ReadIcr
  BY <1>3 DEF SetTimer, ReadIcr
<1>4. CASE TestTimer \/ WriteIcr
  BY <1>4 DEF TestTimer, WriteIcr
<1>5. CASE Restart
  BY <1>5 DEF Restart
<1>6. CASE SkipSlot \/ SendSlot \/ RestartTimer
  BY <1>6 DEF SkipSlot, SendSlot, RestartTimer, NextSlot
<1>7. CASE stm1IsrHandler
  BY <1>7 DEF stm1IsrHandler
<1>8. CASE stm0IsrHandler \/ RxTof \/ RxSoa
  BY <1>8 DEF stm0IsrHandler, RxTof, RxSoa, loopVars
<1>9. CASE UNCHANGED diagVars
  BY <1>9 DEF diagVars, loopVars
<1> QED
  BY <1>1, <1>2, <1>3, <1>4, <1>5, <1>6, <1>7, <1>8, <1>9
  DEF diagNext, LoopStep

\* A started task keeps the interrupt that counts it down.
THEOREM TasksTick == diagSpec => []TaskTicks
<1>1. diagInit => TaskTicks
  BY DEF diagInit, TaskTicks
<1>2. diagInit => NumberTypes
  BY NumbersInit
<1> QED
  BY <1>1, <1>2, NumbersNext, TicksNext, PTL DEF diagSpec

\* Between the start or the last transmission of a task and the next one, what
\* the timer has counted and what it has still to count make up the interval;
\* a task that is just being started is left out until its timer is set.
Timed(t) == active[t] /\ ~(pc = "setTimer" /\ slot = t)

Timing ==
  /\ \A t \in Tasks : Timed(t) => since[t] + timer[t] >= Interval[t]
  /\ pc = "sent" => active[slot] /\ timer[slot] = 0

LEMMA TimingNext == NumberTypes /\ Timing /\ [diagNext]_diagVars => Timing'
<1> SUFFICES ASSUME NumberTypes, Timing, [diagNext]_diagVars PROVE Timing'
  OBVIOUS
<1> USE DEF Timing, Timed, taskVars
<1>0. /\ slot \in Tasks /\ timer \in [Tasks -> Nat] /\ since \in [Tasks -> Nat]
      /\ \A t \in Tasks : timer[t] <= Interval[t] /\ Interval[t] \in Nat
  BY IntervalAssumption DEF NumberTypes
<1>1. CASE UDS_HandleMessage \/ CANTP_MainFunction
  <2>1. CASE Plain \/ Setting \/ BeginRoutine
    BY <2>1 DEF Plain, Setting, BeginRoutine
  <2>2. CASE pc = "uds" /\ StopSending
    BY <2>2, <1>0 DEF StopSending, Handled
  <2>3. CASE pc = "uds" /\ StartSending
    <3>1. PICK u \in Tasks : slot' = u /\ active' = [active EXCEPT ![u] = TRUE]
      BY <2>3 DEF StartSending
    <3>2. \A t \in Tasks : t # u => active'[t] = active[t]
      BY <3>1
    <3> QED
      BY <2>3, <3>1, <3>2 DEF StartSending
  <2> QED
    BY <1>1, <2>1, <2>2, <2>3, ServedSteps DEF Served
<1>2. CASE StateMachine \/ EndRoutine
  BY <1>2 DEF StateMachine, EndRoutine
<1>3. CASE SetTimer
  <2>1. /\ timer'[slot] = Interval[slot] /\ since'[slot] = 0
        /\ slot' = slot /\ active' = active /\ pc' = "test" /\ pc = "setTimer"
        /\ \A t \in Tasks : t # slot =>
             timer'[t] = timer[t] /\ since'[t] = since[t]
    BY <1>0, <1>3 DEF SetTimer
  <2> QED
    BY <1>0, <2>1
<1>4. CASE TestTimer \/ ReadIcr \/ WriteIcr
  BY <1>4 DEF TestTimer, ReadIcr, WriteIcr
<1>5. CASE Restart
  BY <1>5 DEF Restart
<1>6. CASE SkipSlot \/ SendSlot
  BY <1>6 DEF SkipSlot, SendSlot, NextSlot, Due
<1>7. CASE RestartTimer
  <2>1. /\ timer'[slot] = Interval[slot] /\ since'[slot] = 0
        /\ active' = active /\ pc' \in {"fsm", "serve"} /\ pc = "sent"
        /\ \A t \in Tasks : t # slot =>
             timer'[t] = timer[t] /\ since'[t] = since[t]
    BY <1>0, <1>7 DEF RestartTimer, NextSlot
  <2> QED
    BY <1>0, <2>1
<1>8. CASE stm1IsrHandler
  <2>1. UNCHANGED <<pc, slot, active>>
    BY <1>8 DEF stm1IsrHandler, loopVars
  <2>2. ASSUME NEW t \in Tasks, active[t], since[t] + timer[t] >= Interval[t]
        PROVE  since'[t] + timer'[t] >= Interval[t]
    <3>1. timer'[t] = IF timer[t] > 0 THEN timer[t] - 1 ELSE timer[t]
      BY <1>8, <2>2 DEF stm1IsrHandler
    <3>2. since'[t] = IF since[t] < Interval[t] THEN since[t] + 1 ELSE since[t]
      BY <1>8 DEF stm1IsrHandler
    <3> QED
      BY <1>0, <2>2, <3>1, <3>2
  <2>3. pc = "sent" => timer'[slot] = 0
    BY <1>0, <1>8 DEF stm1IsrHandler
  <2> QED
    BY <2>1, <2>2, <2>3
<1>9. CASE stm0IsrHandler \/ RxTof \/ RxSoa
  BY <1>9 DEF stm0IsrHandler, RxTof, RxSoa, loopVars
<1>10. CASE UNCHANGED diagVars
  BY <1>10 DEF diagVars, loopVars
<1> QED
  BY <1>1, <1>2, <1>3, <1>4, <1>5, <1>6, <1>7, <1>8, <1>9, <1>10
  DEF diagNext, LoopStep

\* No task sends before its interval is over.
THEOREM TasksKeepInterval == diagSpec => []NotTooOften
<1>1. diagInit => Timing /\ NumberTypes
  BY NumbersInit DEF diagInit, Timing, Timed
<1>2. NumberTypes /\ Timing => NotTooOften
  <2> SUFFICES ASSUME NumberTypes, Timing, pc = "sent"
               PROVE  since[slot] >= Interval[slot]
    BY DEF NotTooOften
  <2>1. slot \in Tasks /\ Timed(slot) /\ timer[slot] = 0
    BY DEF NumberTypes, Timing, Timed
  <2>2. since[slot] \in Nat /\ since[slot] + timer[slot] >= Interval[slot]
    BY <2>1 DEF NumberTypes, Timing
  <2> QED
    BY <2>1, <2>2
<1> QED
  BY <1>1, <1>2, NumbersNext, TimingNext, PTL DEF diagSpec

---------------------------------------------------------------------------
(* The motor.                                                              *)

LEMMA RoutineNext ==
  NumberTypes /\ RoutineStops /\ [diagNext]_diagVars => RoutineStops'
<1> SUFFICES ASSUME NumberTypes, RoutineStops, [diagNext]_diagVars
             PROVE  RoutineStops'
  OBVIOUS
<1> USE DEF RoutineStops
<1>1. CASE UDS_HandleMessage \/ CANTP_MainFunction
  BY <1>1, ServedSteps
  DEF Served, Plain, Setting, BeginRoutine, StopSending, StartSending
<1>2. CASE StateMachine \/ EndRoutine \/ Restart
  BY <1>2 DEF StateMachine, EndRoutine, Restart
<1>3. CASE SetTimer \/ TestTimer \/ ReadIcr \/ WriteIcr
  BY <1>3 DEF SetTimer, TestTimer, ReadIcr, WriteIcr
<1>4. CASE SkipSlot \/ SendSlot \/ RestartTimer
  BY <1>4 DEF SkipSlot, SendSlot, RestartTimer
<1>5. CASE stm1IsrHandler \/ stm0IsrHandler \/ RxTof \/ RxSoa
  BY <1>5 DEF stm1IsrHandler, stm0IsrHandler, RxTof, RxSoa, loopVars
<1>6. CASE UNCHANGED diagVars
  BY <1>6 DEF diagVars, loopVars
<1> QED
  BY <1>1, <1>2, <1>3, <1>4, <1>5, <1>6 DEF diagNext, LoopStep

\* What a routine set going does not outlast it.
THEOREM RoutinesStop == diagSpec => []RoutineStops
<1>1. diagInit => RoutineStops /\ NumberTypes
  BY NumbersInit DEF diagInit, RoutineStops
<1> QED
  BY <1>1, NumbersNext, RoutineNext, PTL DEF diagSpec

---------------------------------------------------------------------------
(* The timeout of the ToF sensor.                                          *)

\* What watches over a distance, or will once the loop has written back what it
\* has read of the register.
Watch == IF pc = "write" THEN icr ELSE cmp0en

WatchKnown == tofValid => (Watch <=> ~between)

LEMMA WatchNext ==
  FlagTypes /\ NumberTypes /\ WatchKnown /\ [diagNext]_diagVars => WatchKnown'
<1> SUFFICES ASSUME FlagTypes, NumberTypes, WatchKnown, [diagNext]_diagVars
             PROVE  WatchKnown'
  OBVIOUS
<1> USE DEF FlagTypes, WatchKnown, Watch, stmVars
<1>1. CASE UDS_HandleMessage \/ CANTP_MainFunction
  <2>1. UNCHANGED stmVars /\ pc # "write" /\ pc' # "write"
    BY <1>1, ServedSteps
    DEF Served, Plain, Setting, BeginRoutine, StopSending, StartSending, Handled
  <2> QED
    BY <2>1, Zenon
<1>2. CASE StateMachine \/ EndRoutine \/ SetTimer \/ TestTimer
  <2>1. UNCHANGED stmVars /\ pc # "write" /\ pc' # "write"
    BY <1>2 DEF StateMachine, EndRoutine, SetTimer, TestTimer
  <2> QED
    BY <2>1, Zenon
<1>3. CASE ReadIcr
  BY <1>3, Zenon DEF ReadIcr
<1>4. CASE WriteIcr
  BY <1>4, Zenon DEF WriteIcr
<1>5. CASE Restart
  BY <1>5, Zenon DEF Restart
<1>6. CASE SkipSlot \/ SendSlot \/ RestartTimer
  <2>1. UNCHANGED stmVars /\ pc # "write" /\ pc' # "write"
    BY <1>6 DEF SkipSlot, SendSlot, RestartTimer, NextSlot
  <2> QED
    BY <2>1, Zenon
<1>7. CASE stm1IsrHandler \/ RxSoa
  <2>1. UNCHANGED <<pc, cmp0en, icr, tofValid, between>>
    BY <1>7 DEF stm1IsrHandler, RxSoa, loopVars
  <2> QED
    BY <2>1, Zenon
<1>8. CASE stm0IsrHandler
  BY <1>8, Zenon DEF stm0IsrHandler
<1>9. CASE RxTof
  BY <1>9, Zenon DEF RxTof, loopVars
<1>10. CASE UNCHANGED diagVars
  BY <1>10, Zenon DEF diagVars, loopVars
<1> QED
  BY <1>1, <1>2, <1>3, <1>4, <1>5, <1>6, <1>7, <1>8, <1>9, <1>10
  DEF diagNext, LoopStep

\* A distance is without its timeout exactly when its frame came between the read
\* and the write of a register that was read with the timeout off.
THEOREM WatchIsLostBetween == diagSpec => []WatchLostBetween
<1>1. diagInit => WatchKnown /\ FlagTypes /\ NumberTypes
  BY NumbersInit, FlagsInit DEF diagInit, WatchKnown, Watch
<1>2. WatchKnown => WatchLostBetween
  BY Zenon DEF WatchKnown, Watch, WatchLostBetween
<1> QED
  BY <1>1, <1>2, NumbersNext, FlagsNext, WatchNext, PTL DEF diagSpec
=============================================================================
