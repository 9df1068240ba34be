--------------------------- MODULE VehicleProofs ---------------------------
(* Proofs about Vehicle, for every choice of the frames that arrive.       *)
EXTENDS Vehicle, TLAPS

\* The few facts about the numbers of the code that the proofs need.
LEMMA DutyNumbers ==
  MAX_DUTY \in Nat /\ PARKING_SPEED \in 0..MAX_DUTY /\ LIMITED_DUTY \in 0..MAX_DUTY
BY SMT DEF MAX_DUTY, PARKING_SPEED, LIMITED_DUTY

LEMMA DirectionNumbers ==
  /\ STOP \in 0..255 /\ STOP \in CommandDirs
  /\ {FORWARD, BACKWARD} \subseteq CommandDirs
BY SMT DEF STOP, FORWARD, BACKWARD, CommandDirs

\* What the helpers return.
LEMMA CommandTypes ==
  /\ Stopped \in Commands
  /\ \A dir \in 0..255, duty \in 0..MAX_DUTY : Moving(dir, duty) \in Commands
  /\ \A c \in Commands : c.dir \in 0..255 /\ c.duty \in 0..MAX_DUTY
BY DutyNumbers, DirectionNumbers DEF Stopped, Moving, Commands

LEMMA OutputTypes ==
  /\ Stopped \in Outputs
  /\ \A dir \in {FORWARD, BACKWARD, PIVOT}, duty \in 0..MAX_DUTY :
       Moving(dir, duty) \in Outputs
  /\ \A dir \in 0..255, duty \in 0..MAX_DUTY : MotorOf(dir, duty) \in Outputs
  /\ \A dir \in 0..255, duty \in 0..MAX_DUTY : LedOf(dir, duty) \in Leds
<1>1. Stopped \in Outputs
  BY DutyNumbers, DirectionNumbers DEF Stopped, Moving, Outputs
<1>2. \A dir \in CommandDirs \cup {PIVOT}, duty \in 0..MAX_DUTY :
        Moving(dir, duty) \in Outputs
  BY DEF Moving, Outputs
<1>3. \A dir \in 0..255, duty \in 0..MAX_DUTY : MotorOf(dir, duty) \in Outputs
  BY <1>1, <1>2 DEF MotorOf, DriveDirs
<1>4. \A dir \in 0..255, duty \in 0..MAX_DUTY : LedOf(dir, duty) \in Leds
  BY DEF LedOf, Leds
<1> QED
  BY <1>1, <1>2, <1>3, <1>4, DirectionNumbers

LEMMA DutyTypes ==
  /\ \A payload \in 0..255 : DutyOf(payload) \in 0..MAX_DUTY
  /\ \A v : currentDuty \in 0..MAX_DUTY => AebDutyAfter(v) \in 0..MAX_DUTY
<1>1. \A payload \in 0..255 : DutyOf(payload) \in 0..MAX_DUTY
  BY DutyNumbers DEF DutyOf
<1>2. \A v : currentDuty \in 0..MAX_DUTY => AebDutyAfter(v) \in 0..MAX_DUTY
  BY DutyNumbers DEF AebDutyAfter
<1> QED
  BY <1>1, <1>2

LEMMA DistanceNumbers ==
  /\ TOF_INVALID_VALUE \in Nat /\ TOF_DEFAULT_VALUE_MM \in Nat
  /\ TOF_DEFAULT_VALUE_MM <= TOF_INVALID_VALUE
BY SMT DEF TOF_INVALID_VALUE, TOF_DEFAULT_VALUE_MM

LEMMA DistanceTypes ==
  /\ TOF_INVALID_VALUE \in Distances
  /\ TOF_DEFAULT_VALUE_MM \in Distances
  /\ TofDistances \subseteq Distances
BY DistanceNumbers, FrameAssumption DEF FrameAssumption, Distances

LEMMA FlagStep == FlagTypes /\ [Next]_vars => FlagTypes'
<1> SUFFICES ASSUME FlagTypes, [Next]_vars PROVE FlagTypes'
  OBVIOUS
<1> USE DEF FlagTypes, inputVars, fsmVars, locals, aebPubVars
<1>1. CASE RxSetDir
  BY <1>1, Zenon DEF RxSetDir, Received
<1>2. CASE RxSetSpeed
  BY <1>2, Zenon DEF RxSetSpeed, Received
<1>3. CASE RxCtrlAeb
  <2>1. PICK on \in AebPayloads : aebEnableFlag' = on
    BY <1>3, Zenon DEF RxCtrlAeb
  <2>2. aebEnableFlag' \in BOOLEAN
    BY <2>1, FrameAssumption, Zenon DEF FrameAssumption
  <2> QED
    BY <1>3, <2>2, Zenon DEF RxCtrlAeb, Received
<1>4. CASE RxCtrlAutopark
  BY <1>4, Zenon DEF RxCtrlAutopark, Received
<1>5. CASE RxAuth
  BY <1>5, FrameAssumption, ZenonT(60) DEF RxAuth, Received, FrameAssumption
<1>6. CASE RxEmergencyStop
  BY <1>6, Zenon DEF RxEmergencyStop, Received, SendAebNow
<1>7. CASE RxTof
  <2>1. PICK v \in TofDistances :
          /\ aebActiveFlag' = AebFlagAfter(v)
          /\ \/ SendAebNow(AebFlagAfter(v))
             \/ UNCHANGED aebPubVars
    BY <1>7, Zenon DEF RxTof
  <2>2. AebFlagAfter(v) \in BOOLEAN
    BY Zenon DEF AebFlagAfter
  <2>3. prevAebState' \in BOOLEAN /\ busAeb' \in BOOLEAN
    BY <2>1, <2>2, Zenon DEF SendAebNow
  <2> QED
    BY <1>7, <2>1, <2>2, <2>3, Zenon
    DEF RxTof, Received, ResetTofTimeoutTimer
<1>8. CASE ToFTimeout
  BY <1>8, Zenon DEF ToFTimeout
<1>9. CASE Stm0Isr
  BY <1>9, Zenon DEF Stm0Isr
<1>10. CASE GateClosed
  BY <1>10, Zenon DEF GateClosed, ReturnFrom, Step
<1>11. CASE GateOpen
  BY <1>11, Zenon DEF GateOpen, Step
<1>12. CASE Sample
  BY <1>12, Zenon DEF Sample, Step
<1>13. CASE UpdateOff
  BY <1>13, Zenon DEF UpdateOff, Step
<1>14. CASE ClearFlag
  BY <1>14, Zenon DEF ClearFlag, Step
<1>15. CASE UpdateOn
  BY <1>15, Zenon DEF UpdateOn, Step
<1>16. CASE Decide
  BY <1>16, Zenon DEF Decide, Step, AebFlagAfter
<1>17. CASE TellDecision
  BY <1>17, Zenon DEF TellDecision, BuildFrame, Step
<1>18. CASE PublishDecision
  BY <1>18, Zenon DEF PublishDecision, SendFrame, Step
<1>19. CASE DispatchIdle
  BY <1>19, Zenon DEF DispatchIdle, Transit, ReturnFrom, Step
<1>20. CASE DispatchBrake
  BY <1>20, Zenon DEF DispatchBrake, Transit, ReturnFrom, Step
<1>21. CASE DispatchManual
  BY <1>21, Zenon DEF DispatchManual, Enter, Step
<1>22. CASE DispatchEmergency
  BY <1>22, Zenon DEF DispatchEmergency, Enter, Step
<1>23. CASE DispatchPark
  BY <1>23, Zenon DEF DispatchPark, Enter, Step
<1>24. CASE CmdRead
  BY <1>24, Zenon DEF CmdRead, Step
<1>25. CASE CmdDrive
  BY <1>25, Zenon DEF CmdDrive, ReturnFrom, Step
<1>26. CASE StopFlag
  BY <1>26, Zenon DEF StopFlag, Step
<1>27. CASE TellStop
  BY <1>27, Zenon DEF TellStop, BuildFrame, Step
<1>28. CASE PublishStop
  BY <1>28, Zenon DEF PublishStop, SendFrame, Step
<1>29. CASE StopReverse
  BY <1>29, Zenon DEF StopReverse, Step
<1>30. CASE StopZero
  BY <1>30, Zenon DEF StopZero, Step
<1>31. CASE StopHalt
  BY <1>31, Zenon DEF StopHalt, Step
<1>32. CASE StopWarn
  BY <1>32, Zenon DEF StopWarn, Step
<1>33. CASE StopExit
  BY <1>33, Zenon DEF StopExit, ReturnFrom, Step
<1>34. CASE ParkSearch
  BY <1>34, Zenon DEF ParkSearch, ParkLeg, ParkStep, Step
<1>35. CASE ParkFound
  BY <1>35, Zenon DEF ParkFound, ParkLeg, ParkStep, Step
<1>36. CASE ParkForward
  BY <1>36, Zenon DEF ParkForward, ParkLeg, ParkStep, Step
<1>37. CASE ParkPause
  BY <1>37, Zenon DEF ParkPause, ParkLeg, ParkStep, Step
<1>38. CASE ParkPivot
  BY <1>38, Zenon DEF ParkPivot, ParkLeg, ParkStep, Step
<1>39. CASE ParkTurned
  BY <1>39, Zenon DEF ParkTurned, ParkLeg, ParkStep, Step
<1>40. CASE ParkBack
  BY <1>40, Zenon DEF ParkBack, ParkLeg, ParkStep, Step
<1>41. CASE ParkReached
  BY <1>41, Zenon DEF ParkReached, ParkStep, Step
<1>42. CASE ParkDone
  BY <1>42, Zenon DEF ParkDone, ReturnFrom, Step
<1>43. CASE UNCHANGED vars
  BY <1>43, Zenon DEF vars
<1> QED
  BY <1>1, <1>2, <1>3, <1>4, <1>5, <1>6, <1>7, <1>8, <1>9, <1>10, <1>11,
     <1>12, <1>13, <1>14, <1>15, <1>16, <1>17, <1>18, <1>19, <1>20, <1>21,
     <1>22, <1>23, <1>24, <1>25, <1>26, <1>27, <1>28, <1>29, <1>30, <1>31,
     <1>32, <1>33, <1>34, <1>35, <1>36, <1>37, <1>38, <1>39, <1>40, <1>41,
     <1>42, <1>43
  DEF Next, CanRx, LoopStep, SensorStep

LEMMA ValueStep == ValueTypes /\ [Next]_vars => ValueTypes'
<1> SUFFICES ASSUME ValueTypes, [Next]_vars PROVE ValueTypes'
  OBVIOUS
<1> USE DEF ValueTypes, inputVars, fsmVars, locals, outVars
<1>1. CASE RxSetDir
  BY <1>1, OutputTypes, FrameAssumption
  DEF RxSetDir, Received, RunCommandNow, FrameAssumption
<1>2. CASE RxSetSpeed
  BY <1>2, OutputTypes, DutyTypes, FrameAssumption
  DEF RxSetSpeed, Received, RunCommandNow, FrameAssumption
<1>3. CASE RxCtrlAeb
  BY <1>3
  DEF RxCtrlAeb, Received
<1>4. CASE RxCtrlAutopark
  BY <1>4
  DEF RxCtrlAutopark, Received
<1>5. CASE RxAuth
  BY <1>5
  DEF RxAuth, Received
<1>6. CASE RxEmergencyStop
  <2>1. STOP \in 0..255 /\ 0 \in 0..MAX_DUTY
    BY DutyNumbers, DirectionNumbers
  <2>2. motor' \in Outputs /\ activeLed' \in Leds
    BY <1>6, <2>1, OutputTypes DEF RxEmergencyStop, RunCommandNow
  <2> QED
    BY <1>6, <2>1, <2>2 DEF RxEmergencyStop, Received
<1>7. CASE RxTof
  BY <1>7, DutyTypes, DistanceTypes
  DEF RxTof, Received, ResetTofTimeoutTimer
<1>8. CASE ToFTimeout
  BY <1>8
  DEF ToFTimeout
<1>9. CASE Stm0Isr
  BY <1>9, DistanceTypes
  DEF Stm0Isr
<1>10. CASE GateClosed
  BY <1>10, DistanceTypes, OutputTypes, CommandTypes
  DEF GateClosed, ReturnFrom, Step, ControlPoints, VehicleStates, Leds
<1>11. CASE GateOpen
  BY <1>11
  DEF GateOpen, Step, ControlPoints, Leds
<1>12. CASE Sample
  BY <1>12
  DEF Sample, Step, ControlPoints
<1>13. CASE UpdateOff
  BY <1>13
  DEF UpdateOff, Step, ControlPoints
<1>14. CASE ClearFlag
  BY <1>14
  DEF ClearFlag, Step, ControlPoints
<1>15. CASE UpdateOn
  BY <1>15
  DEF UpdateOn, Step, ControlPoints
<1>16. CASE Decide
  BY <1>16, DutyTypes
  DEF Decide, Step, ControlPoints
<1>17. CASE TellDecision
  BY <1>17
  DEF TellDecision, BuildFrame, Step, ControlPoints
<1>18. CASE PublishDecision
  BY <1>18
  DEF PublishDecision, SendFrame, Step, ControlPoints
<1>19. CASE DispatchIdle
  BY <1>19, DistanceTypes, CommandTypes
  DEF DispatchIdle, Transit, IdleNext, ReturnFrom, Step, ControlPoints,
      VehicleStates
<1>20. CASE DispatchBrake
  BY <1>20, DistanceTypes, CommandTypes
  DEF DispatchBrake, Transit, ReturnFrom, Step, ControlPoints, VehicleStates
<1>21. CASE DispatchManual
  BY <1>21
  DEF DispatchManual, Enter, Step, ControlPoints
<1>22. CASE DispatchEmergency
  BY <1>22
  DEF DispatchEmergency, Enter, Step, ControlPoints
<1>23. CASE DispatchPark
  BY <1>23
  DEF DispatchPark, Enter, Step, ControlPoints
<1>24. CASE CmdRead
  BY <1>24, CommandTypes
  DEF CmdRead, Step, ControlPoints
<1>25. CASE CmdDrive
  BY <1>25, OutputTypes, DistanceTypes, CommandTypes
  DEF CmdDrive, ReturnFrom, Step, ControlPoints
<1>26. CASE StopFlag
  BY <1>26
  DEF StopFlag, Step, ControlPoints
<1>27. CASE TellStop
  BY <1>27
  DEF TellStop, BuildFrame, Step, ControlPoints
<1>28. CASE PublishStop
  BY <1>28
  DEF PublishStop, SendFrame, Step, ControlPoints
<1>29. CASE StopReverse
  BY <1>29, OutputTypes, DutyNumbers
  DEF StopReverse, Step, ControlPoints
<1>30. CASE StopZero
  BY <1>30, DutyTypes, DutyNumbers
  DEF StopZero, Step, ControlPoints
<1>31. CASE StopHalt
  BY <1>31, OutputTypes, DutyNumbers
  DEF StopHalt, Step, ControlPoints
<1>32. CASE StopWarn
  BY <1>32
  DEF StopWarn, Step, ControlPoints, Leds
<1>33. CASE StopExit
  BY <1>33, DistanceTypes, CommandTypes
  DEF StopExit, ReturnFrom, Step, ControlPoints, VehicleStates, Leds
<1>34. CASE ParkSearch
  BY <1>34, OutputTypes, DutyNumbers
  DEF ParkSearch, ParkLeg, ParkStep, Step, ControlPoints
<1>35. CASE ParkFound
  BY <1>35, OutputTypes, DutyNumbers
  DEF ParkFound, ParkLeg, ParkStep, Step, ControlPoints
<1>36. CASE ParkForward
  BY <1>36, OutputTypes, DutyNumbers
  DEF ParkForward, ParkLeg, ParkStep, Step, ControlPoints
<1>37. CASE ParkPause
  BY <1>37, OutputTypes, DutyNumbers
  DEF ParkPause, ParkLeg, ParkStep, Step, ControlPoints
<1>38. CASE ParkPivot
  BY <1>38, OutputTypes, DutyNumbers
  DEF ParkPivot, ParkLeg, ParkStep, Step, ControlPoints
<1>39. CASE ParkTurned
  BY <1>39, OutputTypes, DutyNumbers
  DEF ParkTurned, ParkLeg, ParkStep, Step, ControlPoints
<1>40. CASE ParkBack
  BY <1>40, OutputTypes, DutyNumbers
  DEF ParkBack, ParkLeg, ParkStep, Step, ControlPoints
<1>41. CASE ParkReached
  BY <1>41, OutputTypes, DutyNumbers
  DEF ParkReached, ParkStep, Step, ControlPoints, Leds
<1>42. CASE ParkDone
  BY <1>42, DistanceTypes, OutputTypes, CommandTypes, DutyNumbers
  DEF ParkDone, ReturnFrom, Step, ControlPoints, VehicleStates
<1>43. CASE UNCHANGED vars
  BY <1>43 DEF vars
<1> QED
  BY <1>1, <1>2, <1>3, <1>4, <1>5, <1>6, <1>7, <1>8, <1>9, <1>10, <1>11,
     <1>12, <1>13, <1>14, <1>15, <1>16, <1>17, <1>18, <1>19, <1>20, <1>21,
     <1>22, <1>23, <1>24, <1>25, <1>26, <1>27, <1>28, <1>29, <1>30, <1>31,
     <1>32, <1>33, <1>34, <1>35, <1>36, <1>37, <1>38, <1>39, <1>40, <1>41,
     <1>42, <1>43
  DEF Next, CanRx, LoopStep, SensorStep

\* The types are an invariant: in particular the duty never leaves 0..1000
\* and nothing but an output of the program reaches the motor.
THEOREM TypeCorrect == Spec => []TypeOK
<1>1. Init => TypeOK
  <2> SUFFICES ASSUME Init PROVE TypeOK
    OBVIOUS
  <2>1. FlagTypes
    BY Zenon DEF Init, FlagTypes
  <2>2. ValueTypes
    BY DutyNumbers, DirectionNumbers, DistanceTypes, CommandTypes, OutputTypes
    DEF Init, ValueTypes, VehicleStates, Leds, ControlPoints
  <2> QED
    BY <2>1, <2>2 DEF TypeOK
<1>2. TypeOK /\ [Next]_vars => TypeOK'
  BY FlagStep, ValueStep DEF TypeOK
<1> QED
  BY <1>1, <1>2, PTL DEF Spec

---------------------------------------------------------------------------
\* The loop writes none of the variables of the interrupts.
LEMMA LoopKeepsInputs == LoopStep \/ SensorStep => UNCHANGED inputVars
<1> SUFFICES ASSUME LoopStep \/ SensorStep PROVE UNCHANGED inputVars
  OBVIOUS
<1> USE DEF Step
<1>1. CASE GateClosed \/ GateOpen \/ Sample \/ UpdateOff \/ ClearFlag \/ UpdateOn
  BY <1>1, Zenon DEF GateClosed, GateOpen, Sample, UpdateOff, ClearFlag, UpdateOn,
                    ReturnFrom
<1>2. CASE Decide \/ TellDecision \/ PublishDecision \/ TellStop \/ PublishStop
  BY <1>2, Zenon DEF Decide, TellDecision, PublishDecision, TellStop,
                    PublishStop, BuildFrame, SendFrame
<1>3. CASE \/ DispatchIdle \/ DispatchBrake \/ DispatchManual
           \/ DispatchEmergency \/ DispatchPark \/ CmdRead \/ CmdDrive
  BY <1>3, Zenon DEF DispatchIdle, DispatchBrake, DispatchManual,
                    DispatchEmergency, DispatchPark, CmdRead, CmdDrive,
                    Transit, Enter, ReturnFrom
<1>4. CASE StopFlag \/ StopReverse \/ StopZero \/ StopHalt \/ StopWarn \/ StopExit
  BY <1>4, Zenon DEF StopFlag, StopReverse, StopZero, StopHalt, StopWarn,
                    StopExit, ReturnFrom
<1>5. CASE \/ ParkSearch \/ ParkFound \/ ParkForward \/ ParkPause \/ ParkPivot
           \/ ParkTurned \/ ParkBack \/ ParkReached \/ ParkDone
  BY <1>5, Zenon DEF ParkSearch, ParkFound, ParkForward, ParkPause, ParkPivot,
                    ParkTurned, ParkBack, ParkReached, ParkDone, ParkLeg,
                    ParkStep, ReturnFrom
<1> QED
  BY <1>1, <1>2, <1>3, <1>4, <1>5 DEF LoopStep, SensorStep

\* A distance the AEB may act on is always under timeout supervision.
THEOREM TofSupervision == Spec => []TofSupervised
<1>1. Init => TofSupervised
  BY DEF Init, TofSupervised
<1>2. TofSupervised /\ [Next]_vars => TofSupervised'
  <2> SUFFICES ASSUME TofSupervised, [Next]_vars PROVE TofSupervised'
    OBVIOUS
  <2> USE DEF TofSupervised
  <2>1. CASE RxTof
    BY <2>1 DEF RxTof, ResetTofTimeoutTimer
  <2>2. CASE RxSetDir \/ RxSetSpeed \/ RxCtrlAeb \/ RxCtrlAutopark \/ RxAuth
             \/ RxEmergencyStop
    BY <2>2 DEF RxSetDir, RxSetSpeed, RxCtrlAeb, RxCtrlAutopark, RxAuth,
                RxEmergencyStop, inputVars
  <2>3. CASE ToFTimeout
    BY <2>3 DEF ToFTimeout
  <2>4. CASE Stm0Isr
    BY <2>4 DEF Stm0Isr
  <2>5. CASE LoopStep \/ SensorStep
    BY <2>5, LoopKeepsInputs DEF inputVars
  <2>6. CASE UNCHANGED vars
    BY <2>6 DEF vars, inputVars
  <2> QED
    BY <2>1, <2>2, <2>3, <2>4, <2>5, <2>6 DEF Next, CanRx
<1> QED
  BY <1>1, <1>2, PTL DEF Spec

---------------------------------------------------------------------------
LEMMA BrakeStep == BrakeDecided /\ TypeOK /\ [Next]_vars => BrakeDecided'
<1> SUFFICES ASSUME BrakeDecided, TypeOK, [Next]_vars PROVE BrakeDecided'
  OBVIOUS
<1> USE DEF BrakeDecided, inputVars, locals
<1>1. CASE CanRx
  \* The frame is remembered, or the iteration has not sampled yet.
  <2>1. Received
    BY <1>1 DEF CanRx, RxSetDir, RxSetSpeed, RxCtrlAeb, RxCtrlAutopark,
                RxAuth, RxEmergencyStop, RxTof
  <2> QED
    BY <2>1 DEF Received
<1>2. CASE ToFTimeout
  BY <1>2 DEF ToFTimeout
<1>3. CASE Stm0Isr
  BY <1>3 DEF Stm0Isr
<1>4. CASE \/ GateClosed \/ DispatchIdle \/ DispatchBrake \/ CmdDrive
           \/ StopExit \/ ParkDone
  \* The iteration ends.
  <2>1. pc' = "gate"
    BY <1>4 DEF GateClosed, DispatchIdle, DispatchBrake, CmdDrive, StopExit,
                ParkDone, Transit, ReturnFrom, Step
  <2> QED
    BY <2>1
<1>5. CASE GateOpen \/ Sample \/ UpdateOn
  BY <1>5 DEF GateOpen, Sample, UpdateOn, Step
<1>6. CASE UpdateOff
  BY <1>6 DEF UpdateOff, Step
<1>7. CASE ClearFlag
  BY <1>7 DEF ClearFlag, Step
<1>8. CASE Decide
  <2>1. distance < AEB_DISTANCE_MM /\ aebEnableFlag => aebActiveFlag'
    <3>1. AEB_DISTANCE_MM \in Nat /\ SAFETY_DISTANCE_MM \in Nat
          /\ AEB_DISTANCE_MM <= SAFETY_DISTANCE_MM
      BY DEF AEB_DISTANCE_MM, SAFETY_DISTANCE_MM
    <3>2. distance \in Int
      BY DistanceNumbers DEF TypeOK, ValueTypes, Distances
    <3> QED
      BY <1>8, <3>1, <3>2 DEF Decide, AebFlagAfter
  <2> QED
    BY <1>8, <2>1 DEF Decide, Step
<1>9. CASE TellDecision \/ TellStop
  BY <1>9 DEF TellDecision, TellStop, BuildFrame, Step
<1>10. CASE PublishDecision \/ PublishStop
  BY <1>10 DEF PublishDecision, PublishStop, SendFrame, Step
<1>11. CASE DispatchManual
  BY <1>11 DEF DispatchManual, Enter, MustBrake, Step
<1>12. CASE DispatchEmergency \/ DispatchPark
  BY <1>12 DEF DispatchEmergency, DispatchPark, Enter, Step
<1>13. CASE CmdRead
  BY <1>13 DEF CmdRead, Step, Moving
<1>14. CASE StopFlag \/ StopReverse \/ StopZero \/ StopHalt \/ StopWarn
  BY <1>14 DEF StopFlag, StopReverse, StopZero, StopHalt, StopWarn, Step
<1>15. CASE \/ ParkSearch \/ ParkFound \/ ParkForward \/ ParkPause \/ ParkPivot
            \/ ParkTurned \/ ParkBack \/ ParkReached
  BY <1>15 DEF ParkSearch, ParkFound, ParkForward, ParkPause, ParkPivot,
               ParkTurned, ParkBack, ParkReached, ParkLeg, ParkStep, Step
<1>16. CASE UNCHANGED vars
  BY <1>16 DEF vars
<1> QED
  BY <1>1, <1>2, <1>3, <1>4, <1>5, <1>6, <1>7, <1>8, <1>9, <1>10, <1>11,
     <1>12, <1>13, <1>14, <1>15, <1>16
  DEF Next, LoopStep, SensorStep

\* An iteration that no CAN frame interrupted never drives towards an obstacle
\* it has seen (fsm.c:44-48, fsm.c:83-92).
THEOREM BrakingHolds == Spec => []NoBlindDrive
<1>1. Init => BrakeDecided
  BY DEF Init, BrakeDecided
<1>2. BrakeDecided => NoBlindDrive
  BY DEF BrakeDecided, NoBlindDrive, MotorOf, Moving, Stopped
<1> QED
  BY <1>1, <1>2, BrakeStep, TypeCorrect, PTL DEF Spec

---------------------------------------------------------------------------
\* AUTO_PARK is never entered or continued without a standing request.
THEOREM ParkingHasRequest == Spec => []ParkKeepsRequest
<1>1. Init => ParkKeepsRequest
  BY DEF Init, ParkKeepsRequest
<1>2. ParkKeepsRequest /\ [Next]_vars => ParkKeepsRequest'
  <2> SUFFICES ASSUME ParkKeepsRequest, [Next]_vars PROVE ParkKeepsRequest'
    OBVIOUS
  <2> USE DEF ParkKeepsRequest, fsmVars
  <2>1. CASE CanRx
    BY <2>1 DEF CanRx, RxSetDir, RxSetSpeed, RxCtrlAeb, RxCtrlAutopark,
                RxAuth, RxEmergencyStop, RxTof, Received
  <2>2. CASE ToFTimeout \/ Stm0Isr
    BY <2>2 DEF ToFTimeout, Stm0Isr
  <2>3. CASE GateClosed \/ GateOpen \/ Sample \/ UpdateOff \/ ClearFlag \/ UpdateOn
    BY <2>3 DEF GateClosed, GateOpen, Sample, UpdateOff, ClearFlag, UpdateOn
  <2>4. CASE Decide \/ TellDecision \/ PublishDecision \/ TellStop \/ PublishStop
    BY <2>4 DEF Decide, TellDecision, PublishDecision, TellStop, PublishStop,
                BuildFrame, SendFrame
  <2>5. CASE DispatchIdle
    BY <2>5 DEF DispatchIdle, Transit, IdleNext
  <2>6. CASE \/ DispatchBrake \/ DispatchManual \/ DispatchEmergency
             \/ DispatchPark \/ CmdRead \/ CmdDrive
    BY <2>6 DEF DispatchBrake, DispatchManual, DispatchEmergency,
                DispatchPark, CmdRead, CmdDrive, Transit, Enter
  <2>7. CASE StopFlag \/ StopReverse \/ StopZero \/ StopHalt \/ StopWarn \/ StopExit
    BY <2>7 DEF StopFlag, StopReverse, StopZero, StopHalt, StopWarn, StopExit
  <2>8. CASE \/ ParkSearch \/ ParkFound \/ ParkForward \/ ParkPause
             \/ ParkPivot \/ ParkTurned \/ ParkBack \/ ParkReached
    BY <2>8 DEF ParkSearch, ParkFound, ParkForward, ParkPause, ParkPivot,
                ParkTurned, ParkBack, ParkReached, ParkLeg, ParkStep
  <2>9. CASE ParkDone
    BY <2>9 DEF ParkDone
  <2>10. CASE UNCHANGED vars
    BY <2>10 DEF vars
  <2> QED
    BY <2>1, <2>2, <2>3, <2>4, <2>5, <2>6, <2>7, <2>8, <2>9, <2>10
    DEF Next, LoopStep, SensorStep
<1> QED
  BY <1>1, <1>2, PTL DEF Spec

---------------------------------------------------------------------------
\* The published AEB state and the publisher's memory part only when an
\* interrupt changes the flag between building and remembering a frame.
THEOREM PublisherTorn == Spec => TornOnlyByInterrupt
<1> DEFINE Torn == /\ busAeb = prevAebState
                   /\ busAeb' # prevAebState'
                   => /\ pc \in {"publishDecision", "publishStop"}
                      /\ aebActiveFlag # txAeb
<1>1. [Next]_vars => [Torn]_vars
  <2> SUFFICES ASSUME Next PROVE Torn
    OBVIOUS
  <2> USE DEF aebPubVars
  <2>1. CASE RxEmergencyStop
    BY <2>1, Zenon DEF RxEmergencyStop, SendAebNow
  <2>2. CASE RxTof
    BY <2>2, Zenon DEF RxTof, SendAebNow
  <2>3. CASE RxSetDir \/ RxSetSpeed \/ RxCtrlAeb \/ RxCtrlAutopark \/ RxAuth
    BY <2>3, Zenon
    DEF RxSetDir, RxSetSpeed, RxCtrlAeb, RxCtrlAutopark, RxAuth
  <2>4. CASE ToFTimeout \/ Stm0Isr
    BY <2>4, Zenon DEF ToFTimeout, Stm0Isr
  <2>5. CASE PublishDecision \/ PublishStop
    BY <2>5, Zenon DEF PublishDecision, PublishStop, SendFrame, Step
  <2>6. CASE \/ GateClosed \/ GateOpen \/ Sample \/ UpdateOff \/ ClearFlag
             \/ UpdateOn \/ Decide \/ TellDecision \/ TellStop
    BY <2>6, Zenon DEF GateClosed, GateOpen, Sample, UpdateOff, ClearFlag,
       UpdateOn, Decide, TellDecision, TellStop, BuildFrame
  <2>7. CASE \/ DispatchIdle \/ DispatchBrake \/ DispatchManual
             \/ DispatchEmergency \/ DispatchPark \/ CmdRead \/ CmdDrive
    BY <2>7, Zenon DEF DispatchIdle, DispatchBrake, DispatchManual,
       DispatchEmergency, DispatchPark, CmdRead, CmdDrive, Transit, Enter
  <2>8. CASE \/ StopFlag \/ StopReverse \/ StopZero \/ StopHalt \/ StopWarn
             \/ StopExit
    BY <2>8, Zenon DEF StopFlag, StopReverse, StopZero, StopHalt, StopWarn,
       StopExit
  <2>9. CASE \/ ParkSearch \/ ParkFound \/ ParkForward \/ ParkPause
             \/ ParkPivot \/ ParkTurned \/ ParkBack \/ ParkReached \/ ParkDone
    BY <2>9, Zenon DEF ParkSearch, ParkFound, ParkForward, ParkPause,
       ParkPivot, ParkTurned, ParkBack, ParkReached, ParkDone, ParkLeg,
       ParkStep
  <2> QED
    BY <2>1, <2>2, <2>3, <2>4, <2>5, <2>6, <2>7, <2>8, <2>9
    DEF Next, CanRx, LoopStep, SensorStep
<1> QED
  BY <1>1, PTL DEF Spec, TornOnlyByInterrupt

---------------------------------------------------------------------------
LEMMA StopStep == StopArmed /\ [Next]_vars => StopArmed'
<1> SUFFICES ASSUME StopArmed, [Next]_vars PROVE StopArmed'
  OBVIOUS
<1> USE DEF StopArmed, locals
<1>1. CASE CanRx
  <2>1. Received
    BY <1>1 DEF CanRx, RxSetDir, RxSetSpeed, RxCtrlAeb, RxCtrlAutopark,
                RxAuth, RxEmergencyStop, RxTof
  <2> QED
    BY <2>1 DEF Received
<1>2. CASE ToFTimeout \/ Stm0Isr
  BY <1>2 DEF ToFTimeout, Stm0Isr
<1>3. CASE \/ GateClosed \/ DispatchIdle \/ DispatchBrake \/ CmdDrive
           \/ StopExit \/ ParkDone
  <2>1. pc' = "gate"
    BY <1>3 DEF GateClosed, DispatchIdle, DispatchBrake, CmdDrive, StopExit,
                ParkDone, Transit, ReturnFrom, Step
  <2> QED
    BY <2>1
<1>4. CASE GateOpen \/ Sample \/ UpdateOff \/ ClearFlag \/ UpdateOn \/ Decide
  BY <1>4 DEF GateOpen, Sample, UpdateOff, ClearFlag, UpdateOn, Decide, Step
<1>5. CASE TellDecision \/ TellStop
  BY <1>5 DEF TellDecision, TellStop, BuildFrame, Step
<1>6. CASE PublishDecision \/ PublishStop
  BY <1>6 DEF PublishDecision, PublishStop, SendFrame, Step
<1>7. CASE DispatchManual \/ DispatchEmergency \/ DispatchPark \/ CmdRead
  BY <1>7 DEF DispatchManual, DispatchEmergency, DispatchPark, CmdRead,
              Enter, Step
<1>8. CASE StopFlag
  BY <1>8 DEF StopFlag, Step
<1>9. CASE StopReverse \/ StopZero \/ StopHalt \/ StopWarn
  BY <1>9 DEF StopReverse, StopZero, StopHalt, StopWarn, Step
<1>10. CASE \/ ParkSearch \/ ParkFound \/ ParkForward \/ ParkPause \/ ParkPivot
            \/ ParkTurned \/ ParkBack \/ ParkReached
  BY <1>10 DEF ParkSearch, ParkFound, ParkForward, ParkPause, ParkPivot,
               ParkTurned, ParkBack, ParkReached, ParkLeg, ParkStep, Step
<1>11. CASE UNCHANGED vars
  BY <1>11 DEF vars
<1> QED
  BY <1>1, <1>2, <1>3, <1>4, <1>5, <1>6, <1>7, <1>8, <1>9, <1>10, <1>11
  DEF Next, LoopStep, SensorStep

\* Only StopExit leads from EMERGENCY_STOP to MANUAL_DRIVE.
LEMMA LeavingStep ==
  /\ Next
  /\ currentState = "EMERGENCY_STOP" /\ currentState' = "MANUAL_DRIVE"
  => StopExit
<1> SUFFICES ASSUME Next, currentState = "EMERGENCY_STOP",
                    currentState' = "MANUAL_DRIVE", ~StopExit
             PROVE  FALSE
  OBVIOUS
<1> USE DEF fsmVars
<1>1. CASE CanRx
  BY <1>1 DEF CanRx, RxSetDir, RxSetSpeed, RxCtrlAeb, RxCtrlAutopark, RxAuth,
              RxEmergencyStop, RxTof, Received
<1>2. CASE ToFTimeout \/ Stm0Isr
  BY <1>2 DEF ToFTimeout, Stm0Isr
<1>3. CASE \/ GateClosed \/ GateOpen \/ Sample \/ UpdateOff \/ ClearFlag
           \/ UpdateOn \/ Decide
  BY <1>3 DEF GateClosed, GateOpen, Sample, UpdateOff, ClearFlag, UpdateOn,
              Decide
<1>4. CASE \/ TellDecision \/ TellStop \/ PublishDecision \/ PublishStop
  BY <1>4 DEF TellDecision, TellStop, PublishDecision, PublishStop,
              BuildFrame, SendFrame
<1>5. CASE \/ DispatchIdle \/ DispatchBrake \/ DispatchManual
           \/ DispatchEmergency \/ DispatchPark \/ CmdRead \/ CmdDrive
  BY <1>5 DEF DispatchIdle, DispatchBrake, DispatchManual, DispatchEmergency,
              DispatchPark, CmdRead, CmdDrive, Transit, Enter
<1>6. CASE StopFlag \/ StopReverse \/ StopZero \/ StopHalt \/ StopWarn
  BY <1>6 DEF StopFlag, StopReverse, StopZero, StopHalt, StopWarn
<1>7. CASE \/ ParkSearch \/ ParkFound \/ ParkForward \/ ParkPause \/ ParkPivot
           \/ ParkTurned \/ ParkBack \/ ParkReached \/ ParkDone
  BY <1>7 DEF ParkSearch, ParkFound, ParkForward, ParkPause, ParkPivot,
              ParkTurned, ParkBack, ParkReached, ParkDone, ParkLeg, ParkStep
<1> QED
  BY <1>1, <1>2, <1>3, <1>4, <1>5, <1>6, <1>7 DEF Next, LoopStep, SensorStep

\* An emergency stop is left only for a reverse command or because a frame of
\* the same iteration ended it.
THEOREM EmergencyHolds == Spec => ReleasedByFrame
<1> DEFINE Left == currentState = "EMERGENCY_STOP"
                   /\ currentState' = "MANUAL_DRIVE"
                   => currentDir \in ReverseDirs \/ rxSinceSample
<1>1. Init => StopArmed
  BY DEF Init, StopArmed
<1>2. StopArmed /\ [Next]_vars => [Left]_vars
  <2> SUFFICES ASSUME StopArmed, Next,
                      currentState = "EMERGENCY_STOP",
                      currentState' = "MANUAL_DRIVE"
               PROVE  currentDir \in ReverseDirs \/ rxSinceSample
    OBVIOUS
  <2>1. StopExit
    BY LeavingStep
  <2>2. pc = "stopExit" /\ ~MustBrake
    BY <2>1 DEF StopExit, ReturnFrom, Step
  <2> QED
    BY <2>2 DEF StopArmed, MustBrake
<1> QED
  BY <1>1, <1>2, StopStep, PTL DEF Spec, ReleasedByFrame

---------------------------------------------------------------------------
LEMMA CaseStep == CaseKept /\ [Next]_vars => CaseKept'
<1> SUFFICES ASSUME CaseKept, [Next]_vars PROVE CaseKept'
  OBVIOUS
<1> USE DEF CaseKept, StopPoints, ParkPoints, fsmVars
<1>1. CASE CanRx
  BY <1>1 DEF CanRx, RxSetDir, RxSetSpeed, RxCtrlAeb, RxCtrlAutopark, RxAuth,
              RxEmergencyStop, RxTof, Received
<1>2. CASE ToFTimeout \/ Stm0Isr
  BY <1>2 DEF ToFTimeout, Stm0Isr
<1>3. CASE \/ GateClosed \/ DispatchIdle \/ DispatchBrake \/ CmdDrive
           \/ StopExit \/ ParkDone
  <2>1. pc' = "gate"
    BY <1>3 DEF GateClosed, DispatchIdle, DispatchBrake, CmdDrive, StopExit,
                ParkDone, Transit, ReturnFrom, Step
  <2> QED
    BY <2>1
<1>4. CASE GateOpen \/ Sample \/ UpdateOff \/ ClearFlag \/ UpdateOn \/ Decide
  BY <1>4 DEF GateOpen, Sample, UpdateOff, ClearFlag, UpdateOn, Decide, Step
<1>5. CASE TellDecision \/ TellStop
  BY <1>5 DEF TellDecision, TellStop, BuildFrame, Step
<1>6. CASE PublishDecision \/ PublishStop
  BY <1>6 DEF PublishDecision, PublishStop, SendFrame, Step
<1>7. CASE DispatchManual \/ DispatchEmergency \/ DispatchPark \/ CmdRead
  BY <1>7 DEF DispatchManual, DispatchEmergency, DispatchPark, CmdRead,
              Enter, Step
<1>8. CASE StopFlag \/ StopReverse \/ StopZero \/ StopHalt
  BY <1>8 DEF StopFlag, StopReverse, StopZero, StopHalt, Step
<1>9. CASE StopWarn
  BY <1>9 DEF StopWarn, Step
<1>10. CASE \/ ParkSearch \/ ParkFound \/ ParkForward \/ ParkPause \/ ParkPivot
            \/ ParkTurned \/ ParkBack \/ ParkReached
  BY <1>10 DEF ParkSearch, ParkFound, ParkForward, ParkPause, ParkPivot,
               ParkTurned, ParkBack, ParkReached, ParkLeg, ParkStep, Step
<1>11. CASE UNCHANGED vars
  BY <1>11 DEF vars
<1> QED
  BY <1>1, <1>2, <1>3, <1>4, <1>5, <1>6, <1>7, <1>8, <1>9, <1>10, <1>11
  DEF Next, LoopStep, SensorStep

\* Every step of the program is a step of the modes or changes none of them.
LEMMA ModeStep ==
  CaseKept /\ ParkKeepsRequest /\ FlagTypes /\ [Next]_vars
    => [Modes!Next]_(Modes!vars)
<1> SUFFICES ASSUME CaseKept, ParkKeepsRequest, FlagTypes, [Next]_vars
             PROVE  [Modes!Next]_(Modes!vars)
  OBVIOUS
<1> DEFINE Same == UNCHANGED <<currentState, buzzerFlag, autoParkFlag>>
<1> Same => UNCHANGED Modes!vars
  BY DEF Modes!vars
<1> HIDE DEF Same
<1>1. CASE RxCtrlAutopark
  <2>1. Modes!Ask
    BY <1>1 DEF RxCtrlAutopark, Received, fsmVars, Modes!Ask
  <2> QED
    BY <2>1 DEF Modes!Next
<1>2. CASE RxSetDir \/ RxSetSpeed \/ RxCtrlAeb \/ RxAuth \/ RxEmergencyStop \/ RxTof
  <2>1. Same
    BY <1>2 DEF Same, RxSetDir, RxSetSpeed, RxCtrlAeb, RxAuth, RxEmergencyStop,
                RxTof, Received, fsmVars
  <2> QED
    BY <2>1
<1>3. CASE ToFTimeout \/ Stm0Isr
  <2>1. Same
    BY <1>3 DEF Same, ToFTimeout, Stm0Isr, fsmVars
  <2> QED
    BY <2>1
<1>4. CASE GateClosed
  <2>1. Modes!Logout
    BY <1>4 DEF GateClosed, Modes!Logout
  <2> QED
    BY <2>1 DEF Modes!Next
<1>5. CASE GateOpen \/ Sample \/ UpdateOff \/ ClearFlag \/ UpdateOn \/ Decide
  <2>1. Same
    BY <1>5 DEF Same, GateOpen, Sample, UpdateOff, ClearFlag, UpdateOn, Decide,
                fsmVars
  <2> QED
    BY <2>1
<1>6. CASE TellDecision \/ TellStop \/ PublishDecision \/ PublishStop
  <2>1. Same
    BY <1>6 DEF Same, TellDecision, TellStop, PublishDecision, PublishStop,
                BuildFrame, SendFrame, fsmVars
  <2> QED
    BY <2>1
<1>7. CASE DispatchIdle
  <2>1. /\ currentState = "IDLE" /\ currentState' = IdleNext
        /\ UNCHANGED <<buzzerFlag, autoParkFlag>>
    BY <1>7 DEF DispatchIdle, Transit
  <2>2. CASE currentState' = "MANUAL_DRIVE"
    <3>1. Modes!Start
      BY <2>1, <2>2 DEF Modes!Start, Modes!Move
    <3> QED
      BY <3>1 DEF Modes!Next
  <2>3. CASE currentState' = "AUTO_PARK"
    <3>1. autoParkFlag
      BY <2>1, <2>3 DEF IdleNext
    <3>2. Modes!Park
      BY <2>1, <2>3, <3>1 DEF Modes!Park, Modes!Move
    <3> QED
      BY <3>2 DEF Modes!Next
  <2>4. CASE currentState' = "IDLE"
    <3>1. Same
      BY <2>1, <2>4 DEF Same
    <3> QED
      BY <3>1
  <2> QED
    BY <2>1, <2>2, <2>3, <2>4 DEF IdleNext
<1>8. CASE DispatchBrake
  <2>1. Modes!Brake
    BY <1>8 DEF DispatchBrake, Transit, Modes!Brake, Modes!Move
  <2> QED
    BY <2>1 DEF Modes!Next
<1>9. CASE \/ DispatchManual \/ DispatchEmergency \/ DispatchPark
           \/ CmdRead \/ CmdDrive
  <2>1. Same
    BY <1>9 DEF Same, DispatchManual, DispatchEmergency, DispatchPark, CmdRead,
                CmdDrive, Enter, fsmVars
  <2> QED
    BY <2>1
<1>10. CASE StopFlag \/ StopReverse \/ StopZero \/ StopHalt
  <2>1. Same
    BY <1>10 DEF Same, StopFlag, StopReverse, StopZero, StopHalt, fsmVars
  <2> QED
    BY <2>1
<1>11. CASE StopWarn
  <2>1. /\ currentState = "EMERGENCY_STOP" /\ buzzerFlag' = FALSE
        /\ UNCHANGED <<currentState, autoParkFlag>>
    BY <1>11 DEF StopWarn, Step, CaseKept, StopPoints
  <2>2. CASE buzzerFlag
    <3>1. Modes!Warn
      BY <2>1, <2>2 DEF Modes!Warn
    <3> QED
      BY <3>1 DEF Modes!Next
  <2>3. CASE ~buzzerFlag
    <3>1. buzzerFlag = FALSE
      BY <2>3, Zenon DEF FlagTypes
    <3>2. Same
      BY <2>1, <3>1, Zenon DEF Same
    <3> QED
      BY <3>2
  <2> QED
    BY <2>2, <2>3
<1>12. CASE StopExit
  <2>1. /\ currentState = "EMERGENCY_STOP" /\ ~buzzerFlag
        /\ UNCHANGED autoParkFlag
    BY <1>12 DEF StopExit, ReturnFrom, Step, CaseKept, StopPoints
  <2>2. CASE MustBrake
    <3>1. Same
      BY <1>12, <2>1, <2>2 DEF StopExit, Same
    <3> QED
      BY <3>1
  <2>3. CASE ~MustBrake
    <3>1. Modes!Release
      BY <1>12, <2>1, <2>3 DEF StopExit, Modes!Release, Modes!Move
    <3> QED
      BY <3>1 DEF Modes!Next
  <2> QED
    BY <2>2, <2>3
<1>13. CASE \/ ParkSearch \/ ParkFound \/ ParkForward \/ ParkPause
            \/ ParkPivot \/ ParkTurned \/ ParkBack \/ ParkReached
  <2>1. Same
    BY <1>13 DEF Same, ParkSearch, ParkFound, ParkForward, ParkPause,
       ParkPivot, ParkTurned, ParkBack, ParkReached, ParkLeg, ParkStep
  <2> QED
    BY <2>1
<1>14. CASE ParkDone
  <2>1. currentState = "AUTO_PARK" /\ autoParkFlag
    BY <1>14 DEF ParkDone, ReturnFrom, Step, CaseKept, ParkPoints,
                 ParkKeepsRequest
  <2>2. Modes!Parked
    BY <1>14, <2>1 DEF ParkDone, Modes!Parked, Modes!Move
  <2> QED
    BY <2>2 DEF Modes!Next
<1>15. CASE UNCHANGED vars
  <2>1. Same
    BY <1>15 DEF Same, vars, fsmVars
  <2> QED
    BY <2>1
<1> QED
  BY <1>1, <1>2, <1>3, <1>4, <1>5, <1>6, <1>7, <1>8, <1>9, <1>10, <1>11,
     <1>12, <1>13, <1>14, <1>15
  DEF Next, CanRx, LoopStep, SensorStep

\* The program implements the modes: whatever interrupts the loop, it moves
\* between them, warns and parks only as VehicleModes allows.
THEOREM ModesImplemented == Spec => ImplementsModes
<1>1. Init => CaseKept /\ Modes!Init
  BY DEF Init, CaseKept, StopPoints, ParkPoints, Modes!Init
<1>2. TypeOK => FlagTypes
  BY DEF TypeOK
<1> QED
  BY <1>1, <1>2, CaseStep, ModeStep, TypeCorrect, ParkingHasRequest, PTL
  DEF Spec, ImplementsModes, Modes!Spec
=============================================================================
