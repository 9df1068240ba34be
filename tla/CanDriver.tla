----------------------------- MODULE CanDriver -----------------------------
(***************************************************************************)
(* BSW/MCAL/can.c and its callers: canSendMsg, which fills one message and *)
(* data buffer (g_mcmcan.txMsg, txData) for the foreground loop and for    *)
(* the interrupts, canRxIsrHandler, which reads one frame of RX FIFO 0 per *)
(* interrupt, and stm2IsrHandler, which publishes the ToF distance every   *)
(* half second (ASW/soa_vsomeip_integration/soa_publisher.c).              *)
(*                                                                         *)
(* Everything runs on CPU0.  The loop is cut at every use of what it       *)
(* shares; an interrupt stops it until the interrupt returns, but the CAN  *)
(* controller goes on: frames arrive and the pending one is sent.  The     *)
(* controller is modelled from how can.c configures and calls it.          *)
(***************************************************************************)
EXTENDS Integers, Sequences, FiniteSets

CONSTANTS
  Readings,       \* distances (mm) of the ToF frames that arrive
  DefaultReading, \* TOF_DEFAULT_VALUE_MM
  FrameValues,    \* values a distance has room for in a frame (2^24)
  WordValues,     \* values of g_TofValue (2^32)
  FifoSize,       \* elements of RX FIFO 0 (15)
  MaxSends        \* bound: calls of canSendMsg

ASSUME DriverAssumption ==
  /\ FrameValues \in Nat \ {0} /\ WordValues \in Nat \ {0}
  /\ DefaultReading \in Nat
  /\ Readings \subseteq Nat
  /\ FifoSize \in Nat \ {0} /\ MaxSends \in Nat

\* Every distance fits into a frame; the error value is above all of them by more
\* than the publisher's smallest change, and cut to the frame it is a value no
\* sensor sends (2^24 - 1 mm).
ASSUME SensorAssumption ==
  /\ \A mm \in Readings \cup {DefaultReading} : mm < FrameValues - 1
  /\ FrameValues + 4 < WordValues
  /\ (WordValues - 1) % FrameValues = FrameValues - 1

VARIABLES
  \* the receiving side: RX FIFO 0, its new-message flag, the latched request
  fifo, rf0n, request,
  \* the interrupt that runs: its position, the frame and the message it holds
  isr, rxMsg, isrMsg,
  \* canSendMsg in the loop: its position and the message it was called for
  loopPc, loopMsg,
  \* the shared buffers, the transmit buffer of the controller, its request
  txMsg, txData, txBuffer, pending,
  \* the ToF distance and the one published last
  g_TofValue, prevTofValue,
  \* history: frames sent, calls of canSendMsg, those whose send was crossed by
  \* another one, whether two frames were ever in the FIFO together, whether the
  \* publisher has run since the distance changed
  wire, calls, crossed, together, fresh

rxVars == <<fifo, rf0n, request, together>>
bufVars == <<txMsg, txData, txBuffer, pending>>
tofVars == <<g_TofValue, prevTofValue, fresh>>
loopVars == <<loopPc, loopMsg>>
isrVars == <<isr, rxMsg, isrMsg>>
vars == <<rxVars, isrVars, loopVars, bufVars, tofVars, wire, calls, crossed>>

---------------------------------------------------------------------------
TOF_INVALID_VALUE == WordValues - 1
Silence == FrameValues - 1   \* TOF_INVALID_VALUE as the frame carries it
MIN_CHANGE == 5

\* A message: the call of canSendMsg it belongs to, and the distance it tells.
NoDistance == -1
Message(says) == [call |-> calls + 1, says |-> says]

\* What the code does with a received frame: a distance, or anything else.
Command == NoDistance
RxFrames == Readings \cup {Command}

Init ==
  /\ fifo = <<>> /\ rf0n = FALSE /\ request = FALSE
  /\ isr = "off" /\ rxMsg = Command /\ isrMsg = [call |-> 0, says |-> NoDistance]
  /\ loopPc = "idle" /\ loopMsg = isrMsg
  /\ txMsg = 0 /\ txData = isrMsg /\ pending = FALSE
  /\ txBuffer = [id |-> 0, data |-> isrMsg]
  /\ g_TofValue = DefaultReading /\ prevTofValue = 0
  /\ wire = <<>> /\ calls = 0 /\ crossed = {}
  /\ together = FALSE /\ fresh = FALSE

---------------------------------------------------------------------------
(* The controller.                                                         *)

\* A frame comes.  Only a flag that rises requests an interrupt, and a full
\* FIFO rejects the frame without raising it.
FrameArrives(frame) ==
  /\ \/ /\ Len(fifo) < FifoSize
        /\ fifo' = Append(fifo, frame)
        /\ rf0n' = TRUE
        /\ request' = (request \/ ~rf0n)
        /\ together' = (together \/ fifo # <<>>)
     \/ /\ Len(fifo) = FifoSize
        /\ UNCHANGED <<fifo, rf0n, request, together>>
  /\ UNCHANGED <<isrVars, loopVars, bufVars, tofVars, wire, calls, crossed>>

\* The bus takes the frame whose transmission is requested.
BusSends ==
  /\ pending
  /\ pending' = FALSE
  /\ wire' = Append(wire, txBuffer)
  /\ UNCHANGED <<rxVars, isrVars, loopVars, txMsg, txData, txBuffer, tofVars,
                 calls, crossed>>

---------------------------------------------------------------------------
(* canSendMsg in the foreground loop: statuses and diagnostic responses.   *)

LoopStep(from, to) ==
  /\ isr = "off" /\ loopPc = from /\ loopPc' = to
  /\ UNCHANGED <<rxVars, isrVars, tofVars, wire, crossed>>

LoopCalls ==
  /\ calls < MaxSends
  /\ LoopStep("idle", "header")
  /\ calls' = calls + 1
  /\ loopMsg' = Message(NoDistance)
  /\ UNCHANGED bufVars

LoopWritesHeader ==
  /\ LoopStep("header", "data")
  /\ txMsg' = loopMsg.call
  /\ UNCHANGED <<txData, txBuffer, pending, calls, loopMsg>>

LoopWritesData ==
  /\ LoopStep("data", "test")
  /\ txData' = loopMsg
  /\ UNCHANGED <<txMsg, txBuffer, pending, calls, loopMsg>>

\* (Two mistakes: the last frame is overwritten; the answer is taken for its
\* opposite.)
SendAnyway == TRUE
SendWhenBusy == pending

\* notSentBusy while the last frame waits for the bus: the loop tries again.
MaySend == ~pending
LoopFindsFree ==
  /\ MaySend
  /\ LoopStep("test", "copyHeader")
  /\ UNCHANGED <<bufVars, calls, loopMsg>>

LoopCopiesHeader ==
  /\ LoopStep("copyHeader", "copyData")
  /\ txBuffer' = [id |-> txMsg, data |-> txBuffer.data]
  /\ UNCHANGED <<txMsg, txData, pending, calls, loopMsg>>

LoopCopiesData ==
  /\ LoopStep("copyData", "request")
  /\ txBuffer' = [id |-> txBuffer.id, data |-> txData]
  /\ UNCHANGED <<txMsg, txData, pending, calls, loopMsg>>

LoopRequests ==
  /\ LoopStep("request", "idle")
  /\ pending' = TRUE
  /\ UNCHANGED <<txMsg, txData, txBuffer, calls, loopMsg>>

---------------------------------------------------------------------------
(* The interrupts.  canSendMsg called from one of them keeps the CPU until *)
(* the transmit buffer is free; then nothing comes between its steps.      *)

Filled == {"test", "copyHeader", "copyData", "request"}
Touched == Filled \cup {"data"}

IsrSends ==
  /\ isr = "send" /\ MaySend
  /\ isr' = "off"
  /\ txMsg' = isrMsg.call /\ txData' = isrMsg
  /\ txBuffer' = [id |-> isrMsg.call, data |-> isrMsg]
  /\ pending' = TRUE
  /\ crossed' = crossed \cup (IF loopPc \in Touched THEN {loopMsg.call} ELSE {})
                        \cup (IF loopPc \in Filled THEN {isrMsg.call} ELSE {})
  /\ UNCHANGED <<rxVars, rxMsg, isrMsg, loopVars, tofVars, wire, calls>>

\* The interrupt goes on to canSendMsg.
IsrCalls(says) ==
  /\ calls < MaxSends
  /\ calls' = calls + 1
  /\ isrMsg' = Message(says)
  /\ isr' = "send"

IsrReturns == isr' = "off" /\ UNCHANGED <<isrMsg, calls>>

RxIsrStarts ==
  /\ isr = "off" /\ request
  /\ isr' = "started"
  /\ request' = FALSE
  /\ UNCHANGED <<fifo, rf0n, together, rxMsg, isrMsg, loopVars, bufVars,
                 tofVars, wire, calls, crossed>>

\* (A mistake: the flag stays.)
KeepFlag ==
  /\ isr = "started" /\ isr' = "cleared"
  /\ UNCHANGED <<rxVars, rxMsg, isrMsg, loopVars, bufVars, tofVars, wire, calls,
                 crossed>>

\* canRecvMsg clears the flag before it reads.
ClearFlag ==
  /\ isr = "started" /\ isr' = "cleared"
  /\ rf0n' = FALSE
  /\ UNCHANGED <<fifo, request, together, rxMsg, isrMsg, loopVars,
                 bufVars, tofVars, wire, calls, crossed>>

\* One frame; an empty FIFO would give the last one again.
ReadFrame ==
  /\ isr = "cleared" /\ isr' = "read"
  /\ \/ fifo # <<>> /\ rxMsg' = Head(fifo) /\ fifo' = Tail(fifo)
     \/ fifo = <<>> /\ UNCHANGED <<rxMsg, fifo>>
  /\ UNCHANGED <<rf0n, request, together, isrMsg, loopVars, bufVars,
                 tofVars, wire, calls, crossed>>

\* (A mistake: the interrupt reads on while the FIFO holds a frame.)
HandleAll ==
  /\ isr = "read"
  /\ isr' = IF fifo = <<>> THEN "off" ELSE "cleared"
  /\ UNCHANGED <<rxVars, rxMsg, isrMsg, loopVars, bufVars, tofVars, wire, calls,
                 crossed>>

\* tofUpdateFromCAN, canSOAHandler or CANTP_HandleRxISR, which may have a status
\* to publish.
HandleFrame ==
  /\ isr = "read"
  /\ \/ /\ rxMsg # Command
        /\ g_TofValue' = rxMsg /\ fresh' = FALSE
        /\ UNCHANGED prevTofValue
     \/ rxMsg = Command /\ UNCHANGED tofVars
  /\ IsrReturns \/ IsrCalls(NoDistance)
  /\ UNCHANGED <<rxVars, rxMsg, loopVars, bufVars, wire, crossed>>

\* stm0IsrHandler: the sensor has been silent.
TofTimeout ==
  /\ isr = "off"
  /\ g_TofValue' = TOF_INVALID_VALUE /\ fresh' = FALSE
  /\ UNCHANGED <<rxVars, isrVars, loopVars, bufVars, prevTofValue, wire, calls,
                 crossed>>

\* sendTofDistancePeriodic: unsigned difference, three bytes of the distance.
Difference(a, b) == IF a > b THEN a - b ELSE b - a
InWord(mm) == mm   \* (a mistake: more bits than the frame has)
InFrame(mm) == mm % FrameValues

\* (A mistake: the distance is remembered though it was not sent.)
PublishDrifting ==
  /\ prevTofValue' = g_TofValue
  /\ \/ /\ Difference(prevTofValue, g_TofValue) < MIN_CHANGE
        /\ UNCHANGED <<isr, isrMsg, calls>>
     \/ /\ Difference(prevTofValue, g_TofValue) >= MIN_CHANGE
        /\ IsrCalls(InFrame(g_TofValue))

Publish ==
  \/ /\ Difference(prevTofValue, g_TofValue) < MIN_CHANGE
     /\ UNCHANGED <<isr, isrMsg, calls, prevTofValue>>
  \/ /\ Difference(prevTofValue, g_TofValue) >= MIN_CHANGE
     /\ IsrCalls(InFrame(g_TofValue))
     /\ prevTofValue' = g_TofValue

\* stm2IsrHandler.
PublisherRuns ==
  /\ isr = "off"
  /\ Publish
  /\ fresh' = TRUE
  /\ UNCHANGED <<rxVars, rxMsg, loopVars, bufVars, g_TofValue, wire, crossed>>

---------------------------------------------------------------------------
LoopSends ==
  \/ LoopWritesHeader \/ LoopWritesData \/ LoopFindsFree
  \/ LoopCopiesHeader \/ LoopCopiesData \/ LoopRequests
RxIsrRuns == RxIsrStarts \/ ClearFlag \/ ReadFrame \/ HandleFrame

Next ==
  \/ \E frame \in RxFrames : FrameArrives(frame)
  \/ BusSends
  \/ LoopCalls \/ LoopSends
  \/ RxIsrRuns \/ IsrSends
  \/ TofTimeout \/ PublisherRuns

Spec == Init /\ [][Next]_vars

\* The CPU runs its code, and the bus acknowledges what is sent.  The interrupts
\* leave time to the loop: a frame takes longer on the bus than in its handler.
FairSpec ==
  /\ Spec
  /\ WF_vars(BusSends)
  /\ SF_vars(LoopSends)
  /\ WF_vars(RxIsrRuns)
  /\ WF_vars(IsrSends)

---------------------------------------------------------------------------
Messages == [call : 0..MaxSends, says : {NoDistance} \cup 0..Silence]

RxFlagTypes == rf0n \in BOOLEAN /\ request \in BOOLEAN /\ together \in BOOLEAN

RxTypes ==
  /\ fifo \in Seq(RxFrames)
  /\ Len(fifo) <= FifoSize
  /\ isr \in {"off", "started", "cleared", "read", "send"}
  /\ rxMsg \in RxFrames

TxTypes ==
  /\ loopPc \in Touched \cup {"idle", "header"}
  /\ loopMsg \in Messages /\ isrMsg \in Messages /\ txData \in Messages
  /\ txMsg \in 0..MaxSends
  /\ txBuffer \in [id : 0..MaxSends, data : Messages]
  /\ pending \in BOOLEAN
  /\ wire \in Seq([id : 0..MaxSends, data : Messages])
  /\ calls \in 0..MaxSends
  /\ crossed \subseteq 1..MaxSends

TofTypes ==
  /\ g_TofValue \in Nat /\ prevTofValue \in Nat
  /\ fresh \in BOOLEAN

\* The state is well formed; a frame carries three bytes of the distance
\* (soa_publisher.c:68-73) and the FIFO keeps its size (can.c:125).
TypeOK == RxFlagTypes /\ RxTypes /\ TxTypes /\ TofTypes

\* An interrupt finds a frame to read: it never handles the last one twice,
\* although frames may come between the clearing of the flag and the read and
\* request the next interrupt (can.c:192, can.c:199).
ReadsWhatCame == isr \in {"started", "cleared"} => fifo # <<>>

\* A frame waits without an interrupt on its way only behind another one: as
\* long as no two frames were in the FIFO together, none is left
\* (can.c:188-199: the flag is cleared first, then one frame is read).
LeftOnlyBehindAnother ==
  isr = "off" /\ fifo # <<>> /\ ~together => request

UnderWay(n) ==
  \/ loopPc # "idle" /\ loopMsg.call = n
  \/ isr = "send" /\ isrMsg.call = n
  \/ pending /\ txBuffer.data.call = n
FramesOf(n) == {i \in DOMAIN wire : wire[i].data.call = n}

HeadersMatch ==
  \A i \in DOMAIN wire :
    wire[i].id # wire[i].data.call => wire[i].data.call \in crossed
SentOnce ==
  \A n \in (1..calls) \ crossed :
    Cardinality(FramesOf(n)) = IF UnderWay(n) THEN 0 ELSE 1

\* Only a send that an interrupt crossed goes wrong.  A frame with the header
\* of one message and the data of another carries the data of a crossed one,
\* and every message that was not crossed goes out exactly once
\* (can.c:162-186, called by the loop, canRxIsrHandler and stm2IsrHandler).
OthersSentOnce == HeadersMatch /\ SentOnce

\* What the last distance frame told, 0 before the first one.
DistanceFrames ==
  {i \in DOMAIN wire : wire[i].id = wire[i].data.call
                       /\ wire[i].data.says # NoDistance}
Told ==
  IF DistanceFrames = {} THEN 0
  ELSE LET last == CHOOSE i \in DistanceFrames :
                     \A j \in DistanceFrames : j <= i
       IN  wire[last].data.says

\* A receiver knows the distance: once the publisher has run and its frame is
\* out, what was told last is less than MIN_CHANGE away, and it reads as silence
\* exactly if the sensor is silent, unless some send was crossed
\* (soa_publisher.c:58-77, stm.c:26-33).
ToldTheDistance ==
  fresh /\ isr = "off" /\ ~pending /\ crossed = {} =>
    IF g_TofValue = TOF_INVALID_VALUE
      THEN Told = Silence
      ELSE Told # Silence /\ Difference(Told, g_TofValue) < MIN_CHANGE

\* As long as the bus takes what is sent, canSendMsg returns, from the loop and
\* from an interrupt that waits with the CPU (can.c:182-185).
SendReturns ==
  /\ loopPc # "idle" ~> loopPc = "idle"
  /\ isr = "send" ~> isr = "off"
=============================================================================
