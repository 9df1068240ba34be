--------------------------- MODULE CanDriverProofs --------------------------
(* Proofs about CanDriver, for every size of the FIFO, every width of the  *)
(* distance and every number of sends.                                     *)
EXTENDS CanDriver, FiniteSetTheorems, TLAPS

---------------------------------------------------------------------------
(* Reception.                                                              *)

\* What connects the FIFO, its flag and the interrupt: the flag is up from the
\* arrival of a frame until the interrupt clears it, and a request that comes
\* after that is for another frame.
Flagged ==
  /\ request => rf0n
  /\ rf0n => request \/ isr = "started"
  /\ isr = "started" => rf0n /\ ~request

Waiting ==
  /\ request \/ isr \in {"started", "cleared"} => fifo # <<>>
  /\ request /\ isr = "cleared" => Len(fifo) > 1

Alone ==
  ~together =>
    /\ Len(fifo) < 2
    /\ fifo # <<>> => request \/ isr \in {"started", "cleared"}

RxInv == RxTypes /\ Flagged /\ Waiting /\ Alone

LEMMA CommandIsRxFrame == Command \in RxFrames
BY DEF RxFrames

LEMMA RxStep == RxInv /\ [Next]_vars => RxInv'
<1> SUFFICES ASSUME RxInv, [Next]_vars PROVE RxInv'
  OBVIOUS
<1> USE DriverAssumption DEF DriverAssumption, RxInv, RxTypes, Flagged, Waiting, Alone
<1>1. ASSUME NEW frame \in RxFrames, FrameArrives(frame) PROVE RxInv'
  <2>1. isr' = isr /\ rxMsg' = rxMsg
    BY <1>1 DEF FrameArrives, isrVars
  <2>2. CASE Len(fifo) < FifoSize
    <3>1. /\ fifo' = Append(fifo, frame) /\ rf0n' = TRUE
          /\ request' = (request \/ ~rf0n)
          /\ together' = (together \/ fifo # <<>>)
      BY <1>1, <2>2 DEF FrameArrives
    <3>2. /\ fifo' \in Seq(RxFrames) /\ Len(fifo') = Len(fifo) + 1
          /\ fifo' # <<>>
      BY <3>1
    <3>3. RxTypes'
      BY <2>1, <2>2, <3>1, <3>2
    <3>4. Len(fifo) \in Nat /\ (fifo = <<>> <=> Len(fifo) = 0)
      OBVIOUS
    <3>5. Flagged'
      BY <2>1, <3>1
    <3>6. Waiting'
      BY <2>1, <3>1, <3>2, <3>4
    <3>7. Alone'
      <4> SUFFICES ASSUME ~together' PROVE Len(fifo') < 2 /\ request'
        OBVIOUS
      <4>1. fifo = <<>>
        BY <3>1, Zenon
      <4>2. ~request /\ isr # "started"
        BY <4>1
      <4>3. request'
        BY <3>1, <4>2
      <4> QED
        BY <3>2, <3>4, <4>1, <4>3
    <3> QED
      BY <3>3, <3>5, <3>6, <3>7
  <2>3. CASE UNCHANGED rxVars
    BY <2>1, <2>3 DEF rxVars
  <2> QED
    BY <1>1, <2>2, <2>3 DEF FrameArrives, rxVars
<1>2. CASE BusSends \/ LoopCalls \/ LoopSends
  <2>1. UNCHANGED <<rxVars, isrVars>>
    <3>1. CASE BusSends \/ LoopCalls
      BY <3>1, Zenon DEF BusSends, LoopCalls, LoopStep
    <3>2. CASE LoopSends
      BY <3>2, Zenon DEF LoopSends, LoopWritesHeader, LoopWritesData,
         LoopFindsFree, LoopCopiesHeader, LoopCopiesData, LoopRequests, LoopStep
    <3> QED
      BY <1>2, <3>1, <3>2
  <2> QED
    BY <2>1 DEF rxVars, isrVars
<1>3. CASE RxIsrStarts
  BY <1>3 DEF RxIsrStarts
<1>4. CASE ClearFlag
  BY <1>4 DEF ClearFlag
<1>5. CASE ReadFrame
  BY <1>5 DEF ReadFrame
<1>6. CASE HandleFrame
  BY <1>6 DEF HandleFrame, IsrReturns, IsrCalls, rxVars
<1>7. CASE IsrSends
  <2>1. isr' = "off" /\ UNCHANGED <<rxVars, rxMsg>> /\ isr = "send"
    BY <1>7, Zenon DEF IsrSends
  <2> QED
    BY <2>1 DEF rxVars
<1>8. CASE TofTimeout
  BY <1>8 DEF TofTimeout, rxVars, isrVars
<1>9. CASE PublisherRuns
  BY <1>9 DEF PublisherRuns, Publish, IsrCalls, rxVars
<1>10. CASE UNCHANGED vars
  BY <1>10 DEF vars, rxVars, isrVars
<1> QED
  BY <1>1, <1>2, <1>3, <1>4, <1>5, <1>6, <1>7, <1>8, <1>9, <1>10
  DEF Next, RxIsrRuns

LEMMA RxInvariant == Spec => []RxInv
<1>1. Init => RxInv
  <2> SUFFICES ASSUME Init PROVE RxInv
    OBVIOUS
  <2>1. /\ fifo = <<>> /\ ~rf0n /\ ~request /\ isr = "off" /\ rxMsg = Command
        /\ FifoSize \in Nat \ {0}
    BY DriverAssumption, Zenon DEF Init, DriverAssumption
  <2>2. fifo \in Seq(RxFrames) /\ Len(fifo) = 0
    BY <2>1
  <2> QED
    BY <2>1, <2>2, CommandIsRxFrame
    DEF RxInv, RxTypes, Flagged, Waiting, Alone
<1> QED
  BY <1>1, RxStep, PTL DEF Spec

\* The interrupt always finds a frame to read, in whatever order frames arrive
\* and interrupts run.
THEOREM InterruptFindsFrame == Spec => []ReadsWhatCame
<1>1. RxInv => ReadsWhatCame
  BY DEF RxInv, Waiting, ReadsWhatCame
<1> QED
  BY <1>1, RxInvariant, PTL

\* Frames that never met in the FIFO are never left behind.
THEOREM AloneNotLeft == Spec => []LeftOnlyBehindAnother
<1>1. RxInv => LeftOnlyBehindAnother
  BY DEF RxInv, Alone, LeftOnlyBehindAnother
<1> QED
  BY <1>1, RxInvariant, PTL

---------------------------------------------------------------------------
(* Transmission.                                                           *)

Buffers == [id : 0..MaxSends, data : Messages]

\* Who is sending has been called.
Called ==
  /\ loopPc # "idle" => loopMsg.call \in 1..calls
  /\ isr = "send" => isrMsg.call \in 1..calls

TypeInv == RxFlagTypes /\ TxTypes /\ TofTypes /\ Called

LEMMA FrameNumbers ==
  /\ Silence \in Nat /\ TOF_INVALID_VALUE \in Nat
  /\ \A mm \in Nat : InFrame(mm) \in 0..Silence
BY DriverAssumption DEF DriverAssumption, Silence, TOF_INVALID_VALUE, InFrame

\* What a call of canSendMsg was given.
LEMMA MessageType ==
  ASSUME calls \in 0..MaxSends, calls < MaxSends,
         NEW says \in {NoDistance} \cup 0..Silence
  PROVE  /\ Message(says) \in Messages
         /\ Message(says).call = calls + 1 /\ Message(says).says = says
<1>1. calls + 1 \in 0..MaxSends
  BY DriverAssumption DEF DriverAssumption
<1> QED
  BY <1>1 DEF Message, Messages

LEMMA MessageFields ==
  ASSUME NEW m \in Messages
  PROVE  m.call \in 0..MaxSends
BY DEF Messages

LEMMA CallsStep ==
  ASSUME calls \in 0..MaxSends, NEW says \in {NoDistance} \cup 0..Silence,
         IsrCalls(says)
  PROVE  /\ isr' = "send" /\ isrMsg' \in Messages /\ isrMsg'.call = calls + 1
         /\ isrMsg'.says = says
         /\ calls' = calls + 1 /\ calls' \in 1..MaxSends
<1>1. calls < MaxSends /\ calls + 1 \in 1..MaxSends
  BY DriverAssumption DEF IsrCalls, DriverAssumption
<1> QED
  BY <1>1, MessageType DEF IsrCalls

LEMMA FlagsStep == RxFlagTypes /\ [Next]_vars => RxFlagTypes'
<1> SUFFICES ASSUME RxFlagTypes, [Next]_vars PROVE RxFlagTypes'
  OBVIOUS
<1> USE DEF RxFlagTypes
<1>1. ASSUME NEW frame \in RxFrames, FrameArrives(frame) PROVE RxFlagTypes'
  BY <1>1, Zenon DEF FrameArrives
<1>2. CASE BusSends \/ LoopCalls \/ LoopSends
  BY <1>2, Zenon DEF BusSends, LoopCalls, LoopSends, LoopWritesHeader,
     LoopWritesData, LoopFindsFree, LoopCopiesHeader, LoopCopiesData,
     LoopRequests, LoopStep, rxVars
<1>3. CASE RxIsrStarts \/ ClearFlag \/ ReadFrame
  BY <1>3, Zenon DEF RxIsrStarts, ClearFlag, ReadFrame
<1>4. CASE HandleFrame \/ IsrSends \/ TofTimeout \/ PublisherRuns
  BY <1>4, Zenon DEF HandleFrame, IsrSends, TofTimeout, PublisherRuns, rxVars
<1>5. CASE UNCHANGED vars
  BY <1>5, Zenon DEF vars, rxVars
<1> QED
  BY <1>1, <1>2, <1>3, <1>4, <1>5 DEF Next, RxIsrRuns

LEMMA TypeStep ==
  TypeInv /\ RxInv /\ [Next]_vars => (TxTypes /\ TofTypes /\ Called)'
<1> SUFFICES ASSUME TypeInv, RxInv, [Next]_vars
             PROVE  (TxTypes /\ TofTypes /\ Called)'
  OBVIOUS
<1> USE DriverAssumption DEF DriverAssumption, TypeInv
<1> DEFINE Sending == <<loopPc, loopMsg, txMsg, txData, txBuffer, pending, wire>>
<1>1. ASSUME NEW frame \in RxFrames, FrameArrives(frame)
      PROVE  (TxTypes /\ TofTypes /\ Called)'
  BY <1>1 DEF FrameArrives, isrVars, loopVars, bufVars, tofVars,
              TxTypes, TofTypes, Called
<1>2. CASE BusSends
  <2>1. wire' \in Seq(Buffers)
    BY <1>2 DEF BusSends, TxTypes, Buffers
  <2> QED
    BY <1>2, <2>1 DEF BusSends, isrVars, loopVars, tofVars, TxTypes, TofTypes,
       Called, Buffers
<1>3. CASE LoopCalls
  <2>1. /\ calls' = calls + 1 /\ calls' \in 1..MaxSends
        /\ loopMsg' \in Messages /\ loopMsg'.call = calls'
    BY <1>3, MessageType DEF LoopCalls, TxTypes
  <2>2. loopPc' = "header"
        /\ UNCHANGED <<isrVars, bufVars, tofVars, wire, crossed>>
    BY <1>3 DEF LoopCalls, LoopStep
  <2>3. Called'
    BY <2>1, <2>2 DEF Called, isrVars, TxTypes
  <2>4. TxTypes'
    BY <2>1, <2>2 DEF TxTypes, Touched, bufVars, isrVars
  <2> QED
    BY <2>2, <2>3, <2>4 DEF TofTypes, tofVars
<1>4. CASE LoopSends
  <2>1. /\ loopPc # "idle" /\ loopPc' \in Touched \cup {"idle", "header"}
        /\ UNCHANGED <<loopMsg, calls, isrVars, tofVars, wire, crossed>>
    <3>1. UNCHANGED <<loopMsg, calls, isrVars, tofVars, wire, crossed>>
      BY <1>4, Zenon DEF LoopSends, LoopWritesHeader, LoopWritesData,
         LoopFindsFree, LoopCopiesHeader, LoopCopiesData, LoopRequests, LoopStep
    <3> QED
      BY <1>4, <3>1 DEF LoopSends, LoopWritesHeader, LoopWritesData,
         LoopFindsFree, LoopCopiesHeader, LoopCopiesData, LoopRequests,
         LoopStep, Touched, Filled
  <2>2. /\ txMsg' \in 0..MaxSends /\ txData' \in Messages
        /\ txBuffer' \in Buffers
    <3>1. CASE LoopWritesHeader
      BY <3>1, MessageFields DEF LoopWritesHeader, TxTypes, Buffers
    <3>2. CASE LoopWritesData
      BY <3>2 DEF LoopWritesData, TxTypes, Buffers
    <3>3. CASE LoopFindsFree
      BY <3>3 DEF LoopFindsFree, bufVars, TxTypes, Buffers
    <3>4. CASE LoopCopiesHeader \/ LoopCopiesData
      BY <3>4 DEF LoopCopiesHeader, LoopCopiesData, TxTypes, Buffers
    <3>5. CASE LoopRequests
      BY <3>5 DEF LoopRequests, TxTypes, Buffers
    <3> QED
      BY <1>4, <3>1, <3>2, <3>3, <3>4, <3>5 DEF LoopSends
  <2>3. pending' \in BOOLEAN
    BY <1>4, Zenon DEF LoopSends, LoopWritesHeader, LoopWritesData,
       LoopFindsFree, LoopCopiesHeader, LoopCopiesData, LoopRequests, bufVars,
       TxTypes
  <2>4. TxTypes'
    BY <2>1, <2>2, <2>3 DEF TxTypes, isrVars, Buffers
  <2> QED
    BY <2>1, <2>4 DEF TofTypes, tofVars, Called, isrVars
<1>5. CASE IsrSends
  <2>1. /\ isr = "send" /\ isr' = "off"
        /\ txMsg' = isrMsg.call /\ txData' = isrMsg
        /\ txBuffer' = [id |-> isrMsg.call, data |-> isrMsg]
        /\ pending' = TRUE
        /\ UNCHANGED <<isrMsg, loopPc, loopMsg, tofVars, wire, calls>>
    BY <1>5, Zenon DEF IsrSends, loopVars
  <2>2. crossed' \subseteq crossed \cup (IF loopPc # "idle" THEN {loopMsg.call} ELSE {})
                           \cup {isrMsg.call}
    <3>1. "idle" \notin Touched
      BY DEF Touched, Filled
    <3> QED
      BY <1>5, <3>1 DEF IsrSends
  <2>3. crossed' \subseteq 1..MaxSends
    BY <2>1, <2>2 DEF Called, TxTypes
  <2>4. TxTypes'
    BY <2>1, <2>3, MessageFields DEF TxTypes
  <2> QED
    BY <2>1, <2>4 DEF TofTypes, tofVars, Called
<1>6. CASE RxIsrStarts \/ ClearFlag \/ ReadFrame
  BY <1>6 DEF RxIsrStarts, ClearFlag, ReadFrame, loopVars, bufVars, tofVars,
     TxTypes, TofTypes, Called
<1>7. CASE HandleFrame
  <2>1. UNCHANGED <<loopVars, bufVars, wire, crossed>>
    BY <1>7 DEF HandleFrame
  <2>2. TofTypes'
    <3>1. rxMsg # Command => rxMsg \in Nat
      BY DEF RxInv, RxTypes, RxFrames
    <3> QED
      BY <1>7, <3>1 DEF HandleFrame, TofTypes, tofVars
  <2>3. (TxTypes /\ Called)'
    <3>1. CASE IsrReturns
      BY <2>1, <3>1 DEF IsrReturns, TxTypes, Called, loopVars, bufVars
    <3>2. CASE IsrCalls(NoDistance)
      <4>1. /\ isrMsg' \in Messages /\ isrMsg'.call = calls'
            /\ calls' = calls + 1 /\ calls' \in 1..MaxSends
        BY <3>2, CallsStep DEF TxTypes
      <4> QED
        BY <2>1, <4>1 DEF TxTypes, Called, loopVars, bufVars
    <3> QED
      BY <1>7, <3>1, <3>2 DEF HandleFrame
  <2> QED
    BY <2>2, <2>3
<1>8. CASE TofTimeout
  BY <1>8, FrameNumbers DEF TofTimeout, isrVars, loopVars, bufVars, TxTypes,
     TofTypes, Called
<1>9. CASE PublisherRuns
  <2>1. /\ isr = "off" /\ fresh' = TRUE
        /\ UNCHANGED <<loopVars, bufVars, g_TofValue, wire, crossed>>
    BY <1>9 DEF PublisherRuns
  <2>2. CASE UNCHANGED <<isr, isrMsg, calls, prevTofValue>>
    BY <2>1, <2>2 DEF TxTypes, TofTypes, Called, loopVars, bufVars
  <2>3. CASE IsrCalls(InFrame(g_TofValue)) /\ prevTofValue' = g_TofValue
    <3>1. InFrame(g_TofValue) \in {NoDistance} \cup 0..Silence
      BY FrameNumbers DEF TofTypes
    <3>2. /\ isrMsg' \in Messages /\ isrMsg'.call = calls'
          /\ calls' = calls + 1 /\ calls' \in 1..MaxSends
      BY <2>3, <3>1, CallsStep DEF TxTypes
    <3> QED
      BY <2>1, <2>3, <3>2 DEF TxTypes, TofTypes, Called, loopVars, bufVars
  <2> QED
    BY <1>9, <2>2, <2>3 DEF PublisherRuns, Publish
<1>10. CASE UNCHANGED vars
  BY <1>10 DEF vars, isrVars, loopVars, bufVars, tofVars, TxTypes, TofTypes,
     Called
<1> QED
  BY <1>1, <1>2, <1>3, <1>4, <1>5, <1>6, <1>7, <1>8, <1>9, <1>10
  DEF Next, RxIsrRuns

LEMMA TypeInvariant == Spec => []TypeInv
<1>1. Init => TypeInv
  <2> SUFFICES ASSUME Init PROVE TypeInv
    OBVIOUS
  <2>1. RxFlagTypes /\ fresh \in BOOLEAN /\ pending \in BOOLEAN
    BY Zenon DEF Init, RxFlagTypes
  <2>2. 0 \in 0..MaxSends /\ DefaultReading \in Nat
    BY DriverAssumption DEF DriverAssumption
  <2>3. [call |-> 0, says |-> NoDistance] \in Messages
    BY <2>2 DEF Messages
  <2>4. TxTypes
    BY <2>1, <2>2, <2>3 DEF Init, TxTypes
  <2> QED
    BY <2>1, <2>2, <2>4 DEF Init, TypeInv, TofTypes, Called
<1>2. TypeInv /\ RxInv /\ [Next]_vars => TypeInv'
  BY FlagsStep, TypeStep DEF TypeInv
<1> QED
  BY <1>1, <1>2, RxInvariant, PTL DEF Spec

\* The state stays well formed; in particular a frame only ever carries a
\* distance that fits its three bytes.
THEOREM DriverTypes == Spec => []TypeOK
<1>1. RxInv /\ TypeInv => TypeOK
  BY DEF RxInv, TypeInv, TypeOK
<1> QED
  BY <1>1, RxInvariant, TypeInvariant, PTL

---------------------------------------------------------------------------
(* Only crossed sends go wrong.                                            *)

\* A header n with the data of m: the same message, or that of a crossed one.
Fits(n, m) == n = m.call \/ m.call \in crossed

\* The header and the data that meet, as the loop goes on.
Crossing ==
  /\ loopPc = "data" => txMsg = loopMsg.call \/ loopMsg.call \in crossed
  /\ loopPc \in {"test", "copyHeader"} => Fits(txMsg, txData)
  /\ loopPc = "copyData" => Fits(txBuffer.id, txData)
  /\ loopPc = "request" \/ pending => Fits(txBuffer.id, txBuffer.data)
  \* while an interrupt's frame waits, the loop copies that one again
  /\ pending /\ loopPc \in {"copyHeader", "copyData", "request"} =>
       txBuffer.id = txMsg /\ txMsg = txData.call /\ txBuffer.data = txData

\* The data the loop is about to send are its own, unless it was crossed.
Own(m) ==
  m.call = loopMsg.call \/ (loopMsg.call \in crossed /\ m.call \in crossed)

Whose ==
  /\ loopPc \in Filled => Own(txData)
  /\ loopPc = "request" => Own(txBuffer.data)

Numbers ==
  /\ crossed \subseteq 1..calls
  /\ pending => txBuffer.data.call \in 1..calls
  /\ \A i \in DOMAIN wire : wire[i].data.call \in 1..calls

\* A message is at one place only.
Apart ==
  /\ loopPc # "idle" /\ isr = "send" => loopMsg.call # isrMsg.call
  /\ loopPc # "idle" /\ pending /\ txBuffer.data.call = loopMsg.call =>
       loopMsg.call \in crossed
  /\ isr = "send" /\ pending => txBuffer.data.call # isrMsg.call

Meeting == Crossing /\ Whose /\ Numbers /\ Apart

\* What the bus does to the frames that went out.
LEMMA AppendFrame ==
  ASSUME wire \in Seq(Buffers), NEW b \in Buffers, wire' = Append(wire, b)
  PROVE  /\ DOMAIN wire' = DOMAIN wire \cup {Len(wire) + 1}
         /\ Len(wire) + 1 \notin DOMAIN wire
         /\ wire'[Len(wire) + 1] = b
         /\ \A i \in DOMAIN wire : wire'[i] = wire[i]
OBVIOUS

\* Steps that leave everything about sending alone.
LEMMA MeetingKept ==
  ASSUME Meeting,
         UNCHANGED <<loopVars, bufVars, wire, calls, crossed>>,
         isr' = "send" => isr = "send" /\ isrMsg' = isrMsg
  PROVE  Meeting'
BY DEF Meeting, Crossing, Whose, Numbers, Apart, Fits, Own, loopVars, bufVars

\* A call from an interrupt: the number is new.
LEMMA MeetingCalled ==
  ASSUME Meeting, Called, calls \in 0..MaxSends,
         UNCHANGED <<loopVars, bufVars, wire, crossed>>,
         calls' = calls + 1, isrMsg'.call = calls + 1
  PROVE  Meeting'
<1> USE DEF Meeting, loopVars, bufVars
<1>1. Crossing' /\ Whose'
  BY DEF Crossing, Whose, Fits, Own
<1>2. calls \in Nat /\ calls' \in Nat
  BY DriverAssumption DEF DriverAssumption
<1>3. Numbers'
  BY <1>2 DEF Numbers
<1>4. Apart'
  <2>1. calls + 1 \notin 1..calls
    BY <1>2
  <2> QED
    BY <2>1 DEF Numbers, Apart, Called
<1> QED
  BY <1>1, <1>3, <1>4

LEMMA MeetingStep == Meeting /\ TypeInv /\ [Next]_vars => Meeting'
<1> SUFFICES ASSUME Meeting, TypeInv, [Next]_vars PROVE Meeting'
  OBVIOUS
<1> USE DEF TypeInv
<1>0. calls \in 0..MaxSends /\ calls \in Nat
  BY DriverAssumption DEF TxTypes, DriverAssumption
<1>1. ASSUME NEW frame \in RxFrames, FrameArrives(frame) PROVE Meeting'
  BY <1>1, MeetingKept DEF FrameArrives, isrVars
<1>2. CASE BusSends
  <2>1. /\ pending /\ pending' = FALSE /\ wire' = Append(wire, txBuffer)
        /\ UNCHANGED <<isrVars, loopVars, txMsg, txData, txBuffer, calls, crossed>>
    BY <1>2 DEF BusSends
  <2>2. \A i \in DOMAIN wire' : wire'[i] \in {txBuffer} \cup {wire[j] : j \in DOMAIN wire}
    BY <2>1, AppendFrame DEF TxTypes, Buffers
  <2>3. Numbers'
    BY <2>1, <2>2 DEF Meeting, Numbers
  <2>4. (Crossing /\ Whose /\ Apart)'
    BY <2>1 DEF Meeting, Crossing, Whose, Apart, Fits, Own, loopVars, isrVars
  <2> QED
    BY <2>3, <2>4 DEF Meeting
<1>3. CASE LoopCalls
  <2>1. /\ calls' = calls + 1 /\ loopMsg'.call = calls + 1 /\ loopPc' = "header"
        /\ isr = "off" /\ isr' = "off"
        /\ UNCHANGED <<bufVars, wire, crossed>>
    BY <1>3, <1>0, MessageType DEF LoopCalls, LoopStep, isrVars
  <2>2. calls + 1 \notin 1..calls
    BY <1>0
  <2>3. (Crossing /\ Whose)'
    BY <2>1 DEF Meeting, Crossing, Whose, Fits, Filled, bufVars
  <2>4. Numbers'
    BY <1>0, <2>1 DEF Meeting, Numbers, bufVars
  <2>5. Apart'
    BY <2>1, <2>2 DEF Meeting, Numbers, Apart, bufVars
  <2> QED
    BY <2>3, <2>4, <2>5 DEF Meeting
<1>4. CASE LoopSends
  <2>1. /\ isr = "off" /\ isr' = "off" /\ loopPc # "idle"
        /\ UNCHANGED <<loopMsg, calls, wire, crossed>>
    <3>1. /\ isr = "off" /\ isr' = isr
          /\ UNCHANGED <<loopMsg, calls, wire, crossed>>
      BY <1>4, Zenon DEF LoopSends, LoopWritesHeader, LoopWritesData,
         LoopFindsFree, LoopCopiesHeader, LoopCopiesData, LoopRequests,
         LoopStep, isrVars
    <3> QED
      BY <1>4, <3>1 DEF LoopSends, LoopWritesHeader, LoopWritesData,
         LoopFindsFree, LoopCopiesHeader, LoopCopiesData, LoopRequests, LoopStep
  <2> USE DEF Meeting, Crossing, Whose, Fits, Own, Filled, LoopStep
  <2>2. CASE LoopWritesHeader
    <3>1. (Crossing /\ Whose /\ Apart)'
      BY <2>1, <2>2 DEF LoopWritesHeader, Apart
    <3> QED
      BY <2>1, <2>2, <3>1 DEF LoopWritesHeader, Numbers
  <2>3. CASE LoopWritesData
    <3>1. (Crossing /\ Whose /\ Apart)'
      BY <2>1, <2>3 DEF LoopWritesData, Apart
    <3> QED
      BY <2>1, <2>3, <3>1 DEF LoopWritesData, Numbers
  <2>4. CASE LoopFindsFree
    <3>1. (Crossing /\ Whose /\ Apart)'
      BY <2>1, <2>4 DEF LoopFindsFree, MaySend, bufVars, Apart
    <3> QED
      BY <2>1, <2>4, <3>1 DEF LoopFindsFree, bufVars, Numbers
  <2>5. CASE LoopCopiesHeader
    <3>1. /\ loopPc = "copyHeader" /\ loopPc' = "copyData"
          /\ txBuffer'.id = txMsg /\ txBuffer'.data = txBuffer.data
          /\ UNCHANGED <<txMsg, txData, pending>>
      BY <2>5 DEF LoopCopiesHeader
    <3>2. (Crossing /\ Whose)'
      BY <2>1, <3>1
    <3>3. Apart' /\ Numbers'
      BY <2>1, <3>1 DEF Apart, Numbers
    <3> QED
      BY <3>2, <3>3
  <2>6. CASE LoopCopiesData
    <3>1. /\ loopPc = "copyData" /\ loopPc' = "request"
          /\ txBuffer'.id = txBuffer.id /\ txBuffer'.data = txData
          /\ UNCHANGED <<txMsg, txData, pending>>
      BY <2>6 DEF LoopCopiesData
    <3>2. (Crossing /\ Whose)'
      BY <2>1, <3>1
    <3>3. Apart' /\ Numbers'
      BY <2>1, <3>1 DEF Apart, Numbers
    <3> QED
      BY <3>2, <3>3
  <2>7. CASE LoopRequests
    <3>1. /\ loopPc = "request" /\ loopPc' = "idle" /\ pending' = TRUE
          /\ UNCHANGED <<txMsg, txData, txBuffer>>
      BY <2>7 DEF LoopRequests
    <3>2. (Crossing /\ Whose /\ Apart)'
      BY <2>1, <3>1 DEF Apart
    <3>3. Numbers'
      BY <2>1, <3>1 DEF Numbers, Called
    <3> QED
      BY <3>2, <3>3
  <2> QED
    BY <1>4, <2>2, <2>3, <2>4, <2>5, <2>6, <2>7 DEF LoopSends
<1>5. CASE IsrSends
  <2>1. /\ isr = "send" /\ isr' = "off" /\ ~pending
        /\ txMsg' = isrMsg.call /\ txData' = isrMsg
        /\ txBuffer'.id = isrMsg.call /\ txBuffer'.data = isrMsg
        /\ UNCHANGED <<loopPc, loopMsg, wire, calls>>
    BY <1>5 DEF IsrSends, MaySend, loopVars
  <2>2. /\ crossed \subseteq crossed'
        /\ crossed' \subseteq crossed \cup {loopMsg.call, isrMsg.call}
        /\ loopPc = "idle" => crossed' = crossed
        /\ loopPc \in Touched => loopMsg.call \in crossed'
        /\ loopPc \in Filled => {loopMsg.call, isrMsg.call} \subseteq crossed'
        /\ loopMsg.call \in crossed' \ crossed => loopPc # "idle"
    BY <1>5 DEF IsrSends, Touched, Filled
  <2>3. crossed' \subseteq 1..calls
    <3>1. isrMsg.call \in 1..calls
      BY <2>1 DEF Called
    <3>2. loopPc # "idle" => loopMsg.call \in 1..calls
      BY DEF Called
    <3> QED
      BY <2>2, <3>1, <3>2 DEF Meeting, Numbers
  <2>4. (Crossing /\ Whose)'
    BY <2>1, <2>2 DEF Crossing, Whose, Fits, Own, Filled, Touched
  <2>5. Numbers'
    BY <2>1, <2>3 DEF Meeting, Numbers, Called
  <2>6. Apart'
    BY <2>1 DEF Meeting, Apart
  <2> QED
    BY <2>4, <2>5, <2>6 DEF Meeting
<1>6. CASE RxIsrStarts \/ ClearFlag \/ ReadFrame
  BY <1>6, MeetingKept DEF RxIsrStarts, ClearFlag, ReadFrame
<1>7. CASE HandleFrame
  <2>1. CASE IsrReturns
    BY <1>7, <2>1, MeetingKept DEF HandleFrame, IsrReturns
  <2>2. CASE IsrCalls(NoDistance)
    <3>1. calls' = calls + 1 /\ isrMsg'.call = calls + 1
      BY <1>0, <2>2, CallsStep
    <3> QED
      BY <1>0, <1>7, <3>1, MeetingCalled DEF HandleFrame
  <2> QED
    BY <1>7, <2>1, <2>2 DEF HandleFrame
<1>8. CASE TofTimeout
  BY <1>8, MeetingKept DEF TofTimeout, isrVars
<1>9. CASE PublisherRuns
  <2>1. CASE UNCHANGED <<isr, isrMsg, calls, prevTofValue>>
    BY <1>9, <2>1, MeetingKept DEF PublisherRuns
  <2>2. CASE IsrCalls(InFrame(g_TofValue))
    <3>1. InFrame(g_TofValue) \in {NoDistance} \cup 0..Silence
      BY FrameNumbers DEF TofTypes
    <3>2. calls' = calls + 1 /\ isrMsg'.call = calls + 1
      BY <1>0, <2>2, <3>1, CallsStep
    <3> QED
      BY <1>0, <1>9, <3>2, MeetingCalled DEF PublisherRuns
  <2> QED
    BY <1>9, <2>1, <2>2 DEF PublisherRuns, Publish
<1>10. CASE UNCHANGED vars
  BY <1>10, MeetingKept DEF vars, isrVars
<1> QED
  BY <1>1, <1>2, <1>3, <1>4, <1>5, <1>6, <1>7, <1>8, <1>9, <1>10
  DEF Next, RxIsrRuns

LEMMA CrossedGrows == TypeInv /\ [Next]_vars => crossed \subseteq crossed'
<1> SUFFICES ASSUME [Next]_vars, crossed' # crossed PROVE crossed \subseteq crossed'
  OBVIOUS
<1>1. IsrSends
  <2>1. ~(BusSends \/ LoopCalls \/ LoopSends \/ RxIsrRuns)
    BY Zenon DEF BusSends, LoopCalls, LoopSends, LoopWritesHeader,
       LoopWritesData, LoopFindsFree, LoopCopiesHeader, LoopCopiesData,
       LoopRequests, LoopStep, RxIsrRuns, RxIsrStarts, ClearFlag, ReadFrame,
       HandleFrame
  <2>2. ~(TofTimeout \/ PublisherRuns)
    BY Zenon DEF TofTimeout, PublisherRuns
  <2>3. ~\E frame \in RxFrames : FrameArrives(frame)
    BY Zenon DEF FrameArrives
  <2>4. ~UNCHANGED vars
    BY Zenon DEF vars
  <2> QED
    BY <2>1, <2>2, <2>3, <2>4 DEF Next
<1> QED
  BY <1>1 DEF IsrSends

LEMMA WireStep ==
  [Next]_vars => BusSends \/ UNCHANGED wire
<1> SUFFICES ASSUME [Next]_vars, ~BusSends PROVE UNCHANGED wire
  OBVIOUS
<1>1. CASE LoopCalls \/ LoopSends \/ RxIsrRuns
  BY <1>1, Zenon DEF LoopCalls, LoopSends, LoopWritesHeader,
     LoopWritesData, LoopFindsFree, LoopCopiesHeader, LoopCopiesData,
     LoopRequests, LoopStep, RxIsrRuns, RxIsrStarts, ClearFlag, ReadFrame,
     HandleFrame
<1>2. CASE IsrSends \/ TofTimeout \/ PublisherRuns
  BY <1>2, Zenon DEF IsrSends, TofTimeout, PublisherRuns
<1>3. ASSUME NEW frame \in RxFrames, FrameArrives(frame) PROVE UNCHANGED wire
  BY <1>3, Zenon DEF FrameArrives
<1>4. CASE UNCHANGED vars
  BY <1>4, Zenon DEF vars
<1> QED
  BY <1>1, <1>2, <1>3, <1>4 DEF Next

LEMMA HeadersStep ==
  HeadersMatch /\ Meeting /\ TypeInv /\ [Next]_vars => HeadersMatch'
<1> SUFFICES ASSUME HeadersMatch, Meeting, TypeInv, [Next]_vars PROVE HeadersMatch'
  OBVIOUS
<1>1. crossed \subseteq crossed'
  BY CrossedGrows
<1>2. CASE UNCHANGED wire
  BY <1>1, <1>2 DEF HeadersMatch
<1>3. CASE BusSends
  <2>1. Fits(txBuffer.id, txBuffer.data)
    BY <1>3 DEF BusSends, Meeting, Crossing
  <2>2. \A i \in DOMAIN wire' : wire'[i] \in {txBuffer} \cup {wire[j] : j \in DOMAIN wire}
    BY <1>3, AppendFrame DEF BusSends, TypeInv, TxTypes, Buffers
  <2> QED
    BY <1>1, <2>1, <2>2 DEF HeadersMatch, Fits
<1> QED
  BY <1>2, <1>3, WireStep

---------------------------------------------------------------------------
(* Every other message goes out once.                                      *)

Once ==
  \A n \in (1..calls) \ crossed :
    IF UnderWay(n) THEN FramesOf(n) = {} ELSE \E i : FramesOf(n) = {i}

\* A step that sends no frame and leaves every message where it was.
LEMMA OnceKept ==
  ASSUME Once, UNCHANGED <<wire, calls>>, crossed \subseteq crossed',
         \A n \in (1..calls) \ crossed' : UnderWay(n)' <=> UnderWay(n)
  PROVE  Once'
<1>1. \A n : FramesOf(n)' = FramesOf(n)
  BY DEF FramesOf
<1> QED
  BY <1>1 DEF Once

\* A call: the new message is under way and no other one has moved.
LEMMA OnceCalled ==
  ASSUME Once, Meeting, calls \in Nat, UNCHANGED <<wire, crossed>>,
         NEW k \in Nat, k = calls + 1, calls' = k, UnderWay(k)',
         \A n \in 1..calls : UnderWay(n)' <=> UnderWay(n)
  PROVE  Once'
<1>1. \A n : FramesOf(n)' = FramesOf(n)
  BY DEF FramesOf
<1>2. FramesOf(k) = {}
  BY DEF Meeting, Numbers, FramesOf
<1>3. 1..calls' = (1..calls) \cup {k}
  OBVIOUS
<1> QED
  BY <1>1, <1>2, <1>3 DEF Once

LEMMA OnceStep ==
  Once /\ Meeting /\ TypeInv /\ [Next]_vars => Once'
<1> SUFFICES ASSUME Once, Meeting, TypeInv, [Next]_vars PROVE Once'
  OBVIOUS
<1>0. crossed \subseteq crossed'
  BY CrossedGrows
<1>calls. calls \in 0..MaxSends /\ calls \in Nat
  BY DriverAssumption DEF TypeInv, TxTypes, DriverAssumption
<1>k. PICK k \in Nat : k = calls + 1
  BY <1>calls
<1>1. ASSUME NEW frame \in RxFrames, FrameArrives(frame) PROVE Once'
  BY <1>0, <1>1, OnceKept DEF FrameArrives, isrVars, loopVars, bufVars, UnderWay
<1>2. CASE BusSends
  <2>1. /\ pending /\ pending' = FALSE /\ wire' = Append(wire, txBuffer)
        /\ UNCHANGED <<isrVars, loopVars, calls, crossed>>
    BY <1>2 DEF BusSends
  <2>2. wire \in Seq(Buffers) /\ txBuffer \in Buffers
    BY DEF TypeInv, TxTypes, Buffers
  <2>3. ASSUME NEW n \in (1..calls) \ crossed
        PROVE  IF UnderWay(n)' THEN FramesOf(n)' = {}
                               ELSE \E i : FramesOf(n)' = {i}
    <3>1. CASE txBuffer.data.call = n
      <4>1. UnderWay(n) /\ FramesOf(n) = {}
        BY <2>1, <2>3, <3>1 DEF Once, UnderWay
      <4>2. ~UnderWay(n)'
        BY <2>1, <2>3, <3>1 DEF Meeting, Apart, UnderWay, isrVars, loopVars
      <4>3. FramesOf(n)' = {Len(wire) + 1}
        <5>1. \A i \in DOMAIN wire : wire[i].data.call # n
          BY <4>1 DEF FramesOf
        <5> QED
          BY <2>1, <2>2, <3>1, <5>1, AppendFrame DEF FramesOf
      <4> QED
        BY <4>2, <4>3
    <3>2. CASE txBuffer.data.call # n
      <4>1. UnderWay(n)' <=> UnderWay(n)
        BY <2>1, <3>2 DEF UnderWay, isrVars, loopVars
      <4>2. FramesOf(n)' = FramesOf(n)
        BY <2>1, <2>2, <3>2, AppendFrame DEF FramesOf
      <4> QED
        BY <2>3, <4>1, <4>2 DEF Once
    <3> QED
      BY <3>1, <3>2
  <2> QED
    BY <2>1, <2>3 DEF Once
<1>3. CASE LoopCalls
  <2>1. /\ calls' = calls + 1 /\ loopMsg'.call = calls + 1
        /\ loopPc = "idle" /\ loopPc' = "header"
        /\ UNCHANGED <<isrVars, bufVars, wire, crossed>>
    BY <1>calls, <1>3, MessageType DEF LoopCalls, LoopStep
  <2>2. \A n \in 1..calls : UnderWay(n)' <=> UnderWay(n)
    BY <1>calls, <2>1 DEF UnderWay, isrVars, bufVars
  <2>3. UnderWay(k)'
    BY <1>k, <2>1 DEF UnderWay
  <2> QED
    BY <1>calls, <1>k, <2>1, <2>2, <2>3, OnceCalled
<1>4. CASE LoopSends
  <2>1. /\ loopPc # "idle" /\ isr = "off"
        /\ UNCHANGED <<loopMsg, isr, wire, calls, crossed>>
    <3>1. isr = "off" /\ UNCHANGED <<loopMsg, isr, wire, calls, crossed>>
      BY <1>4, Zenon DEF LoopSends, LoopWritesHeader, LoopWritesData,
         LoopFindsFree, LoopCopiesHeader, LoopCopiesData, LoopRequests,
         LoopStep, isrVars
    <3> QED
      BY <1>4, <3>1 DEF LoopSends, LoopWritesHeader, LoopWritesData,
         LoopFindsFree, LoopCopiesHeader, LoopCopiesData, LoopRequests, LoopStep
  <2>2. CASE LoopRequests
    <3>1. /\ loopPc = "request" /\ loopPc' = "idle" /\ pending' = TRUE
          /\ UNCHANGED txBuffer
      BY <2>2 DEF LoopRequests, LoopStep
    <3>2. Own(txBuffer.data)
      BY <3>1 DEF Meeting, Whose
    <3>3. \A n \in (1..calls) \ crossed : UnderWay(n)' <=> UnderWay(n)
      BY <2>1, <3>1, <3>2 DEF UnderWay, Own
    <3> QED
      BY <2>1, <3>3, OnceKept
  <2>3. CASE LoopCopiesData
    <3>1. /\ loopPc = "copyData" /\ loopPc' = "request"
          /\ txBuffer'.data = txData /\ UNCHANGED pending
      BY <2>3 DEF LoopCopiesData, LoopStep
    <3>2. pending => txBuffer'.data = txBuffer.data
      BY <3>1 DEF Meeting, Crossing
    <3> QED
      BY <2>1, <3>1, <3>2, OnceKept DEF UnderWay
  <2>4. CASE LoopWritesHeader \/ LoopWritesData \/ LoopFindsFree \/ LoopCopiesHeader
    <3>1. loopPc' # "idle" /\ UNCHANGED pending /\ txBuffer'.data = txBuffer.data
      BY <2>4 DEF LoopWritesHeader, LoopWritesData, LoopFindsFree,
         LoopCopiesHeader, LoopStep, bufVars
    <3> QED
      BY <2>1, <3>1, OnceKept DEF UnderWay
  <2> QED
    BY <1>4, <2>2, <2>3, <2>4 DEF LoopSends
<1>5. CASE IsrSends
  <2>1. /\ isr = "send" /\ isr' = "off" /\ ~pending /\ pending' = TRUE
        /\ txBuffer'.data = isrMsg
        /\ UNCHANGED <<loopPc, loopMsg, wire, calls>>
    BY <1>5 DEF IsrSends, MaySend, loopVars
  <2>2. \A n : UnderWay(n)' <=> UnderWay(n)
    BY <2>1 DEF UnderWay
  <2> QED
    BY <1>0, <2>1, <2>2, OnceKept
<1>6. CASE RxIsrStarts \/ ClearFlag \/ ReadFrame
  BY <1>0, <1>6, OnceKept
  DEF RxIsrStarts, ClearFlag, ReadFrame, UnderWay, loopVars, bufVars
<1>7. CASE HandleFrame
  <2>1. isr = "read" /\ UNCHANGED <<loopVars, bufVars, wire, crossed>>
    BY <1>7 DEF HandleFrame
  <2>2. CASE IsrReturns
    BY <2>1, <2>2, OnceKept DEF IsrReturns, UnderWay, loopVars, bufVars
  <2>3. CASE IsrCalls(NoDistance)
    <3>1. isr' = "send" /\ calls' = calls + 1 /\ isrMsg'.call = calls + 1
      BY <1>calls, <2>3, CallsStep
    <3>2. \A n \in 1..calls : UnderWay(n)' <=> UnderWay(n)
      BY <1>calls, <2>1, <3>1 DEF UnderWay, loopVars, bufVars
    <3>3. UnderWay(k)'
      BY <1>k, <3>1 DEF UnderWay
    <3> QED
      BY <1>calls, <1>k, <2>1, <3>1, <3>2, <3>3, OnceCalled
  <2> QED
    BY <1>7, <2>2, <2>3 DEF HandleFrame
<1>8. CASE TofTimeout
  BY <1>0, <1>8, OnceKept DEF TofTimeout, UnderWay, isrVars, loopVars, bufVars
<1>9. CASE PublisherRuns
  <2>1. isr = "off" /\ UNCHANGED <<loopVars, bufVars, wire, crossed>>
    BY <1>9 DEF PublisherRuns
  <2>2. CASE UNCHANGED <<isr, isrMsg, calls, prevTofValue>>
    BY <2>1, <2>2, OnceKept DEF UnderWay, loopVars, bufVars
  <2>3. CASE IsrCalls(InFrame(g_TofValue))
    <3>1. InFrame(g_TofValue) \in {NoDistance} \cup 0..Silence
      BY FrameNumbers DEF TypeInv, TofTypes
    <3>2. isr' = "send" /\ calls' = calls + 1 /\ isrMsg'.call = calls + 1
      BY <1>calls, <2>3, <3>1, CallsStep
    <3>3. \A n \in 1..calls : UnderWay(n)' <=> UnderWay(n)
      BY <1>calls, <2>1, <3>2 DEF UnderWay, loopVars, bufVars
    <3>4. UnderWay(k)'
      BY <1>k, <3>2 DEF UnderWay
    <3> QED
      BY <1>calls, <1>k, <2>1, <3>2, <3>3, <3>4, OnceCalled
  <2> QED
    BY <1>9, <2>2, <2>3 DEF PublisherRuns, Publish
<1>10. CASE UNCHANGED vars
  BY <1>0, <1>10, OnceKept DEF vars, isrVars, loopVars, bufVars, UnderWay
<1> QED
  BY <1>1, <1>2, <1>3, <1>4, <1>5, <1>6, <1>7, <1>8, <1>9, <1>10
  DEF Next, RxIsrRuns

\* Only sends that an interrupt crossed go wrong: every other message goes out
\* once, with its own header.
THEOREM UncrossedSentOnce == Spec => []OthersSentOnce
<1>1. Init => Meeting /\ HeadersMatch /\ Once
  BY DriverAssumption
  DEF Init, Meeting, Crossing, Whose, Numbers, Apart, HeadersMatch, Once,
      Filled, DriverAssumption
<1>2. Once /\ TypeInv => SentOnce
  <2> SUFFICES ASSUME Once, TypeInv, NEW n \in (1..calls) \ crossed
               PROVE  Cardinality(FramesOf(n)) = IF UnderWay(n) THEN 0 ELSE 1
    BY DEF SentOnce
  <2>1. CASE UnderWay(n)
    BY <2>1, FS_EmptySet DEF Once
  <2>2. CASE ~UnderWay(n)
    <3>1. PICK i : FramesOf(n) = {i}
      BY <2>2 DEF Once
    <3> QED
      BY <2>2, <3>1, FS_Singleton
  <2> QED
    BY <2>1, <2>2
<1>3. OthersSentOnce <=> HeadersMatch /\ SentOnce
  BY DEF OthersSentOnce
<1> QED
  BY <1>1, <1>2, <1>3, MeetingStep, HeadersStep, OnceStep, TypeInvariant, PTL
  DEF Spec

---------------------------------------------------------------------------
(* What a receiver is told of the distance.                                *)

\* As long as nothing was crossed, the loop sends what it was called for, which
\* is no distance, and has the transmit buffer to itself.
Plain ==
  /\ loopMsg.says = NoDistance
  /\ crossed = {} =>
       /\ loopPc \in Filled => txData.says = NoDistance
       /\ loopPc = "request" => txBuffer.data.says = NoDistance
       /\ loopPc \in {"copyHeader", "copyData", "request"} => ~pending

\* The distance published last is about to be sent, waits for the bus or is out.
Newest ==
  crossed = {} =>
    IF isr = "send" /\ isrMsg.says # NoDistance
      THEN isrMsg.says = InFrame(prevTofValue)
    ELSE IF pending /\ txBuffer.data.says # NoDistance
      THEN txBuffer.data.says = InFrame(prevTofValue)
    ELSE Told = InFrame(prevTofValue)

\* The distance is what the sensor said, or the error value.
Distances == Readings \cup {DefaultReading, TOF_INVALID_VALUE}
Sensed ==
  /\ g_TofValue \in Distances /\ prevTofValue \in Distances \cup {0}
  /\ fresh => Difference(prevTofValue, g_TofValue) < MIN_CHANGE

\* There is a last one, if there is any.
HasLast ==
  DistanceFrames # {} =>
    \E i \in DistanceFrames : \A j \in DistanceFrames : j <= i

Heard == Plain /\ Newest /\ Sensed /\ HasLast

LEMMA DistanceValues ==
  /\ \A mm \in Distances \cup {0} : mm \in Nat
  /\ \A mm \in (Distances \cup {0}) \ {TOF_INVALID_VALUE} :
       InFrame(mm) = mm /\ mm < Silence /\ mm + MIN_CHANGE < TOF_INVALID_VALUE
  /\ InFrame(TOF_INVALID_VALUE) = Silence
<1>1. \A mm \in Distances \cup {0} : mm \in Nat
  BY DriverAssumption DEF DriverAssumption, Distances, TOF_INVALID_VALUE
<1>2. \A mm \in (Distances \cup {0}) \ {TOF_INVALID_VALUE} : mm < FrameValues - 1
  BY DriverAssumption, SensorAssumption
  DEF DriverAssumption, SensorAssumption, Distances
<1>3. \A mm \in Nat : mm < FrameValues - 1 => mm % FrameValues = mm
  BY DriverAssumption DEF DriverAssumption
<1> QED
  BY <1>1, <1>2, <1>3, DriverAssumption, SensorAssumption
  DEF DriverAssumption, SensorAssumption, InFrame, Silence, TOF_INVALID_VALUE,
      MIN_CHANGE

\* A frame that goes out tells its distance, or leaves what was told.
LEMMA ToldAppended ==
  ASSUME wire \in Seq(Buffers), NEW b \in Buffers, wire' = Append(wire, b),
         HasLast, b.id = b.data.call
  PROVE  Told' = IF b.data.says = NoDistance THEN Told ELSE b.data.says
<1>1. /\ DOMAIN wire' = DOMAIN wire \cup {Len(wire) + 1}
      /\ Len(wire) + 1 \notin DOMAIN wire
      /\ wire'[Len(wire) + 1] = b
      /\ \A i \in DOMAIN wire : wire'[i] = wire[i]
  BY AppendFrame
<1>2. CASE b.data.says = NoDistance
  <2>1. DistanceFrames' = DistanceFrames
    BY <1>1, <1>2 DEF DistanceFrames
  <2>2. CASE DistanceFrames = {}
    BY <1>2, <2>1, <2>2 DEF Told
  <2>3. CASE DistanceFrames # {}
    <3> DEFINE last == CHOOSE i \in DistanceFrames :
                         \A j \in DistanceFrames : j <= i
    <3>1. \E i \in DistanceFrames : \A j \in DistanceFrames : j <= i
      BY <2>3 DEF HasLast
    <3>2. last \in DistanceFrames
      BY <3>1
    <3>3. last \in DOMAIN wire
      BY <3>2 DEF DistanceFrames
    <3>4. Told = wire[last].data.says
      BY <2>3 DEF Told
    <3>5. Told' = wire'[last].data.says
      BY <2>1, <2>3 DEF Told
    <3> QED
      BY <1>1, <1>2, <3>3, <3>4, <3>5
  <2> QED
    BY <2>2, <2>3
<1>3. CASE b.data.says # NoDistance
  <2>1. DistanceFrames' = DistanceFrames \cup {Len(wire) + 1}
    BY <1>1, <1>3 DEF DistanceFrames
  <2>2. /\ Len(wire) + 1 \in Nat
        /\ \A j \in DistanceFrames : j \in Nat /\ j < Len(wire) + 1
    BY DEF DistanceFrames
  <2> DEFINE last == CHOOSE i \in DistanceFrames' :
                       \A j \in DistanceFrames' : j <= i
  <2>3. last = Len(wire) + 1
    <3>1. \A j \in DistanceFrames' : j <= Len(wire) + 1
      BY <2>1, <2>2
    <3>2. \A i \in DistanceFrames' :
            (\A j \in DistanceFrames' : j <= i) => i = Len(wire) + 1
      BY <2>1, <2>2
    <3> QED
      BY <2>1, <3>1, <3>2
  <2>4. Told' = wire'[last].data.says
    BY <2>1 DEF Told
  <2>5. Told' = wire'[Len(wire) + 1].data.says
    BY <2>3, <2>4
  <2> QED
    BY <1>1, <1>3, <2>5
<1> QED
  BY <1>2, <1>3

LEMMA LastStep == HasLast /\ TypeInv /\ [Next]_vars => HasLast'
<1> SUFFICES ASSUME HasLast, TypeInv, [Next]_vars PROVE HasLast'
  OBVIOUS
<1>1. CASE UNCHANGED wire
  BY <1>1 DEF HasLast, DistanceFrames
<1>2. CASE BusSends
  <2>1. /\ DOMAIN wire' = DOMAIN wire \cup {Len(wire) + 1}
        /\ \A i \in DOMAIN wire : wire'[i] = wire[i]
        /\ \A i \in DOMAIN wire : i < Len(wire) + 1
        /\ Len(wire) + 1 \in Nat
    BY <1>2, AppendFrame DEF BusSends, TypeInv, TxTypes, Buffers
  <2>2. \/ DistanceFrames' = DistanceFrames
        \/ DistanceFrames' = DistanceFrames \cup {Len(wire) + 1}
    BY <2>1 DEF DistanceFrames
  <2>3. \A i \in DistanceFrames : i < Len(wire) + 1 /\ i \in Nat
    BY <2>1 DEF DistanceFrames, TypeInv, TxTypes
  <2> QED
    BY <2>1, <2>2, <2>3 DEF HasLast
<1> QED
  BY <1>1, <1>2, WireStep

LEMMA SensedStep == Sensed /\ RxInv /\ TypeInv /\ [Next]_vars => Sensed'
<1> SUFFICES ASSUME Sensed, RxInv, TypeInv, [Next]_vars PROVE Sensed'
  OBVIOUS
<1> USE DEF Sensed
<1>1. CASE UNCHANGED tofVars
  BY <1>1 DEF tofVars, Difference
<1>2. CASE HandleFrame
  <2>1. CASE rxMsg # Command /\ g_TofValue' = rxMsg /\ fresh' = FALSE
             /\ UNCHANGED prevTofValue
    BY <2>1 DEF RxInv, RxTypes, RxFrames, Distances
  <2> QED
    BY <1>1, <1>2, <2>1 DEF HandleFrame
<1>3. CASE TofTimeout
  BY <1>3 DEF TofTimeout, Distances
<1>4. CASE PublisherRuns
  <2>1. g_TofValue' = g_TofValue /\ g_TofValue \in Nat
    BY <1>4, DistanceValues DEF PublisherRuns
  <2>2. CASE UNCHANGED prevTofValue
    BY <1>4, <2>1, <2>2, DistanceValues DEF PublisherRuns, Publish, Difference, MIN_CHANGE
  <2>3. CASE prevTofValue' = g_TofValue
    BY <2>1, <2>3 DEF Difference, MIN_CHANGE
  <2> QED
    BY <1>4, <2>2, <2>3 DEF PublisherRuns, Publish
<1>5. ASSUME NEW frame \in RxFrames, FrameArrives(frame) PROVE UNCHANGED tofVars
  BY <1>5, Zenon DEF FrameArrives
<1>6. CASE BusSends \/ LoopCalls \/ LoopSends
  <2>1. UNCHANGED tofVars
    BY <1>6, Zenon DEF BusSends, LoopCalls, LoopSends, LoopWritesHeader,
       LoopWritesData, LoopFindsFree, LoopCopiesHeader, LoopCopiesData,
       LoopRequests, LoopStep
  <2> QED
    BY <1>1, <2>1
<1>7. CASE RxIsrStarts \/ ClearFlag \/ ReadFrame \/ IsrSends \/ UNCHANGED vars
  <2>1. UNCHANGED tofVars
    BY <1>7, Zenon DEF RxIsrStarts, ClearFlag, ReadFrame, IsrSends, vars
  <2> QED
    BY <1>1, <2>1
<1> QED
  BY <1>1, <1>2, <1>3, <1>4, <1>5, <1>6, <1>7 DEF Next, RxIsrRuns

\* Steps that leave the buffers and what the interrupt says alone.
LEMMA SaysKept ==
  ASSUME Plain, Newest,
         UNCHANGED <<loopVars, bufVars, wire, crossed>>
  PROVE  /\ Plain'
         /\ \/ UNCHANGED <<isr, isrMsg, prevTofValue>>
            \/ UNCHANGED prevTofValue /\ isr # "send"
               /\ (isr' = "send" => isrMsg'.says = NoDistance)
            \/ isr' = "send" /\ isrMsg'.says = InFrame(prevTofValue')
               /\ isrMsg'.says # NoDistance
            => Newest'
<1>1. Plain'
  BY DEF Plain, loopVars, bufVars
<1>2. Told' = Told
  BY DEF Told, DistanceFrames
<1> QED
  BY <1>1, <1>2 DEF Newest, bufVars

LEMMA SaysStep ==
  Heard /\ Meeting /\ TypeInv /\ [Next]_vars => (Plain /\ Newest)'
<1> SUFFICES ASSUME Heard, Meeting, TypeInv, [Next]_vars PROVE Plain' /\ Newest'
  OBVIOUS
<1> USE DEF Heard
<1>0. crossed \subseteq crossed'
  BY CrossedGrows
<1>calls. calls \in 0..MaxSends
  BY DEF TypeInv, TxTypes
<1>1. ASSUME NEW frame \in RxFrames, FrameArrives(frame) PROVE Plain' /\ Newest'
  BY <1>1, SaysKept DEF FrameArrives, isrVars, tofVars
<1>2. CASE BusSends
  <2>1. /\ pending /\ pending' = FALSE /\ wire' = Append(wire, txBuffer)
        /\ UNCHANGED <<isrVars, loopVars, txData, txBuffer, tofVars, crossed>>
    BY <1>2 DEF BusSends
  <2>2. Plain'
    BY <2>1 DEF Plain, loopVars
  <2>3. ASSUME crossed = {}
        PROVE  Told' = IF txBuffer.data.says = NoDistance THEN Told
                       ELSE txBuffer.data.says
    <3>1. txBuffer.id = txBuffer.data.call
      BY <2>1, <2>3 DEF Meeting, Crossing, Fits
    <3>2. wire \in Seq(Buffers) /\ txBuffer \in Buffers
      BY DEF TypeInv, TxTypes, Buffers
    <3> QED
      BY <2>1, <3>1, <3>2, ToldAppended
  <2> QED
    BY <2>1, <2>2, <2>3 DEF Newest, isrVars, tofVars
<1>3. CASE LoopCalls
  <2>1. /\ loopPc = "idle" /\ loopPc' = "header" /\ loopMsg'.says = NoDistance
        /\ UNCHANGED <<isrVars, bufVars, tofVars, wire, crossed>>
    BY <1>3, <1>calls, MessageType DEF LoopCalls, LoopStep
  <2>2. Told' = Told
    BY <2>1 DEF Told, DistanceFrames
  <2> QED
    BY <2>1, <2>2 DEF Plain, Newest, Filled, isrVars, bufVars, tofVars
<1>4. CASE LoopSends
  <2>1. /\ isr = "off" /\ isr' = "off"
        /\ UNCHANGED <<loopMsg, prevTofValue, wire, crossed>>
    BY <1>4, Zenon DEF LoopSends, LoopWritesHeader, LoopWritesData,
       LoopFindsFree, LoopCopiesHeader, LoopCopiesData, LoopRequests,
       LoopStep, isrVars, tofVars
  <2>2. Told' = Told
    BY <2>1 DEF Told, DistanceFrames
  <2>3. CASE LoopWritesHeader \/ LoopWritesData
    BY <2>1, <2>2, <2>3 DEF LoopWritesHeader, LoopWritesData, LoopStep, Plain,
       Newest, Filled
  <2>4. CASE LoopFindsFree
    BY <2>1, <2>2, <2>4 DEF LoopFindsFree, MaySend, LoopStep, Plain, Newest,
       Filled, bufVars
  <2>5. CASE LoopCopiesHeader \/ LoopCopiesData
    <3>1. /\ loopPc \in {"copyHeader", "copyData"}
          /\ loopPc' \in {"copyData", "request"}
          /\ loopPc' = "request" => txBuffer'.data = txData
          /\ UNCHANGED <<txData, pending>>
      BY <2>5 DEF LoopCopiesHeader, LoopCopiesData, LoopStep
    <3> QED
      BY <2>1, <2>2, <3>1 DEF Plain, Newest, Filled
  <2>6. CASE LoopRequests
    BY <2>1, <2>2, <2>6 DEF LoopRequests, LoopStep, Plain, Newest, Filled
  <2> QED
    BY <1>4, <2>3, <2>4, <2>5, <2>6 DEF LoopSends
<1>5. CASE IsrSends
  <2>1. /\ isr = "send" /\ isr' = "off" /\ ~pending /\ pending' = TRUE
        /\ txData' = isrMsg /\ txBuffer'.data = isrMsg
        /\ UNCHANGED <<loopPc, loopMsg, prevTofValue, wire>>
    BY <1>5 DEF IsrSends, MaySend, loopVars, tofVars
  <2>2. loopPc \in Filled => crossed' # {}
    BY <1>5 DEF IsrSends, Filled, Touched
  <2>3. Told' = Told
    BY <2>1 DEF Told, DistanceFrames
  <2> QED
    BY <1>0, <2>1, <2>2, <2>3 DEF Plain, Newest, Filled
<1>6. CASE RxIsrStarts \/ ClearFlag \/ ReadFrame
  BY <1>6, SaysKept DEF RxIsrStarts, ClearFlag, ReadFrame, tofVars
<1>7. CASE HandleFrame
  <2>1. isr = "read" /\ UNCHANGED <<loopVars, bufVars, prevTofValue, wire, crossed>>
    BY <1>7 DEF HandleFrame, tofVars
  <2>2. CASE IsrReturns
    BY <2>1, <2>2, SaysKept DEF IsrReturns
  <2>3. CASE IsrCalls(NoDistance)
    BY <1>calls, <2>1, <2>3, SaysKept, CallsStep
  <2> QED
    BY <1>7, <2>2, <2>3 DEF HandleFrame
<1>8. CASE TofTimeout
  BY <1>8, SaysKept DEF TofTimeout, isrVars
<1>9. CASE PublisherRuns
  <2>1. UNCHANGED <<loopVars, bufVars, wire, crossed>>
    BY <1>9 DEF PublisherRuns
  <2>2. CASE UNCHANGED <<isr, isrMsg, calls, prevTofValue>>
    BY <2>1, <2>2, SaysKept
  <2>3. CASE IsrCalls(InFrame(g_TofValue)) /\ prevTofValue' = g_TofValue
    <3>1. InFrame(g_TofValue) \in 0..Silence
      BY FrameNumbers DEF TypeInv, TofTypes
    <3>2. InFrame(g_TofValue) # NoDistance
      BY <3>1 DEF NoDistance
    <3>3. isr' = "send" /\ isrMsg'.says = InFrame(g_TofValue)
      BY <1>calls, <2>3, <3>1, CallsStep
    <3> QED
      BY <2>1, <2>3, <3>2, <3>3, SaysKept
  <2> QED
    BY <1>9, <2>2, <2>3 DEF PublisherRuns, Publish
<1>10. CASE UNCHANGED vars
  BY <1>10, SaysKept DEF vars, isrVars, tofVars
<1> QED
  BY <1>1, <1>2, <1>3, <1>4, <1>5, <1>6, <1>7, <1>8, <1>9, <1>10
  DEF Next, RxIsrRuns

\* A receiver knows the distance, whatever the sensor sends and the publisher
\* leaves out, as long as no send was crossed.
THEOREM DistanceTold == Spec => []ToldTheDistance
<1>1. Init => Heard /\ Meeting
  <2> SUFFICES ASSUME Init PROVE Heard /\ Meeting
    OBVIOUS
  <2>1. Plain /\ Meeting
    BY DriverAssumption
    DEF Init, Plain, Meeting, Crossing, Whose, Numbers, Apart, Filled,
        DriverAssumption
  <2>2. DistanceFrames = {} /\ Told = 0
    BY DEF Init, DistanceFrames, Told
  <2>3. HasLast
    BY <2>2 DEF HasLast
  <2>4. InFrame(0) = 0
    BY SensorAssumption, DriverAssumption, DistanceValues
    DEF SensorAssumption, DriverAssumption, TOF_INVALID_VALUE
  <2>5. Newest
    BY <2>2, <2>4 DEF Init, Newest
  <2>6. Sensed
    BY DEF Init, Sensed, Distances
  <2> QED
    BY <2>1, <2>3, <2>5, <2>6 DEF Heard
<1>2. Heard /\ Meeting /\ TypeInv /\ RxInv /\ [Next]_vars => Heard'
  BY LastStep, SensedStep, SaysStep DEF Heard
<1>3. Heard => ToldTheDistance
  <2> SUFFICES ASSUME Heard, fresh, isr = "off", ~pending, crossed = {}
               PROVE  IF g_TofValue = TOF_INVALID_VALUE
                        THEN Told = Silence
                        ELSE /\ Told # Silence
                             /\ Difference(Told, g_TofValue) < MIN_CHANGE
    BY DEF ToldTheDistance
  <2>1. Told = InFrame(prevTofValue)
    BY DEF Heard, Newest
  <2>2. /\ g_TofValue \in Distances /\ prevTofValue \in Distances \cup {0}
        /\ Difference(prevTofValue, g_TofValue) < MIN_CHANGE
    BY DEF Heard, Sensed
  <2>3. prevTofValue = TOF_INVALID_VALUE <=> g_TofValue = TOF_INVALID_VALUE
    <3>1. TOF_INVALID_VALUE \in Nat
      BY DistanceValues DEF Distances
    <3> QED
      BY <2>2, <3>1, DistanceValues DEF Difference, MIN_CHANGE
  <2>4. Silence \in Nat
    BY FrameNumbers
  <2> QED
    BY <2>1, <2>2, <2>3, <2>4, DistanceValues
<1> QED
  BY <1>1, <1>2, <1>3, MeetingStep, TypeInvariant, RxInvariant, PTL DEF Spec
=============================================================================
