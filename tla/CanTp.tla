------------------------------- MODULE CanTp --------------------------------
(***************************************************************************)
(* The ECU's ISO-TP layer (BSW/Service/cantp.c): CANTP_MainFunction takes  *)
(* the frame of the mailbox and handles it to the end; the consecutive     *)
(* frames of a response are sent in a waiting loop, one action each.       *)
(* Everything runs in the foreground loop; the receive interrupt only      *)
(* fills the mailbox (CanBus!GatewaySends).                                *)
(***************************************************************************)
EXTENDS CanBus

CONSTANTS
  FLOW_CONTROL_BLOCK_SIZE,  \* consecutive frames the ECU asks for at a time
  Dialogues,                \* who may say how much: the lengths of the client's
                            \* requests and of the responses the UDS services
                            \* give, and (bound) how many requests are sent
  PeriodicTransmission,     \* whether a periodic task is active
  PeriodicBacklog           \* bound: a periodic frame is sent only onto a
                            \* socket with fewer frames than this

ASSUME CanTpAssumption ==
  /\ FLOW_CONTROL_BLOCK_SIZE \in 1..255
  /\ Dialogues \subseteq [asks : SUBSET (1..4095), gives : SUBSET (1..4095),
                           rounds : Nat]
  /\ PeriodicTransmission \in BOOLEAN
  /\ PeriodicBacklog \in Nat

VARIABLES
  rxState, rxTotal, rxReceived, rxExpected, rxBlock, rxBuffer,
  txState, txTotal, txSent, txSeq, txBlockSize, txMsg, blockCount,
  dialogue   \* the one of Dialogues that takes place

rxVars == <<rxState, rxTotal, rxReceived, rxExpected, rxBlock, rxBuffer>>
txVars == <<txState, txTotal, txSent, txSeq, txBlockSize, txMsg, blockCount>>
ecuVars == <<rxVars, txVars>>

PERIODIC == 0        \* the message number of a periodic transmission
PERIODIC_LENGTH == 5 \* identifier and a 24-bit distance

EcuInit ==
  /\ rxState = "IDLE" /\ rxTotal = 0 /\ rxReceived = 0 /\ rxExpected = 0
  /\ rxBlock = 0 /\ rxBuffer = <<>>
  /\ txState = "IDLE" /\ txTotal = 0 /\ txSent = 0 /\ txSeq = 0
  /\ txBlockSize = 0 /\ txMsg = 0 /\ blockCount = 0
  /\ dialogue \in Dialogues

---------------------------------------------------------------------------
\* Seeded fault for SendResponse: the first frame is taken for a full one.
SendResponseSkipsByte(m, n) ==
  IF txState # "IDLE" THEN UNCHANGED <<txVars, canOpen, canSock>>
  ELSE IF n <= SINGLE THEN EcuSends(SF(m, n)) /\ UNCHANGED txVars
  ELSE /\ txState' = "WAIT_FC"
       /\ txTotal' = n /\ txMsg' = m
       /\ txSent' = SINGLE /\ txSeq' = 1
       /\ EcuSends(FF(m, n))
       /\ UNCHANGED <<txBlockSize, blockCount>>

\* CANTP_SendResponse: ignored while a response is under way.
SendResponse(m, n) ==
  IF txState # "IDLE" THEN UNCHANGED <<txVars, canOpen, canSock>>
  ELSE IF n <= SINGLE THEN EcuSends(SF(m, n)) /\ UNCHANGED txVars
  ELSE /\ txState' = "WAIT_FC"
       /\ txTotal' = n /\ txMsg' = m
       /\ txSent' = FIRST /\ txSeq' = 1
       /\ EcuSends(FF(m, n))
       /\ UNCHANGED <<txBlockSize, blockCount>>

\* UDS_HandleMessage, as far as the transport sees it: one response, whose
\* service is the first byte of the message.
HandleMessage(m) == \E n \in dialogue.gives : SendResponse(m, n)

\* CANTP_MainFunction: the mailbox is emptied, then its frame is handled.
\* In SENDING_CF the loop is inside sendConsecutiveFrame.
Take(kind) ==
  /\ txState # "SENDING_CF"
  /\ mailbox.kind = kind
  /\ mailbox' = None

handleSingleFrame ==
  /\ Take("SF")
  /\ IF rxState = "IDLE" THEN HandleMessage(mailbox.msg)
     ELSE UNCHANGED <<txVars, canOpen, canSock>>
  /\ UNCHANGED rxVars

\* Seeded fault for handleFirstFrame: the message before is not forgotten.
FirstFrameAppends ==
  /\ Take("FF")
  /\ IF rxState = "IDLE"
       THEN /\ rxState' = "WAIT_CF"
            /\ rxTotal' = rxReceived + mailbox.len
            /\ rxBuffer' = Append(rxBuffer, Piece(mailbox.msg, 0))
            /\ rxReceived' = rxReceived + FIRST
            /\ rxExpected' = 1
            /\ rxBlock' = 0
            /\ EcuSends(FC(FLOW_CONTROL_BLOCK_SIZE))
       ELSE UNCHANGED <<rxVars, canOpen, canSock>>
  /\ UNCHANGED txVars

handleFirstFrame ==
  /\ Take("FF")
  /\ IF rxState = "IDLE"
       THEN /\ rxState' = "WAIT_CF"
            /\ rxTotal' = mailbox.len
            /\ rxBuffer' = <<Piece(mailbox.msg, 0)>>
            /\ rxReceived' = FIRST
            /\ rxExpected' = 1
            /\ rxBlock' = 0
            /\ EcuSends(FC(FLOW_CONTROL_BLOCK_SIZE))
       ELSE UNCHANGED <<rxVars, canOpen, canSock>>
  /\ UNCHANGED txVars

\* Seeded fault for BytesToCopy: the last frame is taken for a full one.
BytesUnclamped == SINGLE

\* The bytes a consecutive frame adds, in the width of the code.
BytesToCopy == SmallerOf(SINGLE, (rxTotal - rxReceived) % 65536)

\* Seeded fault for BlockFull: one frame too late.
BlockOverfull == rxBlock = FLOW_CONTROL_BLOCK_SIZE

BlockFull == rxBlock + 1 = FLOW_CONTROL_BLOCK_SIZE

\* The expected frame: the last one hands the message over, the last of a
\* block asks for more.
AcceptFrame ==
  /\ rxBuffer' = Append(rxBuffer, Piece(mailbox.msg, mailbox.at))
  /\ rxReceived' = rxReceived + BytesToCopy
  /\ rxExpected' = NextSeq(rxExpected)
  /\ UNCHANGED rxTotal
  /\ IF rxReceived' >= rxTotal
       THEN /\ rxState' = "IDLE" /\ rxBlock' = rxBlock + 1
            /\ HandleMessage(rxBuffer[1].msg)
     ELSE /\ UNCHANGED <<rxState, txVars>>
          /\ IF BlockFull
               THEN rxBlock' = 0 /\ EcuSends(FC(FLOW_CONTROL_BLOCK_SIZE))
               ELSE rxBlock' = rxBlock + 1 /\ UNCHANGED <<canOpen, canSock>>

\* Seeded fault for InSequence: any consecutive frame will do.
InAnyOrder == TRUE

InSequence == mailbox.seq = rxExpected

handleConsecutiveFrame ==
  /\ Take("CF")
  /\ IF rxState = "WAIT_CF" /\ InSequence THEN AcceptFrame
     ELSE /\ rxState' = "IDLE"
          /\ UNCHANGED <<rxTotal, rxReceived, rxExpected, rxBlock, rxBuffer,
                         txVars, canOpen, canSock>>

\* Clear to send: the loop of sendConsecutiveFrame starts.
handleFlowControl ==
  /\ Take("FC")
  /\ IF txState = "WAIT_FC"
       THEN /\ txState' = "SENDING_CF"
            /\ txBlockSize' = mailbox.bs
            /\ blockCount' = 0
            /\ UNCHANGED <<txTotal, txSent, txSeq, txMsg>>
       ELSE UNCHANGED txVars
  /\ UNCHANGED <<rxVars, canOpen, canSock>>

\* One turn of the loop of sendConsecutiveFrame, and what its tests decide
\* before the next one.
sendConsecutiveFrame ==
  LET sent == txSent + SmallerOf(SINGLE, txTotal - txSent)
  IN /\ txState = "SENDING_CF"
     /\ EcuSends(CF(txMsg, txSeq, txSent))
     /\ txSent' = sent
     /\ txSeq' = NextSeq(txSeq)
     /\ blockCount' = (blockCount + 1) % 256
     /\ txState' = IF sent >= txTotal THEN "IDLE"
                   ELSE IF txBlockSize > 0 /\ blockCount + 1 >= txBlockSize
                     THEN "WAIT_FC" ELSE "SENDING_CF"
     /\ UNCHANGED <<txTotal, txBlockSize, txMsg, rxVars, mailbox>>

\* UDS_HandlePeriodicTransmission sends through the same function.
SendPeriodic ==
  /\ PeriodicTransmission
  /\ txState # "SENDING_CF"
  /\ Len(canSock) < PeriodicBacklog
  /\ SendResponse(PERIODIC, PERIODIC_LENGTH)
  /\ UNCHANGED <<rxVars, mailbox>>

EcuStep ==
  \/ handleSingleFrame \/ handleFirstFrame \/ handleConsecutiveFrame
  \/ handleFlowControl \/ sendConsecutiveFrame
=============================================================================
