------------------------------ MODULE Gateway -------------------------------
(***************************************************************************)
(* The DoIP gateway (tools/UDS/uds_gateway.cpp): the session thread reads  *)
(* requests from the client's TCP connection and sends them over CAN; the  *)
(* forwarder thread reads the CAN socket, hands flow controls to the       *)
(* session thread through a queue and responses to the client.  The queue  *)
(* is a global: it outlives the session.                                   *)
(***************************************************************************)
EXTENDS CanBus

VARIABLES
  \* the TCP connection
  clientOpen, tcpIn, answers,
  \* the session thread: control point, message being sent and its progress
  sPc, sMsg, sLen, sSent, sSeq, sLeft,
  \* the forwarder thread: control point and the message being received
  fPc, fPieces, fTotal, fExpected,
  \* shared by the two
  sessionActive, fcQueue

clientVars == <<clientOpen, tcpIn, answers>>
sendVars == <<sMsg, sLen, sSent, sSeq, sLeft>>
sessionVars == <<sPc, sendVars>>
receiveVars == <<fPieces, fTotal, fExpected>>
forwarderVars == <<fPc, receiveVars>>
gatewayVars ==
  <<clientVars, sessionVars, forwarderVars, sessionActive, fcQueue>>

MAX_CONSECUTIVE_FRAMES_IN_BLOCK == 4095

GatewayInit ==
  /\ clientOpen = FALSE /\ tcpIn = <<>> /\ answers = {}
  /\ sPc = "accept" /\ sMsg = 0 /\ sLen = 0 /\ sSent = 0 /\ sSeq = 0
  /\ sLeft = 0
  /\ fPc = "ended" /\ fPieces = <<>> /\ fTotal = 0 /\ fExpected = 0
  /\ sessionActive = FALSE /\ fcQueue = <<>>

---------------------------------------------------------------------------
(* The session thread: main, handle_doip_session, isotp_send.              *)

\* main accepts a client; the session opens a CAN socket and starts the
\* forwarder.
StartSession ==
  /\ sPc = "accept"
  /\ clientOpen' = TRUE
  /\ tcpIn' = <<>>
  /\ sPc' = "idle"
  /\ fPc' = "read"
  /\ sessionActive' = TRUE
  /\ canOpen' = TRUE
  /\ canSock' = <<>>
  /\ UNCHANGED <<answers, sendVars, receiveVars, fcQueue, mailbox>>

\* A request of at most seven bytes is one frame.
SendSingleFrame ==
  /\ sPc = "idle" /\ sessionActive
  /\ tcpIn # <<>> /\ Head(tcpIn).len <= SINGLE
  /\ tcpIn' = Tail(tcpIn)
  /\ GatewaySends(SF(Head(tcpIn).msg, Head(tcpIn).len))
  /\ UNCHANGED <<clientOpen, answers, sessionVars, forwarderVars,
                 sessionActive, fcQueue, canSock>>

SendFirstFrame ==
  /\ sPc = "idle" /\ sessionActive
  /\ tcpIn # <<>> /\ Head(tcpIn).len > SINGLE
  /\ tcpIn' = Tail(tcpIn)
  /\ GatewaySends(FF(Head(tcpIn).msg, Head(tcpIn).len))
  /\ sMsg' = Head(tcpIn).msg /\ sLen' = Head(tcpIn).len
  /\ sSent' = FIRST /\ sSeq' = 1 /\ sLeft' = 0
  /\ sPc' = "waitFC"
  /\ UNCHANGED <<clientOpen, answers, forwarderVars, sessionActive, fcQueue,
                 canSock>>

\* wait_for_flow_control: the oldest flow control of the queue, whatever it
\* answered; clear to send starts a block.
TakeFlowControl ==
  /\ sPc = "waitFC"
  /\ fcQueue # <<>>
  /\ fcQueue' = Tail(fcQueue)
  /\ sLeft' = IF Head(fcQueue).bs = 0 THEN MAX_CONSECUTIVE_FRAMES_IN_BLOCK
                                      ELSE Head(fcQueue).bs
  /\ sPc' = "block"
  /\ UNCHANGED <<clientVars, sMsg, sLen, sSent, sSeq, forwarderVars,
                 sessionActive, busVars>>

\* Two seconds without a flow control: the request is given up.
FlowControlTimeout ==
  /\ sPc = "waitFC"
  /\ fcQueue = <<>>
  /\ sPc' = "idle"
  /\ UNCHANGED <<clientVars, sendVars, forwarderVars, sessionActive, fcQueue,
                 busVars>>

SendConsecutiveFrame ==
  LET sent == sSent + SmallerOf(SINGLE, sLen - sSent)
  IN /\ sPc = "block"
     /\ GatewaySends(CF(sMsg, sSeq, sSent))
     /\ sSent' = sent
     /\ sSeq' = NextSeq(sSeq)
     /\ sLeft' = sLeft - 1
     /\ sPc' = IF sent >= sLen THEN "idle"
               ELSE IF sLeft = 1 THEN "waitFC" ELSE "block"
     /\ UNCHANGED <<clientVars, sMsg, sLen, forwarderVars, sessionActive,
                    fcQueue, canSock>>

\* The client is gone: the thread waits for the forwarder, ...
EndSession ==
  /\ sPc = "idle"
  /\ ~sessionActive \/ (~clientOpen /\ tcpIn = <<>>)
  /\ sPc' = "joining"
  /\ sessionActive' = FALSE
  /\ UNCHANGED <<clientVars, sendVars, forwarderVars, fcQueue, busVars>>

\* ... closes the CAN socket and accepts the next one.
JoinForwarder ==
  /\ sPc = "joining"
  /\ fPc = "ended"
  /\ sPc' = "accept"
  /\ clientOpen' = FALSE
  /\ tcpIn' = <<>>
  /\ canOpen' = FALSE
  /\ canSock' = <<>>
  /\ UNCHANGED <<answers, sendVars, forwarderVars, sessionActive, fcQueue,
                 mailbox>>

---------------------------------------------------------------------------
(* The forwarder thread: can_to_doip_forwarder.                            *)

\* The loop head: the session may have ended.
NextFrame == IF sessionActive THEN "read" ELSE "ended"

Read(kind) ==
  /\ fPc = "read"
  /\ canSock # <<>> /\ Head(canSock).kind = kind
  /\ canSock' = Tail(canSock)

\* A read that times out notices that the session has ended.
ReadTimeout ==
  /\ fPc = "read"
  /\ canSock = <<>> /\ ~sessionActive
  /\ fPc' = "ended"
  /\ UNCHANGED <<clientVars, sessionVars, receiveVars, sessionActive, fcQueue,
                 busVars>>

ReadFlowControl ==
  /\ Read("FC")
  /\ fcQueue' = Append(fcQueue, Head(canSock))
  /\ fPc' = NextFrame
  /\ UNCHANGED <<clientVars, sessionVars, receiveVars, sessionActive, mailbox,
                 canOpen>>

ReadSingleFrame ==
  /\ Read("SF")
  /\ fPieces' = <<Piece(Head(canSock).msg, 0)>>
  /\ fTotal' = Head(canSock).len
  /\ fPc' = "forward"
  /\ UNCHANGED <<clientVars, sessionVars, fExpected, sessionActive, fcQueue,
                 mailbox, canOpen>>

\* isotp_handle_multi_frame answers a first frame by a flow control ...
ReadFirstFrame ==
  /\ Read("FF")
  /\ fPieces' = <<Piece(Head(canSock).msg, 0)>>
  /\ fTotal' = Head(canSock).len
  /\ fExpected' = 1
  /\ GatewaySends(FC(0))
  /\ fPc' = "collect"
  /\ UNCHANGED <<clientVars, sessionVars, sessionActive, fcQueue>>

\* A consecutive frame here belongs to nothing.
ReadStrayFrame ==
  /\ Read("CF")
  /\ fPc' = NextFrame
  /\ UNCHANGED <<clientVars, sessionVars, receiveVars, sessionActive, fcQueue,
                 mailbox, canOpen>>

Expected(frame) == frame.kind = "CF" /\ frame.seq = fExpected

Received(pieces) == FIRST + SINGLE * (Len(pieces) - 1)

\* ... and reads the consecutive frames itself.
CollectFrame ==
  /\ fPc = "collect"
  /\ canSock # <<>> /\ Expected(Head(canSock))
  /\ canSock' = Tail(canSock)
  /\ fPieces' = Append(fPieces, Piece(Head(canSock).msg, Head(canSock).at))
  /\ fExpected' = NextSeq(fExpected)
  /\ fPc' = IF Received(fPieces') >= fTotal THEN "forward" ELSE "collect"
  /\ UNCHANGED <<clientVars, sessionVars, fTotal, sessionActive, fcQueue,
                 mailbox, canOpen>>

\* Any other frame ends the reception, and is lost with it.
CollectOther ==
  /\ fPc = "collect"
  /\ canSock # <<>> /\ ~Expected(Head(canSock))
  /\ canSock' = Tail(canSock)
  /\ fPc' = NextFrame
  /\ UNCHANGED <<clientVars, sessionVars, receiveVars, sessionActive, fcQueue,
                 mailbox, canOpen>>

\* Two seconds without a frame end it too.
CollectTimeout ==
  /\ fPc = "collect"
  /\ canSock = <<>>
  /\ fPc' = NextFrame
  /\ UNCHANGED <<clientVars, sessionVars, receiveVars, sessionActive, fcQueue,
                 busVars>>

\* The response goes to the client; a write that fails, the client being gone,
\* ends the session.
Forward ==
  /\ fPc = "forward"
  /\ answers' = IF sessionActive /\ clientOpen
                  THEN answers \cup {fPieces[1].msg} ELSE answers
  /\ \E written \in BOOLEAN :
       /\ clientOpen => written
       /\ sessionActive' = (sessionActive /\ written)
       /\ fPc' = IF sessionActive /\ written THEN "read" ELSE "ended"
  /\ UNCHANGED <<clientOpen, tcpIn, sessionVars, receiveVars, fcQueue,
                 busVars>>
=============================================================================
