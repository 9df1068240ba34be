------------------------------- MODULE CanBus -------------------------------
(***************************************************************************)
(* What the diagnostic transport of the ECU (BSW/Service/cantp.c) and the  *)
(* gateway (tools/UDS/uds_gateway.cpp) share: the four ISO-TP frame kinds  *)
(* and the two places where a frame waits, the ECU's one-frame mailbox and *)
(* the gateway's CAN socket.                                               *)
(*                                                                         *)
(* A message is its number; a frame names the message its bytes belong to  *)
(* and the offset they were taken from.  Lengths are bytes.                *)
(***************************************************************************)
EXTENDS Integers, Sequences

VARIABLES
  mailbox,   \* g_rx_frame_flag and g_rx_frame_data: None or the frame held
  canOpen,   \* the gateway has its CAN socket open
  canSock    \* frames received on it and not read yet

busVars == <<mailbox, canOpen, canSock>>

SINGLE == 7    \* data bytes of a single frame and of a consecutive frame
FIRST == 6     \* data bytes of a first frame
SEQ_MOD == 16

None == [kind |-> "none"]
SF(m, n) == [kind |-> "SF", msg |-> m, len |-> n]
FF(m, n) == [kind |-> "FF", msg |-> m, len |-> n]
CF(m, s, at) == [kind |-> "CF", msg |-> m, seq |-> s, at |-> at]
FC(bs) == [kind |-> "FC", bs |-> bs]   \* status 0: neither end sends another

\* The bytes a frame carries, as a receiver stores them.
Piece(m, at) == [msg |-> m, at |-> at]

\* Where the i-th piece of a reassembly lies in its buffer.
OffsetOf(i) == IF i = 1 THEN 0 ELSE FIRST + SINGLE * (i - 2)

NextSeq(s) == (s + 1) % SEQ_MOD
SmallerOf(a, b) == IF a < b THEN a ELSE b

\* canSendMsg of the ECU: the frame reaches the socket if there is one.
EcuSends(frame) ==
  /\ canSock' = IF canOpen THEN Append(canSock, frame) ELSE canSock
  /\ UNCHANGED canOpen

\* A write to the CAN socket: the receive interrupt of the ECU keeps the frame
\* only if its mailbox is empty (CANTP_HandleRxISR).
GatewaySends(frame) ==
  /\ mailbox' = IF mailbox = None THEN frame ELSE mailbox
  /\ UNCHANGED canOpen
=============================================================================
