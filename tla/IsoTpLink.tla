----------------------------- MODULE IsoTpLink ------------------------------
(***************************************************************************)
(* The diagnostic link: a client, the gateway and the ECU's transport      *)
(* layer, composed over the CAN bus.                                       *)
(***************************************************************************)
EXTENDS CanTp, Gateway

CONSTANT MaxRequests   \* bound: the requests of the longest dialogue

ASSUME LinkAssumption ==
  /\ MaxRequests \in Nat
  /\ \A d \in Dialogues : d.rounds <= MaxRequests

VARIABLES
  asked,      \* requests sent so far; the n-th is message n
  disturbed   \* history: a frame was dropped by the mailbox, a wait timed
              \* out, the client asked again before the answer, or left

vars == <<busVars, ecuVars, gatewayVars, dialogue, asked, disturbed>>

Init ==
  /\ mailbox = None /\ canOpen = FALSE /\ canSock = <<>>
  /\ EcuInit /\ GatewayInit
  /\ asked = 0 /\ disturbed = FALSE

---------------------------------------------------------------------------
Answered(m) == m \in answers

\* Everything asked so far has been answered.
AllAnswered == \A m \in 1..asked : Answered(m)

ClientAsks ==
  /\ clientOpen /\ asked < dialogue.rounds
  /\ asked' = asked + 1
  /\ \E n \in dialogue.asks :
       tcpIn' = Append(tcpIn, [msg |-> asked + 1, len |-> n])
  /\ disturbed' = (disturbed \/ ~AllAnswered)
  /\ UNCHANGED <<busVars, ecuVars, clientOpen, answers, sessionVars,
                 forwarderVars, sessionActive, fcQueue, dialogue>>

ClientLeaves ==
  /\ clientOpen
  /\ clientOpen' = FALSE
  /\ disturbed' = (disturbed \/ ~AllAnswered)
  /\ UNCHANGED <<busVars, ecuVars, tcpIn, answers, sessionVars, forwarderVars,
                 sessionActive, fcQueue, dialogue, asked>>

EcuMoves(action) ==
  action /\ UNCHANGED <<gatewayVars, dialogue, asked, disturbed>>

\* What the gateway does, and whether it disturbs the exchange.
GatewayMoves(action, disturbs) ==
  /\ action
  /\ disturbed' = (disturbed \/ disturbs)
  /\ UNCHANGED <<ecuVars, dialogue, asked>>

\* A frame that finds the mailbox full is dropped.
SessionWrites ==
  GatewayMoves(SendSingleFrame \/ SendFirstFrame \/ SendConsecutiveFrame,
               mailbox # None)
ForwarderWrites == GatewayMoves(ReadFirstFrame, mailbox # None)

SessionMoves ==
  GatewayMoves(TakeFlowControl \/ EndSession \/ JoinForwarder, FALSE)

ForwarderMoves ==
  GatewayMoves(\/ ReadTimeout \/ ReadFlowControl \/ ReadSingleFrame
               \/ ReadStrayFrame \/ CollectFrame \/ CollectOther \/ Forward,
               FALSE)

ClientConnects == GatewayMoves(StartSession, FALSE)
GatewayGivesUp == GatewayMoves(FlowControlTimeout \/ CollectTimeout, TRUE)

Next ==
  \/ ClientConnects \/ ClientAsks \/ ClientLeaves
  \/ EcuMoves(EcuStep) \/ EcuMoves(SendPeriodic)
  \/ SessionWrites \/ SessionMoves \/ ForwarderWrites \/ ForwarderMoves
  \/ GatewayGivesUp

Spec == Init /\ [][Next]_vars

\* The loop of the ECU comes round and both threads of the gateway run; a wait
\* need not time out and the client need not do anything.
FairSpec ==
  /\ Spec
  /\ WF_vars(EcuMoves(EcuStep))
  /\ WF_vars(SessionWrites \/ SessionMoves)
  /\ WF_vars(ForwarderWrites \/ ForwarderMoves)

---------------------------------------------------------------------------
(* Properties.                                                             *)

Messages == 0..MaxRequests
Lengths == 0..4095
Offsets == 0..4101
SeqNumbers == 0..(SEQ_MOD - 1)
Pieces == [msg : Messages, at : Offsets]
FlowControls == [kind : {"FC"}, bs : 0..255]
Frames ==
  [kind : {"SF", "FF"}, msg : Messages, len : Lengths]
  \cup [kind : {"CF"}, msg : Messages, seq : SeqNumbers, at : Offsets]
  \cup FlowControls

EcuTypes ==
  /\ rxState \in {"IDLE", "WAIT_CF"}
  /\ txState \in {"IDLE", "WAIT_FC", "SENDING_CF"}
  /\ rxTotal \in Lengths /\ txTotal \in Lengths
  /\ rxReceived \in Lengths /\ txSent \in Lengths
  /\ rxExpected \in SeqNumbers /\ txSeq \in SeqNumbers
  /\ rxBlock \in 0..FLOW_CONTROL_BLOCK_SIZE /\ txBlockSize \in 0..255
  /\ blockCount \in 0..255
  /\ rxBuffer \in Seq(Pieces) /\ txMsg \in Messages
  /\ dialogue \in Dialogues

GatewayTypes ==
  /\ clientOpen \in BOOLEAN /\ sessionActive \in BOOLEAN
  /\ canOpen \in BOOLEAN /\ disturbed \in BOOLEAN
  /\ asked \in Messages /\ answers \subseteq Messages
  /\ tcpIn \in Seq([msg : Messages, len : Lengths])
  /\ sPc \in {"accept", "idle", "waitFC", "block", "joining"}
  /\ sMsg \in Messages /\ sLen \in Lengths /\ sSent \in Lengths
  /\ sSeq \in SeqNumbers /\ sLeft \in 0..MAX_CONSECUTIVE_FRAMES_IN_BLOCK
  /\ fPc \in {"read", "collect", "forward", "ended"}
  /\ fPieces \in Seq(Pieces) /\ fTotal \in Lengths
  /\ fExpected \in SeqNumbers
  /\ fcQueue \in Seq(FlowControls)
  /\ mailbox \in Frames \cup {None} /\ canSock \in Seq(Frames)

\* Types.  The byte counters of the reassembly and of the transmission never
\* pass the length announced, so no copy leaves the buffers
\* (cantp.c:202-207, cantp.c:288-301).
TypeOK ==
  /\ EcuTypes /\ GatewayTypes
  /\ rxReceived <= rxTotal
  /\ txSent <= txTotal

\* A reassembly never mixes positions: whatever was dropped, delayed or left
\* over from an earlier request, each piece of the ECU's buffer lies at the
\* offset it had in its own message, up to the sixteen frames that a sequence
\* number of four bits cannot tell apart (cantp.c:200-209).
PiecesInPlace ==
  \A i \in DOMAIN rxBuffer :
    (rxBuffer[i].at - OffsetOf(i)) % (SEQ_MOD * SINGLE) = 0

\* Every response the forwarder hands to the client is one whole response of
\* the ECU: no response is mixed with an earlier one that was given up, even
\* across sessions (uds_gateway.cpp:511-541, cantp.c:162-172).
ResponsesWhole ==
  fPc = "forward" =>
    \A i \in DOMAIN fPieces : fPieces[i] = Piece(fPieces[1].msg, OffsetOf(i))

\* The last consecutive frame of a request, in the ECU.
HandsOver == rxState = "WAIT_CF" /\ rxReceived' # rxReceived
             /\ rxReceived' >= rxTotal

OfOneMessage(pieces) == \A i \in DOMAIN pieces : pieces[i].msg = pieces[1].msg

\* A request reassembled from pieces of two is never handed to the services
\* unless a frame was dropped, a wait timed out or requests overlapped before
\* (cantp.c:211-214).
WholeUnlessDisturbed ==
  [][HandsOver /\ ~disturbed => OfOneMessage(rxBuffer')]_vars

\* As long as nothing disturbs the exchange every request is answered: flow
\* controls, blocks and sequence numbers of the two ends fit together
\* (cantp.c:216-220, uds_gateway.cpp:386-452).
RequestAnswered ==
  \A m \in 1..MaxRequests : asked >= m ~> (Answered(m) \/ disturbed)

---------------------------------------------------------------------------
(* What the comments of the code claim and the code does not do.           *)

\* cantp.c:211: before a request is handed over all its pieces have come.
HandedOverWhole == [][HandsOver => OfOneMessage(rxBuffer')]_vars
=============================================================================
