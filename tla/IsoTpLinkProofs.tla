-------------------------- MODULE IsoTpLinkProofs --------------------------
(***************************************************************************)
(* Proofs about IsoTpLink, for every block size, every set of dialogues    *)
(* and every number of requests: the types with their byte counts, pieces  *)
(* in their places, and whole responses.                                   *)
(***************************************************************************)
EXTENDS IsoTpLink, TLAPS

---------------------------------------------------------------------------
(* Sequences, frames and positions.                                        *)

LEMMA Appended ==
  ASSUME NEW S, NEW s \in Seq(S), NEW e \in S
  PROVE  /\ Append(s, e) \in Seq(S) /\ Append(s, e) # <<>>
         /\ Len(Append(s, e)) = Len(s) + 1
<1>1. Append(s, e) \in Seq(S)
  OBVIOUS
<1>2. Len(Append(s, e)) = Len(s) + 1 /\ Len(s) \in Nat
  OBVIOUS
<1>3. Append(s, e) # <<>>
  BY <1>2
<1> QED
  BY <1>1, <1>2, <1>3

LEMMA Taken ==
  ASSUME NEW S, NEW s \in Seq(S), s # <<>>
  PROVE  Head(s) \in S /\ Tail(s) \in Seq(S)
OBVIOUS

LEMMA NoElements == ASSUME NEW S PROVE <<>> \in Seq(S)
OBVIOUS

LEMMA Alone ==
  ASSUME NEW S, NEW e \in S
  PROVE  /\ <<e>> \in Seq(S) /\ <<e>> # <<>> /\ Len(<<e>>) = 1
         /\ \A i \in DOMAIN <<e>> : i = 1 /\ <<e>>[i] = e
OBVIOUS

LEMMA First ==
  ASSUME NEW S, NEW s \in Seq(S), s # <<>>
  PROVE  s[1] \in S
OBVIOUS

LEMMA FrameFields ==
  ASSUME NEW f \in Frames \cup {None}
  PROVE  /\ f.kind \in {"SF", "FF"} => f.msg \in Messages /\ f.len \in Lengths
         /\ f.kind = "CF"
              => f.msg \in Messages /\ f.seq \in SeqNumbers /\ f.at \in Offsets
         /\ f.kind = "FC" => f \in FlowControls /\ f.bs \in 0..255
<1>1. CASE f \in [kind : {"SF", "FF"}, msg : Messages, len : Lengths]
  BY <1>1
<1>2. CASE f \in [kind : {"CF"}, msg : Messages, seq : SeqNumbers,
                  at : Offsets]
  BY <1>2
<1>3. CASE f \in FlowControls
  BY <1>3 DEF FlowControls
<1>4. CASE f = None
  BY <1>4 DEF None
<1> QED
  BY <1>1, <1>2, <1>3, <1>4 DEF Frames

LEMMA FrameTypes ==
  /\ \A m \in Messages, n \in Lengths :
       SF(m, n) \in Frames /\ FF(m, n) \in Frames
  /\ \A m \in Messages, s \in SeqNumbers, at \in Offsets :
       CF(m, s, at) \in Frames
  /\ \A bs \in 0..255 : FC(bs) \in Frames
BY DEF SF, FF, CF, FC, Frames, FlowControls

LEMMA PieceType ==
  ASSUME NEW m \in Messages, NEW at \in Offsets
  PROVE  Piece(m, at) \in Pieces
BY DEF Piece, Pieces

LEMMA NextSeqType ==
  ASSUME NEW s \in SeqNumbers PROVE NextSeq(s) \in SeqNumbers
BY DEF NextSeq, SeqNumbers, SEQ_MOD

\* The offset at belongs to the sequence number s.
InPlace(s, at) == \E q \in Int : at = FIRST + SINGLE * (s - 1) + 112 * q

LEMMA InPlaceFirst == InPlace(1, FIRST)
<1>1. 0 \in Int /\ FIRST = FIRST + SINGLE * (1 - 1) + 112 * 0
  BY DEF FIRST, SINGLE
<1> QED
  BY <1>1 DEF InPlace

LEMMA InPlaceNext ==
  ASSUME NEW s \in SeqNumbers, NEW at \in Int, InPlace(s, at)
  PROVE  InPlace(NextSeq(s), at + SINGLE)
<1>1. PICK q \in Int : at = FIRST + SINGLE * (s - 1) + 112 * q
  BY DEF InPlace
<1>2. CASE s = 15
  <2>1. q + 1 \in Int /\ at + SINGLE = FIRST + SINGLE * (0 - 1) + 112 * (q + 1)
    BY <1>1, <1>2 DEF FIRST, SINGLE
  <2>2. NextSeq(s) = 0
    BY <1>2 DEF NextSeq, SEQ_MOD
  <2> QED
    BY <2>1, <2>2 DEF InPlace, FIRST, SINGLE, SeqNumbers
<1>3. CASE s # 15
  <2>1. NextSeq(s) = s + 1
    BY <1>3 DEF NextSeq, SEQ_MOD, SeqNumbers
  <2>2. at + SINGLE = FIRST + SINGLE * (s + 1 - 1) + 112 * q
    BY <1>1 DEF FIRST, SINGLE, SeqNumbers
  <2> QED
    BY <2>1, <2>2 DEF InPlace, FIRST, SINGLE, SeqNumbers
<1> QED
  BY <1>2, <1>3

\* n pieces have been received, and the next one has the number s.
Counted(n, s) == \E q \in Int : n = s + 16 * q

LEMMA CountedFirst == Counted(1, 1)
<1>1. 0 \in Int /\ 1 = 1 + 16 * 0
  OBVIOUS
<1> QED
  BY <1>1 DEF Counted

LEMMA CountedNext ==
  ASSUME NEW n \in Nat, NEW s \in SeqNumbers, Counted(n, s)
  PROVE  Counted(n + 1, NextSeq(s))
<1>1. PICK q \in Int : n = s + 16 * q
  BY DEF Counted
<1>2. CASE s = 15
  <2>1. NextSeq(s) = 0 /\ q + 1 \in Int /\ n + 1 = 0 + 16 * (q + 1)
    BY <1>1, <1>2 DEF NextSeq, SEQ_MOD
  <2> QED
    BY <2>1 DEF Counted
<1>3. CASE s # 15
  <2>1. NextSeq(s) = s + 1 /\ n + 1 = s + 1 + 16 * q
    BY <1>1, <1>3 DEF NextSeq, SEQ_MOD, SeqNumbers
  <2> QED
    BY <2>1 DEF Counted
<1> QED
  BY <1>2, <1>3

\* An offset where the i-th piece may lie.
Fits(at, i) == (at - OffsetOf(i)) % (SEQ_MOD * SINGLE) = 0

LEMMA FitsFirst == Fits(0, 1)
BY DEF Fits, OffsetOf, SEQ_MOD, SINGLE

LEMMA FitsNext ==
  ASSUME NEW n \in Nat \ {0}, NEW s \in SeqNumbers, NEW at \in Offsets,
         Counted(n, s), InPlace(s, at)
  PROVE  Fits(at, n + 1)
<1>1. PICK q \in Int : n = s + 16 * q
  BY DEF Counted
<1>2. PICK p \in Int : at = FIRST + SINGLE * (s - 1) + 112 * p
  BY DEF InPlace
<1>3. OffsetOf(n + 1) = FIRST + SINGLE * (n - 1)
  BY DEF OffsetOf, FIRST, SINGLE
<1>4. at - OffsetOf(n + 1) = 112 * (p - q)
  BY <1>1, <1>2, <1>3 DEF FIRST, SINGLE, SeqNumbers, SEQ_MOD
<1>5. (112 * (p - q)) % 112 = 0
  OBVIOUS
<1>6. SEQ_MOD * SINGLE = 112
  BY DEF SEQ_MOD, SINGLE
<1> QED
  BY <1>4, <1>5, <1>6 DEF Fits

---------------------------------------------------------------------------
(* The inductive invariant, in five parts.                                 *)

\* A frame in the mailbox: a first frame announces more than a single frame
\* holds, a consecutive frame has the number of its place.
Carried(f) ==
  /\ f \in Frames \cup {None}
  /\ f.kind = "FF" => f.len > SINGLE
  /\ f.kind = "CF" => InPlace(f.seq, f.at)

BusOK == Carried(mailbox) /\ canSock \in Seq(Frames)

\* What has been received lies in its place, and while more is expected the
\* number expected counts it.
Reassembly ==
  /\ \A i \in DOMAIN rxBuffer : Fits(rxBuffer[i].at, i)
  /\ rxState = "WAIT_CF" => /\ rxBuffer # <<>>
                            /\ Counted(Len(rxBuffer), rxExpected)
                            /\ rxBlock < FLOW_CONTROL_BLOCK_SIZE

EcuOK == EcuTypes /\ rxReceived <= rxTotal /\ txSent <= txTotal /\ Reassembly

SessionOK ==
  /\ sPc \in {"accept", "idle", "waitFC", "block", "joining"}
  /\ sMsg \in Messages /\ sLen \in Lengths /\ sSent \in Lengths
  /\ sSeq \in SeqNumbers /\ sLeft \in 0..MAX_CONSECUTIVE_FRAMES_IN_BLOCK
  /\ sSent <= sLen
  /\ sPc \in {"waitFC", "block"} => InPlace(sSeq, sSent)
  /\ sPc = "block" => sLeft > 0

ForwarderOK ==
  /\ fPc \in {"read", "collect", "forward", "ended"}
  /\ fPieces \in Seq(Pieces) /\ fTotal \in Lengths
  /\ fExpected \in SeqNumbers
  /\ fcQueue \in Seq(FlowControls)
  /\ fPc \in {"collect", "forward"} => fPieces # <<>>

Requests == [msg : Messages, len : Lengths]

ClientOK ==
  asked \in Messages /\ answers \subseteq Messages /\ tcpIn \in Seq(Requests)

FlagsOK ==
  /\ clientOpen \in BOOLEAN /\ sessionActive \in BOOLEAN
  /\ canOpen \in BOOLEAN /\ disturbed \in BOOLEAN

LinkInv == BusOK /\ EcuOK /\ SessionOK /\ ForwarderOK /\ ClientOK /\ FlagsOK

LEMMA Numbers ==
  /\ 0 \in Messages /\ 0 \in Lengths /\ 0 \in SeqNumbers /\ 0 \in Offsets
  /\ 1 \in SeqNumbers /\ FIRST \in Lengths
  /\ \A n \in Lengths : n \in Offsets
<1>1. 0 \in Messages
  BY LinkAssumption DEF Messages
<1>2. 0 \in SeqNumbers /\ 1 \in SeqNumbers
  BY DEF SeqNumbers, SEQ_MOD
<1>3. 0 \in Lengths /\ 0 \in Offsets
  BY DEF Lengths, Offsets
<1>4. FIRST \in Lengths
  BY DEF Lengths, FIRST
<1>5. \A n \in Lengths : n \in Offsets
  BY DEF Lengths, Offsets
<1> QED
  BY <1>1, <1>2, <1>3, <1>4, <1>5

LEMMA BlockSize == FLOW_CONTROL_BLOCK_SIZE \in 1..255
BY CanTpAssumption

LEMMA NoFrame == Carried(None)
BY DEF Carried, None

LEMMA InitFlags == Init => FlagsOK
<1> SUFFICES ASSUME Init PROVE FlagsOK
  OBVIOUS
<1>1. clientOpen = FALSE /\ sessionActive = FALSE
  BY DEF Init, GatewayInit
<1>2. canOpen = FALSE /\ disturbed = FALSE
  BY DEF Init
<1> QED
  BY <1>1, <1>2, Zenon DEF FlagsOK

LEMMA InitLink == Init => LinkInv
<1> SUFFICES ASSUME Init PROVE LinkInv
  OBVIOUS
<1> USE Numbers, CanTpAssumption DEF Init, EcuInit, GatewayInit
<1>1. BusOK
  BY NoFrame, NoElements DEF BusOK
<1>2. EcuTypes
  BY NoElements DEF EcuTypes
<1>3. rxReceived <= rxTotal /\ txSent <= txTotal /\ Reassembly
  BY DEF Reassembly
<1>4. SessionOK
  BY DEF SessionOK, MAX_CONSECUTIVE_FRAMES_IN_BLOCK
<1>5. ForwarderOK
  BY NoElements DEF ForwarderOK
<1>6. ClientOK
  BY NoElements DEF ClientOK
<1>7. FlagsOK
  BY InitFlags
<1> QED
  BY <1>1, <1>2, <1>3, <1>4, <1>5, <1>6, <1>7 DEF LinkInv, EcuOK

---------------------------------------------------------------------------
(* The bus.                                                                *)

\* The ECU sends a frame, or none, and may have emptied its mailbox.
LEMMA EcuSendsKeeps ==
  ASSUME BusOK, mailbox' \in {mailbox, None},
         \/ UNCHANGED <<canOpen, canSock>>
         \/ \E f \in Frames : EcuSends(f)
  PROVE  BusOK' /\ canOpen' = canOpen
<1>1. Carried(mailbox)'
  BY NoFrame DEF BusOK
<1>2. canSock' \in Seq(Frames) /\ canOpen' = canOpen
  <2>1. CASE UNCHANGED <<canOpen, canSock>>
    BY <2>1 DEF BusOK
  <2>2. ASSUME NEW f \in Frames, EcuSends(f)
        PROVE  canSock' \in Seq(Frames) /\ canOpen' = canOpen
    BY <2>2, Appended DEF EcuSends, BusOK
  <2> QED
    BY <2>1, <2>2
<1> QED
  BY <1>1, <1>2 DEF BusOK

\* The gateway sends a frame.
LEMMA GatewaySendsKeeps ==
  ASSUME BusOK, NEW f, Carried(f), GatewaySends(f), canSock' \in Seq(Frames)
  PROVE  BusOK'
<1>1. mailbox' \in {mailbox, f}
  BY DEF GatewaySends
<1>2. Carried(mailbox')
  BY <1>1 DEF BusOK
<1> QED
  BY <1>2 DEF BusOK, Carried

\* The frames the gateway sends.
LEMMA CarriedFrames ==
  /\ \A m \in Messages, n \in Lengths : Carried(SF(m, n))
  /\ \A m \in Messages, n \in Lengths : n > SINGLE => Carried(FF(m, n))
  /\ \A m \in Messages, s \in SeqNumbers, at \in Offsets :
       InPlace(s, at) => Carried(CF(m, s, at))
  /\ Carried(FC(0))
<1>1. \A m \in Messages, n \in Lengths : Carried(SF(m, n))
  BY FrameTypes DEF Carried, SF
<1>2. \A m \in Messages, n \in Lengths : n > SINGLE => Carried(FF(m, n))
  BY FrameTypes DEF Carried, FF
<1>3. \A m \in Messages, s \in SeqNumbers, at \in Offsets :
        InPlace(s, at) => Carried(CF(m, s, at))
  BY FrameTypes DEF Carried, CF
<1>4. Carried(FC(0))
  BY FrameTypes DEF Carried, FC
<1> QED
  BY <1>1, <1>2, <1>3, <1>4

---------------------------------------------------------------------------
(* The ECU.                                                                *)

TxTypes ==
  /\ txState \in {"IDLE", "WAIT_FC", "SENDING_CF"}
  /\ txTotal \in Lengths /\ txSent \in Lengths /\ txSeq \in SeqNumbers
  /\ txBlockSize \in 0..255 /\ blockCount \in 0..255 /\ txMsg \in Messages
  /\ txSent <= txTotal

RxTypes ==
  /\ rxState \in {"IDLE", "WAIT_CF"}
  /\ rxTotal \in Lengths /\ rxReceived \in Lengths /\ rxExpected \in SeqNumbers
  /\ rxBlock \in 0..FLOW_CONTROL_BLOCK_SIZE /\ rxBuffer \in Seq(Pieces)
  /\ rxReceived <= rxTotal

LEMMA EcuParts ==
  EcuOK <=> TxTypes /\ RxTypes /\ Reassembly /\ dialogue \in Dialogues
BY DEF EcuOK, EcuTypes, TxTypes, RxTypes

LEMMA ResponseKeeps ==
  ASSUME TxTypes, BusOK, mailbox' \in {mailbox, None},
         NEW m \in Messages, NEW n \in Lengths, SendResponse(m, n)
  PROVE  TxTypes' /\ BusOK' /\ canOpen' = canOpen
<1>1. CASE UNCHANGED <<txVars, canOpen, canSock>>
  BY <1>1, EcuSendsKeeps DEF TxTypes, txVars
<1>2. CASE n <= SINGLE /\ EcuSends(SF(m, n)) /\ UNCHANGED txVars
  BY <1>2, FrameTypes, EcuSendsKeeps DEF TxTypes, txVars
<1>3. CASE /\ n > SINGLE /\ EcuSends(FF(m, n))
           /\ txState' = "WAIT_FC" /\ txTotal' = n /\ txMsg' = m
           /\ txSent' = FIRST /\ txSeq' = 1
           /\ UNCHANGED <<txBlockSize, blockCount>>
  <2>1. TxTypes'
    BY <1>3, Numbers DEF TxTypes, FIRST, SINGLE, Lengths
  <2> QED
    BY <1>3, <2>1, FrameTypes, EcuSendsKeeps
<1> QED
  BY <1>1, <1>2, <1>3 DEF SendResponse, SINGLE, Lengths

LEMMA MessageKeeps ==
  ASSUME TxTypes, BusOK, mailbox' \in {mailbox, None}, dialogue \in Dialogues,
         NEW m \in Messages, HandleMessage(m)
  PROVE  TxTypes' /\ BusOK' /\ canOpen' = canOpen
<1>1. PICK n \in dialogue.gives : SendResponse(m, n)
  BY DEF HandleMessage
<1>2. dialogue.gives \in SUBSET (1..4095)
  BY CanTpAssumption
<1>3. n \in Lengths
  BY <1>2 DEF Lengths
<1> QED
  BY <1>1, <1>3, ResponseKeeps

\* What the actions of the ECU are shown to keep.
EcuKeeps == BusOK' /\ TxTypes' /\ RxTypes' /\ Reassembly' /\ canOpen' = canOpen

LEMMA RxUnchanged ==
  ASSUME RxTypes, Reassembly, UNCHANGED rxVars PROVE RxTypes' /\ Reassembly'
BY DEF RxTypes, Reassembly, rxVars

LEMMA TxUnchanged == ASSUME TxTypes, UNCHANGED txVars PROVE TxTypes'
BY DEF TxTypes, txVars

LEMMA SingleFrameKeeps == LinkInv /\ handleSingleFrame => EcuKeeps
<1> SUFFICES ASSUME LinkInv, handleSingleFrame PROVE EcuKeeps
  OBVIOUS
<1>1. /\ BusOK /\ TxTypes /\ RxTypes /\ Reassembly /\ dialogue \in Dialogues
      /\ mailbox' = None /\ mailbox.kind = "SF" /\ UNCHANGED rxVars
  BY EcuParts DEF LinkInv, handleSingleFrame, Take
<1>2. mailbox.msg \in Messages
  BY <1>1, FrameFields DEF BusOK, Carried
<1>3. CASE HandleMessage(mailbox.msg)
  BY <1>1, <1>2, <1>3, MessageKeeps, RxUnchanged DEF EcuKeeps
<1>4. CASE UNCHANGED <<txVars, canOpen, canSock>>
  BY <1>1, <1>4, EcuSendsKeeps, TxUnchanged, RxUnchanged DEF EcuKeeps
<1> QED
  BY <1>3, <1>4 DEF handleSingleFrame

LEMMA FirstFrameKeeps == LinkInv /\ handleFirstFrame => EcuKeeps
<1> SUFFICES ASSUME LinkInv, handleFirstFrame PROVE EcuKeeps
  OBVIOUS
<1>1. /\ BusOK /\ TxTypes /\ RxTypes /\ Reassembly
      /\ mailbox' = None /\ mailbox.kind = "FF" /\ UNCHANGED txVars
  BY EcuParts DEF LinkInv, handleFirstFrame, Take
<1>2. /\ mailbox.msg \in Messages
      /\ mailbox.len \in Lengths /\ mailbox.len > SINGLE
  BY <1>1, FrameFields DEF BusOK, Carried
<1>3. CASE UNCHANGED <<rxVars, canOpen, canSock>>
  BY <1>1, <1>3, EcuSendsKeeps, TxUnchanged, RxUnchanged DEF EcuKeeps
<1>4. CASE /\ rxState' = "WAIT_CF" /\ rxTotal' = mailbox.len
           /\ rxBuffer' = <<Piece(mailbox.msg, 0)>>
           /\ rxReceived' = FIRST /\ rxExpected' = 1 /\ rxBlock' = 0
           /\ EcuSends(FC(FLOW_CONTROL_BLOCK_SIZE))
  <2>1. PICK p : p = Piece(mailbox.msg, 0)
    OBVIOUS
  <2>2. p \in Pieces /\ p.at = 0
    BY <1>2, <2>1, Numbers, PieceType DEF Piece
  <2>3. rxBuffer' = <<p>>
    BY <1>4, <2>1
  <2>4. RxTypes'
    <3>1. rxBuffer' \in Seq(Pieces)
      BY <2>2, <2>3, Alone
    <3>2. FIRST <= mailbox.len
      <4>1. PICK n : n = mailbox.len
        OBVIOUS
      <4>2. n \in 0..4095 /\ n > SINGLE
        BY <1>2, <4>1 DEF Lengths
      <4>3. FIRST <= n
        BY <4>2 DEF FIRST, SINGLE
      <4> QED
        BY <4>1, <4>3
    <3>3. 0 \in 0..FLOW_CONTROL_BLOCK_SIZE
      BY BlockSize
    <3> QED
      BY <1>2, <1>4, <3>1, <3>2, <3>3, Numbers DEF RxTypes
  <2>5. Reassembly'
    <3>1. /\ rxBuffer' # <<>> /\ Len(rxBuffer') = 1
          /\ \A i \in DOMAIN rxBuffer' : i = 1 /\ rxBuffer'[i] = p
      BY <2>2, <2>3, Alone
    <3>2. \A i \in DOMAIN rxBuffer' : Fits(rxBuffer'[i].at, i)
      BY <2>2, <3>1, FitsFirst
    <3>3. rxBlock' < FLOW_CONTROL_BLOCK_SIZE
      BY <1>4, BlockSize
    <3> QED
      BY <1>4, <3>1, <3>2, <3>3, CountedFirst DEF Reassembly
  <2>6. FLOW_CONTROL_BLOCK_SIZE \in 0..255
    BY CanTpAssumption
  <2>7. BusOK' /\ canOpen' = canOpen
    BY <1>1, <1>4, <2>6, FrameTypes, EcuSendsKeeps
  <2> QED
    BY <1>1, <2>4, <2>5, <2>7, TxUnchanged DEF EcuKeeps
<1> QED
  BY <1>3, <1>4 DEF handleFirstFrame

LEMMA Unwrapped ==
  ASSUME NEW a \in 0..4095 PROVE a % 65536 = a
<1>1. ASSUME NEW n \in Nat, n > 4095 PROVE a % n = a
  BY <1>1
<1>2. 65536 \in Nat /\ 65536 > 4095
  OBVIOUS
<1> QED
  BY <1>1, <1>2

LEMMA CopyBounds ==
  ASSUME RxTypes
  PROVE  /\ rxReceived + BytesToCopy \in Lengths
         /\ rxReceived + BytesToCopy <= rxTotal
<1>1. PICK total, received : total = rxTotal /\ received = rxReceived
  OBVIOUS
<1>2. total \in 0..4095 /\ received \in 0..4095 /\ received <= total
  BY <1>1 DEF RxTypes, Lengths
<1>3. PICK a : a = total - received
  OBVIOUS
<1>4. a \in 0..4095 /\ received + a = total
  BY <1>2, <1>3
<1>6. a % 65536 = a
  BY <1>4, Unwrapped
<1>7. BytesToCopy = SmallerOf(SINGLE, a)
  BY <1>1, <1>3, <1>6 DEF BytesToCopy
<1>8. BytesToCopy \in 0..a
  BY <1>4, <1>7 DEF SmallerOf, SINGLE
<1>9. received + BytesToCopy \in 0..4095 /\ received + BytesToCopy <= total
  BY <1>2, <1>4, <1>8
<1> QED
  BY <1>1, <1>9 DEF Lengths

LEMMA AcceptKeeps ==
  ASSUME LinkInv, mailbox' = None, mailbox.kind = "CF", rxState = "WAIT_CF",
         InSequence, AcceptFrame
  PROVE  EcuKeeps
<1>1. BusOK /\ TxTypes /\ RxTypes /\ Reassembly /\ dialogue \in Dialogues
  BY EcuParts DEF LinkInv
<1>2. /\ mailbox.msg \in Messages /\ mailbox.seq \in SeqNumbers
      /\ mailbox.at \in Offsets /\ InPlace(rxExpected, mailbox.at)
  BY <1>1, FrameFields DEF BusOK, Carried, InSequence
<1>3. PICK p : p = Piece(mailbox.msg, mailbox.at)
  OBVIOUS
<1>4. p \in Pieces /\ p.at = mailbox.at
  BY <1>2, <1>3, PieceType DEF Piece
<1>5. /\ rxBuffer' = Append(rxBuffer, p)
      /\ rxReceived' = rxReceived + BytesToCopy
      /\ rxExpected' = NextSeq(rxExpected) /\ rxTotal' = rxTotal
  BY <1>3 DEF AcceptFrame
<1>6. /\ rxBuffer \in Seq(Pieces) /\ rxBuffer # <<>>
      /\ rxExpected \in SeqNumbers
      /\ Counted(Len(rxBuffer), rxExpected)
  BY <1>1 DEF RxTypes, Reassembly
<1>7. /\ rxBuffer' \in Seq(Pieces) /\ rxBuffer' # <<>>
      /\ Len(rxBuffer') = Len(rxBuffer) + 1
  BY <1>4, <1>5, <1>6, Appended
<1>9. /\ rxState' \in {"IDLE", "WAIT_CF"}
      /\ rxBlock' \in 0..FLOW_CONTROL_BLOCK_SIZE
      /\ rxState' = "WAIT_CF" => rxBlock' < FLOW_CONTROL_BLOCK_SIZE
  <2>1. /\ rxBlock \in 0..FLOW_CONTROL_BLOCK_SIZE
        /\ rxBlock < FLOW_CONTROL_BLOCK_SIZE
    BY <1>1 DEF RxTypes, Reassembly
  <2>2. CASE rxState' = "IDLE" /\ rxBlock' = rxBlock + 1
    BY <2>1, <2>2, BlockSize
  <2>3. CASE rxState' = rxState /\ BlockFull /\ rxBlock' = 0
    BY <2>3, BlockSize
  <2>4. CASE rxState' = rxState /\ ~BlockFull /\ rxBlock' = rxBlock + 1
    BY <2>1, <2>4, BlockSize DEF BlockFull
  <2> QED
    BY <2>2, <2>3, <2>4 DEF AcceptFrame
<1>8. Reassembly'
  <2>1. Len(rxBuffer) \in Nat \ {0}
    BY <1>6
  <2>2. Fits(p.at, Len(rxBuffer) + 1)
    BY <1>2, <1>4, <1>6, <2>1, FitsNext
  <2>3. Counted(Len(rxBuffer) + 1, NextSeq(rxExpected))
    BY <1>6, <2>1, CountedNext
  <2>4. ASSUME NEW i \in DOMAIN rxBuffer' PROVE Fits(rxBuffer'[i].at, i)
    <3>1. CASE i \in DOMAIN rxBuffer
      <4>1. rxBuffer'[i] = rxBuffer[i]
        BY <1>4, <1>5, <1>6, <3>1
      <4> QED
        BY <1>1, <3>1, <4>1 DEF Reassembly
    <3>2. CASE i = Len(rxBuffer) + 1
      <4>1. rxBuffer'[i] = p
        BY <1>4, <1>5, <1>6, <3>2
      <4> QED
        BY <2>2, <3>2, <4>1
    <3> QED
      BY <1>6, <1>7, <3>1, <3>2
  <2> QED
    BY <1>5, <1>7, <1>9, <2>3, <2>4 DEF Reassembly
<1>10. RxTypes'
  BY <1>1, <1>5, <1>6, <1>7, <1>9, CopyBounds, NextSeqType DEF RxTypes
<1>11. rxBuffer[1].msg \in Messages
  <2>1. PICK e : e = rxBuffer[1]
    OBVIOUS
  <2>2. e \in Pieces
    BY <1>6, <2>1, First
  <2> QED
    BY <2>1, <2>2 DEF Pieces
<1>12. TxTypes' /\ BusOK' /\ canOpen' = canOpen
  <2>1. mailbox' \in {mailbox, None} /\ FLOW_CONTROL_BLOCK_SIZE \in 0..255
    BY BlockSize
  <2>2. CASE HandleMessage(rxBuffer[1].msg)
    BY <1>1, <1>11, <2>1, <2>2, MessageKeeps
  <2>3. CASE UNCHANGED txVars /\ EcuSends(FC(FLOW_CONTROL_BLOCK_SIZE))
    BY <1>1, <2>1, <2>3, FrameTypes, EcuSendsKeeps, TxUnchanged
  <2>4. CASE UNCHANGED <<txVars, canOpen, canSock>>
    BY <1>1, <2>1, <2>4, EcuSendsKeeps, TxUnchanged
  <2> QED
    BY <2>2, <2>3, <2>4 DEF AcceptFrame
<1> QED
  BY <1>8, <1>10, <1>12 DEF EcuKeeps

LEMMA ConsecutiveFrameKeeps == LinkInv /\ handleConsecutiveFrame => EcuKeeps
<1> SUFFICES ASSUME LinkInv, handleConsecutiveFrame PROVE EcuKeeps
  OBVIOUS
<1>1. /\ BusOK /\ TxTypes /\ RxTypes /\ Reassembly
      /\ mailbox' = None /\ mailbox.kind = "CF"
  BY EcuParts DEF LinkInv, handleConsecutiveFrame, Take
<1>2. CASE rxState = "WAIT_CF" /\ InSequence /\ AcceptFrame
  BY <1>1, <1>2, AcceptKeeps
<1>3. CASE /\ rxState' = "IDLE"
           /\ UNCHANGED <<rxTotal, rxReceived, rxExpected, rxBlock, rxBuffer,
                          txVars, canOpen, canSock>>
  <2>1. RxTypes' /\ Reassembly'
    BY <1>1, <1>3 DEF RxTypes, Reassembly
  <2> QED
    BY <1>1, <1>3, <2>1, EcuSendsKeeps, TxUnchanged DEF EcuKeeps
<1> QED
  BY <1>2, <1>3 DEF handleConsecutiveFrame

LEMMA FlowControlKeeps == LinkInv /\ handleFlowControl => EcuKeeps
<1> SUFFICES ASSUME LinkInv, handleFlowControl PROVE EcuKeeps
  OBVIOUS
<1>1. /\ BusOK /\ TxTypes /\ RxTypes /\ Reassembly
      /\ mailbox' = None /\ mailbox.kind = "FC"
      /\ UNCHANGED <<rxVars, canOpen, canSock>>
  BY EcuParts DEF LinkInv, handleFlowControl, Take
<1>2. mailbox.bs \in 0..255
  BY <1>1, FrameFields DEF BusOK, Carried
<1>3. TxTypes'
  BY <1>1, <1>2 DEF handleFlowControl, TxTypes, txVars
<1> QED
  BY <1>1, <1>3, EcuSendsKeeps, RxUnchanged DEF EcuKeeps

\* The bytes of the next consecutive frame of a message.
LEMMA NextBytes ==
  ASSUME NEW total \in Lengths, NEW sent \in Lengths, sent <= total
  PROVE  /\ sent + SmallerOf(SINGLE, total - sent) \in Lengths
         /\ sent + SmallerOf(SINGLE, total - sent) <= total
         /\ ~(sent + SmallerOf(SINGLE, total - sent) >= total)
              => SmallerOf(SINGLE, total - sent) = SINGLE
<1>1. PICK a : a = total - sent
  OBVIOUS
<1>2. sent \in 0..4095 /\ total \in 0..4095
  BY DEF Lengths
<1>3. a \in 0..4095 /\ sent + a = total
  BY <1>1, <1>2
<1>4. PICK step : step = SmallerOf(SINGLE, a)
  OBVIOUS
<1>5. step \in 0..a /\ (step # SINGLE => step = a)
  BY <1>3, <1>4 DEF SmallerOf, SINGLE
<1>6. sent + step \in 0..4095 /\ sent + step <= total
  BY <1>2, <1>3, <1>5
<1>7. ~(sent + step >= total) => step = SINGLE
  BY <1>2, <1>3, <1>5
<1> QED
  BY <1>1, <1>4, <1>6, <1>7 DEF Lengths

LEMMA SendingKeeps == LinkInv /\ sendConsecutiveFrame => EcuKeeps
<1> SUFFICES ASSUME LinkInv, sendConsecutiveFrame PROVE EcuKeeps
  OBVIOUS
<1>1. /\ BusOK /\ TxTypes /\ RxTypes /\ Reassembly
      /\ mailbox' = mailbox /\ UNCHANGED rxVars
  BY EcuParts DEF LinkInv, sendConsecutiveFrame
<1>2. PICK sent : sent = txSent + SmallerOf(SINGLE, txTotal - txSent)
  OBVIOUS
<1>3. sent \in Lengths /\ sent <= txTotal
  BY <1>1, <1>2, NextBytes DEF TxTypes
<1>4. /\ EcuSends(CF(txMsg, txSeq, txSent))
      /\ txSent' = sent /\ txSeq' = NextSeq(txSeq)
      /\ blockCount' = (blockCount + 1) % 256
      /\ txState' \in {"IDLE", "WAIT_FC", "SENDING_CF"}
      /\ UNCHANGED <<txTotal, txBlockSize, txMsg>>
  BY <1>2 DEF sendConsecutiveFrame
<1>5. CF(txMsg, txSeq, txSent) \in Frames
  BY <1>1, FrameTypes, Numbers DEF TxTypes
<1>6. (blockCount + 1) % 256 \in 0..255
  BY <1>1 DEF TxTypes
<1>7. TxTypes'
  BY <1>1, <1>3, <1>4, <1>6, NextSeqType DEF TxTypes
<1>8. BusOK' /\ canOpen' = canOpen
  BY <1>1, <1>4, <1>5, EcuSendsKeeps
<1> QED
  BY <1>1, <1>7, <1>8, RxUnchanged DEF EcuKeeps

LEMMA PeriodicKeeps == LinkInv /\ SendPeriodic => EcuKeeps
<1> SUFFICES ASSUME LinkInv, SendPeriodic PROVE EcuKeeps
  OBVIOUS
<1>1. /\ BusOK /\ TxTypes /\ RxTypes /\ Reassembly
      /\ mailbox' = mailbox /\ UNCHANGED rxVars
      /\ SendResponse(PERIODIC, PERIODIC_LENGTH)
  BY EcuParts DEF LinkInv, SendPeriodic
<1>2. PERIODIC \in Messages /\ PERIODIC_LENGTH \in Lengths
  BY Numbers DEF PERIODIC, PERIODIC_LENGTH, Lengths
<1> QED
  BY <1>1, <1>2, ResponseKeeps, RxUnchanged DEF EcuKeeps

LEMMA EcuMovesInv ==
  LinkInv /\ (EcuMoves(EcuStep) \/ EcuMoves(SendPeriodic)) => LinkInv'
<1> SUFFICES ASSUME LinkInv, EcuMoves(EcuStep) \/ EcuMoves(SendPeriodic)
             PROVE  LinkInv'
  OBVIOUS
<1>1. EcuKeeps /\ UNCHANGED <<gatewayVars, dialogue, asked, disturbed>>
  BY SingleFrameKeeps, FirstFrameKeeps, ConsecutiveFrameKeeps,
     FlowControlKeeps, SendingKeeps, PeriodicKeeps
  DEF EcuMoves, EcuStep
<1> USE DEF gatewayVars, clientVars, sessionVars, sendVars, forwarderVars,
            receiveVars
<1>2. BusOK' /\ EcuOK'
  BY <1>1, EcuParts DEF LinkInv, EcuKeeps, EcuOK, EcuTypes, TxTypes, RxTypes
<1>3. SessionOK'
  BY <1>1 DEF LinkInv, SessionOK
<1>4. ForwarderOK' /\ ClientOK'
  BY <1>1 DEF LinkInv, ForwarderOK, ClientOK
<1>5. FlagsOK'
  BY <1>1, Zenon DEF LinkInv, FlagsOK, EcuKeeps
<1> QED
  BY <1>2, <1>3, <1>4, <1>5 DEF LinkInv

---------------------------------------------------------------------------
(* The gateway and the client.                                             *)

\* What they leave alone.
LEMMA EcuUnchanged ==
  ASSUME EcuOK, UNCHANGED <<ecuVars, dialogue>> PROVE EcuOK'
BY DEF EcuOK, EcuTypes, Reassembly, ecuVars, rxVars, txVars

LEMMA BusUnchanged == ASSUME BusOK, UNCHANGED busVars PROVE BusOK'
BY DEF BusOK, Carried, busVars

LEMMA SessionUnchanged ==
  ASSUME SessionOK, UNCHANGED sessionVars PROVE SessionOK'
BY DEF SessionOK, sessionVars, sendVars

LEMMA ForwarderUnchanged ==
  ASSUME ForwarderOK, UNCHANGED <<forwarderVars, fcQueue>> PROVE ForwarderOK'
BY DEF ForwarderOK, forwarderVars, receiveVars

LEMMA ClientUnchanged ==
  ASSUME ClientOK, UNCHANGED <<asked, answers, tcpIn>> PROVE ClientOK'
BY DEF ClientOK

\* The socket after a read.
LEMMA SocketRead ==
  ASSUME BusOK, canSock # <<>>
  PROVE  Head(canSock) \in Frames /\ Tail(canSock) \in Seq(Frames)
BY Taken DEF BusOK

\* What the gateway's actions are shown to keep.
GatewayKeeps == BusOK' /\ SessionOK' /\ ForwarderOK' /\ ClientOK'

Premises ==
  BusOK /\ SessionOK /\ ForwarderOK /\ ClientOK /\ asked' = asked

LEMMA StartSessionKeeps == Premises /\ StartSession => GatewayKeeps
<1> SUFFICES ASSUME Premises, StartSession PROVE GatewayKeeps
  OBVIOUS
<1> USE DEF Premises, StartSession
<1>1. BusOK'
  BY NoElements DEF BusOK
<1>2. SessionOK'
  BY DEF SessionOK, sendVars
<1>3. ForwarderOK'
  BY DEF ForwarderOK, receiveVars
<1>4. ClientOK'
  BY NoElements DEF ClientOK
<1> QED
  BY <1>1, <1>2, <1>3, <1>4 DEF GatewayKeeps

\* The request at the head of the connection.
LEMMA NextRequest ==
  ASSUME ClientOK, tcpIn # <<>>
  PROVE  /\ Head(tcpIn).msg \in Messages /\ Head(tcpIn).len \in Lengths
         /\ Tail(tcpIn) \in Seq(Requests)
<1>1. PICK e : e = Head(tcpIn)
  OBVIOUS
<1>2. e \in Requests /\ Tail(tcpIn) \in Seq(Requests)
  BY <1>1, Taken DEF ClientOK
<1> QED
  BY <1>1, <1>2 DEF Requests

LEMMA SendSingleFrameKeeps == Premises /\ SendSingleFrame => GatewayKeeps
<1> SUFFICES ASSUME Premises, SendSingleFrame PROVE GatewayKeeps
  OBVIOUS
<1>1. /\ Head(tcpIn).msg \in Messages /\ Head(tcpIn).len \in Lengths
      /\ tcpIn' \in Seq(Requests)
  BY NextRequest DEF Premises, SendSingleFrame
<1>2. BusOK'
  <2>1. /\ GatewaySends(SF(Head(tcpIn).msg, Head(tcpIn).len))
        /\ canSock' = canSock
    BY DEF SendSingleFrame
  <2>2. canSock' \in Seq(Frames)
    BY <2>1 DEF Premises, BusOK
  <2> QED
    BY <1>1, <2>1, <2>2, CarriedFrames, GatewaySendsKeeps DEF Premises
<1>3. SessionOK' /\ ForwarderOK'
  BY SessionUnchanged, ForwarderUnchanged DEF Premises, SendSingleFrame
<1>4. ClientOK'
  BY <1>1 DEF Premises, ClientOK, SendSingleFrame
<1> QED
  BY <1>2, <1>3, <1>4 DEF GatewayKeeps

LEMMA SendFirstFrameKeeps == Premises /\ SendFirstFrame => GatewayKeeps
<1> SUFFICES ASSUME Premises, SendFirstFrame PROVE GatewayKeeps
  OBVIOUS
<1>1. PICK m, n : m = Head(tcpIn).msg /\ n = Head(tcpIn).len
  OBVIOUS
<1>2. m \in Messages /\ n \in Lengths /\ tcpIn' \in Seq(Requests)
  BY <1>1, NextRequest DEF Premises, SendFirstFrame
<1>3. /\ GatewaySends(FF(m, n)) /\ canSock' = canSock /\ n > SINGLE
      /\ sMsg' = m /\ sLen' = n /\ sSent' = FIRST /\ sSeq' = 1 /\ sLeft' = 0
      /\ sPc' = "waitFC"
  BY <1>1 DEF SendFirstFrame
<1>4. BusOK'
  <2>1. canSock' \in Seq(Frames)
    BY <1>3 DEF Premises, BusOK
  <2> QED
    BY <1>2, <1>3, <2>1, CarriedFrames, GatewaySendsKeeps DEF Premises
<1>5. SessionOK'
  <2>1. FIRST <= n /\ 0 \in 0..MAX_CONSECUTIVE_FRAMES_IN_BLOCK
    BY <1>2, <1>3 DEF Lengths, FIRST, SINGLE, MAX_CONSECUTIVE_FRAMES_IN_BLOCK
  <2> QED
    BY <1>2, <1>3, <2>1, Numbers, InPlaceFirst DEF SessionOK
<1>6. ForwarderOK'
  BY ForwarderUnchanged DEF Premises, SendFirstFrame
<1>7. ClientOK'
  BY <1>2 DEF Premises, ClientOK, SendFirstFrame
<1> QED
  BY <1>4, <1>5, <1>6, <1>7 DEF GatewayKeeps

LEMMA TakeFlowControlKeeps == Premises /\ TakeFlowControl => GatewayKeeps
<1> SUFFICES ASSUME Premises, TakeFlowControl PROVE GatewayKeeps
  OBVIOUS
<1>1. PICK f : f = Head(fcQueue)
  OBVIOUS
<1>2. f \in FlowControls /\ fcQueue' \in Seq(FlowControls)
  BY <1>1, Taken DEF Premises, ForwarderOK, TakeFlowControl
<1>3. f.bs \in 0..255
  BY <1>2 DEF FlowControls
<1>4. sLeft' = IF f.bs = 0 THEN MAX_CONSECUTIVE_FRAMES_IN_BLOCK ELSE f.bs
  BY <1>1 DEF TakeFlowControl
<1>5. sLeft' \in 0..MAX_CONSECUTIVE_FRAMES_IN_BLOCK /\ sLeft' > 0
  BY <1>3, <1>4 DEF MAX_CONSECUTIVE_FRAMES_IN_BLOCK
<1>6. SessionOK'
  BY <1>5 DEF Premises, SessionOK, TakeFlowControl
<1>7. ForwarderOK'
  BY <1>2
  DEF Premises, ForwarderOK, TakeFlowControl, forwarderVars, receiveVars
<1>8. BusOK' /\ ClientOK'
  BY BusUnchanged, ClientUnchanged DEF Premises, TakeFlowControl, clientVars
<1> QED
  BY <1>6, <1>7, <1>8 DEF GatewayKeeps

LEMMA FlowControlTimeoutKeeps == Premises /\ FlowControlTimeout => GatewayKeeps
<1> SUFFICES ASSUME Premises, FlowControlTimeout PROVE GatewayKeeps
  OBVIOUS
<1>1. SessionOK'
  BY DEF Premises, SessionOK, FlowControlTimeout, sendVars
<1>2. BusOK' /\ ForwarderOK' /\ ClientOK'
  BY BusUnchanged, ForwarderUnchanged, ClientUnchanged
  DEF Premises, FlowControlTimeout, clientVars
<1> QED
  BY <1>1, <1>2 DEF GatewayKeeps

LEMMA SendConsecutiveFrameKeeps ==
  Premises /\ SendConsecutiveFrame => GatewayKeeps
<1> SUFFICES ASSUME Premises, SendConsecutiveFrame PROVE GatewayKeeps
  OBVIOUS
<1>1. /\ sMsg \in Messages /\ sLen \in Lengths /\ sSent \in Lengths
      /\ sSeq \in SeqNumbers /\ sSent <= sLen /\ InPlace(sSeq, sSent)
      /\ sLeft \in 0..MAX_CONSECUTIVE_FRAMES_IN_BLOCK /\ sLeft > 0
  BY DEF Premises, SessionOK, SendConsecutiveFrame
<1>2. PICK step : step = SmallerOf(SINGLE, sLen - sSent)
  OBVIOUS
<1>3. /\ sSent + step \in Lengths /\ sSent + step <= sLen
      /\ ~(sSent + step >= sLen) => step = SINGLE
  BY <1>1, <1>2, NextBytes
<1>4. /\ GatewaySends(CF(sMsg, sSeq, sSent)) /\ canSock' = canSock
      /\ sSent' = sSent + step /\ sSeq' = NextSeq(sSeq) /\ sLeft' = sLeft - 1
      /\ sPc' = IF sSent + step >= sLen THEN "idle"
                ELSE IF sLeft = 1 THEN "waitFC" ELSE "block"
      /\ sMsg' = sMsg /\ sLen' = sLen
  BY <1>2 DEF SendConsecutiveFrame
<1>5. BusOK'
  <2>1. canSock' \in Seq(Frames)
    BY <1>4 DEF Premises, BusOK
  <2>2. Carried(CF(sMsg, sSeq, sSent))
    BY <1>1, Numbers, CarriedFrames
  <2> QED
    BY <1>4, <2>1, <2>2, GatewaySendsKeeps DEF Premises
<1>6. SessionOK'
  <2>1. NextSeq(sSeq) \in SeqNumbers
    BY <1>1, NextSeqType
  <2>2. sLeft - 1 \in 0..MAX_CONSECUTIVE_FRAMES_IN_BLOCK
    BY <1>1 DEF MAX_CONSECUTIVE_FRAMES_IN_BLOCK
  <2>3. sPc' \in {"waitFC", "block"} => InPlace(NextSeq(sSeq), sSent + step)
    <3>1. ASSUME sPc' \in {"waitFC", "block"} PROVE step = SINGLE
      BY <1>3, <1>4, <3>1
    <3>2. sSent \in Int
      BY <1>1 DEF Lengths
    <3> QED
      BY <1>1, <3>1, <3>2, InPlaceNext
  <2>4. sPc' \in {"idle", "waitFC", "block"}
    BY <1>4
  <2>5. ASSUME sPc' = "block" PROVE sLeft - 1 > 0
    <3>1. sLeft # 1
      BY <1>4, <2>5
    <3> QED
      BY <1>1, <3>1
  <2> QED
    BY <1>1, <1>3, <1>4, <2>1, <2>2, <2>3, <2>4, <2>5 DEF SessionOK
<1>7. ForwarderOK' /\ ClientOK'
  BY ForwarderUnchanged, ClientUnchanged
  DEF Premises, SendConsecutiveFrame, clientVars
<1> QED
  BY <1>5, <1>6, <1>7 DEF GatewayKeeps

LEMMA EndSessionKeeps == Premises /\ EndSession => GatewayKeeps
<1> SUFFICES ASSUME Premises, EndSession PROVE GatewayKeeps
  OBVIOUS
<1>1. SessionOK'
  BY DEF Premises, SessionOK, EndSession, sendVars
<1>2. BusOK' /\ ForwarderOK' /\ ClientOK'
  BY BusUnchanged, ForwarderUnchanged, ClientUnchanged
  DEF Premises, EndSession, clientVars
<1> QED
  BY <1>1, <1>2 DEF GatewayKeeps

LEMMA JoinForwarderKeeps == Premises /\ JoinForwarder => GatewayKeeps
<1> SUFFICES ASSUME Premises, JoinForwarder PROVE GatewayKeeps
  OBVIOUS
<1>1. BusOK'
  BY NoElements DEF Premises, BusOK, Carried, JoinForwarder
<1>2. SessionOK'
  BY DEF Premises, SessionOK, JoinForwarder, sendVars
<1>3. ForwarderOK'
  BY ForwarderUnchanged DEF Premises, JoinForwarder
<1>4. ClientOK'
  BY NoElements DEF Premises, ClientOK, JoinForwarder
<1> QED
  BY <1>1, <1>2, <1>3, <1>4 DEF GatewayKeeps

---------------------------------------------------------------------------
(* The forwarder thread.                                                   *)

\* An action of the forwarder that leaves the mailbox alone.
LEMMA ForwarderMovesKeep ==
  ASSUME Premises, ForwarderOK', canSock' \in Seq(Frames),
         UNCHANGED <<mailbox, sessionVars, clientVars>>
  PROVE  GatewayKeeps
<1>1. BusOK'
  BY DEF Premises, BusOK, Carried
<1>2. SessionOK' /\ ClientOK'
  BY SessionUnchanged, ClientUnchanged DEF Premises, clientVars
<1> QED
  BY <1>1, <1>2 DEF GatewayKeeps

LEMMA NextFrameType == NextFrame \in {"read", "ended"}
BY DEF NextFrame

LEMMA ReadTimeoutKeeps == Premises /\ ReadTimeout => GatewayKeeps
<1> SUFFICES ASSUME Premises, ReadTimeout PROVE GatewayKeeps
  OBVIOUS
<1>1. ForwarderOK'
  BY DEF Premises, ForwarderOK, ReadTimeout, receiveVars
<1>2. canSock' \in Seq(Frames)
  BY DEF Premises, BusOK, ReadTimeout, busVars
<1> QED
  BY <1>1, <1>2, ForwarderMovesKeep DEF ReadTimeout, busVars

LEMMA ReadFlowControlKeeps == Premises /\ ReadFlowControl => GatewayKeeps
<1> SUFFICES ASSUME Premises, ReadFlowControl PROVE GatewayKeeps
  OBVIOUS
<1>1. PICK f : f = Head(canSock)
  OBVIOUS
<1>2. f \in Frames /\ canSock' \in Seq(Frames) /\ f.kind = "FC"
  BY <1>1, SocketRead DEF Premises, ReadFlowControl, Read
<1>3. f \in FlowControls
  BY <1>2, FrameFields
<1>4. fcQueue' \in Seq(FlowControls)
  <2>1. fcQueue' = Append(fcQueue, f)
    BY <1>1 DEF ReadFlowControl
  <2> QED
    BY <1>3, <2>1, Appended DEF Premises, ForwarderOK
<1>5. ForwarderOK'
  BY <1>4, NextFrameType
  DEF Premises, ForwarderOK, ReadFlowControl, receiveVars
<1> QED
  BY <1>2, <1>5, ForwarderMovesKeep DEF ReadFlowControl

\* The first piece of a response.
LEMMA FirstPiece ==
  ASSUME BusOK, canSock # <<>>, Head(canSock).kind \in {"SF", "FF"}
  PROVE  /\ <<Piece(Head(canSock).msg, 0)>> \in Seq(Pieces)
         /\ <<Piece(Head(canSock).msg, 0)>> # <<>>
         /\ Head(canSock).len \in Lengths
<1>1. PICK f : f = Head(canSock)
  OBVIOUS
<1>2. f.msg \in Messages /\ f.len \in Lengths
  BY <1>1, SocketRead, FrameFields
<1>3. PICK p : p = Piece(f.msg, 0)
  OBVIOUS
<1>4. p \in Pieces
  BY <1>2, <1>3, Numbers, PieceType
<1>5. <<p>> \in Seq(Pieces) /\ <<p>> # <<>>
  BY <1>4, Alone
<1> QED
  BY <1>1, <1>2, <1>3, <1>5

LEMMA ReadSingleFrameKeeps == Premises /\ ReadSingleFrame => GatewayKeeps
<1> SUFFICES ASSUME Premises, ReadSingleFrame PROVE GatewayKeeps
  OBVIOUS
<1>1. /\ fPieces' \in Seq(Pieces) /\ fPieces' # <<>> /\ fTotal' \in Lengths
      /\ canSock' \in Seq(Frames)
  BY FirstPiece, SocketRead DEF Premises, ReadSingleFrame, Read
<1>2. ForwarderOK'
  BY <1>1 DEF Premises, ForwarderOK, ReadSingleFrame
<1> QED
  BY <1>1, <1>2, ForwarderMovesKeep DEF ReadSingleFrame

LEMMA ReadFirstFrameKeeps == Premises /\ ReadFirstFrame => GatewayKeeps
<1> SUFFICES ASSUME Premises, ReadFirstFrame PROVE GatewayKeeps
  OBVIOUS
<1>1. /\ fPieces' \in Seq(Pieces) /\ fPieces' # <<>> /\ fTotal' \in Lengths
      /\ canSock' \in Seq(Frames)
  BY FirstPiece, SocketRead DEF Premises, ReadFirstFrame, Read
<1>2. ForwarderOK'
  BY <1>1, Numbers DEF Premises, ForwarderOK, ReadFirstFrame
<1>3. BusOK'
  <2>1. GatewaySends(FC(0))
    BY DEF ReadFirstFrame
  <2> QED
    BY <1>1, <2>1, CarriedFrames, GatewaySendsKeeps DEF Premises
<1>4. SessionOK' /\ ClientOK'
  BY SessionUnchanged, ClientUnchanged DEF Premises, ReadFirstFrame, clientVars
<1> QED
  BY <1>2, <1>3, <1>4 DEF GatewayKeeps

LEMMA ReadStrayFrameKeeps == Premises /\ ReadStrayFrame => GatewayKeeps
<1> SUFFICES ASSUME Premises, ReadStrayFrame PROVE GatewayKeeps
  OBVIOUS
<1>1. ForwarderOK'
  BY NextFrameType DEF Premises, ForwarderOK, ReadStrayFrame, receiveVars
<1>2. canSock' \in Seq(Frames)
  BY SocketRead DEF Premises, ReadStrayFrame, Read
<1> QED
  BY <1>1, <1>2, ForwarderMovesKeep DEF ReadStrayFrame

LEMMA CollectFrameKeeps == Premises /\ CollectFrame => GatewayKeeps
<1> SUFFICES ASSUME Premises, CollectFrame PROVE GatewayKeeps
  OBVIOUS
<1>1. PICK f : f = Head(canSock)
  OBVIOUS
<1>2. f \in Frames /\ canSock' \in Seq(Frames) /\ f.kind = "CF"
  BY <1>1, SocketRead DEF Premises, CollectFrame, Expected
<1>3. f.msg \in Messages /\ f.at \in Offsets
  BY <1>2, FrameFields
<1>4. PICK p : p = Piece(f.msg, f.at)
  OBVIOUS
<1>5. p \in Pieces /\ fPieces' = Append(fPieces, p)
  BY <1>1, <1>3, <1>4, PieceType DEF CollectFrame
<1>6. fPieces' \in Seq(Pieces) /\ fPieces' # <<>>
  BY <1>5, Appended DEF Premises, ForwarderOK
<1>7. fExpected' \in SeqNumbers
  BY NextSeqType DEF Premises, ForwarderOK, CollectFrame
<1>8. fPc' \in {"forward", "collect"}
  BY DEF CollectFrame
<1>9. ForwarderOK'
  BY <1>6, <1>7, <1>8 DEF Premises, ForwarderOK, CollectFrame
<1> QED
  BY <1>2, <1>9, ForwarderMovesKeep DEF CollectFrame

LEMMA CollectOtherKeeps == Premises /\ CollectOther => GatewayKeeps
<1> SUFFICES ASSUME Premises, CollectOther PROVE GatewayKeeps
  OBVIOUS
<1>1. ForwarderOK'
  BY NextFrameType DEF Premises, ForwarderOK, CollectOther, receiveVars
<1>2. canSock' \in Seq(Frames)
  BY SocketRead DEF Premises, CollectOther
<1> QED
  BY <1>1, <1>2, ForwarderMovesKeep DEF CollectOther

LEMMA CollectTimeoutKeeps == Premises /\ CollectTimeout => GatewayKeeps
<1> SUFFICES ASSUME Premises, CollectTimeout PROVE GatewayKeeps
  OBVIOUS
<1>1. ForwarderOK'
  BY NextFrameType DEF Premises, ForwarderOK, CollectTimeout, receiveVars
<1>2. canSock' \in Seq(Frames)
  BY DEF Premises, BusOK, CollectTimeout, busVars
<1> QED
  BY <1>1, <1>2, ForwarderMovesKeep DEF CollectTimeout, busVars

LEMMA ForwardKeeps == Premises /\ Forward => GatewayKeeps
<1> SUFFICES ASSUME Premises, Forward PROVE GatewayKeeps
  OBVIOUS
<1>1. PICK p : p = fPieces[1]
  OBVIOUS
<1>2. p \in Pieces
  BY <1>1, First DEF Premises, ForwarderOK, Forward
<1>3. p.msg \in Messages
  BY <1>2 DEF Pieces
<1>4. ClientOK'
  <2>1. answers' \in {answers, answers \cup {p.msg}}
    BY <1>1 DEF Forward
  <2> QED
    BY <1>3, <2>1 DEF Premises, ClientOK, Forward
<1>5. ForwarderOK'
  <2>1. fPc' \in {"read", "ended"}
    BY DEF Forward
  <2> QED
    BY <2>1 DEF Premises, ForwarderOK, Forward, receiveVars
<1>6. BusOK' /\ SessionOK'
  BY BusUnchanged, SessionUnchanged DEF Premises, Forward
<1> QED
  BY <1>4, <1>5, <1>6 DEF GatewayKeeps

---------------------------------------------------------------------------
(* A step of the composition.                                              *)

SessionAction ==
  \/ StartSession \/ SendSingleFrame \/ SendFirstFrame \/ TakeFlowControl
  \/ FlowControlTimeout \/ SendConsecutiveFrame \/ EndSession \/ JoinForwarder

ForwarderAction ==
  \/ ReadTimeout \/ ReadFlowControl \/ ReadSingleFrame \/ ReadFirstFrame
  \/ ReadStrayFrame \/ CollectFrame \/ CollectOther \/ CollectTimeout
  \/ Forward

\* The flags the threads write are truth values.
LEMMA FlagsKeep ==
  FlagsOK /\ (SessionAction \/ ForwarderAction)
    => /\ clientOpen' \in BOOLEAN /\ sessionActive' \in BOOLEAN
       /\ canOpen' \in BOOLEAN
<1> SUFFICES ASSUME FlagsOK, SessionAction \/ ForwarderAction
             PROVE  /\ clientOpen' \in BOOLEAN /\ sessionActive' \in BOOLEAN
                    /\ canOpen' \in BOOLEAN
  OBVIOUS
<1> USE DEF SessionAction, ForwarderAction, StartSession, SendSingleFrame,
            SendFirstFrame, TakeFlowControl, FlowControlTimeout,
            SendConsecutiveFrame, EndSession, JoinForwarder, ReadTimeout,
            ReadFlowControl, ReadSingleFrame, ReadFirstFrame, ReadStrayFrame,
            CollectFrame, CollectOther, CollectTimeout, Forward, GatewaySends
<1>1. clientOpen' = clientOpen \/ clientOpen' = TRUE \/ clientOpen' = FALSE
  BY DEF clientVars
<1>2. canOpen' = canOpen \/ canOpen' = TRUE \/ canOpen' = FALSE
  BY DEF busVars
<1>3. \/ sessionActive' = sessionActive
      \/ sessionActive' = TRUE \/ sessionActive' = FALSE
      \/ \E written \in BOOLEAN : sessionActive' = (sessionActive /\ written)
  BY Zenon
<1> QED
  BY <1>1, <1>2, <1>3, Zenon DEF FlagsOK

LEMMA ThreadsKeep ==
  Premises /\ (SessionAction \/ ForwarderAction) => GatewayKeeps
BY StartSessionKeeps, SendSingleFrameKeeps, SendFirstFrameKeeps,
   TakeFlowControlKeeps, FlowControlTimeoutKeeps, SendConsecutiveFrameKeeps,
   EndSessionKeeps, JoinForwarderKeeps, ReadTimeoutKeeps, ReadFlowControlKeeps,
   ReadSingleFrameKeeps, ReadFirstFrameKeeps, ReadStrayFrameKeeps,
   CollectFrameKeeps, CollectOtherKeeps, CollectTimeoutKeeps, ForwardKeeps
DEF SessionAction, ForwarderAction

GatewayStep ==
  \/ ClientConnects \/ SessionWrites \/ SessionMoves \/ ForwarderWrites
  \/ ForwarderMoves \/ GatewayGivesUp

LEMMA GatewayStepInv == LinkInv /\ GatewayStep => LinkInv'
<1> SUFFICES ASSUME LinkInv, GatewayStep PROVE LinkInv'
  OBVIOUS
<1>1. SessionAction \/ ForwarderAction
  BY DEF GatewayStep, ClientConnects, SessionWrites, SessionMoves,
         ForwarderWrites, ForwarderMoves, GatewayGivesUp, GatewayMoves,
         SessionAction, ForwarderAction
<1>2. UNCHANGED <<ecuVars, dialogue, asked>>
  BY DEF GatewayStep, ClientConnects, SessionWrites, SessionMoves,
         ForwarderWrites, ForwarderMoves, GatewayGivesUp, GatewayMoves
<1>3. disturbed' \in BOOLEAN
  <2>1. \/ disturbed' = (disturbed \/ mailbox # None)
        \/ disturbed' = (disturbed \/ TRUE)
        \/ disturbed' = (disturbed \/ FALSE)
    BY Zenon DEF GatewayStep, ClientConnects, SessionWrites, SessionMoves,
         ForwarderWrites, ForwarderMoves, GatewayGivesUp, GatewayMoves
  <2> QED
    BY <2>1, Zenon
<1>4. GatewayKeeps
  BY <1>1, <1>2, ThreadsKeep DEF LinkInv, Premises
<1>5. EcuOK'
  BY <1>2, EcuUnchanged DEF LinkInv
<1>6. FlagsOK'
  BY <1>1, <1>3, FlagsKeep, Zenon DEF LinkInv, FlagsOK
<1> QED
  BY <1>4, <1>5, <1>6 DEF LinkInv, GatewayKeeps

\* The client asks no more often, and at no greater length, than its dialogue
\* has it.
LEMMA AsksKeeps == LinkInv /\ ClientAsks => LinkInv'
<1> SUFFICES ASSUME LinkInv, ClientAsks PROVE LinkInv'
  OBVIOUS
<1>1. dialogue \in Dialogues /\ asked \in Messages /\ tcpIn \in Seq(Requests)
  BY DEF LinkInv, EcuOK, EcuTypes, ClientOK
<1>2. /\ dialogue.rounds \in Nat /\ dialogue.asks \in SUBSET (1..4095)
      /\ dialogue.rounds <= MaxRequests
  <2>1. PICK d \in Dialogues : d = dialogue
    BY <1>1
  <2>2. d.rounds \in Nat /\ d.asks \in SUBSET (1..4095)
    BY CanTpAssumption
  <2>3. d.rounds <= MaxRequests
    BY LinkAssumption
  <2> QED
    BY <2>1, <2>2, <2>3
<1>3. asked + 1 \in Messages
  BY <1>1, <1>2, LinkAssumption DEF ClientAsks, Messages
<1>4. PICK n \in dialogue.asks :
        tcpIn' = Append(tcpIn, [msg |-> asked + 1, len |-> n])
  BY DEF ClientAsks
<1>5. n \in Lengths
  BY <1>2 DEF Lengths
<1>6. PICK e : e = [msg |-> asked + 1, len |-> n]
  OBVIOUS
<1>7. e \in Requests
  BY <1>3, <1>5, <1>6 DEF Requests
<1>8. tcpIn' \in Seq(Requests)
  BY <1>1, <1>4, <1>6, <1>7, Appended
<1>9. ClientOK'
  BY <1>3, <1>8 DEF LinkInv, ClientOK, ClientAsks
<1>10. BusOK' /\ EcuOK' /\ SessionOK' /\ ForwarderOK'
  BY BusUnchanged, EcuUnchanged, SessionUnchanged, ForwarderUnchanged
  DEF LinkInv, ClientAsks
<1>11. FlagsOK'
  BY Zenon DEF LinkInv, FlagsOK, ClientAsks, busVars
<1> QED
  BY <1>9, <1>10, <1>11 DEF LinkInv

LEMMA LeavesKeeps == LinkInv /\ ClientLeaves => LinkInv'
<1> SUFFICES ASSUME LinkInv, ClientLeaves PROVE LinkInv'
  OBVIOUS
<1>1. BusOK' /\ EcuOK' /\ SessionOK' /\ ForwarderOK' /\ ClientOK'
  BY BusUnchanged, EcuUnchanged, SessionUnchanged, ForwarderUnchanged,
     ClientUnchanged
  DEF LinkInv, ClientLeaves
<1>2. FlagsOK'
  BY Zenon DEF LinkInv, FlagsOK, ClientLeaves, busVars
<1> QED
  BY <1>1, <1>2 DEF LinkInv

LEMMA NextLink == LinkInv /\ [Next]_vars => LinkInv'
<1> SUFFICES ASSUME LinkInv, [Next]_vars PROVE LinkInv'
  OBVIOUS
<1>1. CASE EcuMoves(EcuStep) \/ EcuMoves(SendPeriodic)
  BY <1>1, EcuMovesInv
<1>2. CASE GatewayStep
  BY <1>2, GatewayStepInv
<1>3. CASE ClientAsks
  BY <1>3, AsksKeeps
<1>4. CASE ClientLeaves
  BY <1>4, LeavesKeeps
<1>5. CASE UNCHANGED vars
  <2>1. BusOK' /\ EcuOK' /\ SessionOK' /\ ForwarderOK' /\ ClientOK'
    BY <1>5, BusUnchanged, EcuUnchanged, SessionUnchanged, ForwarderUnchanged,
       ClientUnchanged
    DEF LinkInv, vars, gatewayVars, clientVars
  <2>2. FlagsOK'
    BY <1>5, Zenon DEF LinkInv, FlagsOK, vars, gatewayVars, clientVars, busVars
  <2> QED
    BY <2>1, <2>2 DEF LinkInv
<1> QED
  BY <1>1, <1>2, <1>3, <1>4, <1>5 DEF Next, GatewayStep

---------------------------------------------------------------------------
(* The theorems.                                                           *)

LEMMA InvTypes == LinkInv => TypeOK
<1> SUFFICES ASSUME LinkInv PROVE TypeOK
  OBVIOUS
<1>1. EcuTypes /\ rxReceived <= rxTotal /\ txSent <= txTotal
  BY DEF LinkInv, EcuOK
<1>2. clientOpen \in BOOLEAN /\ sessionActive \in BOOLEAN
      /\ canOpen \in BOOLEAN /\ disturbed \in BOOLEAN
  BY Zenon DEF LinkInv, FlagsOK
<1>3. /\ asked \in Messages /\ answers \subseteq Messages
      /\ tcpIn \in Seq([msg : Messages, len : Lengths])
  BY DEF LinkInv, ClientOK, Requests
<1>4. mailbox \in Frames \cup {None} /\ canSock \in Seq(Frames)
  BY DEF LinkInv, BusOK, Carried
<1>5. /\ fPc \in {"read", "collect", "forward", "ended"}
      /\ fPieces \in Seq(Pieces) /\ fTotal \in Lengths
      /\ fExpected \in SeqNumbers /\ fcQueue \in Seq(FlowControls)
  BY DEF LinkInv, ForwarderOK
<1>6. /\ sPc \in {"accept", "idle", "waitFC", "block", "joining"}
      /\ sMsg \in Messages /\ sLen \in Lengths /\ sSent \in Lengths
      /\ sSeq \in SeqNumbers /\ sLeft \in 0..MAX_CONSECUTIVE_FRAMES_IN_BLOCK
  BY DEF LinkInv, SessionOK
<1> QED
  BY <1>1, <1>2, <1>3, <1>4, <1>5, <1>6, Zenon DEF TypeOK, GatewayTypes

\* Types, and the byte counters of reassembly and transmission within the
\* length announced, for every block size and every dialogue (cantp.c:202-207,
\* cantp.c:288-301).
THEOREM LinkTypes == Spec => []TypeOK
<1>1. Init => LinkInv
  BY InitLink
<1>2. LinkInv /\ [Next]_vars => LinkInv'
  BY NextLink
<1>3. LinkInv => TypeOK
  BY InvTypes
<1> QED
  BY <1>1, <1>2, <1>3, PTL DEF Spec

\* Each piece of the ECU's buffer lies where its sequence number puts it: the
\* number expected counts the pieces held, and a frame in the mailbox carries
\* the number of its offset (cantp.c:200-209).
THEOREM LinkPiecesInPlace == Spec => []PiecesInPlace
<1>1. Init => LinkInv
  BY InitLink
<1>2. LinkInv /\ [Next]_vars => LinkInv'
  BY NextLink
<1>3. LinkInv => PiecesInPlace
  BY DEF LinkInv, EcuOK, Reassembly, Fits, PiecesInPlace
<1> QED
  BY <1>1, <1>2, <1>3, PTL DEF Spec

---------------------------------------------------------------------------
(* Responses are whole.  What the ECU sends is a stream in which each      *)
(* consecutive frame continues the first or consecutive frame before it;   *)
(* the socket holds an uninterrupted piece of that stream, and the         *)
(* forwarder gives a reception up at the first frame it does not expect.   *)

LEMMA AppendedAt ==
  ASSUME NEW S, NEW s \in Seq(S), NEW e \in S
  PROVE  /\ Len(s) \in Nat /\ Len(Append(s, e)) = Len(s) + 1
         /\ \A i \in 1..Len(s) : Append(s, e)[i] = s[i]
         /\ Append(s, e)[Len(s) + 1] = e
         /\ s = <<>> => Head(Append(s, e)) = e
         /\ s # <<>> => Head(Append(s, e)) = Head(s) /\ Len(s) > 0
OBVIOUS

LEMMA TailAt ==
  ASSUME NEW S, NEW s \in Seq(S), s # <<>>
  PROVE  /\ Len(s) \in Nat \ {0} /\ Len(Tail(s)) = Len(s) - 1
         /\ \A i \in 1..(Len(s) - 1) : Tail(s)[i] = s[i + 1]
         /\ Head(s) = s[1]
         /\ Tail(s) = <<>> => Len(s) = 1
         /\ Tail(s) # <<>> => Head(Tail(s)) = s[2] /\ Len(s) > 1
<1>1. /\ Len(s) \in Nat \ {0} /\ Len(Tail(s)) = Len(s) - 1
      /\ \A i \in 1..(Len(s) - 1) : Tail(s)[i] = s[i + 1]
      /\ Head(s) = s[1] /\ Tail(s) \in Seq(S)
  OBVIOUS
<1>2. PICK t \in Seq(S) : t = Tail(s)
  BY <1>1
<1>3. t = <<>> => Len(s) = 1
  <2>1. Len(t) = Len(s) - 1 /\ Len(s) \in Nat
    BY <1>1, <1>2
  <2>2. t = <<>> => Len(t) = 0
    OBVIOUS
  <2> QED
    BY <2>1, <2>2
<1>4. t # <<>> => Head(t) = t[1] /\ Len(t) > 0
  OBVIOUS
<1>5. t # <<>> => Head(t) = s[2] /\ Len(s) > 1
  BY <1>1, <1>2, <1>4
<1> QED
  BY <1>1, <1>2, <1>3, <1>5

\* The consecutive frame that follows f, if one does, has the bytes of m from
\* the offset at.
After(f, m, at) ==
  /\ f.kind = "FF" => m = f.msg /\ at = FIRST
  /\ f.kind = "CF" => m = f.msg /\ at = f.at + SINGLE

Chained ==
  \A i \in 1..(Len(canSock) - 1) :
    canSock[i + 1].kind = "CF"
      => After(canSock[i], canSock[i + 1].msg, canSock[i + 1].at)

LastSent ==
  canSock # <<>> /\ txState # "IDLE"
    => After(canSock[Len(canSock)], txMsg, txSent)

\* The next frame to be read, if it is a consecutive one.
Awaited(m, at) ==
  IF canSock = <<>> THEN txState # "IDLE" => txMsg = m /\ txSent = at
  ELSE Head(canSock).kind = "CF"
         => Head(canSock).msg = m /\ Head(canSock).at = at

InOrder(pieces) ==
  \A i \in DOMAIN pieces : pieces[i] = Piece(pieces[1].msg, OffsetOf(i))

Closed == ~canOpen => canSock = <<>> /\ fPc = "ended"
Collected == fPc \in {"collect", "forward"} => InOrder(fPieces)
Continues ==
  fPc = "collect" => Awaited(fPieces[1].msg, OffsetOf(Len(fPieces) + 1))

Stream == Closed /\ Chained /\ LastSent /\ Collected /\ Continues

LEMMA InitStream == Init => Stream
BY DEF Init, GatewayInit, EcuInit, Stream, Closed, Chained, LastSent,
       Collected, Continues

---------------------------------------------------------------------------
(* The ECU's end of the stream.                                            *)

\* Nothing is sent, and what is to come of a response stays the same.
Quiet ==
  /\ UNCHANGED <<canOpen, canSock>>
  /\ txState' # "IDLE"
       => txState # "IDLE" /\ txMsg' = txMsg /\ txSent' = txSent

\* f is sent where the response stands, and says what is to come.
Continued(f) ==
  /\ EcuSends(f)
  /\ f.kind = "CF" => txState # "IDLE" /\ f.msg = txMsg /\ f.at = txSent
  /\ txState' # "IDLE" => After(f, txMsg', txSent')

EcuStreams == Quiet \/ \E f \in Frames : Continued(f)

LEMMA QuietStream ==
  ASSUME Stream, UNCHANGED forwarderVars, Quiet PROVE Stream'
<1>1. Closed' /\ Chained' /\ LastSent'
  BY DEF Stream, Closed, Chained, LastSent, Quiet, forwarderVars
<1>2. Collected' /\ Continues'
  BY DEF Stream, Collected, Continues, Awaited, Quiet, forwarderVars,
         receiveVars
<1> QED
  BY <1>1, <1>2 DEF Stream

LEMMA SentStream ==
  ASSUME BusOK, Stream, UNCHANGED forwarderVars,
         NEW f \in Frames, Continued(f)
  PROVE  Stream'
<1>1. CASE ~canOpen
  <2>1. canSock = <<>> /\ canSock' = <<>> /\ fPc' = "ended" /\ ~canOpen'
    BY <1>1 DEF Stream, Closed, Continued, EcuSends, forwarderVars
  <2> QED
    BY <2>1 DEF Stream, Closed, Chained, LastSent, Collected, Continues
<1>2. CASE canOpen
  <2>1. /\ canSock' = Append(canSock, f) /\ canOpen'
        /\ canSock \in Seq(Frames) /\ UNCHANGED <<fPc, fPieces>>
    BY <1>2 DEF Continued, EcuSends, BusOK, forwarderVars, receiveVars
  <2>2. /\ Len(canSock) \in Nat /\ Len(canSock') = Len(canSock) + 1
        /\ \A i \in 1..Len(canSock) : canSock'[i] = canSock[i]
        /\ canSock'[Len(canSock) + 1] = f
        /\ canSock = <<>> => Head(canSock') = f
        /\ canSock # <<>> => Head(canSock') = Head(canSock) /\ Len(canSock) > 0
    BY <2>1, AppendedAt
  <2>3. canSock' # <<>>
    BY <2>2
  <2>4. Chained'
    <3> SUFFICES ASSUME NEW i \in 1..(Len(canSock') - 1),
                        canSock'[i + 1].kind = "CF"
                 PROVE  After(canSock'[i], canSock'[i + 1].msg,
                              canSock'[i + 1].at)
      BY DEF Chained
    <3>1. CASE i \in 1..(Len(canSock) - 1)
      <4>1. canSock'[i] = canSock[i] /\ canSock'[i + 1] = canSock[i + 1]
        BY <2>2, <3>1
      <4> QED
        BY <3>1, <4>1 DEF Stream, Chained
    <3>2. CASE i = Len(canSock)
      <4>1. canSock'[i] = canSock[Len(canSock)] /\ canSock'[i + 1] = f
        BY <2>2, <3>2
      <4>2. canSock # <<>>
        BY <2>2, <3>2
      <4>3. txState # "IDLE" /\ f.msg = txMsg /\ f.at = txSent
        BY <4>1 DEF Continued
      <4> QED
        BY <4>1, <4>2, <4>3 DEF Stream, LastSent
    <3> QED
      BY <2>2, <3>1, <3>2
  <2>5. LastSent'
    BY <2>2 DEF LastSent, Continued
  <2>6. Closed' /\ Collected'
    BY <2>1 DEF Stream, Closed, Collected
  <2>7. Continues'
    <3> SUFFICES ASSUME fPc = "collect", Head(canSock').kind = "CF"
                 PROVE  /\ Head(canSock').msg = fPieces[1].msg
                        /\ Head(canSock').at = OffsetOf(Len(fPieces) + 1)
      BY <2>1, <2>3 DEF Continues, Awaited
    <3>1. Awaited(fPieces[1].msg, OffsetOf(Len(fPieces) + 1))
      BY DEF Stream, Continues
    <3>2. CASE canSock = <<>>
      <4>1. Head(canSock') = f
        BY <2>2, <3>2
      <4> QED
        BY <3>1, <3>2, <4>1 DEF Awaited, Continued
    <3>3. CASE canSock # <<>>
      <4>1. Head(canSock') = Head(canSock)
        BY <2>2, <3>3
      <4> QED
        BY <3>1, <3>3, <4>1 DEF Awaited
    <3> QED
      BY <3>2, <3>3
  <2> QED
    BY <2>4, <2>5, <2>6, <2>7 DEF Stream
<1> QED
  BY <1>1, <1>2

\* A response begins with a first frame, or is a single frame.
LEMMA ResponseStreams ==
  ASSUME NEW m \in Messages, NEW n \in Lengths, SendResponse(m, n)
  PROVE  EcuStreams
<1>1. CASE UNCHANGED <<txVars, canOpen, canSock>>
  BY <1>1 DEF EcuStreams, Quiet, txVars
<1>2. CASE txState = "IDLE" /\ EcuSends(SF(m, n)) /\ UNCHANGED txVars
  <2>1. Continued(SF(m, n))
    BY <1>2 DEF Continued, After, SF, txVars
  <2> QED
    BY <2>1, FrameTypes DEF EcuStreams
<1>3. CASE EcuSends(FF(m, n)) /\ txMsg' = m /\ txSent' = FIRST
  <2>1. Continued(FF(m, n))
    BY <1>3 DEF Continued, After, FF
  <2> QED
    BY <2>1, FrameTypes DEF EcuStreams
<1> QED
  BY <1>1, <1>2, <1>3 DEF SendResponse

LEMMA MessageStreams ==
  ASSUME dialogue \in Dialogues, NEW m \in Messages, HandleMessage(m)
  PROVE  EcuStreams
<1>1. PICK n \in dialogue.gives : SendResponse(m, n)
  BY DEF HandleMessage
<1>2. dialogue.gives \in SUBSET (1..4095)
  BY CanTpAssumption
<1>3. n \in Lengths
  BY <1>2 DEF Lengths
<1> QED
  BY <1>1, <1>3, ResponseStreams

\* A flow control may come between the frames of a response.
LEMMA FlowControlStreams ==
  ASSUME NEW bs \in 0..255, EcuSends(FC(bs)) PROVE EcuStreams
<1>1. Continued(FC(bs))
  BY DEF Continued, After, FC
<1> QED
  BY <1>1, FrameTypes DEF EcuStreams

LEMMA SilentStreams ==
  ASSUME UNCHANGED <<txVars, canOpen, canSock>> PROVE EcuStreams
BY DEF EcuStreams, Quiet, txVars

LEMMA TakeStreams ==
  LinkInv /\ (handleSingleFrame \/ handleFirstFrame \/ handleFlowControl)
    => EcuStreams
<1> SUFFICES ASSUME LinkInv,
                    handleSingleFrame \/ handleFirstFrame \/ handleFlowControl
             PROVE  EcuStreams
  OBVIOUS
<1>1. CASE handleSingleFrame
  <2>1. mailbox.msg \in Messages /\ dialogue \in Dialogues
    <3>1. mailbox.kind = "SF"
      BY <1>1 DEF handleSingleFrame, Take
    <3> QED
      BY <3>1, FrameFields DEF LinkInv, BusOK, Carried, EcuOK, EcuTypes
  <2> QED
    BY <1>1, <2>1, MessageStreams, SilentStreams DEF handleSingleFrame
<1>2. CASE handleFirstFrame
  BY <1>2, BlockSize, FlowControlStreams, SilentStreams DEF handleFirstFrame
<1>3. CASE handleFlowControl
  BY <1>3 DEF handleFlowControl, EcuStreams, Quiet, txVars
<1> QED
  BY <1>1, <1>2, <1>3

LEMMA ConsecutiveStreams == LinkInv /\ handleConsecutiveFrame => EcuStreams
<1> SUFFICES ASSUME LinkInv, handleConsecutiveFrame PROVE EcuStreams
  OBVIOUS
<1>1. CASE rxState = "WAIT_CF" /\ AcceptFrame
  <2>1. dialogue \in Dialogues /\ rxBuffer \in Seq(Pieces) /\ rxBuffer # <<>>
    BY <1>1 DEF LinkInv, EcuOK, EcuTypes, Reassembly
  <2>2. PICK e : e = rxBuffer[1]
    OBVIOUS
  <2>3. e \in Pieces
    BY <2>1, <2>2, First
  <2>4. rxBuffer[1].msg \in Messages
    BY <2>2, <2>3 DEF Pieces
  <2>5. CASE HandleMessage(rxBuffer[1].msg)
    BY <2>1, <2>4, <2>5, MessageStreams
  <2>6. CASE UNCHANGED txVars /\ EcuSends(FC(FLOW_CONTROL_BLOCK_SIZE))
    BY <2>6, BlockSize, FlowControlStreams
  <2>7. CASE UNCHANGED <<txVars, canOpen, canSock>>
    BY <2>7, SilentStreams
  <2> QED
    BY <1>1, <2>5, <2>6, <2>7 DEF AcceptFrame
<1>2. CASE UNCHANGED <<txVars, canOpen, canSock>>
  BY <1>2, SilentStreams
<1> QED
  BY <1>1, <1>2 DEF handleConsecutiveFrame

\* While frames of a response remain, each is full.
LEMMA SendingStreams == LinkInv /\ sendConsecutiveFrame => EcuStreams
<1> SUFFICES ASSUME LinkInv, sendConsecutiveFrame PROVE EcuStreams
  OBVIOUS
<1>1. TxTypes
  BY EcuParts DEF LinkInv
<1>2. PICK step : step = SmallerOf(SINGLE, txTotal - txSent)
  OBVIOUS
<1>3. ~(txSent + step >= txTotal) => step = SINGLE
  BY <1>1, <1>2, NextBytes DEF TxTypes
<1>4. /\ txState = "SENDING_CF" /\ EcuSends(CF(txMsg, txSeq, txSent))
      /\ txSent' = txSent + step /\ txMsg' = txMsg
      /\ txState' # "IDLE" => ~(txSent + step >= txTotal)
  BY <1>2 DEF sendConsecutiveFrame
<1>5. PICK f : f = CF(txMsg, txSeq, txSent)
  OBVIOUS
<1>6. f \in Frames
  BY <1>1, <1>5, FrameTypes, Numbers DEF TxTypes
<1>7. f.kind = "CF" /\ f.msg = txMsg /\ f.at = txSent
  BY <1>5 DEF CF
<1>8. Continued(f)
  BY <1>3, <1>4, <1>5, <1>7 DEF Continued, After
<1> QED
  BY <1>6, <1>8 DEF EcuStreams

LEMMA PeriodicStreams == SendPeriodic => EcuStreams
<1> SUFFICES ASSUME SendPeriodic PROVE EcuStreams
  OBVIOUS
<1>1. PERIODIC \in Messages /\ PERIODIC_LENGTH \in Lengths
  BY Numbers DEF PERIODIC, PERIODIC_LENGTH, Lengths
<1> QED
  BY <1>1, ResponseStreams DEF SendPeriodic

LEMMA EcuKeepsStream ==
  LinkInv /\ Stream /\ (EcuMoves(EcuStep) \/ EcuMoves(SendPeriodic)) => Stream'
<1> SUFFICES ASSUME LinkInv, Stream,
                    EcuMoves(EcuStep) \/ EcuMoves(SendPeriodic)
             PROVE  Stream'
  OBVIOUS
<1>1. EcuStreams
  BY TakeStreams, ConsecutiveStreams, SendingStreams, PeriodicStreams
  DEF EcuMoves, EcuStep
<1>2. UNCHANGED forwarderVars
  BY DEF EcuMoves, gatewayVars
<1> QED
  BY <1>1, <1>2, QuietStream, SentStream DEF EcuStreams, LinkInv

---------------------------------------------------------------------------
(* The gateway's end of the stream.                                        *)

LEMMA StreamUnchanged ==
  ASSUME Stream,
         UNCHANGED <<canOpen, canSock, txVars, forwarderVars>>
  PROVE  Stream'
<1>1. Closed' /\ Chained' /\ LastSent'
  BY DEF Stream, Closed, Chained, LastSent, txVars, forwarderVars
<1>2. Collected' /\ Continues'
  BY DEF Stream, Collected, Continues, Awaited, txVars, forwarderVars,
         receiveVars
<1> QED
  BY <1>1, <1>2 DEF Stream

\* The forwarder's loop goes on, or gives a reception up.
LEMMA GivenUp ==
  ASSUME Stream, fPc' \in {"read", "ended"}, canOpen' = canOpen,
         canSock' = canSock, UNCHANGED txVars, fPc # "ended"
  PROVE  Stream'
<1>1. Chained' /\ LastSent'
  BY DEF Stream, Chained, LastSent, txVars
<1>2. Closed' /\ Collected' /\ Continues'
  BY DEF Stream, Closed, Collected, Continues
<1> QED
  BY <1>1, <1>2 DEF Stream

\* A frame is read: the next one continues it.
LEMMA ReadStream ==
  ASSUME BusOK, Stream, canSock # <<>>, canSock' = Tail(canSock),
         UNCHANGED txVars, canOpen' = canOpen
  PROVE  /\ Closed' /\ Chained' /\ LastSent'
         /\ Head(canSock).kind = "FF"
              => IF canSock' = <<>>
                   THEN txState' # "IDLE" => /\ txMsg' = Head(canSock).msg
                                             /\ txSent' = FIRST
                   ELSE Head(canSock').kind = "CF"
                          => /\ Head(canSock').msg = Head(canSock).msg
                             /\ Head(canSock').at = FIRST
         /\ Head(canSock).kind = "CF"
              => IF canSock' = <<>>
                   THEN txState' # "IDLE"
                          => /\ txMsg' = Head(canSock).msg
                             /\ txSent' = Head(canSock).at + SINGLE
                   ELSE Head(canSock').kind = "CF"
                          => /\ Head(canSock').msg = Head(canSock).msg
                             /\ Head(canSock').at = Head(canSock).at + SINGLE
<1>1. /\ Len(canSock) \in Nat \ {0} /\ Len(canSock') = Len(canSock) - 1
      /\ \A i \in 1..(Len(canSock) - 1) : canSock'[i] = canSock[i + 1]
      /\ Head(canSock) = canSock[1]
      /\ canSock' = <<>> => Len(canSock) = 1
      /\ canSock' # <<>> => Head(canSock') = canSock[2] /\ Len(canSock) > 1
  BY TailAt DEF BusOK
<1>2. Chained'
  <2> SUFFICES ASSUME NEW i \in 1..(Len(canSock') - 1),
                      canSock'[i + 1].kind = "CF"
               PROVE  After(canSock'[i], canSock'[i + 1].msg,
                            canSock'[i + 1].at)
    BY DEF Chained
  <2>1. PICK j : j = i + 1
    OBVIOUS
  <2>2. j \in 1..(Len(canSock) - 1) /\ i \in 1..(Len(canSock) - 1)
    BY <1>1, <2>1
  <2>3. canSock'[i] = canSock[j] /\ canSock'[i + 1] = canSock[j + 1]
    BY <1>1, <2>1, <2>2
  <2> QED
    BY <2>2, <2>3 DEF Stream, Chained
<1>3. LastSent'
  <2> SUFFICES ASSUME canSock' # <<>>, txState # "IDLE"
               PROVE  After(canSock'[Len(canSock')], txMsg, txSent)
    BY DEF LastSent, txVars
  <2>1. PICK n : n = Len(canSock) - 1
    OBVIOUS
  <2>2. n \in 1..(Len(canSock) - 1) /\ n + 1 = Len(canSock)
    BY <1>1, <2>1
  <2>3. canSock'[n] = canSock[Len(canSock)] /\ Len(canSock') = n
    BY <1>1, <2>1, <2>2
  <2> QED
    BY <2>3 DEF Stream, LastSent
<1>4. Closed'
  <2>1. canOpen
    BY DEF Stream, Closed
  <2> QED
    BY <2>1 DEF Closed
<1>5. ASSUME canSock' = <<>>, txState' # "IDLE"
      PROVE  After(Head(canSock), txMsg', txSent')
  BY <1>1, <1>5 DEF Stream, LastSent, txVars
<1>6. ASSUME canSock' # <<>>, Head(canSock').kind = "CF"
      PROVE  After(Head(canSock), Head(canSock').msg, Head(canSock').at)
  <2>1. 1 \in 1..(Len(canSock) - 1) /\ Head(canSock') = canSock[1 + 1]
    BY <1>1, <1>6
  <2> QED
    BY <1>1, <1>6, <2>1 DEF Stream, Chained
<1> QED
  BY <1>2, <1>3, <1>4, <1>5, <1>6 DEF After

\* A frame that ends or precedes no reception.
LEMMA ReadAndGoOn ==
  ASSUME BusOK, Stream, canSock # <<>>, canSock' = Tail(canSock),
         UNCHANGED txVars, canOpen' = canOpen, fPc' \in {"read", "ended"}
  PROVE  Stream'
<1>1. Closed' /\ Chained' /\ LastSent'
  BY ReadStream
<1>2. Collected' /\ Continues'
  BY DEF Collected, Continues
<1> QED
  BY <1>1, <1>2 DEF Stream

LEMMA InOrderAlone == ASSUME NEW m PROVE InOrder(<<Piece(m, 0)>>)
<1>1. PICK p : p = Piece(m, 0)
  OBVIOUS
<1>2. p.msg = m /\ OffsetOf(1) = 0
  BY <1>1 DEF Piece, OffsetOf
<1>3. \A i \in DOMAIN <<p>> : i = 1 /\ <<p>>[i] = p
  OBVIOUS
<1>4. <<p>>[1] = p
  OBVIOUS
<1>5. InOrder(<<p>>)
  BY <1>1, <1>2, <1>3, <1>4 DEF InOrder
<1> QED
  BY <1>1, <1>5

LEMMA SingleStream ==
  ASSUME BusOK, Stream, ReadSingleFrame, UNCHANGED txVars PROVE Stream'
<1>1. /\ canSock # <<>> /\ canSock' = Tail(canSock) /\ canOpen' = canOpen
      /\ fPc' = "forward" /\ fPieces' = <<Piece(Head(canSock).msg, 0)>>
  BY DEF ReadSingleFrame, Read
<1>2. Closed' /\ Chained' /\ LastSent'
  BY <1>1, ReadStream
<1>3. Collected'
  BY <1>1, InOrderAlone DEF Collected
<1>4. Continues'
  BY <1>1 DEF Continues
<1> QED
  BY <1>2, <1>3, <1>4 DEF Stream

LEMMA FirstStream ==
  ASSUME BusOK, Stream, ReadFirstFrame, UNCHANGED txVars PROVE Stream'
<1>1. /\ canSock # <<>> /\ canSock' = Tail(canSock) /\ canOpen' = canOpen
      /\ Head(canSock).kind = "FF"
      /\ fPc' = "collect" /\ fPieces' = <<Piece(Head(canSock).msg, 0)>>
  BY DEF ReadFirstFrame, Read, GatewaySends
<1>2. Closed' /\ Chained' /\ LastSent'
  BY <1>1, ReadStream
<1>3. Collected'
  BY <1>1, InOrderAlone DEF Collected
<1>4. Continues'
  <2>1. PICK m : m = Head(canSock).msg
    OBVIOUS
  <2>2. fPieces'[1].msg = m /\ OffsetOf(Len(fPieces') + 1) = FIRST
    <3>1. PICK p : p = Piece(m, 0)
      OBVIOUS
    <3>2. fPieces' = <<p>> /\ p.msg = m
      BY <1>1, <2>1, <3>1 DEF Piece
    <3>3. Len(<<p>>) = 1 /\ <<p>>[1] = p
      OBVIOUS
    <3>4. OffsetOf(1 + 1) = FIRST
      BY DEF OffsetOf, FIRST, SINGLE
    <3> QED
      BY <3>2, <3>3, <3>4
  <2>3. IF canSock' = <<>>
          THEN txState' # "IDLE" => txMsg' = m /\ txSent' = FIRST
          ELSE Head(canSock').kind = "CF"
                 => Head(canSock').msg = m /\ Head(canSock').at = FIRST
    BY <1>1, <2>1, ReadStream
  <2> QED
    BY <2>2, <2>3 DEF Continues, Awaited
<1> QED
  BY <1>2, <1>3, <1>4 DEF Stream

LEMMA CollectStream ==
  ASSUME BusOK, ForwarderOK, Stream, CollectFrame, UNCHANGED txVars
  PROVE  Stream'
<1>1. PICK f, p : f = Head(canSock) /\ p = Piece(f.msg, f.at)
  OBVIOUS
<1>2. /\ canSock # <<>> /\ canSock' = Tail(canSock) /\ canOpen' = canOpen
      /\ f.kind = "CF" /\ fPc = "collect"
      /\ fPc' \in {"forward", "collect"} /\ fPieces' = Append(fPieces, p)
  BY <1>1 DEF CollectFrame, Expected
<1>3. f.msg \in Messages /\ f.at \in Offsets
  <2>1. f \in Frames
    BY <1>1, <1>2, SocketRead
  <2> QED
    BY <1>2, <2>1, FrameFields
<1>4. p \in Pieces /\ p.msg = f.msg /\ p.at = f.at
  BY <1>1, <1>3, PieceType DEF Piece
<1>5. /\ fPieces \in Seq(Pieces) /\ fPieces # <<>> /\ InOrder(fPieces)
      /\ Awaited(fPieces[1].msg, OffsetOf(Len(fPieces) + 1))
  BY <1>2 DEF ForwarderOK, Stream, Collected, Continues
<1>6. f.msg = fPieces[1].msg /\ f.at = OffsetOf(Len(fPieces) + 1)
  BY <1>1, <1>2, <1>5 DEF Awaited
<1>7. /\ Len(fPieces) \in Nat \ {0} /\ Len(fPieces') = Len(fPieces) + 1
      /\ \A i \in 1..Len(fPieces) : fPieces'[i] = fPieces[i]
      /\ fPieces'[Len(fPieces) + 1] = p /\ fPieces' \in Seq(Pieces)
      /\ DOMAIN fPieces = 1..Len(fPieces) /\ DOMAIN fPieces' = 1..Len(fPieces')
  BY <1>2, <1>4, <1>5
<1>8. fPieces'[1] = fPieces[1]
  BY <1>7
<1>9. Closed' /\ Chained' /\ LastSent'
  BY <1>2, ReadStream
<1>10. Collected'
  <2> SUFFICES ASSUME NEW i \in DOMAIN fPieces'
               PROVE  fPieces'[i] = Piece(fPieces[1].msg, OffsetOf(i))
    BY <1>8 DEF Collected, InOrder
  <2>1. CASE i \in DOMAIN fPieces
    <3>1. fPieces'[i] = fPieces[i]
      BY <1>7, <2>1
    <3> QED
      BY <1>5, <2>1, <3>1 DEF InOrder
  <2>2. CASE i = Len(fPieces) + 1
    BY <1>1, <1>6, <1>7, <2>2
  <2> QED
    BY <1>7, <2>1, <2>2
<1>11. Continues'
  <2>1. OffsetOf(Len(fPieces') + 1) = f.at + SINGLE
    <3>1. OffsetOf(Len(fPieces) + 1) = FIRST + SINGLE * (Len(fPieces) - 1)
      BY <1>7 DEF OffsetOf, FIRST, SINGLE
    <3>2. OffsetOf(Len(fPieces) + 2) = FIRST + SINGLE * Len(fPieces)
      BY <1>7 DEF OffsetOf, FIRST, SINGLE
    <3> QED
      BY <1>6, <1>7, <3>1, <3>2 DEF FIRST, SINGLE
  <2>2. IF canSock' = <<>>
          THEN txState' # "IDLE" => txMsg' = f.msg /\ txSent' = f.at + SINGLE
          ELSE Head(canSock').kind = "CF"
                 => /\ Head(canSock').msg = f.msg
                    /\ Head(canSock').at = f.at + SINGLE
    BY <1>1, <1>2, ReadStream
  <2> QED
    BY <1>6, <1>8, <2>1, <2>2 DEF Continues, Awaited
<1> QED
  BY <1>9, <1>10, <1>11 DEF Stream

\* A new session finds an empty socket, and a closed one holds nothing.
LEMMA EmptySocket ==
  ASSUME canSock' = <<>>, fPc' \in {"read", "ended"},
         canOpen' \/ fPc' = "ended"
  PROVE  Stream'
BY DEF Stream, Closed, Chained, LastSent, Collected, Continues

LEMMA SessionKeepsStream ==
  ASSUME Stream, SessionAction, UNCHANGED ecuVars PROVE Stream'
<1>1. CASE StartSession
  BY <1>1, EmptySocket DEF StartSession
<1>2. CASE JoinForwarder
  BY <1>2, EmptySocket DEF JoinForwarder, forwarderVars
<1>3. CASE UNCHANGED <<canOpen, canSock, forwarderVars>>
  BY <1>3, StreamUnchanged DEF ecuVars
<1> QED
  BY <1>1, <1>2, <1>3
  DEF SessionAction, SendSingleFrame, SendFirstFrame, TakeFlowControl,
      FlowControlTimeout, SendConsecutiveFrame, EndSession, GatewaySends,
      busVars

LEMMA ForwarderKeepsStream ==
  ASSUME BusOK, ForwarderOK, Stream, ForwarderAction, UNCHANGED ecuVars
  PROVE  Stream'
<1> USE NextFrameType DEF ecuVars
<1>1. CASE ReadTimeout \/ CollectTimeout \/ Forward
  <2>1. /\ fPc' \in {"read", "ended"} /\ fPc # "ended"
        /\ UNCHANGED <<canOpen, canSock>>
    BY <1>1 DEF ReadTimeout, CollectTimeout, Forward, busVars
  <2> QED
    BY <2>1, GivenUp
<1>2. CASE ReadFlowControl \/ ReadStrayFrame \/ CollectOther
  <2>1. /\ fPc' \in {"read", "ended"} /\ canSock # <<>>
        /\ canSock' = Tail(canSock) /\ canOpen' = canOpen
    BY <1>2 DEF ReadFlowControl, ReadStrayFrame, CollectOther, Read
  <2> QED
    BY <2>1, ReadAndGoOn
<1>3. CASE ReadSingleFrame
  BY <1>3, SingleStream
<1>4. CASE ReadFirstFrame
  BY <1>4, FirstStream
<1>5. CASE CollectFrame
  BY <1>5, CollectStream
<1> QED
  BY <1>1, <1>2, <1>3, <1>4, <1>5 DEF ForwarderAction

LEMMA NextStream == LinkInv /\ Stream /\ [Next]_vars => Stream'
<1> SUFFICES ASSUME LinkInv, Stream, [Next]_vars PROVE Stream'
  OBVIOUS
<1>1. CASE EcuMoves(EcuStep) \/ EcuMoves(SendPeriodic)
  BY <1>1, EcuKeepsStream
<1>2. CASE GatewayStep
  <2>1. (SessionAction \/ ForwarderAction) /\ UNCHANGED ecuVars
    BY <1>2 DEF GatewayStep, ClientConnects, SessionWrites, SessionMoves,
         ForwarderWrites, ForwarderMoves, GatewayGivesUp, GatewayMoves,
         SessionAction, ForwarderAction
  <2> QED
    BY <2>1, SessionKeepsStream, ForwarderKeepsStream DEF LinkInv
<1>3. CASE ClientAsks \/ ClientLeaves \/ UNCHANGED vars
  <2>1. UNCHANGED <<canOpen, canSock, txVars, forwarderVars>>
    BY <1>3 DEF ClientAsks, ClientLeaves, vars, busVars, ecuVars, gatewayVars
  <2> QED
    BY <2>1, StreamUnchanged
<1> QED
  BY <1>1, <1>2, <1>3 DEF Next, GatewayStep

\* Every response handed to the client is one whole response of the ECU,
\* whatever was lost, given up or left over from an earlier session
\* (uds_gateway.cpp:511-541, cantp.c:162-172).
THEOREM LinkResponsesWhole == Spec => []ResponsesWhole
<1>1. Init => LinkInv /\ Stream
  BY InitLink, InitStream
<1>2. LinkInv /\ Stream /\ [Next]_vars => (LinkInv /\ Stream)'
  BY NextLink, NextStream
<1>3. LinkInv /\ Stream => ResponsesWhole
  BY DEF Stream, Collected, InOrder, ResponsesWhole
<1> QED
  BY <1>1, <1>2, <1>3, PTL DEF Spec
=============================================================================
