------------------------ MODULE IsoTpExchangeProofs -------------------------
(***************************************************************************)
(* A further proof about IsoTpLink: as long as nothing disturbs the        *)
(* exchange, the request under way is the only one, its frames keep step   *)
(* with the reassembly, and what is handed over is of one message.         *)
(***************************************************************************)
EXTENDS IsoTpLinkProofs

---------------------------------------------------------------------------
(* The invariant.                                                          *)

\* A frame of a request.
IsRequest(frame) == frame.kind \in {"SF", "FF", "CF"}

\* Where the request under way can be: in the connection, in the mailbox, in
\* the reassembly, or being sent.
Held == IsRequest(mailbox)
Assembling == rxState = "WAIT_CF"
Sending == sPc \in {"waitFC", "block"}
UnderWay == tcpIn # <<>> \/ Held \/ Assembling \/ Sending

\* It is the last one asked.
Owned ==
  /\ tcpIn # <<>> => /\ Len(tcpIn) = 1 /\ Head(tcpIn).msg = asked
                     /\ ~Held /\ ~Assembling /\ ~Sending
  /\ Held => mailbox.msg = asked
  /\ Assembling => \A i \in DOMAIN rxBuffer : rxBuffer[i].msg = asked
  /\ Sending => sMsg = asked

\* What is to be heard of the ECU is about messages before k.
Before(k) == 0..(k - 1)
Below(k) ==
  /\ \A m \in answers : m \in Before(k)
  /\ \A i \in 1..Len(canSock) :
       canSock[i].kind # "FC" => canSock[i].msg \in Before(k)
  /\ fPc \in {"collect", "forward"} => fPieces[1].msg \in Before(k)
  /\ txState # "IDLE" => txMsg \in Before(k)

\* Nothing is heard of a request before all of it has arrived.
Unheard ==
  /\ Below(asked + 1)
  /\ UnderWay => asked # 0 /\ Below(asked)

\* The bytes of the next consecutive frame, for the ECU.
NextShare == SmallerOf(SINGLE, rxTotal - rxReceived)

\* The session thread is as far as the reassembly, or one frame ahead.
InStep ==
  /\ mailbox.kind = "SF" => ~Assembling /\ ~Sending
  /\ mailbox.kind = "FF" => /\ ~Assembling /\ Sending
                            /\ sSent = FIRST /\ sSeq = 1
                            /\ mailbox.len = sLen
  /\ mailbox.kind = "CF" => /\ Assembling
                            /\ mailbox.seq = rxExpected
                            /\ sSeq = NextSeq(rxExpected)
                            /\ sSent = rxReceived + NextShare
  /\ Assembling => /\ rxTotal = sLen /\ rxReceived < rxTotal
                   /\ Sending <=> sSent < sLen
  /\ Assembling /\ mailbox.kind # "CF"
       => Sending /\ sSent = rxReceived /\ sSeq = rxExpected
  /\ Sending => sSent < sLen /\ (Assembling \/ mailbox.kind = "FF")

Exchange == ~disturbed => Owned /\ Unheard /\ InStep

LEMMA InitExchange == Init => Exchange
<1> SUFFICES ASSUME Init PROVE Owned /\ Unheard /\ InStep
  BY DEF Exchange
<1>1. ~UnderWay /\ ~Held /\ ~Assembling /\ ~Sending /\ tcpIn = <<>>
  BY DEF Init, GatewayInit, EcuInit, UnderWay, Held, Assembling, Sending,
         IsRequest, None
<1>2. Below(asked + 1)
  BY DEF Init, GatewayInit, EcuInit, Below
<1>3. mailbox.kind = "none"
  BY DEF Init, None
<1> QED
  BY <1>1, <1>2, <1>3 DEF Owned, Unheard, InStep

---------------------------------------------------------------------------
(* What is heard.                                                          *)

\* A step of the ECU sends nothing but what belongs to m or to the response
\* under way.
EcuSays(m) ==
  \/ /\ UNCHANGED <<canOpen, canSock>>
     /\ txState' # "IDLE" => txState # "IDLE" /\ txMsg' = txMsg
  \/ \E f \in Frames :
       /\ EcuSends(f)
       /\ \/ f.kind = "FC" \/ f.msg = m
          \/ txState # "IDLE" /\ f.msg = txMsg
       /\ txState' # "IDLE"
            => txMsg' = m \/ (txState # "IDLE" /\ txMsg' = txMsg)

Listeners == <<forwarderVars, answers, asked>>

LEMMA SaysBelow ==
  ASSUME NEW k, NEW m, BusOK, Below(k), m \in Before(k), EcuSays(m),
         UNCHANGED Listeners
  PROVE  Below(k)'
<1> USE DEF Listeners, forwarderVars, receiveVars
<1>1. CASE /\ UNCHANGED <<canOpen, canSock>>
           /\ txState' # "IDLE" => txState # "IDLE" /\ txMsg' = txMsg
  BY <1>1 DEF Below
<1>2. ASSUME NEW f \in Frames, EcuSends(f),
             \/ f.kind = "FC" \/ f.msg = m
             \/ txState # "IDLE" /\ f.msg = txMsg,
             txState' # "IDLE"
               => txMsg' = m \/ (txState # "IDLE" /\ txMsg' = txMsg)
      PROVE  Below(k)'
  <2>1. f.kind # "FC" => f.msg \in Before(k)
    BY <1>2 DEF Below
  <2>2. txState' # "IDLE" => txMsg' \in Before(k)
    BY <1>2 DEF Below
  <2>3. \A i \in 1..Len(canSock') :
          canSock'[i].kind # "FC" => canSock'[i].msg \in Before(k)
    <3>1. CASE canSock' = canSock
      BY <3>1 DEF Below
    <3>2. CASE canSock' = Append(canSock, f)
      <4>1. /\ Len(canSock) \in Nat /\ Len(canSock') = Len(canSock) + 1
            /\ \A i \in 1..Len(canSock) : canSock'[i] = canSock[i]
            /\ canSock'[Len(canSock) + 1] = f
        BY <3>2, AppendedAt DEF BusOK
      <4>2. ASSUME NEW i \in 1..Len(canSock'), canSock'[i].kind # "FC"
            PROVE  canSock'[i].msg \in Before(k)
        <5>1. CASE i \in 1..Len(canSock)
          BY <4>1, <4>2, <5>1 DEF Below
        <5>2. CASE i = Len(canSock) + 1
          BY <2>1, <4>1, <4>2, <5>2
        <5> QED
          BY <4>1, <5>1, <5>2
      <4> QED
        BY <4>2
    <3> QED
      BY <1>2, <3>1, <3>2 DEF EcuSends
  <2> QED
    BY <2>2, <2>3 DEF Below
<1> QED
  BY <1>1, <1>2 DEF EcuSays

LEMMA ResponseSays ==
  ASSUME NEW m \in Messages, NEW n \in Lengths, SendResponse(m, n)
  PROVE  EcuSays(m)
<1>1. CASE UNCHANGED <<txVars, canOpen, canSock>>
  BY <1>1 DEF EcuSays, txVars
<1>2. CASE EcuSends(SF(m, n)) /\ UNCHANGED txVars
  <2>1. SF(m, n).msg = m
    BY DEF SF
  <2> QED
    BY <1>2, <2>1, FrameTypes DEF EcuSays, txVars
<1>3. CASE EcuSends(FF(m, n)) /\ txMsg' = m
  <2>1. FF(m, n).msg = m
    BY DEF FF
  <2> QED
    BY <1>3, <2>1, FrameTypes DEF EcuSays
<1> QED
  BY <1>1, <1>2, <1>3 DEF SendResponse

LEMMA MessageSays ==
  ASSUME dialogue \in Dialogues, NEW m \in Messages, HandleMessage(m)
  PROVE  EcuSays(m)
<1>1. PICK n \in dialogue.gives : SendResponse(m, n)
  BY DEF HandleMessage
<1>2. dialogue.gives \in SUBSET (1..4095)
  BY CanTpAssumption
<1>3. n \in Lengths
  BY <1>2 DEF Lengths
<1> QED
  BY <1>1, <1>3, ResponseSays

LEMMA FlowControlSays ==
  ASSUME NEW m, NEW bs \in 0..255, EcuSends(FC(bs)), UNCHANGED txVars
  PROVE  EcuSays(m)
<1>1. FC(bs).kind = "FC"
  BY DEF FC
<1> QED
  BY <1>1, FrameTypes DEF EcuSays, txVars

LEMMA SilentSays ==
  ASSUME NEW m, UNCHANGED <<txVars, canOpen, canSock>> PROVE EcuSays(m)
BY DEF EcuSays, txVars

LEMMA SendingSays ==
  ASSUME NEW m, LinkInv, sendConsecutiveFrame PROVE EcuSays(m)
<1>1. TxTypes
  BY EcuParts DEF LinkInv
<1>2. PICK f : f = CF(txMsg, txSeq, txSent)
  OBVIOUS
<1>3. f \in Frames /\ f.msg = txMsg
  BY <1>1, <1>2, FrameTypes, Numbers DEF TxTypes, CF
<1>4. EcuSends(f) /\ txState # "IDLE" /\ txMsg' = txMsg
  BY <1>2 DEF sendConsecutiveFrame
<1> QED
  BY <1>3, <1>4 DEF EcuSays

\* The threads of the gateway hear what is in the socket.
LEMMA SocketBelow ==
  ASSUME NEW k, BusOK, Below(k), canSock # <<>>, canSock' = Tail(canSock)
  PROVE  /\ \A i \in 1..Len(canSock') :
              canSock'[i].kind # "FC" => canSock'[i].msg \in Before(k)
         /\ Head(canSock).kind # "FC" => Head(canSock).msg \in Before(k)
<1>1. /\ Len(canSock) \in Nat \ {0} /\ Len(canSock') = Len(canSock) - 1
      /\ \A i \in 1..(Len(canSock) - 1) : canSock'[i] = canSock[i + 1]
      /\ Head(canSock) = canSock[1]
  BY TailAt DEF BusOK
<1>2. ASSUME NEW i \in 1..Len(canSock'), canSock'[i].kind # "FC"
      PROVE  canSock'[i].msg \in Before(k)
  <2>1. PICK j : j = i + 1
    OBVIOUS
  <2>2. j \in 1..Len(canSock) /\ canSock'[i] = canSock[j]
    BY <1>1, <2>1
  <2> QED
    BY <1>2, <2>2 DEF Below
<1>3. 1 \in 1..Len(canSock)
  BY <1>1
<1> QED
  BY <1>1, <1>2, <1>3 DEF Below

LEMMA SessionBelow ==
  ASSUME NEW k, Below(k), SessionAction, UNCHANGED ecuVars PROVE Below(k)'
<1> USE DEF ecuVars, txVars
<1>1. CASE StartSession \/ JoinForwarder
  <2>1. canSock' = <<>> /\ fPc' \in {"read", "ended"} /\ answers' = answers
    BY <1>1 DEF StartSession, JoinForwarder, forwarderVars
  <2> QED
    BY <2>1 DEF Below
<1>2. CASE UNCHANGED <<canSock, forwarderVars, answers>>
  BY <1>2 DEF Below, forwarderVars, receiveVars
<1> QED
  BY <1>1, <1>2
  DEF SessionAction, SendSingleFrame, SendFirstFrame, TakeFlowControl,
      FlowControlTimeout, SendConsecutiveFrame, EndSession, busVars, clientVars

LEMMA ForwarderBelow ==
  ASSUME NEW k, BusOK, ForwarderOK, Below(k), ForwarderAction,
         UNCHANGED ecuVars
  PROVE  Below(k)'
<1> USE NextFrameType DEF ecuVars, txVars
<1>1. CASE ReadTimeout \/ CollectTimeout
  <2>1. fPc' \in {"read", "ended"} /\ UNCHANGED <<canSock, answers>>
    BY <1>1 DEF ReadTimeout, CollectTimeout, busVars, clientVars
  <2> QED
    BY <2>1 DEF Below
<1>2. CASE ReadFlowControl \/ ReadStrayFrame \/ CollectOther
  <2>1. /\ fPc' \in {"read", "ended"} /\ canSock # <<>>
        /\ canSock' = Tail(canSock) /\ answers' = answers
    BY <1>2
    DEF ReadFlowControl, ReadStrayFrame, CollectOther, Read, clientVars
  <2> QED
    BY <2>1, SocketBelow DEF Below
<1>3. CASE ReadSingleFrame \/ ReadFirstFrame
  <2>1. /\ canSock # <<>> /\ canSock' = Tail(canSock) /\ answers' = answers
        /\ Head(canSock).kind # "FC"
        /\ fPieces' = <<Piece(Head(canSock).msg, 0)>>
    BY <1>3 DEF ReadSingleFrame, ReadFirstFrame, Read, clientVars
  <2>2. fPieces'[1].msg = Head(canSock).msg
    <3>1. PICK p : p = Piece(Head(canSock).msg, 0)
      OBVIOUS
    <3>2. p.msg = Head(canSock).msg /\ <<p>>[1] = p
      BY <3>1 DEF Piece
    <3> QED
      BY <2>1, <3>1, <3>2
  <2> QED
    BY <2>1, <2>2, SocketBelow DEF Below
<1>4. CASE CollectFrame
  <2>1. PICK p : p = Piece(Head(canSock).msg, Head(canSock).at)
    OBVIOUS
  <2>2. /\ canSock # <<>> /\ canSock' = Tail(canSock) /\ answers' = answers
        /\ fPc = "collect" /\ fPieces' = Append(fPieces, p)
    BY <1>4, <2>1 DEF CollectFrame, clientVars
  <2>3. fPieces \in Seq(Pieces) /\ fPieces # <<>>
    BY <2>2 DEF ForwarderOK
  <2>4. fPieces'[1] = fPieces[1]
    BY <2>2, <2>3
  <2> QED
    BY <2>2, <2>4, SocketBelow DEF Below
<1>5. CASE Forward
  <2>1. PICK m : m = fPieces[1].msg
    OBVIOUS
  <2>2. m \in Before(k) /\ answers' \in {answers, answers \cup {m}}
    BY <1>5, <2>1 DEF Forward, Below
  <2>3. fPc' \in {"read", "ended"} /\ canSock' = canSock
    BY <1>5 DEF Forward, busVars
  <2> QED
    BY <2>2, <2>3 DEF Below
<1> QED
  BY <1>1, <1>2, <1>3, <1>4, <1>5 DEF ForwarderAction

\* What is said of nobody, or of a request that is not under way any more.
LEMMA UnheardSaid ==
  ASSUME LinkInv, Unheard, EcuSays(0), UNCHANGED Listeners,
         UnderWay' => UnderWay
  PROVE  Unheard'
<1>1. asked \in Nat /\ BusOK /\ asked' = asked
  BY LinkAssumption DEF LinkInv, ClientOK, Messages, Listeners
<1>2. PICK a : a = asked
  OBVIOUS
<1>3. 0 \in Before(a + 1) /\ (a # 0 => 0 \in Before(a))
  BY <1>1, <1>2 DEF Before
<1>4. Below(a + 1)'
  BY <1>1, <1>2, <1>3, SaysBelow DEF Unheard
<1>5. UnderWay => a # 0 /\ Below(a)'
  BY <1>1, <1>2, <1>3, SaysBelow DEF Unheard
<1> QED
  BY <1>1, <1>2, <1>4, <1>5 DEF Unheard

LEMMA UnheardAnswered ==
  ASSUME LinkInv, Unheard, EcuSays(asked), UNCHANGED Listeners, ~UnderWay'
  PROVE  Unheard'
<1>1. asked \in Nat /\ BusOK /\ asked' = asked
  BY LinkAssumption DEF LinkInv, ClientOK, Messages, Listeners
<1>2. PICK a : a = asked
  OBVIOUS
<1>3. EcuSays(a) /\ a \in Before(a + 1)
  BY <1>1, <1>2 DEF Before
<1>4. Below(a + 1)'
  BY <1>1, <1>2, <1>3, SaysBelow DEF Unheard
<1> QED
  BY <1>1, <1>2, <1>4 DEF Unheard

LEMMA UnheardPassedOn ==
  ASSUME LinkInv, Unheard, SessionAction \/ ForwarderAction,
         UNCHANGED <<ecuVars, asked>>, UnderWay' => UnderWay
  PROVE  Unheard'
<1>1. PICK a : a = asked
  OBVIOUS
<1>2. Below(a + 1)'
  BY <1>1, SessionBelow, ForwarderBelow DEF Unheard, LinkInv
<1>3. UnderWay => a # 0 /\ Below(a)'
  BY <1>1, SessionBelow, ForwarderBelow DEF Unheard, LinkInv
<1> QED
  BY <1>1, <1>2, <1>3 DEF Unheard

---------------------------------------------------------------------------
(* Steps that leave the request under way where it is.                     *)

\* What the invariant is shown to keep, apart from Unheard.
StaysInStep == Owned' /\ InStep' /\ (UnderWay' => UnderWay)

LEMMA SameExchange ==
  ASSUME Owned, InStep, UNCHANGED <<rxVars, sMsg, sLen, sSent, sSeq, asked>>,
         Sending' <=> Sending, tcpIn' \in {tcpIn, <<>>},
         mailbox' = mailbox \/ (~Held /\ ~Held')
  PROVE  StaysInStep
<1> USE DEF rxVars
<1>1. /\ Assembling' <=> Assembling
      /\ Held' <=> Held
      /\ Held => mailbox' = mailbox
      /\ NextShare' = NextShare
  BY DEF Assembling, Held, NextShare
<1>2. /\ mailbox'.kind = "SF" => mailbox.kind = "SF" /\ mailbox' = mailbox
      /\ mailbox'.kind = "FF" => mailbox.kind = "FF" /\ mailbox' = mailbox
      /\ mailbox'.kind = "CF" => mailbox.kind = "CF" /\ mailbox' = mailbox
      /\ mailbox'.kind # "CF" => mailbox.kind # "CF"
      /\ mailbox.kind = "FF" => mailbox' = mailbox
  BY <1>1 DEF Held, IsRequest
<1>3. UnderWay' => UnderWay
  BY <1>1 DEF UnderWay
<1>4. Owned'
  BY <1>1 DEF Owned
<1>5. InStep'
  BY <1>1, <1>2 DEF InStep
<1> QED
  BY <1>3, <1>4, <1>5 DEF StaysInStep

LEMMA QuietThreads ==
  ASSUME Owned, InStep, UNCHANGED <<ecuVars, asked>>,
         \/ StartSession \/ TakeFlowControl \/ EndSession \/ JoinForwarder
         \/ ReadTimeout \/ ReadFlowControl \/ ReadSingleFrame
         \/ ReadStrayFrame \/ CollectFrame \/ CollectOther \/ Forward
  PROVE  StaysInStep
<1>1. /\ UNCHANGED <<rxVars, sMsg, sLen, sSent, sSeq, asked, mailbox>>
      /\ tcpIn' \in {tcpIn, <<>>}
  BY DEF StartSession, TakeFlowControl, EndSession, JoinForwarder, ReadTimeout,
         ReadFlowControl, ReadSingleFrame, ReadStrayFrame, CollectFrame,
         CollectOther, Forward, ecuVars, sendVars, sessionVars, clientVars,
         busVars
<1>2. Sending' <=> Sending
  BY DEF StartSession, TakeFlowControl, EndSession, JoinForwarder, ReadTimeout,
         ReadFlowControl, ReadSingleFrame, ReadStrayFrame, CollectFrame,
         CollectOther, Forward, sessionVars, Sending
<1> QED
  BY <1>1, <1>2, SameExchange

LEMMA AnswersFirstFrame ==
  ASSUME Owned, InStep, UNCHANGED <<ecuVars, asked>>, ReadFirstFrame,
         mailbox = None
  PROVE  StaysInStep
<1>1. ~Held
  BY DEF Held, IsRequest, None
<1>2. mailbox' = FC(0)
  BY DEF ReadFirstFrame, GatewaySends
<1>3. ~Held'
  BY <1>2 DEF Held, IsRequest, FC
<1>4. /\ UNCHANGED <<rxVars, sMsg, sLen, sSent, sSeq, asked, tcpIn>>
      /\ Sending' <=> Sending
  BY DEF ReadFirstFrame, ecuVars, sessionVars, sendVars, clientVars, Sending
<1> QED
  BY <1>1, <1>3, <1>4, SameExchange

---------------------------------------------------------------------------
(* Steps of the session thread that send.                                  *)

LEMMA OnlyOne ==
  ASSUME NEW S, NEW s \in Seq(S), Len(s) = 1 PROVE Tail(s) = <<>>
<1>1. Tail(s) \in Seq(S) /\ Len(Tail(s)) = 0
  OBVIOUS
<1>2. \A t \in Seq(S) : Len(t) = 0 => t = <<>>
  OBVIOUS
<1> QED
  BY <1>1, <1>2

LEMMA NoneHeld == ASSUME mailbox = None PROVE ~Held /\ mailbox.kind = "none"
BY DEF Held, IsRequest, None

LEMMA SingleFrameInStep ==
  ASSUME LinkInv, Owned, InStep, UNCHANGED <<ecuVars, asked>>,
         SendSingleFrame, mailbox = None
  PROVE  StaysInStep
<1>1. /\ tcpIn # <<>> /\ Len(tcpIn) = 1 /\ Head(tcpIn).msg = asked
      /\ ~Assembling /\ ~Sending /\ UnderWay
  BY DEF SendSingleFrame, Owned, UnderWay
<1>2. tcpIn' = <<>>
  BY <1>1, OnlyOne DEF SendSingleFrame, LinkInv, ClientOK
<1>3. ~Assembling' /\ ~Sending' /\ asked' = asked
  BY <1>1
  DEF SendSingleFrame, ecuVars, rxVars, sessionVars, Assembling, Sending
<1>4. mailbox' = SF(asked, Head(tcpIn).len)
  BY <1>1 DEF SendSingleFrame, GatewaySends
<1>5. mailbox'.kind = "SF" /\ mailbox'.msg = asked
  BY <1>4 DEF SF
<1>6. Owned'
  BY <1>2, <1>3, <1>5 DEF Owned
<1>7. InStep'
  BY <1>3, <1>5 DEF InStep
<1> QED
  BY <1>1, <1>6, <1>7 DEF StaysInStep

LEMMA FirstFrameInStep ==
  ASSUME LinkInv, Owned, InStep, UNCHANGED <<ecuVars, asked>>,
         SendFirstFrame, mailbox = None
  PROVE  StaysInStep
<1>1. /\ tcpIn # <<>> /\ Len(tcpIn) = 1 /\ Head(tcpIn).msg = asked
      /\ ~Assembling /\ UnderWay
  BY DEF SendFirstFrame, Owned, UnderWay
<1>2. tcpIn' = <<>>
  BY <1>1, OnlyOne DEF SendFirstFrame, LinkInv, ClientOK
<1>3. PICK n : n = Head(tcpIn).len
  OBVIOUS
<1>4. n \in Lengths /\ n > SINGLE
  BY <1>1, <1>3, NextRequest DEF SendFirstFrame, LinkInv
<1>5. /\ ~Assembling' /\ Sending' /\ asked' = asked
      /\ sMsg' = asked /\ sLen' = n /\ sSent' = FIRST /\ sSeq' = 1
  BY <1>1, <1>3 DEF SendFirstFrame, ecuVars, rxVars, Assembling, Sending
<1>6. mailbox' = FF(asked, n)
  BY <1>1, <1>3 DEF SendFirstFrame, GatewaySends
<1>7. mailbox'.kind = "FF" /\ mailbox'.msg = asked /\ mailbox'.len = n
  BY <1>6 DEF FF
<1>8. FIRST < n
  <2>1. n \in 0..4095
    BY <1>4 DEF Lengths
  <2> QED
    BY <1>4, <2>1 DEF FIRST, SINGLE
<1>9. Owned'
  BY <1>2, <1>5, <1>7 DEF Owned
<1>10. InStep'
  BY <1>5, <1>7, <1>8 DEF InStep
<1> QED
  BY <1>1, <1>9, <1>10 DEF StaysInStep

LEMMA ConsecutiveFrameInStep ==
  ASSUME LinkInv, Owned, InStep, UNCHANGED <<ecuVars, asked>>,
         SendConsecutiveFrame, mailbox = None
  PROVE  StaysInStep
<1>1. /\ Sending /\ sMsg = asked /\ tcpIn = <<>> /\ UnderWay
      /\ mailbox.kind = "none"
  BY NoneHeld DEF SendConsecutiveFrame, Owned, UnderWay, Sending
<1>2. /\ Assembling /\ rxTotal = sLen /\ rxReceived < rxTotal
      /\ sSent = rxReceived /\ sSeq = rxExpected
  BY <1>1 DEF InStep
<1>3. /\ Assembling' /\ rxTotal' = sLen' /\ rxReceived' < rxTotal'
      /\ UNCHANGED <<rxExpected, rxReceived, rxTotal, rxBuffer, asked>>
  BY <1>2 DEF SendConsecutiveFrame, ecuVars, rxVars, Assembling
<1>4. PICK sent : sent = sSent + SmallerOf(SINGLE, sLen - sSent)
  OBVIOUS
<1>5. sent = rxReceived + NextShare
  BY <1>2, <1>4 DEF NextShare
<1>6. NextShare' = NextShare
  BY <1>3 DEF NextShare
<1>7. /\ sSent' = sent /\ sSeq' = NextSeq(rxExpected) /\ sMsg' = asked
      /\ tcpIn' = <<>> /\ sLen' = sLen
  BY <1>1, <1>2, <1>4 DEF SendConsecutiveFrame, clientVars
<1>8. mailbox' = CF(asked, rxExpected, sSent)
  BY <1>1, <1>2 DEF SendConsecutiveFrame, GatewaySends
<1>9. mailbox'.kind = "CF" /\ mailbox'.msg = asked /\ mailbox'.seq = rxExpected
  BY <1>8 DEF CF
<1>10. Sending' <=> sent < sLen
  <2>1. sent \in Lengths /\ sLen \in Lengths
    BY <1>4, NextBytes DEF LinkInv, SessionOK
  <2>2. sent >= sLen <=> ~(sent < sLen)
    BY <2>1 DEF Lengths
  <2>3. sPc' = IF sent >= sLen THEN "idle"
               ELSE IF sLeft = 1 THEN "waitFC" ELSE "block"
    BY <1>4 DEF SendConsecutiveFrame
  <2> QED
    BY <2>2, <2>3 DEF Sending
<1>11. Owned'
  BY <1>1, <1>2, <1>3, <1>7, <1>9 DEF Owned
<1>12. InStep'
  BY <1>3, <1>5, <1>6, <1>7, <1>9, <1>10 DEF InStep
<1> QED
  BY <1>1, <1>11, <1>12 DEF StaysInStep

LEMMA GatewayExchange == LinkInv /\ Exchange /\ GatewayStep => Exchange'
<1> SUFFICES ASSUME LinkInv, Exchange, GatewayStep, ~disturbed'
             PROVE  (Owned /\ Unheard /\ InStep)'
  BY DEF Exchange
<1>1. ~disturbed
  BY Zenon
  DEF GatewayStep, ClientConnects, SessionWrites, SessionMoves,
      ForwarderWrites, ForwarderMoves, GatewayGivesUp, GatewayMoves
<1>2. Owned /\ Unheard /\ InStep
  BY <1>1 DEF Exchange
<1>3. ~GatewayGivesUp
  BY Zenon DEF GatewayGivesUp, GatewayMoves
<1>4. SessionWrites \/ ForwarderWrites => mailbox = None
  BY Zenon DEF SessionWrites, ForwarderWrites, GatewayMoves
<1>5. /\ SessionAction \/ ForwarderAction
      /\ UNCHANGED <<ecuVars, asked>>
  BY DEF GatewayStep, ClientConnects, SessionWrites, SessionMoves,
         ForwarderWrites, ForwarderMoves, GatewayGivesUp, GatewayMoves,
         SessionAction, ForwarderAction
<1>6. StaysInStep
  <2>1. CASE ClientConnects \/ SessionMoves \/ ForwarderMoves
    BY <1>2, <1>5, <2>1, QuietThreads
    DEF ClientConnects, SessionMoves, ForwarderMoves, GatewayMoves
  <2>2. CASE SessionWrites
    BY <1>2, <1>4, <1>5, <2>2, SingleFrameInStep, FirstFrameInStep,
       ConsecutiveFrameInStep
    DEF SessionWrites, GatewayMoves
  <2>3. CASE ForwarderWrites
    BY <1>2, <1>4, <1>5, <2>3, AnswersFirstFrame
    DEF ForwarderWrites, GatewayMoves
  <2> QED
    BY <1>3, <2>1, <2>2, <2>3 DEF GatewayStep
<1>7. Unheard'
  BY <1>2, <1>5, <1>6, UnheardPassedOn DEF StaysInStep
<1> QED
  BY <1>6, <1>7 DEF StaysInStep

---------------------------------------------------------------------------
(* Steps of the ECU.                                                       *)

LEMMA CopyPlain == ASSUME RxTypes PROVE BytesToCopy = NextShare
<1>1. PICK a : a = rxTotal - rxReceived
  OBVIOUS
<1>2. a \in 0..4095
  BY <1>1 DEF RxTypes, Lengths
<1>3. a % 65536 = a
  BY <1>2, Unwrapped
<1> QED
  BY <1>1, <1>3 DEF BytesToCopy, NextShare

LEMMA ReceiverTypes == LinkInv => RxTypes /\ BusOK /\ dialogue \in Dialogues
BY EcuParts DEF LinkInv

\* The invariant after a step of the ECU.
Kept == (Owned /\ Unheard /\ InStep)'

LEMMA Listening ==
  ASSUME UNCHANGED <<gatewayVars, asked>>
  PROVE  /\ UNCHANGED Listeners
         /\ UNCHANGED <<tcpIn, sPc, sMsg, sLen, sSent, sSeq>>
         /\ Sending' <=> Sending
BY DEF gatewayVars, clientVars, sessionVars, sendVars, Listeners, Sending

\* A step that says nothing new and leaves the request where it is.
LEMMA KeptWhereItIs ==
  ASSUME LinkInv, Owned, Unheard, InStep, UNCHANGED <<gatewayVars, asked>>,
         UNCHANGED rxVars, mailbox' = mailbox \/ (~Held /\ ~Held'), EcuSays(0)
  PROVE  Kept
<1>1. StaysInStep
  BY Listening, SameExchange
<1>2. Unheard'
  BY <1>1, Listening, UnheardSaid DEF StaysInStep
<1> QED
  BY <1>1, <1>2 DEF StaysInStep, Kept

LEMMA SingleFrameExchange ==
  ASSUME LinkInv, Owned, Unheard, InStep, UNCHANGED <<gatewayVars, asked>>,
         handleSingleFrame
  PROVE  Kept
<1>1. mailbox.kind = "SF" /\ mailbox' = None /\ Held
  BY DEF handleSingleFrame, Take, Held, IsRequest
<1>2. /\ ~Assembling /\ ~Sending /\ tcpIn = <<>> /\ mailbox.msg = asked
  BY <1>1 DEF InStep, Owned
<1>3. ~Assembling' /\ ~Sending' /\ tcpIn' = <<>>
  BY <1>2, Listening DEF handleSingleFrame, rxVars, Assembling
<1>4. ~Held' /\ mailbox'.kind = "none"
  BY <1>1 DEF Held, IsRequest, None
<1>5. EcuSays(asked)
  <2>1. asked \in Messages
    BY DEF LinkInv, ClientOK
  <2> QED
    BY <1>2, <2>1, MessageSays, SilentSays, ReceiverTypes DEF handleSingleFrame
<1>6. Unheard'
  BY <1>3, <1>4, <1>5, Listening, UnheardAnswered DEF UnderWay
<1>7. Owned' /\ InStep'
  BY <1>3, <1>4 DEF Owned, InStep
<1> QED
  BY <1>6, <1>7 DEF Kept

LEMMA FirstFrameExchange ==
  ASSUME LinkInv, Owned, Unheard, InStep, UNCHANGED <<gatewayVars, asked>>,
         handleFirstFrame
  PROVE  Kept
<1>1. mailbox.kind = "FF" /\ mailbox' = None /\ Held
  BY DEF handleFirstFrame, Take, Held, IsRequest
<1>2. /\ ~Assembling /\ Sending /\ tcpIn = <<>> /\ mailbox.msg = asked
      /\ sSent = FIRST /\ sSeq = 1 /\ mailbox.len = sLen /\ sSent < sLen
      /\ sMsg = asked
  BY <1>1 DEF InStep, Owned
<1>3. rxState = "IDLE"
  BY <1>2, ReceiverTypes DEF RxTypes, Assembling
<1>4. PICK p : p = Piece(mailbox.msg, 0)
  OBVIOUS
<1>5. /\ rxState' = "WAIT_CF" /\ rxTotal' = sLen /\ rxBuffer' = <<p>>
      /\ rxReceived' = FIRST /\ rxExpected' = 1
      /\ EcuSends(FC(FLOW_CONTROL_BLOCK_SIZE)) /\ UNCHANGED txVars
  BY <1>2, <1>3, <1>4 DEF handleFirstFrame
<1>6. ~Held' /\ mailbox'.kind = "none"
  BY <1>1 DEF Held, IsRequest, None
<1>7. /\ Assembling' /\ Sending' /\ tcpIn' = <<>> /\ asked' = asked
      /\ UNCHANGED <<sMsg, sLen, sSent, sSeq>>
  BY <1>2, <1>5, Listening DEF Assembling
<1>8. \A i \in DOMAIN rxBuffer' : rxBuffer'[i].msg = asked
  <2>1. p.msg = asked
    BY <1>2, <1>4 DEF Piece
  <2>2. \A i \in DOMAIN <<p>> : <<p>>[i] = p
    OBVIOUS
  <2> QED
    BY <1>5, <2>1, <2>2
<1>9. Unheard'
  <2>1. FLOW_CONTROL_BLOCK_SIZE \in 0..255
    BY CanTpAssumption
  <2>2. EcuSays(0)
    BY <1>5, <2>1, FlowControlSays
  <2>3. UnderWay
    BY <1>1 DEF UnderWay
  <2> QED
    BY <2>2, <2>3, Listening, UnheardSaid
<1>10. Owned'
  BY <1>2, <1>6, <1>7, <1>8 DEF Owned
<1>11. InStep'
  BY <1>2, <1>5, <1>6, <1>7 DEF InStep
<1> QED
  BY <1>9, <1>10, <1>11 DEF Kept

\* The frame expected has come.
LEMMA AcceptExchange ==
  ASSUME LinkInv, Owned, Unheard, InStep, UNCHANGED <<gatewayVars, asked>>,
         mailbox.kind = "CF", mailbox' = None, AcceptFrame
  PROVE  Kept /\ OfOneMessage(rxBuffer')
<1>1. /\ Held /\ Assembling /\ tcpIn = <<>> /\ mailbox.msg = asked /\ UnderWay
      /\ \A i \in DOMAIN rxBuffer : rxBuffer[i].msg = asked
      /\ sSeq = NextSeq(rxExpected) /\ sSent = rxReceived + NextShare
      /\ rxTotal = sLen /\ (Sending <=> sSent < sLen)
      /\ Sending => sMsg = asked
  BY DEF Held, IsRequest, InStep, Owned, UnderWay
<1>2. ~Held' /\ mailbox'.kind = "none"
  BY DEF Held, IsRequest, None
<1>3. PICK p : p = Piece(mailbox.msg, mailbox.at)
  OBVIOUS
<1>4. p \in Pieces /\ p.msg = asked
  <2>1. mailbox.msg \in Messages /\ mailbox.at \in Offsets
    BY FrameFields DEF LinkInv, BusOK, Carried
  <2> QED
    BY <1>1, <1>3, <2>1, PieceType DEF Piece
<1>5. /\ rxBuffer' = Append(rxBuffer, p) /\ rxReceived' = sSent
      /\ rxExpected' = sSeq /\ rxTotal' = sLen
  BY <1>1, <1>3, CopyPlain, ReceiverTypes DEF AcceptFrame
<1>6. rxBuffer \in Seq(Pieces) /\ rxBuffer # <<>>
  BY <1>1, ReceiverTypes DEF LinkInv, EcuOK, Reassembly, RxTypes, Assembling
<1>7. \A i \in DOMAIN rxBuffer' : rxBuffer'[i].msg = asked
  <2>1. /\ Len(rxBuffer) \in Nat /\ Len(rxBuffer') = Len(rxBuffer) + 1
        /\ \A i \in 1..Len(rxBuffer) : rxBuffer'[i] = rxBuffer[i]
        /\ rxBuffer'[Len(rxBuffer) + 1] = p
        /\ DOMAIN rxBuffer = 1..Len(rxBuffer)
        /\ DOMAIN rxBuffer' = 1..Len(rxBuffer')
    BY <1>4, <1>5, <1>6, AppendedAt
  <2>2. ASSUME NEW i \in DOMAIN rxBuffer' PROVE rxBuffer'[i].msg = asked
    <3>1. CASE i \in 1..Len(rxBuffer)
      BY <1>1, <2>1, <3>1
    <3>2. CASE i = Len(rxBuffer) + 1
      BY <1>4, <2>1, <3>2
    <3> QED
      BY <2>1, <3>1, <3>2
  <2> QED
    BY <2>2
<1>8. OfOneMessage(rxBuffer')
  <2>1. 1 \in DOMAIN rxBuffer'
    BY <1>4, <1>5, <1>6
  <2> QED
    BY <1>7, <2>1 DEF OfOneMessage
<1>9. sSent \in Int /\ sLen \in Int
  BY DEF LinkInv, SessionOK, Lengths
<1>10. /\ tcpIn' = <<>> /\ asked' = asked /\ (Sending' <=> Sending)
       /\ UNCHANGED <<sMsg, sLen, sSent, sSeq>>
  BY <1>1, Listening
<1>11. CASE rxReceived' >= rxTotal
  <2>1. ~Sending' /\ ~Assembling'
    BY <1>1, <1>5, <1>9, <1>10, <1>11 DEF AcceptFrame, Assembling
  <2>2. EcuSays(asked)
    <3>1. asked \in Messages
      BY DEF LinkInv, ClientOK
    <3>2. rxBuffer[1].msg = asked
      BY <1>1, <1>6
    <3> QED
      BY <1>11, <3>1, <3>2, MessageSays, ReceiverTypes DEF AcceptFrame
  <2>3. Unheard'
    BY <1>2, <1>10, <2>1, <2>2, Listening, UnheardAnswered DEF UnderWay
  <2>4. Owned' /\ InStep'
    BY <1>2, <1>10, <2>1 DEF Owned, InStep
  <2> QED
    BY <1>8, <2>3, <2>4 DEF Kept
<1>12. CASE ~(rxReceived' >= rxTotal)
  <2>1. rxReceived' < rxTotal' /\ rxTotal' = sLen /\ Assembling'
    BY <1>1, <1>5, <1>9, <1>12 DEF AcceptFrame, Assembling
  <2>2. EcuSays(0)
    <3>1. FLOW_CONTROL_BLOCK_SIZE \in 0..255
      BY CanTpAssumption
    <3> QED
      BY <1>12, <3>1, FlowControlSays, SilentSays DEF AcceptFrame
  <2>3. Unheard'
    BY <1>1, <2>2, Listening, UnheardSaid
  <2>4. Sending'
    BY <1>1, <1>5, <1>10, <2>1
  <2>5. Owned'
    BY <1>1, <1>2, <1>7, <1>10, <2>4 DEF Owned
  <2>6. InStep'
    BY <1>1, <1>2, <1>5, <1>10, <2>1, <2>4 DEF InStep
  <2> QED
    BY <1>8, <2>3, <2>5, <2>6 DEF Kept
<1> QED
  BY <1>11, <1>12

\* In step, the frame in the mailbox is the one expected.
LEMMA ConsecutiveFrameExchange ==
  ASSUME LinkInv, Owned, Unheard, InStep, UNCHANGED <<gatewayVars, asked>>,
         handleConsecutiveFrame
  PROVE  Kept /\ OfOneMessage(rxBuffer')
<1>1. mailbox.kind = "CF" /\ mailbox' = None
  BY DEF handleConsecutiveFrame, Take
<1>2. rxState = "WAIT_CF" /\ InSequence
  BY <1>1 DEF InStep, Assembling, InSequence
<1> QED
  BY <1>1, <1>2, AcceptExchange DEF handleConsecutiveFrame

LEMMA EcuExchange ==
  LinkInv /\ Exchange /\ (EcuMoves(EcuStep) \/ EcuMoves(SendPeriodic))
    => Exchange'
<1> SUFFICES ASSUME LinkInv, Exchange,
                    EcuMoves(EcuStep) \/ EcuMoves(SendPeriodic), ~disturbed'
             PROVE  Kept
  BY DEF Exchange, Kept
<1>1. UNCHANGED <<gatewayVars, asked>> /\ disturbed' = disturbed
  BY DEF EcuMoves
<1>2. Owned /\ Unheard /\ InStep
  BY <1>1 DEF Exchange
<1>3. CASE handleSingleFrame
  BY <1>1, <1>2, <1>3, SingleFrameExchange
<1>4. CASE handleFirstFrame
  BY <1>1, <1>2, <1>4, FirstFrameExchange
<1>5. CASE handleConsecutiveFrame
  BY <1>1, <1>2, <1>5, ConsecutiveFrameExchange
<1>6. CASE handleFlowControl
  <2>1. ~Held /\ ~Held' /\ UNCHANGED rxVars
    BY <1>6 DEF handleFlowControl, Take, Held, IsRequest, None
  <2>2. EcuSays(0)
    BY <1>6 DEF handleFlowControl, EcuSays, txVars
  <2> QED
    BY <1>1, <1>2, <2>1, <2>2, KeptWhereItIs
<1>7. CASE sendConsecutiveFrame
  BY <1>1, <1>2, <1>7, SendingSays, KeptWhereItIs DEF sendConsecutiveFrame
<1>8. CASE SendPeriodic
  <2>1. PERIODIC \in Messages /\ PERIODIC_LENGTH \in Lengths /\ PERIODIC = 0
    BY Numbers DEF PERIODIC, PERIODIC_LENGTH, Lengths
  <2>2. EcuSays(0)
    BY <1>8, <2>1, ResponseSays DEF SendPeriodic
  <2> QED
    BY <1>1, <1>2, <1>8, <2>2, KeptWhereItIs DEF SendPeriodic
<1> QED
  BY <1>3, <1>4, <1>5, <1>6, <1>7, <1>8 DEF EcuMoves, EcuStep

---------------------------------------------------------------------------
(* The client, and the theorem.                                            *)

\* A client that waits for its answer asks when nothing is under way.
LEMMA AsksExchange == LinkInv /\ Exchange /\ ClientAsks => Exchange'
<1> SUFFICES ASSUME LinkInv, Exchange, ClientAsks, ~disturbed'
             PROVE  (Owned /\ Unheard /\ InStep)'
  BY DEF Exchange
<1>1. ~disturbed /\ AllAnswered
  BY Zenon DEF ClientAsks
<1>2. Owned /\ Unheard /\ InStep
  BY <1>1 DEF Exchange
<1>3. PICK a \in Nat : a = asked
  BY LinkAssumption DEF LinkInv, ClientOK, Messages
<1>4. ~UnderWay
  <2> SUFFICES ASSUME UnderWay PROVE FALSE
    OBVIOUS
  <2>1. a # 0 /\ Below(a)
    BY <1>2, <1>3 DEF Unheard
  <2>2. a \in answers
    BY <1>1, <1>3, <2>1 DEF AllAnswered, Answered
  <2>3. a \in Before(a)
    BY <2>1, <2>2 DEF Below
  <2> QED
    BY <2>3 DEF Before
<1>5. PICK n \in dialogue.asks :
        tcpIn' = Append(tcpIn, [msg |-> asked + 1, len |-> n])
  BY DEF ClientAsks
<1>6. PICK e : e = [msg |-> asked + 1, len |-> n]
  OBVIOUS
<1>7. tcpIn' # <<>> /\ Len(tcpIn') = 1 /\ Head(tcpIn').msg = a + 1
  <2>1. tcpIn = <<>> /\ e.msg = a + 1
    BY <1>3, <1>4, <1>6 DEF UnderWay
  <2>2. tcpIn' = <<e>>
    BY <1>5, <1>6, <2>1
  <2> QED
    BY <2>1, <2>2
<1>8. /\ ~Held' /\ ~Assembling' /\ ~Sending' /\ asked' = a + 1
      /\ mailbox' = mailbox
  BY <1>3, <1>4
  DEF ClientAsks, UnderWay, Held, Assembling, Sending, busVars, ecuVars,
      rxVars, sessionVars
<1>9. Below(a + 1)' /\ Below(a + 1 + 1)'
  <2>1. Below(a + 1) /\ Below(a + 1)'
    BY <1>2, <1>3
    DEF Unheard, Below, ClientAsks, busVars, ecuVars, txVars, forwarderVars,
        receiveVars
  <2>2. \A m \in Before(a + 1) : m \in Before(a + 1 + 1)
    BY DEF Before
  <2> QED
    BY <2>1, <2>2 DEF Below
<1>10. Owned' /\ Unheard'
  BY <1>3, <1>7, <1>8, <1>9 DEF Owned, Unheard
<1>11. InStep'
  BY <1>8 DEF InStep, Held, IsRequest
<1> QED
  BY <1>10, <1>11

LEMMA ElseExchange ==
  LinkInv /\ Exchange /\ (ClientLeaves \/ UNCHANGED vars) => Exchange'
<1> SUFFICES ASSUME LinkInv, Exchange, ClientLeaves \/ UNCHANGED vars,
                    ~disturbed'
             PROVE  (Owned /\ Unheard /\ InStep)'
  BY DEF Exchange
<1>1. ~disturbed
  BY Zenon DEF ClientLeaves, vars
<1>2. Owned /\ Unheard /\ InStep
  BY <1>1 DEF Exchange
<1>3. UNCHANGED <<mailbox, canSock, ecuVars, sessionVars, forwarderVars, tcpIn,
                  answers, asked>>
  BY DEF ClientLeaves, vars, busVars, gatewayVars, clientVars
<1>4. StaysInStep
  <2>1. Sending' <=> Sending
    BY <1>3 DEF Sending, sessionVars
  <2> QED
    BY <1>2, <1>3, <2>1, SameExchange DEF ecuVars, sessionVars, sendVars
<1>5. Unheard'
  BY <1>2, <1>3, <1>4
  DEF StaysInStep, Unheard, Below, ecuVars, txVars, forwarderVars, receiveVars
<1> QED
  BY <1>4, <1>5 DEF StaysInStep

LEMMA NextExchange == LinkInv /\ Exchange /\ [Next]_vars => Exchange'
BY EcuExchange, GatewayExchange, AsksExchange, ElseExchange
DEF Next, GatewayStep

\* Only the last frame of a request hands it over.
LEMMA HandedOver ==
  LinkInv /\ Exchange /\ [Next]_vars
    => (HandsOver /\ ~disturbed => OfOneMessage(rxBuffer'))
<1> SUFFICES ASSUME LinkInv, Exchange, [Next]_vars, HandsOver, ~disturbed
             PROVE  OfOneMessage(rxBuffer')
  OBVIOUS
<1>1. Owned /\ Unheard /\ InStep
  BY DEF Exchange
<1>2. rxState = "WAIT_CF" /\ rxReceived' # rxReceived
  BY DEF HandsOver
<1>3. EcuMoves(EcuStep) \/ EcuMoves(SendPeriodic)
  <2>1. CASE GatewayStep \/ ClientAsks \/ ClientLeaves \/ UNCHANGED vars
    <3>1. rxReceived' = rxReceived
      BY <2>1
      DEF GatewayStep, ClientConnects, SessionWrites, SessionMoves,
          ForwarderWrites, ForwarderMoves, GatewayGivesUp, GatewayMoves,
          ClientAsks, ClientLeaves, vars, ecuVars, rxVars
    <3> QED
      BY <1>2, <3>1
  <2> QED
    BY <2>1 DEF Next, GatewayStep
<1>4. handleConsecutiveFrame /\ UNCHANGED <<gatewayVars, asked>>
  BY <1>2, <1>3
  DEF EcuMoves, EcuStep, handleSingleFrame, handleFirstFrame,
      handleFlowControl, sendConsecutiveFrame, SendPeriodic, rxVars
<1> QED
  BY <1>1, <1>4, ConsecutiveFrameExchange

\* Requests are mixed only after a frame was dropped, a wait timed out or two
\* requests overlapped (cantp.c:211-214).
THEOREM LinkWholeUnlessDisturbed == Spec => WholeUnlessDisturbed
<1>1. Init => LinkInv /\ Exchange
  BY InitLink, InitExchange
<1>2. LinkInv /\ Exchange /\ [Next]_vars => (LinkInv /\ Exchange)'
  BY NextLink, NextExchange
<1>3. LinkInv /\ Exchange /\ [Next]_vars
        => [HandsOver /\ ~disturbed => OfOneMessage(rxBuffer')]_vars
  BY HandedOver
<1> QED
  BY <1>1, <1>2, <1>3, PTL DEF Spec, WholeUnlessDisturbed
=============================================================================
