---------------------------- MODULE BoardProofs ----------------------------
(***************************************************************************)
(* Proofs about Board, for all directions, duties and lengths of a gap,    *)
(* and about Timing, for a timer of any size and any delays and time-outs. *)
(***************************************************************************)
EXTENDS Board, Timing, WellFoundedInduction, TLAPS

---------------------------------------------------------------------------
(* What writes leave in an output.                                         *)

\* The largest number of a set is one of them.
LEMMA MaxOf ==
  ASSUME NEW n \in Nat, NEW S \in SUBSET (1..n), S # {}
  PROVE  Max(S) \in S /\ \A i \in S : i <= Max(S)
<1> DEFINE T == {n - i : i \in S}
<1>1. T \subseteq Nat /\ T # {}
  <2>1. \A i \in S : i \in 1..n
    OBVIOUS
  <2>2. \A i \in 1..n : n - i \in Nat
    OBVIOUS
  <2> QED
    BY <2>1, <2>2
<1> HIDE DEF T
<1>2. PICK k \in T : \A j \in T : <<j, k>> \notin OpToRel(<, Nat)
  BY <1>1, WFMin, NatLessThanWellFounded, Zenon
<1>3. \A j \in T : ~(j < k)
  BY <1>1, <1>2 DEF OpToRel
<1>4. PICK m \in S : k = n - m
  BY DEF T
<1>5. \A i \in S : n - i \in T /\ i \in Int
  BY DEF T
<1>6. \A i \in S : m >= i
  BY <1>3, <1>4, <1>5
<1> QED
  BY <1>6 DEF Max

WritesTo(ws, x) == {i \in DOMAIN ws : ws[i].to = x}

LEMMA LastExists ==
  ASSUME NEW ws \in Seq(AllWrites), NEW x, WritesTo(ws, x) # {}
  PROVE  \E i \in WritesTo(ws, x) : \A j \in WritesTo(ws, x) : j <= i
<1>1. WritesTo(ws, x) \in SUBSET (1..Len(ws)) /\ Len(ws) \in Nat
  BY DEF WritesTo
<1>2. /\ Max(WritesTo(ws, x)) \in WritesTo(ws, x)
      /\ \A j \in WritesTo(ws, x) : j <= Max(WritesTo(ws, x))
  BY <1>1, MaxOf, Zenon
<1> QED
  BY <1>2

LEMMA LastWrite ==
  ASSUME NEW ws \in Seq(AllWrites), NEW x, NEW old,
         NEW i \in WritesTo(ws, x), \A j \in WritesTo(ws, x) : j <= i
  PROVE  Left(ws, x, old) = ws[i].v
<1>1. WritesTo(ws, x) \in SUBSET (1..Len(ws)) /\ Len(ws) \in Nat
  BY DEF WritesTo
<1>2. Max(WritesTo(ws, x)) \in WritesTo(ws, x) /\ i <= Max(WritesTo(ws, x))
  BY <1>1, MaxOf, Zenon
<1>3. Max(WritesTo(ws, x)) = i
  BY <1>1, <1>2
<1> QED
  BY <1>3 DEF Left, WritesTo

LEMMA NoWrite ==
  ASSUME NEW ws, NEW x, NEW old, WritesTo(ws, x) = {}
  PROVE  Left(ws, x, old) = old
BY DEF Left, WritesTo

\* Writes leave what the first of them and then the others leave, ...
LEMMA LeftTail ==
  ASSUME NEW ws \in Seq(AllWrites), ws # <<>>, NEW x, NEW old
  PROVE  Left(ws, x, old)
           = Left(Tail(ws), x, IF Head(ws).to = x THEN Head(ws).v ELSE old)
<1>1. /\ Tail(ws) \in Seq(AllWrites) /\ Len(ws) \in Nat
      /\ DOMAIN ws = 1..Len(ws) /\ DOMAIN Tail(ws) = 1..(Len(ws) - 1)
      /\ \A i \in 1..(Len(ws) - 1) : Tail(ws)[i] = ws[i + 1]
      /\ Head(ws) = ws[1] /\ Len(ws) >= 1
  OBVIOUS
<1>2. CASE WritesTo(Tail(ws), x) = {}
  <2>1. \A i \in WritesTo(ws, x) : i = 1
    <3> SUFFICES ASSUME NEW i \in WritesTo(ws, x), i # 1 PROVE FALSE
      OBVIOUS
    <3>1. i \in 2..Len(ws) /\ ws[i].to = x
      BY <1>1 DEF WritesTo
    <3>2. PICK k \in 1..(Len(ws) - 1) : i = k + 1
      BY <1>1, <3>1
    <3> QED
      BY <1>1, <1>2, <3>1, <3>2 DEF WritesTo
  <2>2. CASE Head(ws).to = x
    <3>1. 1 \in WritesTo(ws, x)
      BY <1>1, <2>2 DEF WritesTo
    <3> QED
      BY <1>1, <1>2, <2>1, <2>2, <3>1, LastWrite, NoWrite
  <2>3. CASE Head(ws).to # x
    <3>1. WritesTo(ws, x) = {}
      BY <1>1, <2>1, <2>3 DEF WritesTo
    <3> QED
      BY <1>2, <2>3, <3>1, NoWrite
  <2> QED
    BY <2>2, <2>3
<1>3. CASE WritesTo(Tail(ws), x) # {}
  <2>1. PICK i \in WritesTo(Tail(ws), x) : \A j \in WritesTo(Tail(ws), x) : j <= i
    BY <1>1, <1>3, LastExists
  <2>2. i \in 1..(Len(ws) - 1) /\ Tail(ws)[i].to = x /\ Tail(ws)[i] = ws[i + 1]
    BY <1>1, <2>1 DEF WritesTo
  <2>3. i + 1 \in WritesTo(ws, x)
    BY <1>1, <2>2 DEF WritesTo
  <2>4. ASSUME NEW j \in WritesTo(ws, x) PROVE j <= i + 1
    <3>1. j \in 1..Len(ws) /\ ws[j].to = x
      BY <1>1 DEF WritesTo
    <3>2. CASE j = 1
      BY <2>2, <3>2
    <3>3. CASE j # 1
      <4>1. PICK k \in 1..(Len(ws) - 1) : j = k + 1
        BY <1>1, <3>1, <3>3
      <4>2. k \in WritesTo(Tail(ws), x)
        BY <1>1, <3>1, <4>1 DEF WritesTo
      <4> QED
        BY <2>1, <2>2, <3>1, <4>1, <4>2
    <3> QED
      BY <3>2, <3>3
  <2>5. Left(ws, x, old) = ws[i + 1].v
    BY <2>3, <2>4, LastWrite
  <2>6. Left(Tail(ws), x, IF Head(ws).to = x THEN Head(ws).v ELSE old)
          = Tail(ws)[i].v
    BY <1>1, <2>1, LastWrite
  <2> QED
    BY <2>2, <2>5, <2>6
<1> QED
  BY <1>2, <1>3

LEMMA TailWrites ==
  ASSUME NEW ws \in Seq(AllWrites), ws # <<>>, NEW x, WritesTo(ws, x) = {}
  PROVE  WritesTo(Tail(ws), x) = {} /\ Head(ws).to # x
<1>1. /\ DOMAIN Tail(ws) = 1..(Len(ws) - 1) /\ Len(ws) \in Nat /\ Len(ws) >= 1
      /\ \A k \in 1..(Len(ws) - 1) : Tail(ws)[k] = ws[k + 1]
      /\ \A k \in 1..(Len(ws) - 1) : k + 1 \in DOMAIN ws
      /\ 1 \in DOMAIN ws /\ Head(ws) = ws[1]
  OBVIOUS
<1> QED
  BY <1>1 DEF WritesTo

\* ... and one part of them and then the other.
LEMMA ConcatWrites ==
  ASSUME NEW ws \in Seq(AllWrites), NEW us \in Seq(AllWrites), NEW x,
         NEW j \in WritesTo(ws \o us, x)
  PROVE  \/ j \in WritesTo(ws, x)
         \/ j > Len(ws) /\ j - Len(ws) \in WritesTo(us, x)
<1>1. /\ ws \o us \in Seq(AllWrites)
      /\ DOMAIN ws = 1..Len(ws) /\ DOMAIN us = 1..Len(us)
      /\ Len(ws) \in Nat /\ Len(us) \in Nat
      /\ DOMAIN (ws \o us) = 1..(Len(ws) + Len(us))
      /\ \A i \in 1..Len(ws) : (ws \o us)[i] = ws[i]
      /\ \A i \in 1..Len(us) : (ws \o us)[Len(ws) + i] = us[i]
  OBVIOUS
<1>2. j \in 1..(Len(ws) + Len(us)) /\ (ws \o us)[j].to = x
  BY <1>1 DEF WritesTo
<1>3. CASE j <= Len(ws)
  <2>1. j \in 1..Len(ws)
    BY <1>1, <1>2, <1>3
  <2>2. (ws \o us)[j] = ws[j]
    BY <1>1, <2>1
  <2>3. j \in DOMAIN ws /\ ws[j].to = x
    BY <1>1, <1>2, <2>1, <2>2, Zenon
  <2> QED
    BY <2>3, Zenon DEF WritesTo
<1>4. CASE j > Len(ws)
  <2>1. PICK k \in 1..Len(us) : j = Len(ws) + k
    <3>1. j - Len(ws) \in 1..Len(us) /\ j = Len(ws) + (j - Len(ws))
      BY <1>1, <1>2, <1>4
    <3> QED
      BY <3>1
  <2>2. j - Len(ws) = k
    BY <1>1, <2>1
  <2> QED
    BY <1>1, <1>2, <1>4, <2>1, <2>2 DEF WritesTo
<1> QED
  BY <1>1, <1>2, <1>3, <1>4

LEMMA LeftConcat ==
  ASSUME NEW ws \in Seq(AllWrites), NEW us \in Seq(AllWrites), NEW x, NEW old
  PROVE  Left(ws \o us, x, old) = Left(us, x, Left(ws, x, old))
<1>1. /\ ws \o us \in Seq(AllWrites)
      /\ DOMAIN ws = 1..Len(ws) /\ DOMAIN us = 1..Len(us)
      /\ Len(ws) \in Nat /\ Len(us) \in Nat
      /\ DOMAIN (ws \o us) = 1..(Len(ws) + Len(us))
      /\ \A i \in 1..Len(ws) : (ws \o us)[i] = ws[i]
      /\ \A i \in 1..Len(us) : (ws \o us)[Len(ws) + i] = us[i]
  OBVIOUS
<1>2. \A j \in WritesTo(ws \o us, x) :
        \/ j \in WritesTo(ws, x)
        \/ j > Len(ws) /\ j - Len(ws) \in WritesTo(us, x)
  BY ConcatWrites
<1>3. CASE WritesTo(us, x) # {}
  <2>1. PICK i \in WritesTo(us, x) : \A j \in WritesTo(us, x) : j <= i
    BY <1>3, LastExists
  <2>2. i \in 1..Len(us) /\ us[i].to = x
    BY <1>1, <2>1 DEF WritesTo
  <2>3. Len(ws) + i \in WritesTo(ws \o us, x) /\ (ws \o us)[Len(ws) + i] = us[i]
    <3>1. Len(ws) + i \in 1..(Len(ws) + Len(us))
      BY <1>1, <2>2
    <3> QED
      BY <1>1, <2>2, <3>1 DEF WritesTo
  <2>4. \A j \in WritesTo(ws, x) : j \in 1..Len(ws)
    BY <1>1 DEF WritesTo
  <2>5. \A j \in WritesTo(ws \o us, x) : j \in Nat
    BY <1>1 DEF WritesTo
  <2>6. \A j \in WritesTo(ws \o us, x) : j <= Len(ws) + i
    BY <1>1, <1>2, <2>1, <2>2, <2>4, <2>5
  <2>7. Left(ws \o us, x, old) = (ws \o us)[Len(ws) + i].v
    BY <1>1, <2>3, <2>6, LastWrite, Zenon
  <2> QED
    BY <2>1, <2>3, <2>7, LastWrite
<1>4. CASE WritesTo(us, x) = {} /\ WritesTo(ws, x) # {}
  <2>1. PICK i \in WritesTo(ws, x) : \A j \in WritesTo(ws, x) : j <= i
    BY <1>4, LastExists
  <2>2. i \in 1..Len(ws) /\ ws[i].to = x
    BY <1>1, <2>1 DEF WritesTo
  <2>3. i \in WritesTo(ws \o us, x) /\ (ws \o us)[i] = ws[i]
    BY <1>1, <2>2 DEF WritesTo
  <2>4. \A j \in WritesTo(ws \o us, x) : j <= i
    BY <1>2, <1>4, <2>1
  <2>5. Left(ws \o us, x, old) = (ws \o us)[i].v
    BY <1>1, <2>3, <2>4, LastWrite, Zenon
  <2> QED
    BY <1>4, <2>1, <2>3, <2>5, LastWrite, NoWrite
<1>5. CASE WritesTo(us, x) = {} /\ WritesTo(ws, x) = {}
  <2>1. WritesTo(ws \o us, x) = {}
    BY <1>2, <1>5
  <2> QED
    BY <1>5, <2>1, NoWrite
<1> QED
  BY <1>3, <1>4, <1>5

\* It is a value of the output.
LEMMA LeftValue ==
  ASSUME NEW ws \in Seq(AllWrites), NEW x \in Outputs, NEW old \in Value(x)
  PROVE  Left(ws, x, old) \in Value(x)
<1>1. CASE WritesTo(ws, x) = {}
  BY <1>1, NoWrite
<1>2. CASE WritesTo(ws, x) # {}
  <2>1. PICK i \in WritesTo(ws, x) : \A j \in WritesTo(ws, x) : j <= i
    BY <1>2, LastExists
  <2>2. ws[i] \in AllWrites /\ ws[i].to = x
    BY DEF WritesTo
  <2> QED
    BY <2>1, <2>2, LastWrite DEF AllWrites
<1> QED
  BY <1>1, <1>2

---------------------------------------------------------------------------
(* What the calls leave.                                                   *)

Motors == {"brakeA", "brakeB", "dirA", "dirB", "dutyA", "dutyB"}
Boards == {o \in [Outputs -> 0..1000] : \A x \in Outputs : o[x] \in Value(x)}

\* The movement the writes make of any board; none of them is to the beeper.
Makes(ws, move) ==
  /\ \A o \in Boards :
       /\ Moves(After(o, ws)) = move
       /\ move = <<0, 0>> =>
            \A ch \in Channels : After(o, ws)[ch] = 0
  /\ WritesTo(ws, "buzzer") = {} /\ WritesTo(ws, Enable) = {}

MotorCalls ==
  {c \in [motor : {TRUE}, move : Int \X Int, writes : Seq(AllWrites)] :
     Makes(c.writes, c.move)}
OtherWrites == {ws \in Seq(AllWrites) : \A x \in Motors : WritesTo(ws, x) = {}}
OtherCalls == [motor : {FALSE}, move : {<<0, 0>>}, writes : OtherWrites]
AllCalls == MotorCalls \cup OtherCalls

\* A write that is the only one to its output stays.
LEMMA OnlyWrite ==
  ASSUME NEW ws \in Seq(AllWrites), NEW i \in DOMAIN ws, NEW old,
         \A j \in DOMAIN ws : ws[j].to = ws[i].to => j = i
  PROVE  Left(ws, ws[i].to, old) = ws[i].v
<1>1. i \in WritesTo(ws, ws[i].to)
  BY DEF WritesTo
<1>2. \A j \in WritesTo(ws, ws[i].to) : j <= i
  BY DEF WritesTo
<1> QED
  BY <1>1, <1>2, LastWrite

LEMMA Names ==
  /\ \A x \in Pins : x \in Outputs /\ Value(x) = Bit
  /\ \A x \in Channels : x \in Outputs /\ Value(x) = 0..1000
  /\ Enable \in Outputs /\ Value(Enable) = Bit
  /\ Motors \subseteq Outputs
BY DEF Outputs, Pins, P02, P10, Channels, Enable, Motors, Value

LEMMA StopLeaves ==
  /\ StopWrites \in Seq(AllWrites)
  /\ \A x, old : Left(StopWrites, x, old)
                 = IF x \in {"brakeA", "brakeB"} THEN 1
                   ELSE IF x \in Channels THEN 0 ELSE old
<1>1. /\ Set("brakeA", 1) \in AllWrites /\ Set("brakeB", 1) \in AllWrites
      /\ Set("dutyA", 0) \in AllWrites /\ Set("dutyB", 0) \in AllWrites
  BY DEF Set, AllWrites, Value, Bit, Outputs, Pins, P02, P10, Channels, Enable
<1>2. StopWrites \in Seq(AllWrites) /\ DOMAIN StopWrites = 1..4
  BY <1>1 DEF StopWrites
<1>3. /\ StopWrites[1].to = "brakeA" /\ StopWrites[1].v = 1
      /\ StopWrites[2].to = "brakeB" /\ StopWrites[2].v = 1
      /\ StopWrites[3].to = "dutyA" /\ StopWrites[3].v = 0
      /\ StopWrites[4].to = "dutyB" /\ StopWrites[4].v = 0
  BY DEF StopWrites, Set
<1> SUFFICES ASSUME NEW x, NEW old
             PROVE  Left(StopWrites, x, old)
                      = IF x \in {"brakeA", "brakeB"} THEN 1
                        ELSE IF x \in Channels THEN 0 ELSE old
  BY <1>2
<1>4. \A i \in 1..4 : Left(StopWrites, StopWrites[i].to, old) = StopWrites[i].v
  BY <1>2, <1>3, OnlyWrite
<1>5. CASE x \notin {"brakeA", "brakeB", "dutyA", "dutyB"}
  <2>1. WritesTo(StopWrites, x) = {}
    BY <1>2, <1>3, <1>5 DEF WritesTo
  <2> QED
    BY <1>5, <2>1, NoWrite DEF Channels
<1> QED
  BY <1>3, <1>4, <1>5 DEF Channels

LEMMA StraightLeaves ==
  ASSUME NEW duty \in 0..1000, NEW dir \in Bit, NEW ws \in {MoveStraight(duty, dir)}
  PROVE  /\ ws \in Seq(AllWrites)
         /\ \A old : Left(ws, "dirA", old) = dir /\ Left(ws, "dirB", old) = dir
         /\ \A old : Left(ws, "brakeA", old) = 0 /\ Left(ws, "brakeB", old) = 0
         /\ \A old : Left(ws, "dutyA", old) = duty /\ Left(ws, "dutyB", old) = duty
<1>1. /\ Set("dirA", dir) \in AllWrites /\ Set("dirB", dir) \in AllWrites
      /\ Set("brakeA", 0) \in AllWrites /\ Set("brakeB", 0) \in AllWrites
      /\ Set("dutyA", duty) \in AllWrites /\ Set("dutyB", duty) \in AllWrites
  BY DEF Set, AllWrites, Value, Bit, Outputs, Pins, P02, P10, Channels, Enable
<1>2. ws \in Seq(AllWrites) /\ DOMAIN ws = 1..6
  <2>1. ws = MoveStraight(duty, dir)
    OBVIOUS
  <2> QED
    BY <1>1, <2>1 DEF MoveStraight
<1>3. /\ ws[1].to = "dirA" /\ ws[1].v = dir /\ ws[2].to = "dirB" /\ ws[2].v = dir
      /\ ws[3].to = "brakeA" /\ ws[3].v = 0 /\ ws[4].to = "brakeB" /\ ws[4].v = 0
      /\ ws[5].to = "dutyA" /\ ws[5].v = duty
      /\ ws[6].to = "dutyB" /\ ws[6].v = duty
  BY DEF MoveStraight, Set
<1>4. \A i, j \in 1..6 : ws[j].to = ws[i].to => j = i
  BY <1>3
<1>5. \A i \in 1..6 : \A old : Left(ws, ws[i].to, old) = ws[i].v
  BY <1>2, <1>4, OnlyWrite
<1> QED
  BY <1>2, <1>3, <1>5

IsMov(ws, ch, duty, dir) == ws = MovChPwm(ch, duty, dir)
Turns(ws, ch, duty, dir) ==
  /\ ws \in Seq(AllWrites)
  /\ \A old : Left(ws, Duty[ch], old) = duty
  /\ \A old : Left(ws, DirOf[ch], old) = dir
  /\ \A old : Left(ws, Brake[ch], old) = 0
  /\ \A x : x \notin {Duty[ch], DirOf[ch], Brake[ch]} => WritesTo(ws, x) = {}

LEMMA MovLeaves ==
  ASSUME NEW ch \in {"A", "B"}, NEW duty \in 0..1000, NEW dir \in Bit,
         NEW ws, IsMov(ws, ch, duty, dir)
  PROVE  Turns(ws, ch, duty, dir)
<1>1. /\ Set(Duty[ch], duty) \in AllWrites /\ Set(DirOf[ch], dir) \in AllWrites
      /\ Set(Brake[ch], 0) \in AllWrites
      /\ Duty[ch] # DirOf[ch] /\ Duty[ch] # Brake[ch] /\ DirOf[ch] # Brake[ch]
  BY DEF Set, AllWrites, Value, Bit, Outputs, Pins, P02, P10, Channels, Enable,
     Duty, DirOf, Brake
<1>2. ws \in Seq(AllWrites) /\ DOMAIN ws = 1..3
  BY <1>1 DEF MovChPwm, IsMov
<1>3. /\ ws[1].to = Duty[ch] /\ ws[1].v = duty
      /\ ws[2].to = DirOf[ch] /\ ws[2].v = dir
      /\ ws[3].to = Brake[ch] /\ ws[3].v = 0
  BY DEF MovChPwm, IsMov, Set
<1>4. \A i \in 1..3 : \A old : Left(ws, ws[i].to, old) = ws[i].v
  <2>1. \A i, j \in 1..3 : ws[j].to = ws[i].to => j = i
    BY <1>1, <1>3
  <2> QED
    BY <1>2, <2>1, OnlyWrite
<1>5. \A x : x \notin {Duty[ch], DirOf[ch], Brake[ch]} => WritesTo(ws, x) = {}
  BY <1>2, <1>3 DEF WritesTo
<1> QED
  BY <1>2, <1>3, <1>4, <1>5 DEF Turns

LEMMA OneLeaves ==
  ASSUME NEW w \in AllWrites
  PROVE  /\ <<w>> \in Seq(AllWrites)
         /\ \A x, old : Left(<<w>>, x, old) = IF x = w.to THEN w.v ELSE old
<1>1. <<w>> \in Seq(AllWrites) /\ DOMAIN <<w>> = {1} /\ <<w>>[1] = w
  OBVIOUS
<1>2. ASSUME NEW x, NEW old
      PROVE  Left(<<w>>, x, old) = IF x = w.to THEN w.v ELSE old
  <2>1. CASE x = w.to
    BY <1>1, <2>1, OnlyWrite
  <2>2. CASE x # w.to
    <3>1. WritesTo(<<w>>, x) = {}
      BY <1>1, <2>2 DEF WritesTo
    <3> QED
      BY <2>2, <3>1, NoWrite
  <2> QED
    BY <2>1, <2>2
<1> QED
  BY <1>1, <1>2

LEMMA AfterType ==
  ASSUME NEW o \in Boards, NEW ws \in Seq(AllWrites)
  PROVE  /\ After(o, ws) \in Boards
         /\ \A x \in Outputs : After(o, ws)[x] = Left(ws, x, o[x])
<1>1. DOMAIN o = Outputs /\ \A x \in Outputs : o[x] \in Value(x)
  BY DEF Boards
<1>2. \A x \in Outputs : Left(ws, x, o[x]) \in Value(x)
  BY <1>1, LeftValue, Zenon
<1>3. \A x \in Outputs : Left(ws, x, o[x]) \in 0..1000
  <2>1. \A x \in Outputs : Value(x) \subseteq 0..1000
    BY DEF Value, Bit
  <2> QED
    BY <1>2, <2>1, Zenon
<1>4. After(o, ws) = [x \in Outputs |-> Left(ws, x, o[x])]
  BY <1>1, Zenon DEF After
<1>5. \A x \in Outputs : After(o, ws)[x] = Left(ws, x, o[x])
  BY <1>4, Zenon
<1>6. After(o, ws) \in [Outputs -> 0..1000]
  <2>1. [x \in Outputs |-> Left(ws, x, o[x])] \in [Outputs -> 0..1000]
    BY <1>3, Zenon
  <2> QED
    BY <1>4, <2>1, Zenon
<1>7. \A x \in Outputs : After(o, ws)[x] \in Value(x)
  BY <1>2, <1>5, Zenon
<1> QED
  BY <1>5, <1>6, <1>7, Zenon DEF Boards

\* The wheels turn as the outputs of the motor say, ...
LEMMA WheelValues ==
  ASSUME NEW o
  PROVE  Moves(o) =
           <<IF o["brakeA"] = 1 THEN 0
             ELSE IF o["dirA"] = 1 THEN o["dutyA"] ELSE -o["dutyA"],
             IF o["brakeB"] = 1 THEN 0
             ELSE IF o["dirB"] = 1 THEN o["dutyB"] ELSE -o["dutyB"]>>
BY DEF Moves, Wheel, Brake, DirOf, Duty

\* ... and as nothing else does.
LEMMA MovesOfMotors ==
  ASSUME NEW o, NEW p, \A x \in Motors : o[x] = p[x]
  PROVE  Moves(o) = Moves(p)
BY WheelValues DEF Motors

LEMMA StopMakes == motorStop \in MotorCalls
<1>1. ASSUME NEW o \in Boards
      PROVE  /\ Moves(After(o, StopWrites)) = <<0, 0>>
             /\ \A ch \in Channels : After(o, StopWrites)[ch] = 0
  <2>1. \A x \in Outputs : After(o, StopWrites)[x] = Left(StopWrites, x, o[x])
    BY AfterType, StopLeaves
  <2>2. /\ After(o, StopWrites)["brakeA"] = 1 /\ After(o, StopWrites)["brakeB"] = 1
        /\ \A ch \in Channels : After(o, StopWrites)[ch] = 0
    BY <2>1, StopLeaves, Names DEF Motors, Channels
  <2> QED
    BY <2>2, WheelValues
<1>2. WritesTo(StopWrites, "buzzer") = {} /\ WritesTo(StopWrites, Enable) = {}
  BY DEF WritesTo, StopWrites, Set, Enable
<1> QED
  BY <1>1, <1>2, StopLeaves DEF MotorCalls, Makes, motorStop, MotorCall

LEMMA StraightMakes ==
  ASSUME NEW duty \in 0..1000
  PROVE  motorMoveForward(duty) \in MotorCalls /\ motorMoveReverse(duty) \in MotorCalls
<1>1. ASSUME NEW dir \in Bit, NEW move \in Int \X Int,
             move = (IF dir = 1 THEN <<duty, duty>> ELSE <<-duty, -duty>>)
      PROVE  MotorCall(move, MoveStraight(duty, dir)) \in MotorCalls
  <2> PICK ws \in {MoveStraight(duty, dir)} : TRUE
    OBVIOUS
  <2>1. /\ ws \in Seq(AllWrites)
        /\ \A old : Left(ws, "dirA", old) = dir /\ Left(ws, "dirB", old) = dir
        /\ \A old : Left(ws, "brakeA", old) = 0 /\ Left(ws, "brakeB", old) = 0
        /\ \A old : Left(ws, "dutyA", old) = duty /\ Left(ws, "dutyB", old) = duty
    BY StraightLeaves, Zenon
  <2>2. ASSUME NEW o \in Boards
        PROVE  /\ Moves(After(o, ws)) = move
               /\ move = <<0, 0>> => \A ch \in Channels : After(o, ws)[ch] = 0
    <3>1. \A x \in Motors : After(o, ws)[x] = Left(ws, x, o[x])
      BY <2>1, AfterType, Names
    <3>2. /\ After(o, ws)["brakeA"] = 0 /\ After(o, ws)["brakeB"] = 0
          /\ After(o, ws)["dirA"] = dir /\ After(o, ws)["dirB"] = dir
          /\ \A ch \in Channels : After(o, ws)[ch] = duty
      BY <2>1, <3>1 DEF Motors, Channels
    <3>3. Moves(After(o, ws)) = move
      BY <1>1, <3>2, WheelValues DEF Channels
    <3> QED
      BY <1>1, <3>2, <3>3
  <2>4. ws = MoveStraight(duty, dir)
    OBVIOUS
  <2>3. WritesTo(ws, "buzzer") = {} /\ WritesTo(ws, Enable) = {}
    BY <2>4 DEF WritesTo, MoveStraight, Set, Enable
  <2> QED
    BY <1>1, <2>4, <2>1, <2>2, <2>3, Zenon DEF MotorCalls, Makes, MotorCall
<1> QED
  BY <1>1 DEF motorMoveForward, motorMoveReverse, Bit

\* The two channels, one after the other.
Signed(duty, dir) == IF dir = 1 THEN duty ELSE -duty

IsPair(ws, dutyA, dirA, dutyB, dirB) ==
  /\ dutyA \in 0..1000 /\ dirA \in Bit /\ dutyB \in 0..1000 /\ dirB \in Bit
  /\ \/ ws = MovChPwm("A", dutyA, dirA) \o MovChPwm("B", dutyB, dirB)
     \/ ws = MovChPwm("B", dutyB, dirB) \o MovChPwm("A", dutyA, dirA)

LEMMA PairMakes ==
  ASSUME NEW dutyA, NEW dirA, NEW dutyB, NEW dirB,
         NEW ws, IsPair(ws, dutyA, dirA, dutyB, dirB)
  PROVE  MotorCall(<<Signed(dutyA, dirA), Signed(dutyB, dirB)>>, ws) \in MotorCalls
<1> DEFINE move == <<Signed(dutyA, dirA), Signed(dutyB, dirB)>>
<1>0. dutyA \in 0..1000 /\ dirA \in Bit /\ dutyB \in 0..1000 /\ dirB \in Bit
  BY DEF IsPair
<1>1. PICK a, b : /\ IsMov(a, "A", dutyA, dirA) /\ IsMov(b, "B", dutyB, dirB)
                  /\ ws = a \o b \/ ws = b \o a
  BY DEF IsPair, IsMov
<1>2. /\ Duty["A"] = "dutyA" /\ DirOf["A"] = "dirA" /\ Brake["A"] = "brakeA"
      /\ Duty["B"] = "dutyB" /\ DirOf["B"] = "dirB" /\ Brake["B"] = "brakeB"
  BY DEF Duty, DirOf, Brake
<1>3. /\ a \in Seq(AllWrites)
      /\ \A old : Left(a, "dutyA", old) = dutyA
      /\ \A old : Left(a, "dirA", old) = dirA
      /\ \A old : Left(a, "brakeA", old) = 0
      /\ \A x : x \notin {"dutyA", "dirA", "brakeA"} => WritesTo(a, x) = {}
  <2>1. PICK ch \in {"A", "B"} : ch = "A"
    OBVIOUS
  <2>2. IsMov(a, ch, dutyA, dirA)
    BY <1>1, <2>1
  <2>3. Turns(a, ch, dutyA, dirA)
    BY <1>0, <2>2, MovLeaves, Zenon
  <2> QED
    BY <1>2, <2>1, <2>3 DEF Turns
<1>4. /\ b \in Seq(AllWrites)
      /\ \A old : Left(b, "dutyB", old) = dutyB
      /\ \A old : Left(b, "dirB", old) = dirB
      /\ \A old : Left(b, "brakeB", old) = 0
      /\ \A x : x \notin {"dutyB", "dirB", "brakeB"} => WritesTo(b, x) = {}
  <2>1. PICK ch \in {"A", "B"} : ch = "B"
    OBVIOUS
  <2>2. IsMov(b, ch, dutyB, dirB)
    BY <1>1, <2>1
  <2>3. Turns(b, ch, dutyB, dirB)
    BY <1>0, <2>2, MovLeaves, Zenon
  <2> QED
    BY <1>2, <2>1, <2>3 DEF Turns
<1>5. ws \in Seq(AllWrites)
  <2>1. a \in Seq(AllWrites) /\ b \in Seq(AllWrites)
    BY <1>3, <1>4
  <2>2. CASE ws = a \o b
    BY <2>1, <2>2
  <2>3. CASE ws = b \o a
    BY <2>1, <2>3
  <2> QED
    BY <1>1, <2>2, <2>3
<1>6. WritesTo(ws, "buzzer") = {} /\ WritesTo(ws, Enable) = {}
  <2>1. \A x \in {"buzzer", Enable} : WritesTo(a, x) = {} /\ WritesTo(b, x) = {}
    BY <1>3, <1>4 DEF Enable
  <2> QED
    BY <1>1, <1>3, <1>4, <2>1, ConcatWrites
<1>7. ASSUME NEW o \in Boards
      PROVE  /\ Moves(After(o, ws)) = move
             /\ move = <<0, 0>> => \A ch \in Channels : After(o, ws)[ch] = 0
  <2>1. \A x \in Motors : \/ After(o, ws)[x] = Left(b, x, Left(a, x, o[x]))
                          \/ After(o, ws)[x] = Left(a, x, Left(b, x, o[x]))
    <3>1. \A x \in Motors : After(o, ws)[x] = Left(ws, x, o[x])
      BY <1>5, AfterType, Names
    <3>2. a \in Seq(AllWrites) /\ b \in Seq(AllWrites)
      BY <1>3, <1>4
    <3>3. \A x, old : /\ Left(a \o b, x, old) = Left(b, x, Left(a, x, old))
                      /\ Left(b \o a, x, old) = Left(a, x, Left(b, x, old))
      BY <3>2, LeftConcat
    <3>4. CASE ws = a \o b
      BY <3>1, <3>3, <3>4, Zenon
    <3>5. CASE ws = b \o a
      BY <3>1, <3>3, <3>5, Zenon
    <3> QED
      BY <1>1, <3>4, <3>5
  <2>2. \A old : /\ Left(b, "dutyA", old) = old /\ Left(b, "dirA", old) = old
                 /\ Left(b, "brakeA", old) = old
    <3>1. \A x \in {"dutyA", "dirA", "brakeA"} : WritesTo(b, x) = {}
      BY <1>4
    <3> QED
      BY <3>1, NoWrite
  <2>3. \A old : /\ Left(a, "dutyB", old) = old /\ Left(a, "dirB", old) = old
                 /\ Left(a, "brakeB", old) = old
    <3>1. \A x \in {"dutyB", "dirB", "brakeB"} : WritesTo(a, x) = {}
      BY <1>3
    <3> QED
      BY <3>1, NoWrite
  <2>4. /\ After(o, ws)["brakeA"] = 0 /\ After(o, ws)["brakeB"] = 0
        /\ After(o, ws)["dirA"] = dirA /\ After(o, ws)["dirB"] = dirB
        /\ After(o, ws)["dutyA"] = dutyA /\ After(o, ws)["dutyB"] = dutyB
    BY <1>3, <1>4, <2>1, <2>2, <2>3 DEF Motors
  <2>5. Moves(After(o, ws)) = move
    BY <1>0, <2>4, WheelValues DEF Signed, Bit
  <2> QED
    BY <1>0, <2>4, <2>5 DEF Channels, Signed
<1>8. move \in Int \X Int
  BY <1>0 DEF Signed
<1> QED
  BY <1>5, <1>6, <1>7, <1>8 DEF MotorCalls, Makes, MotorCall

\* One channel turns, the other is braked.
LEMMA BrakedMakes ==
  ASSUME NEW ch \in {"A", "B"}, NEW oc \in {"A", "B"}, ch # oc,
         NEW duty \in 1..1000, NEW a, IsMov(a, ch, duty, 0),
         NEW ws, ws = a \o StopCh(oc)
  PROVE  MotorCall(IF ch = "A" THEN <<-duty, 0>> ELSE <<0, -duty>>, ws)
           \in MotorCalls
<1> DEFINE move == IF ch = "A" THEN <<-duty, 0>> ELSE <<0, -duty>>
           b == StopCh(oc)
<1>1. /\ Duty["A"] = "dutyA" /\ DirOf["A"] = "dirA" /\ Brake["A"] = "brakeA"
      /\ Duty["B"] = "dutyB" /\ DirOf["B"] = "dirB" /\ Brake["B"] = "brakeB"
  BY DEF Duty, DirOf, Brake
<1>2. Turns(a, ch, duty, 0)
  <2>1. 0 \in Bit /\ duty \in 0..1000
    BY DEF Bit
  <2> QED
    BY <2>1, MovLeaves, Zenon
<1>3. /\ b \in Seq(AllWrites)
      /\ \A x, old : Left(b, x, old) = IF x = Brake[oc] THEN 1 ELSE old
      /\ \A x : x # Brake[oc] => WritesTo(b, x) = {}
  <2>1. Set(Brake[oc], 1) \in AllWrites
    BY <1>1 DEF Set, AllWrites, Value, Bit, Outputs, Pins, P02, P10, Channels, Enable
  <2>2. Set(Brake[oc], 1).to = Brake[oc] /\ Set(Brake[oc], 1).v = 1
    BY DEF Set
  <2>3. /\ <<Set(Brake[oc], 1)>> \in Seq(AllWrites)
        /\ \A x, old : Left(<<Set(Brake[oc], 1)>>, x, old)
                       = IF x = Set(Brake[oc], 1).to THEN Set(Brake[oc], 1).v
                         ELSE old
    BY <2>1, OneLeaves, Zenon
  <2>4. \A x : x # Brake[oc] => WritesTo(<<Set(Brake[oc], 1)>>, x) = {}
    BY <2>2 DEF WritesTo
  <2> QED
    BY <2>2, <2>3, <2>4 DEF StopCh
<1> HIDE DEF b
<1>4. ws = a \o b /\ a \in Seq(AllWrites) /\ ws \in Seq(AllWrites)
  BY <1>2, <1>3 DEF Turns, b
<1>5. WritesTo(ws, "buzzer") = {} /\ WritesTo(ws, Enable) = {}
  <2>1. \A x \in {"buzzer", Enable} : WritesTo(a, x) = {} /\ WritesTo(b, x) = {}
    BY <1>1, <1>2, <1>3 DEF Enable, Turns
  <2> QED
    BY <1>3, <1>4, <2>1, ConcatWrites
<1>6. ASSUME NEW o \in Boards PROVE Moves(After(o, ws)) = move
  <2>1. \A x \in Motors : After(o, ws)[x] = Left(b, x, Left(a, x, o[x]))
    <3>1. \A x \in Motors : After(o, ws)[x] = Left(ws, x, o[x])
      BY <1>4, AfterType, Names, Zenon
    <3>2. \A x, old : Left(a \o b, x, old) = Left(b, x, Left(a, x, old))
      BY <1>3, <1>4, LeftConcat
    <3> QED
      BY <1>4, <3>1, <3>2, Zenon
  <2>2. /\ After(o, ws)[Brake[ch]] = 0 /\ After(o, ws)[DirOf[ch]] = 0
        /\ After(o, ws)[Duty[ch]] = duty /\ After(o, ws)[Brake[oc]] = 1
    BY <1>1, <1>2, <1>3, <2>1 DEF Motors, Turns
  <2> QED
    BY <1>1, <2>2, WheelValues
<1>7. move \in Int \X Int /\ move # <<0, 0>>
  OBVIOUS
<1> QED
  BY <1>4, <1>5, <1>6, <1>7, Zenon DEF MotorCalls, Makes, MotorCall

LEMMA DriveMakes ==
  ASSUME NEW dir \in (1..9) \ {STOP}, NEW duty \in 1..1000
  PROVE  MotorCall(Movement(dir, duty), DriveWrites(dir, duty)) \in MotorCalls
<1>1. /\ duty \in 0..1000 /\ InnerDuty(duty) \in 0..1000
      /\ 0 \in Bit /\ 1 \in Bit /\ InnerDuty(duty) = duty \div 3
      /\ \A d : Signed(d, 1) = d /\ Signed(d, 0) = -d
  BY DEF InnerDuty, Bit, Signed
<1>4. CASE dir = 8
  <2>1. IsPair(DriveWrites(dir, duty), duty, 1, duty, 1)
    BY <1>1, <1>4 DEF IsPair, DriveWrites
  <2>2. Movement(dir, duty) = <<Signed(duty, 1), Signed(duty, 1)>>
    BY <1>1, <1>4 DEF Movement
  <2>3. MotorCall(<<Signed(duty, 1), Signed(duty, 1)>>, DriveWrites(dir, duty)) \in MotorCalls
    BY <2>1, PairMakes, Zenon
  <2> QED
    BY <2>2, <2>3
<1>5. CASE dir = 2
  <2>1. IsPair(DriveWrites(dir, duty), duty, 0, duty, 0)
    BY <1>1, <1>5 DEF IsPair, DriveWrites
  <2>2. Movement(dir, duty) = <<Signed(duty, 0), Signed(duty, 0)>>
    BY <1>1, <1>5 DEF Movement
  <2>3. MotorCall(<<Signed(duty, 0), Signed(duty, 0)>>, DriveWrites(dir, duty)) \in MotorCalls
    BY <2>1, PairMakes, Zenon
  <2> QED
    BY <2>2, <2>3
<1>6. CASE dir = 4
  <2>1. IsPair(DriveWrites(dir, duty), duty, 0, duty, 1)
    BY <1>1, <1>6 DEF IsPair, DriveWrites
  <2>2. Movement(dir, duty) = <<Signed(duty, 0), Signed(duty, 1)>>
    BY <1>1, <1>6 DEF Movement
  <2>3. MotorCall(<<Signed(duty, 0), Signed(duty, 1)>>, DriveWrites(dir, duty)) \in MotorCalls
    BY <2>1, PairMakes, Zenon
  <2> QED
    BY <2>2, <2>3
<1>7. CASE dir = 6
  <2>1. IsPair(DriveWrites(dir, duty), duty, 1, duty, 0)
    BY <1>1, <1>7 DEF IsPair, DriveWrites
  <2>2. Movement(dir, duty) = <<Signed(duty, 1), Signed(duty, 0)>>
    BY <1>1, <1>7 DEF Movement
  <2>3. MotorCall(<<Signed(duty, 1), Signed(duty, 0)>>, DriveWrites(dir, duty)) \in MotorCalls
    BY <2>1, PairMakes, Zenon
  <2> QED
    BY <2>2, <2>3
<1>8. CASE dir = 7
  <2>1. IsPair(DriveWrites(dir, duty), InnerDuty(duty), 1, duty, 1)
    BY <1>1, <1>8 DEF IsPair, DriveWrites
  <2>2. Movement(dir, duty) = <<Signed(InnerDuty(duty), 1), Signed(duty, 1)>>
    BY <1>1, <1>8 DEF Movement
  <2>3. MotorCall(<<Signed(InnerDuty(duty), 1), Signed(duty, 1)>>, DriveWrites(dir, duty)) \in MotorCalls
    BY <2>1, PairMakes, Zenon
  <2> QED
    BY <2>2, <2>3
<1>9. CASE dir = 9
  <2>1. IsPair(DriveWrites(dir, duty), duty, 1, InnerDuty(duty), 1)
    BY <1>1, <1>9 DEF IsPair, DriveWrites
  <2>2. Movement(dir, duty) = <<Signed(duty, 1), Signed(InnerDuty(duty), 1)>>
    BY <1>1, <1>9 DEF Movement
  <2>3. MotorCall(<<Signed(duty, 1), Signed(InnerDuty(duty), 1)>>, DriveWrites(dir, duty)) \in MotorCalls
    BY <2>1, PairMakes, Zenon
  <2> QED
    BY <2>2, <2>3
<1>10. CASE dir = 1
  <2>1. PICK ws, a : /\ IsMov(a, "B", duty, 0)
                     /\ a = MovChPwm("B", duty, 0) /\ ws = a \o StopCh("A")
    BY Zenon DEF IsMov
  <2>2. MotorCall(<<0, -duty>>, ws) \in MotorCalls
    BY <2>1, BrakedMakes, Zenon
  <2>3. DriveWrites(dir, duty) = ws /\ Movement(dir, duty) = <<0, -duty>>
    BY <1>10, <2>1 DEF DriveWrites, Movement
  <2> QED
    BY <2>2, <2>3
<1>11. CASE dir = 3
  <2>1. PICK ws, a : /\ IsMov(a, "A", duty, 0)
                     /\ a = MovChPwm("A", duty, 0) /\ ws = a \o StopCh("B")
    BY Zenon DEF IsMov
  <2>2. MotorCall(<<-duty, 0>>, ws) \in MotorCalls
    BY <2>1, BrakedMakes, Zenon
  <2>3. DriveWrites(dir, duty) = ws /\ Movement(dir, duty) = <<-duty, 0>>
    BY <1>11, <2>1 DEF DriveWrites, Movement
  <2> QED
    BY <2>2, <2>3
<1> QED
  BY <1>4, <1>5, <1>6, <1>7, <1>8, <1>9, <1>10, <1>11 DEF STOP

\* The calls that leave the motor alone.
LEMMA OneOther ==
  ASSUME NEW ws \in Seq(AllWrites),
         \A i \in DOMAIN ws : ws[i].to \notin Motors
  PROVE  ws \in OtherWrites /\ OtherCall(ws) \in OtherCalls
BY DEF OtherWrites, OtherCalls, OtherCall, WritesTo

LEMMA SomeWrites ==
  /\ Set("rear", 0) \in AllWrites /\ buzzerOn \in AllWrites /\ buzzerOff \in AllWrites
  /\ Set(Enable, 0) \in AllWrites /\ Set(Enable, 1) \in AllWrites
BY DEF Set, AllWrites, Value, Bit, Outputs, Pins, P02, P10, Channels, Enable,
       buzzerOn, buzzerOff

LEMMA LampCalls == ledStopAll \in OtherCalls /\ ledTurn \in OtherCalls
<1>1. <<Set("rear", 0)>> \in Seq(AllWrites) /\ <<>> \in Seq(AllWrites)
  BY SomeWrites
<1>2. \A i \in DOMAIN <<Set("rear", 0)>> : <<Set("rear", 0)>>[i].to \notin Motors
  BY DEF Set, Motors
<1>3. \A i \in DOMAIN <<>> : <<>>[i].to \notin Motors
  OBVIOUS
<1> QED
  BY <1>1, <1>2, <1>3, OneOther DEF ledStopAll, ledTurn

LEMMA BuzzerCalls ==
  /\ emergencyBuzzer \in OtherCalls /\ Silenced \in OtherCalls
  /\ OtherCall(<<buzzerOn, Set(Enable, 1)>>) \in OtherCalls
<1> DEFINE four == <<buzzerOn, buzzerOff, buzzerOn, buzzerOff>>
           two == <<buzzerOn, Set(Enable, 1)>>
           three == <<Set(Enable, 0), buzzerOn, buzzerOff>>
<1>1. four \in Seq(AllWrites) /\ two \in Seq(AllWrites) /\ three \in Seq(AllWrites)
  BY SomeWrites
<1>2. buzzerOn.to \notin Motors /\ buzzerOff.to \notin Motors
  BY DEF buzzerOn, buzzerOff, Set, Motors
<1>3. Set(Enable, 0).to \notin Motors /\ Set(Enable, 1).to \notin Motors
  BY DEF Set, Motors, Enable
<1>4. \A i \in DOMAIN four : four[i].to \notin Motors
  BY <1>2
<1>5. \A i \in DOMAIN two : two[i].to \notin Motors
  BY <1>2, <1>3
<1>6. \A i \in DOMAIN three : three[i].to \notin Motors
  BY <1>2, <1>3
<1> QED
  BY <1>1, <1>4, <1>5, <1>6, OneOther DEF emergencyBuzzer, Silenced

LEMMA RotateCalls ==
  MotorCall(<<0, -ROTATE_SPEED>>,
            MovChPwm("A", 0, 1) \o MovChPwm("B", ROTATE_SPEED, 0)) \in MotorCalls
<1>1. PICK ws : ws = MovChPwm("A", 0, 1) \o MovChPwm("B", ROTATE_SPEED, 0)
  OBVIOUS
<1>2. IsPair(ws, 0, 1, ROTATE_SPEED, 0)
  BY <1>1 DEF IsPair, ROTATE_SPEED, Bit
<1>3. MotorCall(<<Signed(0, 1), Signed(ROTATE_SPEED, 0)>>, ws) \in MotorCalls
  BY <1>2, PairMakes, Zenon
<1>4. Signed(0, 1) = 0 /\ Signed(ROTATE_SPEED, 0) = -ROTATE_SPEED
  BY DEF Signed
<1> QED
  BY <1>1, <1>3, <1>4

\* What a command calls.
LEMMA CommandCalls ==
  ASSUME NEW dir \in Dirs, NEW duty \in Duties
  PROVE  MotorPart(dir, duty) \in MotorCalls /\ LampPart(dir, duty) \in OtherCalls
<1>1. duty \in 0..1000
  BY BoardAssumption
<1>2. MotorPart(dir, duty) \in MotorCalls
  <2>1. CASE Stops(dir, duty)
    BY <2>1, StopMakes DEF MotorPart
  <2>2. CASE ~Stops(dir, duty)
    <3>1. dir \in (1..9) \ {STOP} /\ duty \in 1..1000
      BY <1>1, <2>2 DEF Stops
    <3> QED
      BY <2>2, <3>1, DriveMakes DEF MotorPart
  <2> QED
    BY <2>1, <2>2
<1>3. ledStopAll \in OtherCalls /\ ledTurn \in OtherCalls
  BY LampCalls
<1> QED
  BY <1>2, <1>3 DEF LampPart

---------------------------------------------------------------------------
(* The state is well formed.                                               *)

Copies ==
  /\ half => writes # <<>> /\ Head(writes).to # Enable
  /\ half /\ Head(writes).to \in Pins => held \in [Port(Head(writes).to) -> Bit]
  /\ ~(half /\ Head(writes).to \in Pins) => held = NoCopy

Phases ==
  /\ task \in {"drive", "warn", "park"}
  /\ parkStep \in 0..4 /\ curTick \in 0..FoundTick

Typed ==
  /\ out \in Boards /\ cfg \in [Channels -> 0..1000]
  /\ writes \in Seq(AllWrites) /\ todo \in Seq(AllCalls)
  /\ half \in BOOLEAN /\ motor \in BOOLEAN /\ room \in BOOLEAN /\ wall \in BOOLEAN
  /\ crossed \in {"nothing", "port", "call"}
  /\ Copies
  /\ Phases

LEMMA NextWrite ==
  ASSUME Typed, writes # <<>>
  PROVE  /\ Head(writes) \in AllWrites /\ Tail(writes) \in Seq(AllWrites)
         /\ Head(writes).to \in Outputs
         /\ Head(writes).v \in Value(Head(writes).to)
         /\ Head(writes).v \in 0..1000
<1>1. writes \in Seq(AllWrites)
  BY DEF Typed
<1>2. Head(writes) \in AllWrites /\ Tail(writes) \in Seq(AllWrites)
  BY <1>1
<1> QED
  BY <1>2, Zenon DEF AllWrites

LEMMA CallWrites ==
  ASSUME NEW c \in AllCalls
  PROVE  /\ c.writes \in Seq(AllWrites) /\ c.motor \in BOOLEAN
         /\ c.motor => c \in MotorCalls
         /\ ~c.motor => c.writes \in OtherWrites
<1>1. CASE c \in MotorCalls
  BY <1>1 DEF MotorCalls
<1>2. CASE c \in OtherCalls
  BY <1>2 DEF OtherCalls, OtherWrites
<1> QED
  BY <1>1, <1>2 DEF AllCalls

LEMMA PortsOfPins ==
  ASSUME NEW p \in Pins
  PROVE  Port(p) \subseteq Pins /\ p \in Port(p) /\ p \notin Channels /\ p # Enable
BY DEF Port, Pins, P02, P10, Channels, Enable

LEMMA BeginCallTyped == ASSUME Typed, BeginCall PROVE Typed'
<1>1. /\ writes = <<>> /\ todo # <<>> /\ todo \in Seq(AllCalls) /\ ~half
  BY DEF Typed, Copies, BeginCall
<1>2. Head(todo) \in AllCalls /\ Tail(todo) \in Seq(AllCalls)
  BY <1>1
<1>3. Head(todo).writes \in Seq(AllWrites) /\ Head(todo).motor \in BOOLEAN
  BY <1>2, CallWrites
<1>4. writes' \in Seq(AllWrites) /\ motor' \in BOOLEAN /\ todo' \in Seq(AllCalls)
  BY <1>2, <1>3 DEF BeginCall
<1>5. crossed' \in {"nothing", "port", "call"}
  BY DEF BeginCall, Typed
<1>6. Copies'
  BY <1>1 DEF BeginCall, Typed, Copies
<1>7. UNCHANGED <<out, cfg, half, room, wall>> /\ Phases'
  BY DEF BeginCall, parkVars, sensorVars, Phases, Typed
<1> QED
  BY <1>4, <1>5, <1>6, <1>7, Zenon DEF Typed

LEMMA BeginWriteTyped == ASSUME Typed, BeginWrite PROVE Typed'
<1>1. writes # <<>> /\ ~half /\ half' = TRUE /\ writes' = writes
  BY DEF BeginWrite
<1>2. /\ Head(writes).to \in Outputs /\ Head(writes).v \in Value(Head(writes).to)
      /\ Head(writes).v \in 0..1000
  BY <1>1, NextWrite
<1>3. Copies' /\ cfg' \in [Channels -> 0..1000]
  <2>1. CASE Head(writes).to \in Pins
    <3>1. /\ held' = [pin \in Port(Head(writes).to) |-> out[pin]] /\ cfg' = cfg
          /\ Port(Head(writes).to) \subseteq Pins /\ Head(writes).to # Enable
      BY <2>1, PortsOfPins DEF BeginWrite
    <3>2. \A pin \in Pins : out[pin] \in Bit
      BY Names DEF Typed, Boards
    <3> QED
      BY <1>1, <2>1, <3>1, <3>2, Zenon DEF Copies, Typed
  <2>2. CASE Head(writes).to \notin Pins
    <3>1. /\ Head(writes).to \in Channels /\ held' = held /\ held = NoCopy
          /\ cfg' = [cfg EXCEPT ![Head(writes).to] = Head(writes).v]
      BY <1>1, <2>2 DEF BeginWrite, Copies, Typed
    <3>2. Head(writes).to # Enable
      BY <3>1 DEF Channels, Enable
    <3> QED
      BY <1>1, <1>2, <2>2, <3>1, <3>2, Zenon DEF Copies, Typed
  <2> QED
    BY <2>1, <2>2
<1>4. /\ UNCHANGED <<out, todo, writes, motor, crossed, room, wall>> /\ Phases'
      /\ half' \in BOOLEAN
  BY DEF BeginWrite, parkVars, sensorVars, Phases, Typed
<1> QED
  BY <1>3, <1>4, Zenon DEF Typed

Changed(o, x, v) == [o EXCEPT ![x] = v]

LEMMA OutputSet ==
  ASSUME NEW o \in Boards, NEW x \in Outputs, NEW v \in Value(x)
  PROVE  /\ Changed(o, x, v) \in Boards
         /\ \A y \in Outputs : Changed(o, x, v)[y] = IF y = x THEN v ELSE o[y]
<1>1. o \in [Outputs -> 0..1000] /\ \A y \in Outputs : o[y] \in Value(y)
  BY DEF Boards
<1>2. v \in 0..1000
  BY DEF Value, Bit
<1>3. [o EXCEPT ![x] = v] \in [Outputs -> 0..1000]
  BY <1>1, <1>2
<1>4. \A y \in Outputs : [o EXCEPT ![x] = v][y] = IF y = x THEN v ELSE o[y]
  BY <1>1
<1>5. \A y \in Outputs : [o EXCEPT ![x] = v][y] \in Value(y)
  BY <1>1, <1>4
<1> QED
  BY <1>3, <1>4, <1>5 DEF Boards, Changed

\* The board after a write.
LEMMA EndWriteOut ==
  ASSUME Typed, EndWrite
  PROVE  /\ out' \in Boards
         /\ Head(writes).to \in Pins =>
              \A x \in Outputs : out'[x] = IF x = Head(writes).to THEN Head(writes).v
                                           ELSE IF x \in Port(Head(writes).to)
                                                THEN held[x] ELSE out[x]
         /\ Head(writes).to \notin Pins =>
              /\ Head(writes).to \in Channels
              /\ \A x \in Outputs : out'[x] = IF x = Head(writes).to THEN cfg[x]
                                              ELSE out[x]
<1>1. /\ Head(writes).to \in Outputs /\ Head(writes).v \in Value(Head(writes).to)
      /\ half /\ writes # <<>>
  BY NextWrite DEF EndWrite
<1>2. /\ out \in [Outputs -> 0..1000] /\ \A x \in Outputs : out[x] \in Value(x)
  BY Zenon DEF Typed, Boards
<1>3. \A x \in Outputs : Value(x) \subseteq 0..1000
  BY DEF Value, Bit
<1>4. CASE Head(writes).to \in Pins
  <2>1. /\ out' = [x \in Outputs |-> IF x = Head(writes).to THEN Head(writes).v
                                      ELSE IF x \in Port(Head(writes).to)
                                           THEN held[x] ELSE out[x]]
        /\ held \in [Port(Head(writes).to) -> Bit]
    BY <1>1, <1>4, PortsOfPins DEF EndWrite, Typed, Copies
  <2>2. \A x \in Port(Head(writes).to) : held[x] \in Value(x)
    BY <1>4, <2>1, Names, PortsOfPins
  <2>3. \A x \in Outputs : (IF x = Head(writes).to THEN Head(writes).v
                             ELSE IF x \in Port(Head(writes).to)
                                  THEN held[x] ELSE out[x]) \in Value(x)
    BY <1>1, <1>2, <2>2
  <2>4. out' \in [Outputs -> 0..1000]
    BY <1>3, <2>1, <2>3
  <2> QED
    BY <1>4, <2>1, <2>3, <2>4 DEF Boards
<1>5. CASE Head(writes).to \notin Pins
  <2>1. /\ Head(writes).to \in Channels
        /\ out' = [out EXCEPT ![Head(writes).to] = cfg[Head(writes).to]]
    BY <1>5 DEF EndWrite
  <2>2. cfg[Head(writes).to] \in 0..1000 /\ Value(Head(writes).to) = 0..1000
    <3>1. cfg \in [Channels -> 0..1000]
      BY Zenon DEF Typed
    <3>2. cfg[Head(writes).to] \in 0..1000
      BY <2>1, <3>1
    <3>3. Value(Head(writes).to) = 0..1000
      BY <2>1, Names, Zenon
    <3> QED
      BY <3>2, <3>3
  <2>3. PICK v, to : v = cfg[Head(writes).to] /\ to = Head(writes).to
    OBVIOUS
  <2>4. to \in Outputs /\ v \in Value(to) /\ out \in Boards
    BY <1>1, <2>2, <2>3, Zenon DEF Typed
  <2>5. /\ Changed(out, to, v) \in Boards
        /\ \A y \in Outputs : Changed(out, to, v)[y] = IF y = to THEN v ELSE out[y]
    BY <2>4, OutputSet, Zenon
  <2>6. out' = Changed(out, to, v)
    BY <2>1, <2>3 DEF Changed
  <2> QED
    BY <1>5, <2>1, <2>3, <2>5, <2>6
<1> QED
  BY <1>4, <1>5

LEMMA EndWriteTyped == ASSUME Typed, EndWrite PROVE Typed'
<1>1. writes # <<>> /\ half' = FALSE /\ held' = NoCopy /\ writes' = Tail(writes)
  BY DEF EndWrite
<1>2. Tail(writes) \in Seq(AllWrites) /\ out' \in Boards
  BY <1>1, NextWrite, EndWriteOut
<1>3. Copies'
  BY <1>1 DEF Copies
<1>4. UNCHANGED <<cfg, todo, motor, crossed, room, wall>> /\ Phases'
  BY DEF EndWrite, parkVars, sensorVars, Phases, Typed
<1> QED
  BY <1>1, <1>2, <1>3, <1>4, Zenon DEF Typed

LEMMA WriteEnableOut ==
  ASSUME Typed, WriteEnable
  PROVE  /\ out' \in Boards /\ ~half /\ Head(writes).to = Enable
         /\ \A x \in Outputs : out'[x] = IF x = Enable THEN Head(writes).v ELSE out[x]
<1>1. writes # <<>> /\ Head(writes).to = Enable
      /\ out' = [out EXCEPT ![Enable] = Head(writes).v]
  BY DEF WriteEnable
<1>2. Head(writes).v \in Value(Enable) /\ Head(writes).v \in 0..1000 /\ ~half
  BY <1>1, NextWrite, Zenon DEF Typed, Copies
<1> QED
  <2>1. PICK v : v = Head(writes).v
    OBVIOUS
  <2>2. Enable \in Outputs /\ v \in Value(Enable) /\ out \in Boards
    BY <1>2, <2>1, Names DEF Typed
  <2>3. /\ Changed(out, Enable, v) \in Boards
        /\ \A y \in Outputs : Changed(out, Enable, v)[y]
                                = IF y = Enable THEN v ELSE out[y]
    BY <2>2, OutputSet, Zenon
  <2>4. out' = Changed(out, Enable, v)
    BY <1>1, <2>1 DEF Changed
  <2> QED
    BY <1>1, <1>2, <2>1, <2>3, <2>4, Zenon

LEMMA WriteEnableTyped == ASSUME Typed, WriteEnable PROVE Typed'
<1>1. writes # <<>> /\ ~half /\ half' = half /\ held' = held /\ writes' = Tail(writes)
  BY WriteEnableOut DEF WriteEnable
<1>2. Tail(writes) \in Seq(AllWrites) /\ out' \in Boards
  BY <1>1, NextWrite, WriteEnableOut
<1>3. Copies'
  BY <1>1 DEF Copies, Typed
<1>4. UNCHANGED <<cfg, todo, motor, crossed, room, wall>> /\ Phases'
  BY DEF WriteEnable, parkVars, sensorVars, Phases, Typed
<1> QED
  BY <1>1, <1>2, <1>3, <1>4, Zenon DEF Typed

\* Lamps have nothing to do with the buzzer.
LEMMA LampQuiet ==
  ASSUME NEW dir, NEW duty, NEW x \in {"buzzer", Enable}
  PROVE  WritesTo(LampPart(dir, duty).writes, x) = {}
<1>1. WritesTo(ledStopAll.writes, x) = {}
  BY DEF ledStopAll, OtherCall, WritesTo, Set, Enable
<1>2. WritesTo(ledTurn.writes, x) = {}
  BY DEF ledTurn, OtherCall, WritesTo
<1> QED
  BY <1>1, <1>2 DEF LampPart

LEMMA MotorQuiet ==
  ASSUME NEW c \in MotorCalls, NEW x \in {"buzzer", Enable}
  PROVE  WritesTo(c.writes, x) = {}
BY DEF MotorCalls, Makes

\* The board after a command.
LEMMA CommandOut ==
  ASSUME Typed, NEW dir \in Dirs, NEW duty \in Duties, CommandArrives(dir, duty)
  PROVE  /\ out' \in Boards /\ cfg' \in [Channels -> 0..1000]
         /\ After(out, MotorPart(dir, duty).writes) \in Boards
         /\ \A x \in Motors : out'[x] = After(out, MotorPart(dir, duty).writes)[x]
         /\ \A x \in {"buzzer", Enable} : out'[x] = out[x]
<1>1. PICK ms, ls : ms = MotorPart(dir, duty).writes /\ ls = LampPart(dir, duty).writes
  OBVIOUS
<1>2. /\ ms \in Seq(AllWrites) /\ ls \in OtherWrites /\ ls \in Seq(AllWrites)
      /\ ms \o ls \in Seq(AllWrites)
  <2>1. ms \in Seq(AllWrites) /\ ls \in OtherWrites
    BY <1>1, CommandCalls DEF MotorCalls, OtherCalls
  <2> QED
    BY <2>1 DEF OtherWrites
<1>3. out \in Boards /\ cfg \in [Channels -> 0..1000]
  BY Zenon DEF Typed
<1>4. out' = After(out, ms \o ls) /\ cfg' = After(cfg, ms \o ls)
  BY <1>1 DEF CommandArrives
<1>5. /\ out' \in Boards /\ After(out, ms) \in Boards
      /\ \A x \in Outputs : out'[x] = Left(ms \o ls, x, out[x])
      /\ \A x \in Outputs : After(out, ms)[x] = Left(ms, x, out[x])
  BY <1>2, <1>3, <1>4, AfterType, Zenon
<1>6. cfg' \in [Channels -> 0..1000]
  <2>1. \A x \in Channels : Left(ms \o ls, x, cfg[x]) \in 0..1000
    <3>1. \A x \in Channels : x \in Outputs /\ cfg[x] \in Value(x) /\ Value(x) = 0..1000
      BY <1>3, Names
    <3>2. PICK ws \in Seq(AllWrites) : ws = ms \o ls
      BY <1>2
    <3>3. \A x \in Channels : Left(ws, x, cfg[x]) \in Value(x)
      BY <3>1, LeftValue, Zenon
    <3>4. \A x \in Channels : Left(ws, x, cfg[x]) \in 0..1000
      <4> SUFFICES ASSUME NEW x \in Channels PROVE Left(ws, x, cfg[x]) \in 0..1000
        BY Zenon
      <4>1. Left(ws, x, cfg[x]) \in Value(x)
        BY <3>3, Zenon
      <4>2. Value(x) = 0..1000
        BY Names, Zenon
      <4> QED
        BY <4>1, <4>2
    <3> QED
      BY <3>2, <3>4, Zenon
  <2>2. cfg' = [x \in Channels |-> Left(ms \o ls, x, cfg[x])]
    BY <1>3, <1>4 DEF After
  <2> QED
    BY <2>1, <2>2
<1>7. \A x, old : Left(ms \o ls, x, old) = Left(ls, x, Left(ms, x, old))
  BY <1>2, LeftConcat
<1>8. \A x \in Motors : out'[x] = After(out, ms)[x]
  <2>1. \A x \in Motors : \A old : Left(ls, x, old) = old
    BY <1>2, NoWrite DEF OtherWrites
  <2> QED
    BY <1>5, <1>7, <2>1, Names
<1>9. \A x \in {"buzzer", Enable} : out'[x] = out[x]
  <2>1. \A x \in {"buzzer", Enable} : WritesTo(ms, x) = {} /\ WritesTo(ls, x) = {}
    BY <1>1, CommandCalls, MotorQuiet, LampQuiet
  <2>2. \A x \in {"buzzer", Enable} : \A old : Left(ms, x, old) = old /\ Left(ls, x, old) = old
    BY <2>1, NoWrite
  <2>3. \A x \in {"buzzer", Enable} : x \in Outputs
    BY Names DEF Pins, P10
  <2> QED
    BY <1>5, <1>7, <2>2, <2>3
<1> QED
  BY <1>1, <1>5, <1>6, <1>8, <1>9

LEMMA CommandTyped ==
  ASSUME Typed, NEW dir \in Dirs, NEW duty \in Duties, CommandArrives(dir, duty)
  PROVE  Typed'
<1>1. out' \in Boards /\ cfg' \in [Channels -> 0..1000]
  BY CommandOut
<1>2. UNCHANGED <<todo, writes, half, held, motor, task, parkStep, curTick, room, wall>>
  BY DEF CommandArrives, callVars, parkVars, sensorVars
<1>3. crossed' \in {"nothing", "port", "call"}
  BY DEF CommandArrives
<1> QED
  BY <1>1, <1>2, <1>3, Zenon DEF Typed, Copies, Phases

LEMMA BeepsOut ==
  ASSUME Typed, Beeps
  PROVE  out' \in Boards /\ \A x \in Outputs \ {"buzzer"} : out'[x] = out[x]
<1>1. "buzzer" \in Outputs /\ out["buzzer"] \in Bit /\ Value("buzzer") = Bit
  BY Names DEF Typed, Boards, Pins, P10
<1>2. PICK v, to : v = 1 - out["buzzer"] /\ to = "buzzer"
  OBVIOUS
<1>3. v \in Value(to) /\ to \in Outputs /\ out \in Boards
  BY <1>1, <1>2 DEF Bit, Typed
<1>4. /\ Changed(out, to, v) \in Boards
      /\ \A y \in Outputs : Changed(out, to, v)[y] = IF y = to THEN v ELSE out[y]
  BY <1>3, OutputSet, Zenon
<1>5. out' = Changed(out, to, v)
  BY <1>2 DEF Beeps, Changed
<1> QED
  BY <1>2, <1>4, <1>5

LEMMA BeepsTyped == ASSUME Typed, Beeps PROVE Typed'
<1>1. UNCHANGED <<cfg, todo, writes, half, held, motor, task, parkStep, curTick,
                  room, wall, crossed>>
  BY DEF Beeps, callVars, parkVars, sensorVars
<1> QED
  BY <1>1, BeepsOut, Zenon DEF Typed, Copies, Phases

\* A step of the loop that calls and does nothing else.
Standing == <<out, cfg, writes, half, held, motor, asked, crossed>>

LEMMA CallsTyped ==
  ASSUME Typed, todo' \in Seq(AllCalls), UNCHANGED Standing, Phases',
         room' \in BOOLEAN, wall' \in BOOLEAN
  PROVE  Typed'
BY Zenon DEF Typed, Copies, Standing

LEMMA DrivesTyped == ASSUME Typed, LoopDrives PROVE Typed' /\ UNCHANGED Standing
<1>1. UNCHANGED Standing /\ UNCHANGED <<parkStep, curTick, room, wall>> /\ task' = "drive"
  BY DEF LoopDrives, Calls, Standing, sensorVars
<1>2. \A dir \in Dirs, duty \in Duties : motorRunCommand(dir, duty) \in Seq(AllCalls)
  <2>1. \A dir \in Dirs, duty \in Duties :
          MotorPart(dir, duty) \in AllCalls /\ LampPart(dir, duty) \in AllCalls
    BY CommandCalls DEF AllCalls
  <2>2. \A c, d \in AllCalls : <<c, d>> \in Seq(AllCalls)
    OBVIOUS
  <2> QED
    BY <2>1, <2>2 DEF motorRunCommand
<1>3. <<motorStop>> \in Seq(AllCalls) /\ <<ledStopAll>> \in Seq(AllCalls)
  BY StopMakes, LampCalls DEF AllCalls
<1>4. todo' \in Seq(AllCalls)
  BY <1>2, <1>3 DEF LoopDrives, Calls
<1> QED
  BY <1>1, <1>4, CallsTyped, Zenon DEF Typed, Phases

LEMMA WarnsTyped == ASSUME Typed, LoopWarns PROVE Typed' /\ UNCHANGED Standing
<1>1. UNCHANGED Standing /\ UNCHANGED <<parkStep, curTick, room, wall>> /\ task' = "warn"
  BY DEF LoopWarns, Calls, Standing, sensorVars
<1>2. PICK duty \in Duties, again \in {<<>>, <<emergencyBuzzer>>} :
        todo' = <<emergencyBuzzer, motorMoveReverse(duty), motorStop>> \o again
  BY DEF LoopWarns, Calls
<1>3. duty \in 0..1000
  BY BoardAssumption
<1>4. /\ <<emergencyBuzzer, motorMoveReverse(duty), motorStop>> \in Seq(AllCalls)
      /\ again \in Seq(AllCalls)
  <2>1. emergencyBuzzer \in AllCalls /\ motorStop \in AllCalls
    BY BuzzerCalls, StopMakes DEF AllCalls
  <2>2. motorMoveReverse(duty) \in AllCalls
    BY <1>3, StraightMakes, Zenon DEF AllCalls
  <2>3. again \in Seq(AllCalls)
    <3>1. again = <<>> \/ again = <<emergencyBuzzer>>
      OBVIOUS
    <3>2. <<>> \in Seq(AllCalls) /\ <<emergencyBuzzer>> \in Seq(AllCalls)
      BY <2>1
    <3> QED
      BY <3>1, <3>2, Zenon
  <2>4. \A c, d, e \in AllCalls : <<c, d, e>> \in Seq(AllCalls)
    OBVIOUS
  <2> QED
    BY <2>1, <2>2, <2>3, <2>4
<1>5. todo' \in Seq(AllCalls)
  BY <1>2, <1>4
<1> QED
  BY <1>1, <1>5, CallsTyped, Zenon DEF Typed, Phases

LEMMA LoopParksTyped == ASSUME Typed, LoopParks PROVE Typed' /\ UNCHANGED Standing
<1>1. /\ UNCHANGED Standing /\ UNCHANGED <<room, wall>>
      /\ task' = "park" /\ parkStep' = 1 /\ curTick' = 0
      /\ todo' = <<motorMoveForward(PARKING_SPEED)>>
  BY DEF LoopParks, Calls, Standing, sensorVars
<1>2. PARKING_SPEED \in 0..1000
  BY DEF PARKING_SPEED
<1>3. todo' \in Seq(AllCalls)
  BY <1>1, <1>2, StraightMakes DEF AllCalls
<1>4. Phases' /\ room' \in BOOLEAN /\ wall' \in BOOLEAN
  BY <1>1, BoardAssumption DEF Typed, Phases
<1> QED
  BY <1>1, <1>3, <1>4, CallsTyped

LEMMA ParksTyped == ASSUME Typed, Parks PROVE Typed' /\ UNCHANGED Standing
<1>1. PARKING_SPEED \in 0..1000
  BY DEF PARKING_SPEED
<1>2. /\ motorStop \in AllCalls /\ motorMoveReverse(PARKING_SPEED) \in AllCalls
      /\ motorMoveForward(PARKING_SPEED) \in AllCalls
      /\ Silenced \in AllCalls /\ OtherCall(<<buzzerOn, Set(Enable, 1)>>) \in AllCalls
      /\ rotate \in Seq(AllCalls)
  <2>1. motorStop \in AllCalls /\ motorMoveReverse(PARKING_SPEED) \in AllCalls
        /\ motorMoveForward(PARKING_SPEED) \in AllCalls
    BY <1>1, StopMakes, StraightMakes DEF AllCalls
  <2>2. rotate \in Seq(AllCalls)
    BY <2>1, RotateCalls DEF rotate, AllCalls
  <2> QED
    BY <2>1, <2>2, BuzzerCalls DEF AllCalls
<1>3. CASE FoundSpace
  <2>1. CASE CountRoom(curTick) < FoundTick
    <3>1. /\ UNCHANGED <<motorVars, task, parkStep, room, wall>>
          /\ curTick' = CountRoom(curTick)
      BY <1>3, <2>1 DEF FoundSpace, sensorVars
    <3>2. CountRoom(curTick) \in 0..FoundTick
      BY <2>1, BoardAssumption DEF CountRoom, Typed, Phases
    <3>3. UNCHANGED <<Standing, todo>>
      BY <3>1 DEF motorVars, callVars, Standing
    <3> QED
      BY <3>1, <3>2, <3>3, CallsTyped, Zenon DEF Typed, Phases
  <2>2. CASE ~(CountRoom(curTick) < FoundTick)
    <3>1. /\ UNCHANGED Standing /\ UNCHANGED <<room, wall>>
          /\ task' = "park" /\ parkStep' = 2 /\ curTick' = 0
          /\ todo' = <<motorStop>> \o rotate \o <<motorMoveReverse(PARKING_SPEED)>>
      BY <1>3, <2>2 DEF FoundSpace, Calls, Standing, sensorVars
    <3>2. <<motorStop>> \in Seq(AllCalls) /\ <<motorMoveReverse(PARKING_SPEED)>> \in Seq(AllCalls)
      BY <1>2
    <3>3. todo' \in Seq(AllCalls)
      BY <1>2, <3>1, <3>2
    <3>4. Phases' /\ room' \in BOOLEAN /\ wall' \in BOOLEAN
      BY <3>1, BoardAssumption DEF Typed, Phases
    <3> QED
      BY <3>1, <3>3, <3>4, CallsTyped
  <2> QED
    BY <2>1, <2>2
<1>4. CASE StartBeeper
  <2>1. /\ UNCHANGED Standing /\ UNCHANGED <<room, wall, curTick>>
        /\ task' = "park" /\ parkStep' = 3
        /\ todo' = <<OtherCall(<<buzzerOn, Set(Enable, 1)>>)>>
    BY <1>4 DEF StartBeeper, Calls, Standing, sensorVars
  <2>2. todo' \in Seq(AllCalls)
    BY <1>2, <2>1
  <2>3. Phases' /\ room' \in BOOLEAN /\ wall' \in BOOLEAN
    BY <2>1 DEF Typed, Phases
  <2> QED
    BY <2>1, <2>2, <2>3, CallsTyped
<1>5. CASE StopBacking
  <2>1. /\ UNCHANGED Standing /\ UNCHANGED <<room, wall, curTick>>
        /\ task' = "park" /\ parkStep' = 4 /\ todo' = <<motorStop, Silenced>>
    BY <1>5 DEF StopBacking, Calls, Standing, sensorVars, EndOfBacking
  <2>2. todo' \in Seq(AllCalls)
    BY <1>2, <2>1
  <2>3. Phases' /\ room' \in BOOLEAN /\ wall' \in BOOLEAN
    BY <2>1 DEF Typed, Phases
  <2> QED
    BY <2>1, <2>2, <2>3, CallsTyped
<1>6. CASE ParkReturns
  <2>1. /\ UNCHANGED Standing /\ UNCHANGED <<room, wall, curTick>>
        /\ task' = "drive" /\ parkStep' = 0 /\ todo' = <<>>
    BY <1>6 DEF ParkReturns, Calls, Standing, sensorVars
  <2>2. todo' \in Seq(AllCalls)
    BY <2>1
  <2>3. Phases' /\ room' \in BOOLEAN /\ wall' \in BOOLEAN
    BY <2>1 DEF Typed, Phases
  <2> QED
    BY <2>1, <2>2, <2>3, CallsTyped
<1> QED
  BY <1>3, <1>4, <1>5, <1>6 DEF Parks

LEMMA SensorsTyped == ASSUME Typed, SensorsChange PROVE Typed' /\ UNCHANGED <<Standing, todo, parkVars>>
<1>1. /\ UNCHANGED <<Standing, todo, parkVars>> /\ Phases'
      /\ room' \in BOOLEAN /\ wall' \in BOOLEAN
  BY DEF SensorsChange, motorVars, callVars, parkVars, Standing, Typed, Phases
<1> QED
  BY <1>1, CallsTyped, Zenon DEF Typed

LEMMA InitTyped == Init => Typed
<1> SUFFICES ASSUME Init PROVE Typed
  OBVIOUS
<1>1. out \in Boards /\ cfg \in [Channels -> 0..1000]
  <2>1. \A x \in Outputs : 0 \in Value(x)
    BY DEF Value, Bit
  <2> QED
    BY <2>1 DEF Init, Boards
<1>2. Copies /\ Phases
  BY BoardAssumption DEF Init, Copies, Phases
<1>3. writes \in Seq(AllWrites) /\ todo \in Seq(AllCalls)
  BY DEF Init
<1> QED
  BY <1>1, <1>2, <1>3, Zenon DEF Init, Typed

LEMMA TypedIsOK == Typed => TypeOK
<1> SUFFICES ASSUME Typed PROVE TypeOK
  OBVIOUS
<1>1. DOMAIN out = Outputs /\ \A x \in Outputs : out[x] \in Value(x)
  BY DEF Typed, Boards
<1>2. /\ half => writes # <<>> /\ Head(writes).to # Enable
      /\ IF half /\ Head(writes).to \in Pins
           THEN held \in [Port(Head(writes).to) -> Bit] ELSE held = NoCopy
  BY DEF Typed, Copies
<1> QED
  BY <1>1, <1>2, Zenon DEF Typed, Phases, TypeOK

\* A step does one of these things, or nothing.
LEMMA StepTyped == Typed /\ [Next]_vars => Typed'
<1> SUFFICES ASSUME Typed, [Next]_vars PROVE Typed'
  OBVIOUS
<1>1. CASE Write
  BY <1>1, BeginCallTyped, BeginWriteTyped, EndWriteTyped, WriteEnableTyped DEF Write
<1>2. CASE LoopCalls
  BY <1>2, DrivesTyped, WarnsTyped, LoopParksTyped DEF LoopCalls
<1>3. CASE Parks
  BY <1>3, ParksTyped
<1>4. ASSUME NEW dir \in Dirs, NEW duty \in Duties, CommandArrives(dir, duty)
      PROVE  Typed'
  BY <1>4, CommandTyped
<1>5. CASE Beeps
  BY <1>5, BeepsTyped
<1>6. CASE SensorsChange
  BY <1>6, SensorsTyped
<1>7. CASE UNCHANGED vars
  BY <1>7, Zenon DEF vars, motorVars, callVars, parkVars, sensorVars, Typed, Copies, Phases
<1> QED
  BY <1>1, <1>2, <1>3, <1>4, <1>5, <1>6, <1>7 DEF Next

\* The calls of the loop and the commands are well formed, and so is what a
\* write makes of the port it has read: the state of the board always is.
THEOREM WellFormed == Spec => []TypeOK
<1>1. Spec => []Typed
  BY InitTyped, StepTyped, PTL DEF Spec
<1> QED
  BY <1>1, TypedIsOK, PTL

---------------------------------------------------------------------------
(* The car moves as it was asked.                                          *)

Moving ==
  /\ ~motor => writes \in OtherWrites
  /\ crossed = "nothing" => Moves(After(out, writes)) = asked
  /\ crossed # "call" /\ asked = <<0, 0>> =>
       \A ch \in Channels : After(out, writes)[ch] = 0
  /\ half /\ crossed = "nothing" =>
       /\ Head(writes).to \in Pins =>
            \A p \in Port(Head(writes).to) \cap Motors : held[p] = out[p]
       /\ Head(writes).to \in Channels => cfg[Head(writes).to] = Head(writes).v
  /\ InCall => crossed # "port"

\* What the writes make of the outputs of the motor, seen from outside.
Same(o, p) == \A x \in Motors : o[x] = p[x]

LEMMA SameMoves ==
  ASSUME NEW o, NEW p, Same(o, p)
  PROVE  Moves(o) = Moves(p) /\ \A ch \in Channels : o[ch] = p[ch]
BY MovesOfMotors DEF Same, Motors, Channels

\* Writes to the lamps and the buzzer do not change it.
LEMMA OthersStay ==
  ASSUME NEW o \in Boards, NEW ws \in OtherWrites
  PROVE  Same(After(o, ws), o)
<1>1. ws \in Seq(AllWrites) /\ \A x \in Motors : WritesTo(ws, x) = {}
  BY DEF OtherWrites
<1>2. \A x \in Motors : After(o, ws)[x] = Left(ws, x, o[x])
  BY <1>1, AfterType, Names
<1>3. \A x \in Motors : Left(ws, x, o[x]) = o[x]
  BY <1>1, NoWrite
<1> QED
  BY <1>2, <1>3 DEF Same

LEMMA NoWritesStay ==
  ASSUME NEW o \in Boards
  PROVE  Same(After(o, <<>>), o)
<1>1. <<>> \in OtherWrites
  BY DEF OtherWrites, WritesTo
<1> QED
  BY <1>1, OthersStay

\* They depend on the outputs of the motor only.
LEMMA AfterSame ==
  ASSUME NEW o \in Boards, NEW p \in Boards, Same(o, p), NEW ws \in Seq(AllWrites)
  PROVE  Same(After(o, ws), After(p, ws))
<1>1. \A x \in Motors : /\ After(o, ws)[x] = Left(ws, x, o[x])
                        /\ After(p, ws)[x] = Left(ws, x, p[x])
  BY AfterType, Names
<1> QED
  BY <1>1 DEF Same

\* What is still to be written makes the same of the board after a write.
LEMMA WriteSame ==
  ASSUME NEW o \in Boards, NEW p \in Boards, NEW ws \in Seq(AllWrites), ws # <<>>,
         \A x \in Motors : p[x] = IF x = Head(ws).to THEN Head(ws).v ELSE o[x]
  PROVE  Same(After(p, Tail(ws)), After(o, ws))
<1>1. Tail(ws) \in Seq(AllWrites)
  OBVIOUS
<1>2. \A x \in Motors : /\ After(o, ws)[x] = Left(ws, x, o[x])
                        /\ After(p, Tail(ws))[x] = Left(Tail(ws), x, p[x])
  BY <1>1, AfterType, Names, Zenon
<1>3. \A x \in Motors :
        Left(ws, x, o[x]) = Left(Tail(ws), x, IF Head(ws).to = x THEN Head(ws).v ELSE o[x])
  BY LeftTail
<1> QED
  BY <1>2, <1>3 DEF Same

LEMMA OthersTail ==
  ASSUME NEW ws \in OtherWrites, ws # <<>>
  PROVE  Tail(ws) \in OtherWrites /\ Head(ws).to \notin Motors
<1>1. ws \in Seq(AllWrites) /\ \A x \in Motors : WritesTo(ws, x) = {}
  BY DEF OtherWrites
<1>2. \A x \in Motors : WritesTo(Tail(ws), x) = {} /\ Head(ws).to # x
  BY <1>1, TailWrites
<1> QED
  BY <1>1, <1>2 DEF OtherWrites

LEMMA BeginCallMoves == ASSUME Typed, Moving, BeginCall PROVE Moving'
<1>1. /\ writes = <<>> /\ todo # <<>> /\ ~half /\ half' = half /\ out' = out
      /\ out \in Boards
  BY DEF Typed, Copies, BeginCall
<1>2. PICK c : c = Head(todo)
  OBVIOUS
<1>3. c \in AllCalls /\ motor' = c.motor /\ writes' = c.writes
  BY <1>1, <1>2 DEF Typed, BeginCall
<1>4. CASE c.motor
  <2>1. c \in MotorCalls /\ motor' = TRUE
    BY <1>3, <1>4, CallWrites DEF MotorCalls
  <2>2. asked' = c.move /\ crossed' = "nothing"
    BY <1>2, <1>4 DEF BeginCall
  <2>3. /\ Moves(After(out, c.writes)) = c.move
        /\ c.move = <<0, 0>> => \A ch \in Channels : After(out, c.writes)[ch] = 0
    BY <1>1, <2>1 DEF MotorCalls, Makes
  <2> QED
    BY <1>1, <1>3, <2>1, <2>2, <2>3 DEF Moving, InCall
<1>5. CASE ~c.motor
  <2>1. c.writes \in OtherWrites /\ motor' = FALSE
    BY <1>3, <1>5, CallWrites
  <2>2. asked' = asked /\ crossed' = crossed
    BY <1>2, <1>5 DEF BeginCall
  <2>3. Same(After(out, c.writes), After(out, writes))
    BY <1>1, <2>1, OthersStay, NoWritesStay DEF Same
  <2>4. /\ Moves(After(out, c.writes)) = Moves(After(out, writes))
        /\ \A ch \in Channels : After(out, c.writes)[ch] = After(out, writes)[ch]
    BY <2>3, SameMoves
  <2> QED
    BY <1>1, <1>3, <2>1, <2>2, <2>4 DEF Moving, InCall
<1> QED
  BY <1>4, <1>5

LEMMA BeginWriteMoves == ASSUME Typed, Moving, BeginWrite PROVE Moving'
<1>1. UNCHANGED <<out, writes, motor, asked, crossed>> /\ writes # <<>>
  BY DEF BeginWrite
<1>2. CASE Head(writes).to \in Pins
  <2>1. /\ Head(writes).to \notin Channels
        /\ held' = [pin \in Port(Head(writes).to) |-> out[pin]]
    BY <1>2, PortsOfPins DEF BeginWrite
  <2> QED
    BY <1>1, <1>2, <2>1 DEF Moving, InCall
<1>3. CASE Head(writes).to \in Channels
  <2>1. /\ Head(writes).to \notin Pins
        /\ cfg' = [cfg EXCEPT ![Head(writes).to] = Head(writes).v]
    BY <1>3, PortsOfPins DEF BeginWrite
  <2>2. cfg'[Head(writes).to] = Head(writes).v
    BY <1>3, <2>1 DEF Typed
  <2> QED
    BY <1>1, <1>3, <2>1, <2>2 DEF Moving, InCall
<1> QED
  BY <1>2, <1>3 DEF BeginWrite

LEMMA EndWriteMoves == ASSUME Typed, Moving, EndWrite PROVE Moving'
<1>1. /\ writes # <<>> /\ half /\ half' = FALSE /\ writes' = Tail(writes)
      /\ UNCHANGED <<motor, asked, crossed>>
  BY DEF EndWrite
<1>2. /\ writes \in Seq(AllWrites) /\ out \in Boards /\ out' \in Boards
      /\ crossed \in {"nothing", "port", "call"} /\ motor \in BOOLEAN
  BY EndWriteOut, Zenon DEF Typed
<1>3. ~motor => writes' \in OtherWrites /\ Head(writes).to \notin Motors
  BY <1>1, OthersTail DEF Moving
<1>4. InCall
      => /\ crossed # "port"
  BY DEF Moving
<1>5. crossed = "nothing" =>
        Same(After(out', Tail(writes)), After(out, writes))
  <2> SUFFICES ASSUME crossed = "nothing"
               PROVE  Same(After(out', Tail(writes)), After(out, writes))
    OBVIOUS
  <2>1. \A x \in Motors : out'[x] = IF x = Head(writes).to THEN Head(writes).v ELSE out[x]
    <3>1. CASE Head(writes).to \in Pins
      <4>1. \A p \in Port(Head(writes).to) \cap Motors : held[p] = out[p]
        BY <1>1, <3>1 DEF Moving
      <4> QED
        BY <3>1, <4>1, EndWriteOut, Names
    <3>2. CASE Head(writes).to \notin Pins
      <4>1. Head(writes).to \in Channels
        BY <3>2, EndWriteOut
      <4>2. cfg[Head(writes).to] = Head(writes).v
        BY <1>1, <4>1 DEF Moving
      <4> QED
        BY <3>2, <4>1, <4>2, EndWriteOut, Names
    <3> QED
      BY <3>1, <3>2
  <2> QED
    BY <1>1, <1>2, <2>1, WriteSame
<1>6. crossed = "port" =>
        \A ch \in Channels : After(out', Tail(writes))[ch] = After(out, writes)[ch]
  <2> SUFFICES ASSUME crossed = "port"
               PROVE  \A ch \in Channels :
                        After(out', Tail(writes))[ch] = After(out, writes)[ch]
    OBVIOUS
  <2>1. ~motor
    BY <1>1, <1>2, <1>4 DEF InCall
  <2>2. writes \in OtherWrites /\ Tail(writes) \in OtherWrites
    BY <1>1, <1>3, <2>1 DEF Moving
  <2>3. Head(writes).to \in Pins
    BY <1>3, <2>1, EndWriteOut DEF Motors, Channels
  <2>4. \A ch \in Channels : out'[ch] = out[ch]
    <3>1. \A ch \in Channels : ch \in Outputs /\ ch \notin Pins
      BY Names, PortsOfPins
    <3> QED
      BY <2>3, <3>1, EndWriteOut, PortsOfPins
  <2>5. \A ch \in Channels : ch \in Motors
    BY DEF Channels, Motors
  <2>6. Same(After(out, writes), out) /\ Same(After(out', Tail(writes)), out')
    BY <1>2, <2>2, OthersStay
  <2> QED
    BY <2>4, <2>5, <2>6 DEF Same
<1>7. crossed = "nothing" =>
        /\ Moves(After(out', Tail(writes))) = Moves(After(out, writes))
        /\ \A ch \in Channels : After(out', Tail(writes))[ch] = After(out, writes)[ch]
  BY <1>5, SameMoves
<1>8. InCall' => InCall
  BY <1>1 DEF InCall
<1> QED
  BY <1>1, <1>2, <1>3, <1>4, <1>6, <1>7, <1>8 DEF Moving

LEMMA WriteEnableMoves == ASSUME Typed, Moving, WriteEnable PROVE Moving'
<1>1. /\ writes # <<>> /\ ~half /\ half' = half /\ writes' = Tail(writes)
      /\ UNCHANGED <<motor, asked, crossed>> /\ Head(writes).to = Enable
  BY WriteEnableOut DEF WriteEnable
<1>2. writes \in Seq(AllWrites) /\ out \in Boards /\ out' \in Boards
  BY WriteEnableOut, Zenon DEF Typed
<1>3. \A x \in Motors : out'[x] = IF x = Head(writes).to THEN Head(writes).v ELSE out[x]
  BY <1>1, WriteEnableOut, Names
<1>4. /\ Moves(After(out', Tail(writes))) = Moves(After(out, writes))
      /\ \A ch \in Channels : After(out', Tail(writes))[ch] = After(out, writes)[ch]
  BY <1>1, <1>2, <1>3, WriteSame, SameMoves
<1>5. ~motor => writes' \in OtherWrites
  BY <1>1, OthersTail DEF Moving
<1>6. InCall' => InCall
  BY <1>1 DEF InCall
<1> QED
  BY <1>1, <1>4, <1>5, <1>6 DEF Moving

LEMMA CommandMoves ==
  ASSUME Typed, Moving, NEW dir \in Dirs, NEW duty \in Duties, CommandArrives(dir, duty)
  PROVE  Moving'
<1>1. /\ UNCHANGED <<writes, half, motor>> /\ asked' = MotorPart(dir, duty).move
      /\ crossed' = IF InCall THEN "call" ELSE IF half THEN "port" ELSE "nothing"
  BY DEF CommandArrives, callVars
<1>2. CASE InCall
  <2>1. crossed' = "call"
    BY <1>1, <1>2
  <2> QED
    BY <1>1, <2>1 DEF Moving
<1>3. CASE ~InCall
  <2>1. writes \in OtherWrites
    <3>1. <<>> \in OtherWrites
      BY DEF OtherWrites, WritesTo
    <3> QED
      BY <1>3, <3>1 DEF InCall, Moving, Typed
  <2>2. Same(After(out', writes), out')
    BY <2>1, CommandOut, OthersStay
  <2>3. Same(out', After(out, MotorPart(dir, duty).writes))
    BY CommandOut DEF Same
  <2>4. /\ Moves(After(out, MotorPart(dir, duty).writes)) = asked'
        /\ asked' = <<0, 0>> =>
             \A ch \in Channels : After(out, MotorPart(dir, duty).writes)[ch] = 0
    <3>1. PICK c : c = MotorPart(dir, duty)
      OBVIOUS
    <3>2. c \in MotorCalls /\ out \in Boards
      BY <3>1, CommandCalls DEF Typed
    <3>3. /\ Moves(After(out, c.writes)) = c.move
          /\ c.move = <<0, 0>> => \A ch \in Channels : After(out, c.writes)[ch] = 0
      BY <3>2 DEF MotorCalls, Makes
    <3> QED
      BY <1>1, <3>1, <3>3
  <2>5. /\ Moves(After(out', writes)) = asked'
        /\ asked' = <<0, 0>> => \A ch \in Channels : After(out', writes)[ch] = 0
    BY <2>2, <2>3, <2>4, SameMoves
  <2>6. ~InCall' /\ (half' => crossed' # "nothing")
    BY <1>1, <1>3 DEF InCall
  <2> QED
    BY <1>1, <2>1, <2>5, <2>6 DEF Moving
<1> QED
  BY <1>2, <1>3

LEMMA BeepsMoves == ASSUME Typed, Moving, Beeps PROVE Moving'
<1>1. UNCHANGED <<cfg, writes, half, held, motor, asked, crossed>>
  BY DEF Beeps, callVars
<1>2. Same(out, out') /\ out \in Boards /\ out' \in Boards /\ writes \in Seq(AllWrites)
  <2>1. Motors \subseteq Outputs \ {"buzzer"}
    BY Names DEF Motors
  <2> QED
    BY <2>1, BeepsOut, Zenon DEF Same, Typed
<1>3. Same(After(out, writes), After(out', writes))
  BY <1>2, AfterSame
<1>4. /\ Moves(After(out', writes)) = Moves(After(out, writes))
      /\ \A ch \in Channels : After(out', writes)[ch] = After(out, writes)[ch]
  BY <1>3, SameMoves
<1>5. \A p \in Motors : out'[p] = out[p]
  BY <1>2 DEF Same
<1>6. InCall' = InCall
  BY <1>1 DEF InCall
<1> QED
  BY <1>1, <1>4, <1>5, <1>6 DEF Moving

LEMMA StandingMoves == ASSUME Moving, UNCHANGED Standing PROVE Moving'
BY DEF Moving, Standing, InCall

LEMMA InitMoves == Init => Moving
<1> SUFFICES ASSUME Init PROVE Moving
  OBVIOUS
<1>1. Typed
  BY InitTyped
<1>2. Same(After(out, writes), out)
  BY <1>1, NoWritesStay DEF Init, Typed
<1>3. \A x \in Motors : out[x] = 0
  BY Names DEF Init
<1>4. \A x \in Motors : After(out, writes)[x] = 0
  BY <1>2, <1>3 DEF Same
<1>5. Moves(After(out, writes)) = <<0, 0>>
  BY <1>4, WheelValues DEF Motors
<1>6. \A ch \in Channels : After(out, writes)[ch] = 0
  BY <1>4 DEF Channels, Motors
<1>7. writes \in OtherWrites
  BY DEF Init, OtherWrites, WritesTo
<1> QED
  BY <1>5, <1>6, <1>7 DEF Init, Moving, InCall

LEMMA StepMoves == Typed /\ Moving /\ [Next]_vars => Moving'
<1> SUFFICES ASSUME Typed, Moving, [Next]_vars PROVE Moving'
  OBVIOUS
<1>1. CASE Write
  BY <1>1, BeginCallMoves, BeginWriteMoves, EndWriteMoves, WriteEnableMoves DEF Write
<1>2. CASE LoopCalls
  BY <1>2, DrivesTyped, WarnsTyped, LoopParksTyped, StandingMoves DEF LoopCalls
<1>3. CASE Parks
  BY <1>3, ParksTyped, StandingMoves
<1>4. ASSUME NEW dir \in Dirs, NEW duty \in Duties, CommandArrives(dir, duty)
      PROVE  Moving'
  BY <1>4, CommandMoves
<1>5. CASE Beeps
  BY <1>5, BeepsMoves
<1>6. CASE SensorsChange
  BY <1>6, SensorsTyped, StandingMoves
<1>7. CASE UNCHANGED vars
  <2>1. UNCHANGED Standing
    BY <1>7 DEF vars, motorVars, callVars, Standing
  <2> QED
    BY <2>1, StandingMoves
<1> QED
  BY <1>1, <1>2, <1>3, <1>4, <1>5, <1>6, <1>7 DEF Next

\* Outside of a call nothing that is left to be written is for the motor.
LEMMA OutsideSame ==
  ASSUME Typed, Moving, ~InCall
  PROVE  Same(After(out, writes), out)
<1>1. <<>> \in OtherWrites
  BY DEF OtherWrites, WritesTo
<1>2. writes \in OtherWrites /\ out \in Boards
  BY <1>1 DEF InCall, Moving, Typed
<1> QED
  BY <1>2, OthersStay

LEMMA MovingSafe == Typed /\ Moving => MovesAsAsked /\ StopSurvivesCrossing
<1> SUFFICES ASSUME Typed, Moving, ~InCall
             PROVE  /\ crossed = "nothing" => Moves(out) = asked
                    /\ crossed # "call" /\ asked = <<0, 0>> => Moves(out) = <<0, 0>>
  BY DEF MovesAsAsked, StopSurvivesCrossing
<1>1. /\ Moves(After(out, writes)) = Moves(out)
      /\ \A ch \in Channels : After(out, writes)[ch] = out[ch]
  BY OutsideSame, SameMoves
<1>2. ASSUME \A ch \in Channels : out[ch] = 0
      PROVE  Moves(out) = <<0, 0>>
  BY <1>2, WheelValues DEF Channels
<1> QED
  BY <1>1, <1>2 DEF Moving

\* Whatever the interrupt and the loop write to the ports and the channels, in
\* whatever order, the car moves as the last of them asked, unless that one
\* came from an interrupt in the middle of a write of the loop.
THEOREM MovesRight == Spec => []MovesAsAsked
<1>1. Spec => [](Typed /\ Moving)
  BY InitTyped, StepTyped, InitMoves, StepMoves, PTL DEF Spec
<1> QED
  BY <1>1, MovingSafe, PTL

\* A command to stop leaves no duty, so that a write to a lamp or the buzzer it
\* crossed, which releases the brakes again, moves nothing.
THEOREM StopHolds == Spec => []StopSurvivesCrossing
<1>1. Spec => [](Typed /\ Moving)
  BY InitTyped, StepTyped, InitMoves, StepMoves, PTL DEF Spec
<1> QED
  BY <1>1, MovingSafe, PTL

---------------------------------------------------------------------------
(* The buzzer is silent.                                                   *)

\* A call that leaves the buzzer off, and one that leaves it alone.
Hush(c) == WritesTo(c.writes, Enable) = {} /\ Left(c.writes, "buzzer", 0) = 0
Mute(c) == WritesTo(c.writes, Enable) = {} /\ WritesTo(c.writes, "buzzer") = {}

\* The timer's interrupt is off, and what is left to be written ends with the
\* buzzer off.
Calm ==
  /\ out[Enable] = 0 /\ WritesTo(writes, Enable) = {}
  /\ Left(writes, "buzzer", out["buzzer"]) = 0
  /\ half /\ Head(writes).to \in P10 => held["buzzer"] = out["buzzer"]

\* How far the end of the backing is.
Silencing ==
  \/ todo = <<motorStop, Silenced>> /\ writes = <<>>
  \/ todo = <<Silenced>>
  \/ todo = <<>> /\ writes = Silenced.writes /\ ~half
  \/ todo = <<>> /\ Calm

Beeping ==
  /\ task # "park" => Calm /\ \A i \in DOMAIN todo : Hush(todo[i])
  /\ task = "drive" =>
       /\ out["buzzer"] = 0 /\ WritesTo(writes, "buzzer") = {}
       /\ \A i \in DOMAIN todo : Mute(todo[i])
  /\ task = "park" /\ parkStep = 4 => Silencing

LEMMA MuteIsHush == ASSUME NEW c, Mute(c) PROVE Hush(c)
BY NoWrite DEF Mute, Hush

LEMMA Mutes ==
  /\ \A c \in MotorCalls : Mute(c)
  /\ \A dir, duty : Mute(LampPart(dir, duty))
  /\ Mute(ledStopAll)
<1>1. \A c \in MotorCalls : Mute(c)
  BY MotorQuiet DEF Mute
<1>2. \A dir, duty : Mute(LampPart(dir, duty))
  BY LampQuiet DEF Mute
<1>3. Mute(ledStopAll)
  BY DEF Mute, ledStopAll, OtherCall, WritesTo, Set, Enable
<1> QED
  BY <1>1, <1>2, <1>3

LEMMA EmergencyHush == Hush(emergencyBuzzer)
<1> DEFINE ws == emergencyBuzzer.writes
<1>1. /\ ws = <<buzzerOn, buzzerOff, buzzerOn, buzzerOff>>
      /\ ws \in Seq(AllWrites) /\ DOMAIN ws = 1..4
  BY SomeWrites DEF emergencyBuzzer, OtherCall
<1>2. buzzerOn.to = "buzzer" /\ buzzerOff.to = "buzzer" /\ buzzerOff.v = 0
  BY DEF buzzerOn, buzzerOff, Set
<1> HIDE DEF ws
<1>3. WritesTo(ws, Enable) = {}
  BY <1>1, <1>2 DEF WritesTo, Enable
<1>4. 4 \in WritesTo(ws, "buzzer") /\ \A j \in WritesTo(ws, "buzzer") : j <= 4
  BY <1>1, <1>2 DEF WritesTo
<1>5. Left(ws, "buzzer", 0) = ws[4].v
  BY <1>1, <1>4, LastWrite
<1>6. ws[4].v = 0
  BY <1>1, <1>2
<1> QED
  BY <1>3, <1>5, <1>6 DEF Hush, ws

\* The beeper's interrupt is switched off before the buzzer is.
LEMMA SilencedWrites ==
  /\ Silenced.writes # <<>>
  /\ Head(Silenced.writes).to = Enable /\ Head(Silenced.writes).v = 0
  /\ WritesTo(Tail(Silenced.writes), Enable) = {}
  /\ \A old : Left(Tail(Silenced.writes), "buzzer", old) = 0
<1>1. Silenced.writes = <<Set(Enable, 0), buzzerOn, buzzerOff>>
  BY DEF Silenced, OtherCall
<1>2. PICK ws : ws = <<buzzerOn, buzzerOff>>
  OBVIOUS
<1>3. ws = Tail(Silenced.writes) /\ ws \in Seq(AllWrites) /\ DOMAIN ws = 1..2
  BY <1>1, <1>2, SomeWrites
<1>4. buzzerOn.to = "buzzer" /\ buzzerOff.to = "buzzer" /\ buzzerOff.v = 0
  BY DEF buzzerOn, buzzerOff, Set
<1>5. WritesTo(ws, Enable) = {}
  BY <1>2, <1>3, <1>4 DEF WritesTo, Enable
<1>6. 2 \in WritesTo(ws, "buzzer") /\ \A j \in WritesTo(ws, "buzzer") : j <= 2
  BY <1>2, <1>3, <1>4 DEF WritesTo
<1>7. ws[2].v = 0
  BY <1>2, <1>4
<1>8. \A old : Left(ws, "buzzer", old) = 0
  BY <1>3, <1>6, <1>7, LastWrite
<1>9. Set(Enable, 0).to = Enable /\ Set(Enable, 0).v = 0
  BY DEF Set
<1> QED
  BY <1>1, <1>3, <1>5, <1>8, <1>9

LEMMA BuzzerName == "buzzer" \in Outputs /\ Enable \in Outputs /\ Enable # "buzzer"
BY Names DEF Pins, P10, Enable

LEMMA NoneLeft == ASSUME writes = <<>>, Calm PROVE out["buzzer"] = 0
<1>1. WritesTo(writes, "buzzer") = {}
  BY DEF WritesTo
<1> QED
  BY <1>1, NoWrite DEF Calm

LEMMA CalmBeginCall ==
  ASSUME Typed, Calm, BeginCall, Hush(Head(todo))
  PROVE  Calm'
<1>1. /\ writes = <<>> /\ out' = out /\ writes' = Head(todo).writes /\ ~half'
  BY DEF BeginCall, Typed, Copies
<1>2. out["buzzer"] = 0
  BY <1>1, NoneLeft
<1> QED
  BY <1>1, <1>2 DEF Calm, Hush

LEMMA CalmBeginWrite ==
  ASSUME Typed, Calm, BeginWrite
  PROVE  Calm'
<1>1. UNCHANGED <<out, writes>>
  BY DEF BeginWrite
<1>2. Head(writes).to \in P10 => held'["buzzer"] = out["buzzer"]
  <2> SUFFICES ASSUME Head(writes).to \in P10 PROVE held'["buzzer"] = out["buzzer"]
    OBVIOUS
  <2>1. Head(writes).to \in Pins /\ Port(Head(writes).to) = P10
    BY DEF Pins, Port, P02, P10
  <2>2. held' = [pin \in P10 |-> out[pin]]
    BY <2>1, PortsOfPins DEF BeginWrite
  <2> QED
    BY <2>2 DEF P10
<1> QED
  BY <1>1, <1>2 DEF Calm

\* What a write makes of the buzzer.
LEMMA EndWriteBuzzer ==
  ASSUME Typed, Calm, EndWrite
  PROVE  /\ out'["buzzer"] = IF Head(writes).to = "buzzer" THEN Head(writes).v
                              ELSE out["buzzer"]
         /\ out'[Enable] = out[Enable]
<1>1. CASE Head(writes).to \in Pins
  <2>1. half /\ (Head(writes).to \in P10 => held["buzzer"] = out["buzzer"])
    BY DEF Calm, EndWrite
  <2>2. "buzzer" \in Port(Head(writes).to) => Head(writes).to \in P10
    BY <1>1 DEF Port, P02, P10, Pins
  <2>3. Enable \notin Port(Head(writes).to) /\ Head(writes).to # Enable
    BY <1>1, PortsOfPins
  <2> QED
    BY <1>1, <2>1, <2>2, <2>3, EndWriteOut, BuzzerName
<1>2. CASE Head(writes).to \notin Pins
  <2>1. Head(writes).to \in Channels
    BY <1>2, EndWriteOut
  <2>2. Head(writes).to # "buzzer" /\ Head(writes).to # Enable
    BY <2>1 DEF Channels, Enable
  <2> QED
    BY <1>2, <2>2, EndWriteOut, BuzzerName
<1> QED
  BY <1>1, <1>2

LEMMA CalmEndWrite ==
  ASSUME Typed, Calm, EndWrite
  PROVE  Calm'
<1>1. writes # <<>> /\ writes \in Seq(AllWrites) /\ writes' = Tail(writes) /\ ~half'
  BY DEF EndWrite, Typed
<1>2. WritesTo(Tail(writes), Enable) = {}
  BY <1>1, TailWrites DEF Calm
<1>3. Left(writes, "buzzer", out["buzzer"]) = Left(Tail(writes), "buzzer", out'["buzzer"])
  BY <1>1, EndWriteBuzzer, LeftTail
<1> QED
  BY <1>1, <1>2, <1>3, EndWriteBuzzer DEF Calm

LEMMA CalmNoEnable == ASSUME Typed, Calm PROVE ~WriteEnable /\ ~Beeps
<1>1. ~WriteEnable
  BY TailWrites, Zenon DEF Calm, WriteEnable, Typed
<1>2. ~Beeps
  BY DEF Calm, Beeps
<1> QED
  BY <1>1, <1>2

LEMMA CalmStays ==
  ASSUME Calm, UNCHANGED <<writes, half, held>>,
         out'["buzzer"] = out["buzzer"], out'[Enable] = out[Enable]
  PROVE  Calm'
BY DEF Calm

LEMMA BeginCallBeeps == ASSUME Typed, Beeping, BeginCall PROVE Beeping'
<1>1. /\ writes = <<>> /\ todo # <<>> /\ todo \in Seq(AllCalls) /\ ~half'
      /\ writes' = Head(todo).writes /\ todo' = Tail(todo)
      /\ UNCHANGED <<out, task, parkStep>>
  BY DEF BeginCall, parkVars, Typed, Copies
<1>2. /\ Head(todo) = todo[1] /\ 1 \in DOMAIN todo
      /\ \A i \in DOMAIN Tail(todo) : i + 1 \in DOMAIN todo /\ Tail(todo)[i] = todo[i + 1]
  BY <1>1
<1>3. task # "park" => Calm' /\ \A i \in DOMAIN todo' : Hush(todo'[i])
  <2> SUFFICES ASSUME task # "park" PROVE Calm' /\ \A i \in DOMAIN todo' : Hush(todo'[i])
    OBVIOUS
  <2>1. Calm /\ \A i \in DOMAIN todo : Hush(todo[i])
    BY DEF Beeping
  <2>2. Calm'
    BY <1>2, <2>1, CalmBeginCall
  <2> QED
    BY <1>1, <1>2, <2>1, <2>2
<1>4. task = "drive" => /\ WritesTo(writes', "buzzer") = {} /\ out["buzzer"] = 0
                        /\ \A i \in DOMAIN todo' : Mute(todo'[i])
  <2> SUFFICES ASSUME task = "drive"
               PROVE  /\ WritesTo(writes', "buzzer") = {} /\ out["buzzer"] = 0
                      /\ \A i \in DOMAIN todo' : Mute(todo'[i])
    OBVIOUS
  <2>1. out["buzzer"] = 0 /\ \A i \in DOMAIN todo : Mute(todo[i])
    BY DEF Beeping
  <2>2. Mute(Head(todo))
    BY <1>2, <2>1
  <2> QED
    BY <1>1, <1>2, <2>1, <2>2 DEF Mute
<1>5. task = "park" /\ parkStep = 4 => Silencing'
  <2> SUFFICES ASSUME task = "park", parkStep = 4 PROVE Silencing'
    OBVIOUS
  <2>1. todo = <<motorStop, Silenced>> \/ todo = <<Silenced>>
    BY <1>1 DEF Beeping, Silencing
  <2>2. CASE todo = <<motorStop, Silenced>>
    <3>1. todo' = <<Silenced>>
      BY <1>1, <2>2
    <3> QED
      BY <3>1 DEF Silencing
  <2>3. CASE todo = <<Silenced>>
    <3>1. todo' = <<>> /\ writes' = Silenced.writes
      BY <1>1, <2>3
    <3> QED
      BY <1>1, <3>1 DEF Silencing
  <2> QED
    BY <2>1, <2>2, <2>3
<1> QED
  BY <1>1, <1>3, <1>4, <1>5 DEF Beeping

LEMMA BeginWriteBeeps == ASSUME Typed, Beeping, BeginWrite PROVE Beeping'
<1>1. UNCHANGED <<out, todo, writes, task, parkStep>> /\ writes # <<>>
  BY DEF BeginWrite, parkVars
<1>2. task # "park" => Calm'
  BY CalmBeginWrite DEF Beeping
<1>3. task = "park" /\ parkStep = 4 => Silencing'
  <2> SUFFICES ASSUME Silencing PROVE Silencing'
    BY DEF Beeping
  <2>1. writes # Silenced.writes
    <3>1. Enable \notin Pins /\ Enable \notin Channels
      BY DEF Enable, Pins, P02, P10, Channels
    <3>2. Head(writes).to # Enable
      BY <3>1 DEF BeginWrite
    <3> QED
      BY <3>2, SilencedWrites
  <2>2. todo = <<>> /\ Calm => Calm'
    BY CalmBeginWrite
  <2> QED
    BY <1>1, <2>1, <2>2 DEF Silencing
<1> QED
  BY <1>1, <1>2, <1>3 DEF Beeping

LEMMA EndWriteBeeps == ASSUME Typed, Beeping, EndWrite PROVE Beeping'
<1>1. /\ UNCHANGED <<todo, task, parkStep>> /\ writes # <<>> /\ half
      /\ writes \in Seq(AllWrites) /\ writes' = Tail(writes)
  BY DEF EndWrite, parkVars, Typed
<1>2. task # "park" => Calm'
  BY CalmEndWrite DEF Beeping
<1>3. task = "drive" => WritesTo(writes', "buzzer") = {} /\ out'["buzzer"] = 0
  <2> SUFFICES ASSUME task = "drive"
               PROVE  WritesTo(writes', "buzzer") = {} /\ out'["buzzer"] = 0
    OBVIOUS
  <2>1. Calm /\ WritesTo(writes, "buzzer") = {} /\ out["buzzer"] = 0
    BY DEF Beeping
  <2>2. WritesTo(Tail(writes), "buzzer") = {} /\ Head(writes).to # "buzzer"
    BY <1>1, <2>1, TailWrites
  <2> QED
    BY <1>1, <2>1, <2>2, EndWriteBuzzer
<1>4. task = "park" /\ parkStep = 4 => Silencing'
  BY <1>1, CalmEndWrite DEF Beeping, Silencing
<1> QED
  BY <1>1, <1>2, <1>3, <1>4 DEF Beeping

LEMMA WriteEnableBeeps == ASSUME Typed, Beeping, WriteEnable PROVE Beeping'
<1>1. /\ UNCHANGED <<todo, half, task, parkStep>> /\ writes # <<>>
      /\ writes' = Tail(writes)
  BY DEF WriteEnable, parkVars
<1>2. ~Calm
  BY CalmNoEnable
<1>3. task = "park"
  BY <1>2 DEF Beeping
<1>4. parkStep = 4 => Silencing'
  <2> SUFFICES ASSUME parkStep = 4 PROVE Silencing'
    OBVIOUS
  <2>1. CASE todo = <<Silenced>>
    BY <1>1, <2>1 DEF Silencing
  <2>2. CASE todo = <<>> /\ writes = Silenced.writes /\ ~half
    <3>1. out'[Enable] = 0
      BY <2>2, WriteEnableOut, SilencedWrites, BuzzerName
    <3>2. WritesTo(writes', Enable) = {} /\ Left(writes', "buzzer", out'["buzzer"]) = 0
      BY <1>1, <2>2, SilencedWrites
    <3>3. Calm'
      BY <1>1, <2>2, <3>1, <3>2 DEF Calm
    <3> QED
      BY <1>1, <2>2, <3>3 DEF Silencing
  <2> QED
    BY <1>1, <1>2, <1>3, <2>1, <2>2 DEF Beeping, Silencing
<1> QED
  BY <1>1, <1>3, <1>4 DEF Beeping

LEMMA CommandBeeps ==
  ASSUME Typed, Beeping, NEW dir \in Dirs, NEW duty \in Duties, CommandArrives(dir, duty)
  PROVE  Beeping'
<1>1. UNCHANGED <<todo, writes, half, held, task, parkStep>>
  BY DEF CommandArrives, callVars, parkVars
<1>2. out'["buzzer"] = out["buzzer"] /\ out'[Enable] = out[Enable]
  BY CommandOut
<1>3. Calm => Calm'
  BY <1>1, <1>2, CalmStays
<1> QED
  BY <1>1, <1>2, <1>3 DEF Beeping, Silencing

LEMMA BeepsBeeps == ASSUME Typed, Beeping, Beeps PROVE Beeping'
<1>1. UNCHANGED <<todo, writes, half, held, task, parkStep>>
  BY DEF Beeps, callVars, parkVars
<1>2. ~Calm
  BY CalmNoEnable
<1> QED
  BY <1>1, <1>2 DEF Beeping, Silencing

\* Between two calls of a drive or a warning the buzzer is off.
LEMMA IdleCalm ==
  ASSUME Beeping, Idle, task # "park", UNCHANGED Standing
  PROVE  /\ Calm' /\ out'["buzzer"] = 0 /\ WritesTo(writes', "buzzer") = {}
<1>1. writes = <<>> /\ Calm /\ UNCHANGED <<out, writes, half, held>>
  BY DEF Idle, Beeping, Standing
<1>2. out["buzzer"] = 0 /\ Calm'
  BY <1>1, NoneLeft, CalmStays
<1> QED
  BY <1>1, <1>2 DEF WritesTo

LEMMA DrivesBeeps == ASSUME Typed, Beeping, LoopDrives PROVE Beeping'
<1>1. UNCHANGED Standing /\ task' = "drive" /\ Idle /\ task # "park"
  BY DrivesTyped DEF LoopDrives, Calls
<1>2. Calm' /\ out'["buzzer"] = 0 /\ WritesTo(writes', "buzzer") = {}
  BY <1>1, IdleCalm
<1>3. \A i \in DOMAIN todo' : Mute(todo'[i])
  <2>1. Mute(motorStop) /\ Mute(ledStopAll)
    BY Mutes, StopMakes
  <2>2. \A dir \in Dirs, duty \in Duties :
          Mute(MotorPart(dir, duty)) /\ Mute(LampPart(dir, duty))
    BY Mutes, CommandCalls
  <2>3. \/ todo' = <<motorStop>> \/ todo' = <<ledStopAll>>
        \/ \E dir \in Dirs, duty \in Duties :
             \/ todo' = <<MotorPart(dir, duty), LampPart(dir, duty)>>
             \/ todo' = <<LampPart(dir, duty), MotorPart(dir, duty)>>
    BY DEF LoopDrives, Calls, motorRunCommand
  <2> QED
    BY <2>1, <2>2, <2>3
<1>4. \A i \in DOMAIN todo' : Hush(todo'[i])
  BY <1>3, MuteIsHush
<1> QED
  BY <1>1, <1>2, <1>3, <1>4 DEF Beeping

LEMMA WarnsBeeps == ASSUME Typed, Beeping, LoopWarns PROVE Beeping'
<1>1. UNCHANGED Standing /\ task' = "warn" /\ Idle /\ task # "park"
  BY WarnsTyped DEF LoopWarns, Calls
<1>2. Calm'
  BY <1>1, IdleCalm
<1>3. PICK duty \in Duties, again \in {<<>>, <<emergencyBuzzer>>} :
        todo' = <<emergencyBuzzer, motorMoveReverse(duty), motorStop>> \o again
  BY DEF LoopWarns, Calls
<1>4. Hush(emergencyBuzzer) /\ Hush(motorStop) /\ Hush(motorMoveReverse(duty))
  <2>1. duty \in 0..1000
    BY BoardAssumption
  <2>2. Mute(motorStop) /\ Mute(motorMoveReverse(duty))
    BY <2>1, Mutes, StopMakes, StraightMakes, Zenon
  <2> QED
    BY <2>2, MuteIsHush, EmergencyHush
<1>5. PICK some \in Seq(AllCalls), more \in Seq(AllCalls) :
        /\ todo' = some \o more
        /\ some = <<emergencyBuzzer, motorMoveReverse(duty), motorStop>>
        /\ more = <<>> \/ more = <<emergencyBuzzer>>
  <2>1. duty \in 0..1000
    BY BoardAssumption
  <2>2. /\ emergencyBuzzer \in AllCalls /\ motorStop \in AllCalls
        /\ motorMoveReverse(duty) \in AllCalls
    BY <2>1, BuzzerCalls, StopMakes, StraightMakes, Zenon DEF AllCalls
  <2>3. /\ <<emergencyBuzzer, motorMoveReverse(duty), motorStop>> \in Seq(AllCalls)
        /\ <<>> \in Seq(AllCalls) /\ <<emergencyBuzzer>> \in Seq(AllCalls)
    BY <2>2
  <2>4. again = <<>> \/ again = <<emergencyBuzzer>>
    OBVIOUS
  <2> QED
    BY <1>3, <2>3, <2>4
<1>6. \A i \in DOMAIN todo' : Hush(todo'[i])
  <2>1. \A i \in 1..Len(some) : Hush(some[i])
    BY <1>4, <1>5
  <2>2. \A i \in 1..Len(more) : Hush(more[i])
    BY <1>4, <1>5
  <2>3. ASSUME NEW i \in DOMAIN todo' PROVE Hush(todo'[i])
    <3>1. /\ DOMAIN (some \o more) = 1..(Len(some) + Len(more))
          /\ \A k \in 1..Len(some) : (some \o more)[k] = some[k]
          /\ \A k \in 1..Len(more) : (some \o more)[Len(some) + k] = more[k]
          /\ Len(some) \in Nat /\ Len(more) \in Nat
      OBVIOUS
    <3>2. todo' = some \o more
      BY <1>5
    <3>3. CASE i <= Len(some)
      BY <2>1, <3>1, <3>2, <3>3
    <3>4. CASE i > Len(some)
      <4>1. PICK k \in 1..Len(more) : i = Len(some) + k
        <5>1. i - Len(some) \in 1..Len(more) /\ i = Len(some) + (i - Len(some))
          BY <3>1, <3>2, <3>4
        <5> QED
          BY <5>1
      <4> QED
        BY <2>2, <3>1, <3>2, <4>1
    <3> QED
      BY <3>1, <3>2, <3>3, <3>4
  <2> QED
    BY <2>3
<1> QED
  BY <1>1, <1>2, <1>6 DEF Beeping

LEMMA ParksBeeps == ASSUME Typed, Beeping, LoopParks \/ Parks PROVE Beeping'
<1>1. CASE LoopParks
  BY <1>1 DEF LoopParks, Calls, Beeping
<1>2. CASE FoundSpace
  <2>1. task' = "park" /\ parkStep' \in {1, 2}
    BY <1>2 DEF FoundSpace, Calls
  <2> QED
    BY <2>1 DEF Beeping
<1>3. CASE StartBeeper
  BY <1>3 DEF StartBeeper, Calls, Beeping
<1>4. CASE StopBacking
  <2>1. /\ task' = "park" /\ todo' = <<motorStop, Silenced>> /\ writes' = <<>>
    BY <1>4 DEF StopBacking, Calls, Idle, EndOfBacking
  <2> QED
    BY <2>1 DEF Beeping, Silencing
<1>5. CASE ParkReturns
  <2>1. /\ writes = <<>> /\ todo = <<>> /\ task = "park" /\ parkStep = 4
        /\ task' = "drive" /\ todo' = <<>> /\ UNCHANGED <<out, writes, half, held>>
    BY <1>5 DEF ParkReturns, Calls, Idle
  <2>2. Calm
    BY <2>1, SilencedWrites DEF Beeping, Silencing
  <2>3. Calm' /\ out'["buzzer"] = 0
    BY <2>1, <2>2, NoneLeft, CalmStays
  <2>4. WritesTo(writes', "buzzer") = {}
    BY <2>1 DEF WritesTo
  <2> QED
    BY <2>1, <2>3, <2>4 DEF Beeping
<1> QED
  BY <1>1, <1>2, <1>3, <1>4, <1>5 DEF Parks

LEMMA SameBeeps ==
  ASSUME Beeping, UNCHANGED <<Standing, todo, parkVars>>
  PROVE  Beeping'
<1>1. UNCHANGED <<out, writes, half, held, todo, task, parkStep>>
  BY DEF Standing, parkVars
<1>2. Calm => Calm'
  BY <1>1, CalmStays
<1> QED
  BY <1>1, <1>2 DEF Beeping, Silencing

LEMMA InitBeeps == Init => Beeping
<1> SUFFICES ASSUME Init PROVE Beeping
  OBVIOUS
<1>1. out["buzzer"] = 0 /\ out[Enable] = 0
  BY BuzzerName DEF Init
<1>2. WritesTo(writes, "buzzer") = {} /\ WritesTo(writes, Enable) = {}
  BY DEF Init, WritesTo
<1>3. Calm
  BY <1>1, <1>2, NoWrite DEF Calm, Init
<1> QED
  BY <1>1, <1>2, <1>3 DEF Beeping, Init

LEMMA StepBeeps == Typed /\ Beeping /\ [Next]_vars => Beeping'
<1> SUFFICES ASSUME Typed, Beeping, [Next]_vars PROVE Beeping'
  OBVIOUS
<1>1. CASE Write
  BY <1>1, BeginCallBeeps, BeginWriteBeeps, EndWriteBeeps, WriteEnableBeeps DEF Write
<1>2. CASE LoopCalls
  BY <1>2, DrivesBeeps, WarnsBeeps, ParksBeeps DEF LoopCalls
<1>3. CASE Parks
  BY <1>3, ParksBeeps
<1>4. ASSUME NEW dir \in Dirs, NEW duty \in Duties, CommandArrives(dir, duty)
      PROVE  Beeping'
  BY <1>4, CommandBeeps
<1>5. CASE Beeps
  BY <1>5, BeepsBeeps
<1>6. CASE SensorsChange
  BY <1>6, SensorsTyped, SameBeeps
<1>7. CASE UNCHANGED vars
  <2>1. UNCHANGED <<Standing, todo, parkVars>>
    BY <1>7 DEF vars, motorVars, callVars, Standing
  <2> QED
    BY <2>1, SameBeeps
<1> QED
  BY <1>1, <1>2, <1>3, <1>4, <1>5, <1>6, <1>7 DEF Next

\* A warning ends with the buzzer off, and the end of a parking run switches the
\* interrupt off before the buzzer, so that no toggle comes after it; a write to
\* the port puts back what it has read, and that is as silent.
THEOREM BuzzerSilent == Spec => []BeeperSilent
<1>1. Spec => [](Typed /\ Beeping)
  BY InitTyped, StepTyped, InitBeeps, StepBeeps, PTL DEF Spec
<1>2. Beeping => BeeperSilent
  BY DEF Beeping, BeeperSilent, Calm
<1> QED
  BY <1>1, <1>2, PTL

---------------------------------------------------------------------------
(* Division by the round of the timer.                                     *)

LEMMA WrapNumbers == Wrap \in Nat /\ Wrap >= 2
BY TimingAssumption DEF TimingAssumption

\* A time is its rounds and its value of TIM0.
LEMMA RoundsAndRest ==
  \A t \in Nat : /\ TIM0(t) \in 0..(Wrap - 1)
                 /\ Latched(t) \in Nat
                 /\ Wrap * Latched(t) \in Nat
                 /\ t = Wrap * Latched(t) + TIM0(t)
BY WrapNumbers DEF TIM0, Latched

LEMMA NextRound == \A q \in Int : Wrap * (q + 1) = Wrap * q + Wrap
BY WrapNumbers

\* Nothing else has that rest, ...
LEMMA RestIsUnique ==
  ASSUME NEW t \in Int, NEW q \in Int, NEW r \in 0..(Wrap - 1), t = Wrap * q + r
  PROVE  t % Wrap = r
<1> DEFINE d == t \div Wrap
           m == t % Wrap
<1>1. d \in Int /\ m \in 0..(Wrap - 1) /\ t = Wrap * d + m
  BY WrapNumbers
<1> HIDE DEF d, m
<1>2. Wrap * (q - d) = m - r
  BY <1>1, WrapNumbers
<1>3. CASE q = d
  BY <1>1, <1>3, WrapNumbers DEF m
<1>4. CASE q >= d + 1
  <2>1. Wrap * (q - d) >= Wrap
    BY <1>1, <1>4, WrapNumbers
  <2> QED
    BY <1>1, <1>2, <2>1, WrapNumbers
<1>5. CASE q <= d - 1
  <2>1. Wrap * (q - d) <= -Wrap
    BY <1>1, <1>5, WrapNumbers
  <2> QED
    BY <1>1, <1>2, <2>1, WrapNumbers
<1> QED
  BY <1>1, <1>3, <1>4, <1>5

\* ... so TIM0 of a time in the round of another one, or in the next, is the
\* distance to the start of that round.
LEMMA InTheRound ==
  ASSUME NEW t \in Nat, NEW u \in Nat
  PROVE  LET start == Wrap * Latched(u) IN
         /\ t - start \in 0..(Wrap - 1) => TIM0(t) = t - start
         /\ t - start \in Wrap..(2 * Wrap - 1) => TIM0(t) = t - start - Wrap
<1> DEFINE start == Wrap * Latched(u)
<1>1. start \in Nat /\ Latched(u) \in Nat
  BY RoundsAndRest
<1>2. Wrap * (Latched(u) + 1) = start + Wrap
  BY <1>1, NextRound
<1>3. ASSUME t - start \in 0..(Wrap - 1) PROVE TIM0(t) = t - start
  <2>1. t = Wrap * Latched(u) + (t - start)
    BY <1>1
  <2> QED
    BY <1>1, <1>3, <2>1, RestIsUnique DEF TIM0
<1>4. ASSUME t - start \in Wrap..(2 * Wrap - 1) PROVE TIM0(t) = t - start - Wrap
  <2>1. t = Wrap * (Latched(u) + 1) + (t - start - Wrap)
    BY <1>1, <1>2, WrapNumbers
  <2>2. t - start - Wrap \in 0..(Wrap - 1)
    BY <1>1, <1>4, WrapNumbers
  <2> QED
    BY <1>1, <2>1, <2>2, RestIsUnique DEF TIM0
<1> QED
  BY <1>3, <1>4

---------------------------------------------------------------------------
(* What the loop remembers of the times it has read.                       *)

\* A reading of the timer: its lower word is that of its time, and the upper one
\* as well unless an interrupt came between.
IsReading(value, t) ==
  /\ \E c \in Nat : value = TIM0(t) + Wrap * c
  /\ ~between => value = t

Clocks ==
  /\ now \in Nat /\ cap \in Nat /\ between \in BOOLEAN
  /\ phase # "idle" => from \in 0..now

Waits ==
  phase = "delay" => ticks \in Delays /\ target = Target(from, ticks)

Measures ==
  /\ phase = "first" => low = from
  /\ phase \in {"first", "next", "read"} => low \in from..now
  /\ phase \in {"first", "next"} /\ ~between => cap = Latched(low)
  /\ phase \in {"echo", "next", "read"} => IsReading(first, from)
  /\ phase = "read" => IsReading(last, low)

TimerInv == Clocks /\ Waits /\ Measures

\* Reading both words gives a reading.
LEMMA BothWords ==
  ASSUME NEW t \in Nat, low = t, cap \in Nat, ~between => cap = Latched(t)
  PROVE  IsReading(getTime10Ns(cap), t)
<1>1. getTime10Ns(cap) = TIM0(t) + Wrap * cap
  BY DEF getTime10Ns
<1>2. ~between => getTime10Ns(cap) = t
  BY <1>1, RoundsAndRest DEF TIM0
<1> QED
  BY <1>1, <1>2 DEF IsReading

LEMMA TimerStep == TimerInv /\ [TimerNext]_timerVars => TimerInv'
<1> SUFFICES ASSUME TimerInv, [TimerNext]_timerVars PROVE TimerInv'
  OBVIOUS
<1> USE DEF TimerInv, Clocks, Waits, Measures
<1>0. \A t \in Nat : Latched(t) \in Nat
  BY RoundsAndRest
<1>1. CASE Tick
  BY <1>1 DEF Tick, IsReading
<1>2. CASE IsrReads
  BY <1>0, <1>2 DEF IsrReads, IsReading
<1>3. ASSUME NEW n \in Delays, BeginDelay(n) PROVE TimerInv'
  BY <1>0, <1>3 DEF BeginDelay
<1>4. CASE EndDelay
  BY <1>0, <1>4 DEF EndDelay
<1>5. CASE ReadLow
  BY <1>0, <1>5 DEF ReadLow, IsReading
<1>6. CASE ReadHigh
  <2>1. low \in Nat /\ (~between => cap = Latched(low))
    BY <1>6 DEF ReadHigh
  <2>2. IsReading(getTime10Ns(cap), low)
    BY <2>1, BothWords
  <2> QED
    BY <1>6, <2>1, <2>2 DEF ReadHigh, IsReading
<1>7. CASE EchoGoesOn
  BY <1>7 DEF EchoGoesOn, IsReading
<1>8. CASE EndEcho
  BY <1>8 DEF EndEcho
<1>9. CASE UNCHANGED timerVars
  BY <1>9 DEF timerVars, IsReading
<1> QED
  BY <1>1, <1>2, <1>3, <1>4, <1>5, <1>6, <1>7, <1>8, <1>9 DEF TimerNext

LEMMA TimerInvariant == TimerSpec => []TimerInv
<1>1. ASSUME TimerInit PROVE TimerInv
  <2>1. phase = "idle" /\ now = 0 /\ cap = 0 /\ between = FALSE
    BY <1>1, Zenon DEF TimerInit, TimerAt
  <2> QED
    BY <2>1 DEF TimerInv, Clocks, Waits, Measures
<1> QED
  BY <1>1, TimerStep, PTL DEF TimerSpec

---------------------------------------------------------------------------
\* On a timer of any size a delay is never short unless it would end behind the
\* wrap, and it ends within its round if a reading falls there.
THEOREM DelaysLast == TimerSpec => []DelayLasts
<1>1. TimerInv => DelayLasts
  <2> SUFFICES ASSUME TimerInv, phase = "delay"
               PROVE  IF from + ticks < NextWrap
                        THEN now < from + ticks + Wrap =>
                               (Over <=> now \in (from + ticks)..(NextWrap - 1))
                        ELSE now < NextWrap => Over
    BY DEF DelayLasts
  <2> DEFINE start == Wrap * Latched(from)
  <2>1. /\ now \in Nat /\ from \in Nat /\ from <= now
        /\ ticks \in 1..(Wrap - 1) /\ target = (TIM0(from) + ticks) % Wrap
    <3>1. now \in Nat /\ from \in 0..now
      BY DEF TimerInv, Clocks
    <3>2. ticks \in Delays /\ target = (TIM0(from) + ticks) % Wrap
      BY Zenon DEF TimerInv, Waits, Target
    <3> QED
      BY <3>1, <3>2, TimingAssumption DEF TimingAssumption
  <2>2. /\ start \in Nat /\ TIM0(from) \in 0..(Wrap - 1)
        /\ from = start + TIM0(from) /\ NextWrap = start + Wrap
    BY <2>1, RoundsAndRest, NextRound DEF NextWrap
  <2>3. /\ now - start \in 0..(Wrap - 1) => TIM0(now) = now - start
        /\ now - start \in Wrap..(2 * Wrap - 1) => TIM0(now) = now - start - Wrap
    BY <2>1, InTheRound
  <2> HIDE DEF start
  <2>4. CASE from + ticks < NextWrap
    <3>1. target = TIM0(from) + ticks
      <4>1. TIM0(from) + ticks \in 0..(Wrap - 1)
        BY <2>1, <2>2, <2>4, WrapNumbers
      <4>2. TIM0(from) + ticks = Wrap * 0 + (TIM0(from) + ticks)
        BY <4>1, WrapNumbers
      <4> QED
        BY <2>1, <4>1, <4>2, RestIsUnique
    <3> QED
      BY <2>1, <2>2, <2>3, <2>4, <3>1, WrapNumbers DEF Over
  <2>5. CASE ~(from + ticks < NextWrap)
    <3>1. target = TIM0(from) + ticks - Wrap
      <4>1. TIM0(from) + ticks - Wrap \in 0..(Wrap - 1)
        BY <2>1, <2>2, <2>5, WrapNumbers
      <4>2. TIM0(from) + ticks = Wrap * 1 + (TIM0(from) + ticks - Wrap)
        BY <2>1, <2>2, WrapNumbers
      <4> QED
        BY <2>1, <2>2, <4>1, <4>2, RestIsUnique
    <3> QED
      BY <2>1, <2>2, <2>3, <2>5, <3>1, WrapNumbers DEF Over
  <2> QED
    BY <2>4, <2>5
<1> QED
  BY <1>1, TimerInvariant, PTL

\* The length of an echo is right on a timer of any size, whatever interrupts
\* read it; the time-out is right if none came between two words.
THEOREM EchoesTrue == TimerSpec => []EchoTrue
<1>1. TimerInv => EchoTrue
  <2> SUFFICES ASSUME TimerInv, phase = "read"
               PROVE  /\ low - from < Wrap \div 2 => Echo = low - from
                      /\ ~between => \A limit \in Limits :
                                       GivesUp(limit) <=> low - from > limit
    BY DEF EchoTrue
  <2>1. /\ from \in Nat /\ low \in Nat /\ from <= low
        /\ IsReading(first, from) /\ IsReading(last, low)
    BY DEF TimerInv, Clocks, Measures
  <2>2. ~between => \A limit \in Limits : GivesUp(limit) <=> low - from > limit
    BY <2>1, TimingAssumption DEF IsReading, GivesUp, TimingAssumption
  <2>3. ASSUME low - from < Wrap \div 2 PROVE Echo = low - from
    <3>1. PICK b \in Nat, c \in Nat : first = TIM0(from) + Wrap * b
                                      /\ last = TIM0(low) + Wrap * c
      BY <2>1 DEF IsReading
    <3>2. /\ from = Wrap * Latched(from) + TIM0(from)
          /\ low = Wrap * Latched(low) + TIM0(low)
          /\ {Latched(from), Latched(low), TIM0(from), TIM0(low)} \subseteq Nat
      BY <2>1, RoundsAndRest
    <3> DEFINE k == (c - b) - (Latched(low) - Latched(from))
    <3>3. k \in Int /\ last - first \in Int /\ last - first = Wrap * k + (low - from)
      BY <2>1, <3>1, <3>2, WrapNumbers
    <3>4. low - from \in 0..(Wrap - 1) /\ Wrap \div 2 <= Wrap - 1
      BY <2>1, <2>3, WrapNumbers
    <3>5. (last - first) % Wrap = low - from
      BY <3>3, <3>4, RestIsUnique
    <3> QED
      BY <2>3, <3>5 DEF Echo, AsInt
  <2> QED
    BY <2>2, <2>3
<1> QED
  BY <1>1, TimerInvariant, PTL
=============================================================================
