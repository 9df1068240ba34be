------------------------- MODULE BootRecordProofs --------------------------
(* Proofs about BootRecord, for every size of the sector, every choice of  *)
(* images and every bound.                                                 *)
EXTENDS BootRecord, TLAPS

---------------------------------------------------------------------------
(* The records and the operations on them.                                 *)

LEMMA AppsFacts ==
  /\ "A" \in Apps /\ "B" \in Apps
  /\ \A app \in Apps : Other(app) \in Apps
BY DEF Apps, Other

LEMMA MissingIsNoRecord == Missing \notin Records
<1> SUFFICES ASSUME Missing \in Records PROVE FALSE
  OBVIOUS
<1>1. Missing.app \in Apps
  BY DEF Records
<1> QED
  BY <1>1 DEF Missing, Apps

LEMMA BcbType ==
  ASSUME NEW app \in Apps, NEW request \in BOOLEAN, NEW inProgress \in BOOLEAN,
         NEW valid \in SUBSET Apps, NEW attempt \in 0..MaxAttempt
  PROVE  Bcb(app, request, inProgress, valid, attempt) \in Records
BY DEF Bcb, Records

LEMMA FieldTypes ==
  ASSUME NEW r \in Records
  PROVE  /\ r.app \in Apps /\ r.request \in BOOLEAN /\ r.inProgress \in BOOLEAN
         /\ r.valid \in SUBSET Apps /\ r.attempt \in 0..MaxAttempt
BY DEF Records

LEMMA OperationTypes ==
  ASSUME NEW r \in Records
  PROVE  /\ RequestIn(r) \in Records /\ BeginIn(r) \in Records
         /\ RollbackIn(r) \in Records /\ ConfirmIn(r) \in Records
         /\ \A app \in Apps : CommitIn(r, app) \in Records
         /\ \A n \in 0..MaxAttempt : TriedIn(r, n) \in Records
         /\ GivenUpIn(r) \in Records
<1>1. 0 \in 0..MaxAttempt /\ 1 \in 0..MaxAttempt
  BY DEF MaxAttempt
<1> QED
  BY <1>1, BcbType, FieldTypes, AppsFacts
  DEF RequestIn, BeginIn, RollbackIn, ConfirmIn, CommitIn, TriedIn, GivenUpIn

LEMMA ConstantRecords == Zero \in Records /\ Default \in Records
<1>1. 0 \in 0..MaxAttempt /\ 1 \in 0..MaxAttempt
  BY DEF MaxAttempt
<1> QED
  BY <1>1, BcbType, AppsFacts DEF Zero, Default

\* An update that is cut off leaves no trace in what follows it.
LEMMA BeginForgotten ==
  ASSUME NEW r
  PROVE  /\ RollbackIn(BeginIn(r)) = RollbackIn(r)
         /\ \A app : CommitIn(BeginIn(r), app) = CommitIn(r, app)
BY DEF Bcb, BeginIn, RollbackIn, CommitIn

LEMMA NextIndexValue ==
  ASSUME NEW n \in Nat \ {0, 1}, NEW f \in 0..n
  PROVE  f % n = IF f = n THEN 0 ELSE f
OBVIOUS

\* The place behind n records of the sector.
Behind(n) == IF n = BCB_MAX_COUNT THEN 0 ELSE n

---------------------------------------------------------------------------
(* The inductive invariant.                                                *)

\* Where the next record goes, at each control point.
Positions ==
  /\ pc \in {"boot", "start", "erase"} => index = 0
  /\ pc = "erase" => filled \in {0, BCB_MAX_COUNT} \/ Blind
  /\ pc = "fill" => index = 0 /\ filled = 0
  /\ pc = "program" => index = filled
  /\ pc = "reprogram" => filled = 0
  /\ pc \in {"update", "run"} => index = IF Blind THEN 0 ELSE Behind(filled)

\* Whether it is an application that runs.
Programs ==
  /\ pc \in {"boot", "update"} => running = "none"
  /\ pc = "start" => running # "none"
  /\ Writing /\ then \in {"update", "run"} => ~Blind

\* Only applications that have confirmed themselves ask for an update.
Untried(r) == r.request => r.attempt = 0

Requests ==
  /\ Untried(cur)
  /\ latest # Missing => Untried(latest)
  /\ pc = "run" => cur.attempt = 0
  /\ Writing /\ then = "run" => cur.attempt = 0

\* What one update of the abstract record may do.
Step(r, s) ==
  IF Blind THEN s = RequestIn(Zero)
  ELSE IF r = Missing THEN FromMemory(s)
  ELSE Operation(r, s)

\* The write that is under way is an operation on the record before it.
Pending ==
  Writing =>
    /\ Step(base, cur)
    /\ filled > 0 \/ pc = "erase" => base = latest

\* What is in memory, seen from what is in flash.
Beginning(r, s) == r # Missing /\ r.request /\ s = BeginIn(r)
Confirming(r, s) ==
  r # Missing /\ ~r.request /\ r.attempt > 0 /\ s = ConfirmIn(r)

\* The memory s of the boot loader during an update, and of an application,
\* over the record r.
UpdateMemory(r, s) ==
  r = Missing \/ Beginning(r, s) \/ (r.request /\ s = r)
RunMemory(r, s) ==
  IF Blind THEN s = Zero ELSE r = Missing \/ Confirming(r, s) \/ s = r

Memory ==
  /\ pc \in {"boot", "start"} => cur = Zero
  /\ Writing /\ then = "update" => Beginning(base, cur)
  /\ Writing /\ then = "run" => Confirming(base, cur)
  /\ pc = "update" => UpdateMemory(latest, cur)
  /\ pc = "run" => RunMemory(latest, cur)

Inv ==
  RecordTypes /\ Positions /\ Programs /\ Requests /\ Pending /\ Memory

---------------------------------------------------------------------------
(* The three kinds of steps: a write begins, a write ends, a reset.        *)

LEMMA ZeroFields == Zero.request = FALSE /\ Zero.attempt = 0
BY DEF Zero, Bcb

\* The place of the next record.
Place == IF Blind THEN 0 ELSE Behind(filled)

LEMMA WriteBegins ==
  ASSUME Inv, ~Writing,
         NEW r \in Records, NEW i \in 0..(BCB_MAX_COUNT - 1),
         NEW next \in {"boot", "update", "start", "run"},
         i = Place, Blind' <=> Blind, Step(latest, r), Untried(r),
         next \in {"update", "run"} => ~Blind,
         next = "update" => Beginning(latest, r),
         next = "run" => Confirming(latest, r) /\ r.attempt = 0,
         writeCurrentBcb(r, i, next), UNCHANGED flashVars
  PROVE  Inv'
<1> USE DEF Inv, writeCurrentBcb, flashVars
<1>0. pc' = IF i = 0 THEN "erase" ELSE "program"
  OBVIOUS
<1>1. RecordTypes'
  BY BootAssumption DEF RecordTypes, ControlPoints
<1>2. Positions'
  BY BootAssumption DEF Positions, RecordTypes, Place, Behind
<1>3. Requests'
  BY DEF Requests, Untried
<1>4. Pending'
  BY DEF Pending, Step
<1>5. Memory'
  BY <1>0 DEF Memory, Writing
<1>6. Programs'
  BY <1>0 DEF Programs, Writing
<1> QED
  BY <1>1, <1>2, <1>3, <1>4, <1>5, <1>6

LEMMA WriteEnds ==
  ASSUME Inv, Writing, NEW i \in 0..(BCB_MAX_COUNT - 1), Return(i),
         image' = image,
         filled' \in 0..BCB_MAX_COUNT, latest' \in Records \cup {Missing},
         (latest' = Missing) <=> (filled' = 0),
         latest' # Missing => Untried(latest'),
         then \in {"update", "run"} => i = Behind(filled'),
         then = "update" => UpdateMemory(latest', cur),
         then = "run" => RunMemory(latest', cur)
  PROVE  Inv'
<1> USE DEF Inv, Return
<1>0. pc' = then /\ then' = "boot" /\ base' = Missing /\ ~Writing'
  BY DEF RecordTypes, Writing
<1>a. then \in {"boot", "start"} => cur' = Zero /\ index' = 0
  OBVIOUS
<1>b. then \in {"update", "run"} => cur' = cur /\ index' = i
  OBVIOUS
<1>c. then \in {"boot", "update", "start", "run"}
  BY DEF RecordTypes
<1>d. 0 \in 0..(BCB_MAX_COUNT - 1)
  BY BootAssumption
<1>e. then \in {"update", "run"} => ~Blind /\ ~Blind'
  BY DEF Programs, Blind
<1>1. RecordTypes'
  BY <1>0, <1>a, <1>b, <1>c, <1>d, ConstantRecords
  DEF RecordTypes, ControlPoints
<1>2. Positions'
  BY <1>0, <1>a, <1>b, <1>c, <1>e DEF Positions, Behind
<1>3. Requests'
  BY <1>0, <1>a, <1>b, <1>c, ZeroFields DEF Requests, Untried
<1>4. Pending'
  BY <1>0 DEF Pending
<1>5. Memory'
  BY <1>0, <1>a, <1>b, <1>c, <1>e
  DEF Memory, UpdateMemory, RunMemory, Beginning, Confirming
<1>6. Programs'
  <2>1. then = "start" => running' # "none"
    BY FieldTypes DEF RecordTypes, Apps
  <2> QED
    BY <1>0, <1>c, <2>1 DEF Programs
<1> QED
  BY <1>1, <1>2, <1>3, <1>4, <1>5, <1>6

LEMMA ResetEnds ==
  ASSUME Inv, NEW watchdog, Reset(watchdog)
  PROVE  Inv'
<1> USE DEF Inv, Reset, flashVars
<1>0. pc' = "boot" /\ ~Writing'
  BY DEF Writing
<1>1. RecordTypes'
  BY BootAssumption, ConstantRecords DEF RecordTypes, ControlPoints
<1>2. Positions'
  BY DEF Positions
<1>3. Requests'
  BY <1>0, ZeroFields DEF Requests, Untried
<1>4. Pending'
  BY <1>0 DEF Pending
<1>5. Memory' /\ Programs'
  BY <1>0 DEF Memory, Programs
<1> QED
  BY <1>1, <1>2, <1>3, <1>4, <1>5

---------------------------------------------------------------------------
(* The invariant is inductive: one lemma for each group of actions.        *)

LEMMA InitInv == bootInit => Inv
<1> SUFFICES ASSUME bootInit PROVE Inv
  OBVIOUS
<1> USE DEF bootInit
<1>1. RecordTypes
  BY BootAssumption, ConstantRecords DEF RecordTypes, ControlPoints
<1>2. Positions
  BY DEF Positions
<1>3. Requests
  BY ZeroFields DEF Requests, Untried, Writing
<1>4. Pending /\ Memory /\ Programs
  BY DEF Pending, Memory, Programs, Writing
<1> QED
  BY <1>1, <1>2, <1>3, <1>4 DEF Inv

\* What the invariant says of the position and the memory at the control points
\* a write begins at.
LEMMA NextIndexType ==
  ASSUME Inv
  PROVE  /\ NextIndex \in 0..(BCB_MAX_COUNT - 1)
         /\ NextIndex = Behind(filled)
<1>1. filled \in 0..BCB_MAX_COUNT /\ BCB_MAX_COUNT \in Nat \ {0, 1}
  BY BootAssumption DEF Inv, RecordTypes
<1>2. NextIndex = Behind(filled)
  BY <1>1, NextIndexValue DEF NextIndex, Behind
<1> QED
  BY <1>1, <1>2 DEF Behind

\* The record that is found, when there is one.
LEMMA FoundRecord ==
  ASSUME Inv, filled > 0
  PROVE  latest \in Records /\ latest # Missing /\ Untried(latest)
BY DEF Inv, RecordTypes, Requests

LEMMA EraseSectorInv == Inv /\ EraseSector => Inv'
<1> SUFFICES ASSUME Inv, EraseSector PROVE Inv'
  OBVIOUS
<1>0. /\ pc = "erase" /\ Writing /\ index = 0 /\ base = latest
      /\ image' = image
  BY DEF EraseSector, Writing, Inv, Positions, Pending
<1>1. CASE pc' = "fill" /\ filled' = 0 /\ latest' = Missing
           /\ UNCHANGED <<then, running, image, cur, index, base>>
  <2>0. Blind' <=> Blind
    BY <1>1 DEF Blind
  <2>1. RecordTypes'
    BY <1>1, BootAssumption DEF Inv, RecordTypes, ControlPoints
  <2>2. Positions' /\ Requests'
    BY <1>0, <1>1 DEF Inv, Positions, Requests, Untried, Writing
  <2>3. Pending' /\ Memory' /\ Programs'
    BY <1>0, <1>1, <2>0 DEF Inv, Pending, Step, Memory, Programs, Writing
  <2> QED
    BY <2>1, <2>2, <2>3 DEF Inv
<1>2. CASE Return(index) /\ UNCHANGED flashVars
  <2>1. then = "update" => UpdateMemory(latest', cur)
    BY <1>0, <1>2 DEF Inv, Memory, UpdateMemory, flashVars
  <2>2. then = "run" => RunMemory(latest', cur)
    BY <1>0, <1>2 DEF Inv, Memory, Programs, RunMemory, flashVars
  <2>3. then \in {"update", "run"} => index = Behind(filled')
    BY <1>0, <1>2 DEF Inv, Positions, Programs, Behind, flashVars
  <2> QED
    BY <1>0, <1>2, <2>1, <2>2, <2>3, WriteEnds
    DEF Inv, RecordTypes, Requests, flashVars
<1> QED
  BY <1>1, <1>2 DEF EraseSector

LEMMA FillSectorInv == Inv /\ FillSector => Inv'
<1> SUFFICES ASSUME Inv, FillSector PROVE Inv'
  OBVIOUS
<1>0. /\ pc = "fill" /\ Writing /\ index = 0 /\ filled = 0 /\ latest = Missing
      /\ UNCHANGED <<flashVars, image>>
  BY DEF FillSector, Writing, Inv, Positions, RecordTypes
<1>1. CASE pc' = "program" /\ UNCHANGED <<then, running, cur, index, base>>
  <2>0. Blind' <=> Blind
    BY <1>0, <1>1 DEF Blind
  <2>1. RecordTypes'
    BY <1>0, <1>1 DEF Inv, RecordTypes, ControlPoints, flashVars
  <2>2. Positions' /\ Requests'
    BY <1>0, <1>1 DEF Inv, Positions, Requests, Untried, Writing, flashVars
  <2>3. Pending' /\ Memory' /\ Programs'
    BY <1>0, <1>1, <2>0
    DEF Inv, RecordTypes, Pending, Step, Memory, Programs, Writing, flashVars
  <2> QED
    BY <2>1, <2>2, <2>3 DEF Inv
<1>2. CASE Return(index)
  <2>1. then \in {"update", "run"} => ~Blind /\ index = Behind(filled')
    BY <1>0, BootAssumption DEF Inv, Programs, Behind, flashVars
  <2> QED
    BY <1>0, <1>2, <2>1, WriteEnds
    DEF Inv, RecordTypes, Requests, UpdateMemory, RunMemory, flashVars
<1> QED
  BY <1>1, <1>2 DEF FillSector

\* The record is in the flash: the boot loader goes on with its update, the
\* application with its work.
LEMMA Programmed ==
  ASSUME Inv, Writing, latest' = cur
  PROVE  /\ latest' \in Records /\ latest' # Missing /\ Untried(latest')
         /\ then = "update" => UpdateMemory(latest', cur)
         /\ then = "run" => RunMemory(latest', cur)
<1>1. latest' \in Records /\ latest' # Missing /\ Untried(latest')
  BY MissingIsNoRecord DEF Inv, RecordTypes, Requests
<1>2. then = "update" => cur.request
  BY DEF Inv, Memory, Beginning, BeginIn, Bcb
<1> QED
  BY <1>1, <1>2 DEF UpdateMemory, RunMemory, Inv, Programs

LEMMA SuccessorIndex ==
  ASSUME NEW i \in 0..(BCB_MAX_COUNT - 1)
  PROVE  /\ (i + 1) % BCB_MAX_COUNT \in 0..(BCB_MAX_COUNT - 1)
         /\ (i + 1) % BCB_MAX_COUNT = Behind(i + 1)
<1>1. i + 1 \in 0..BCB_MAX_COUNT
  BY BootAssumption
<1>2. (i + 1) % BCB_MAX_COUNT = Behind(i + 1)
  BY <1>1, NextIndexValue, BootAssumption DEF Behind
<1> QED
  BY <1>1, <1>2, BootAssumption DEF Behind

LEMMA ProgramPageInv == Inv /\ ProgramPage => Inv'
<1> SUFFICES ASSUME Inv, ProgramPage PROVE Inv'
  OBVIOUS
<1>0. pc = "program" /\ Writing /\ image' = image
  BY DEF ProgramPage, Writing
<1>1. CASE /\ filled' = index + 1 /\ latest' = cur
           /\ Return((index + 1) % BCB_MAX_COUNT)
  <2>1. /\ (index + 1) % BCB_MAX_COUNT \in 0..(BCB_MAX_COUNT - 1)
        /\ (index + 1) % BCB_MAX_COUNT = Behind(filled')
    BY <1>1, SuccessorIndex DEF Inv, RecordTypes
  <2>2. filled' \in 0..BCB_MAX_COUNT /\ filled' # 0
    BY <1>1, BootAssumption DEF Inv, RecordTypes
  <2> QED
    BY <1>0, <1>1, <2>1, <2>2, Programmed, WriteEnds
<1>2. CASE pc' = "recover" /\ UNCHANGED <<flashVars, then, running, cur, index, base>>
  <2>0. Blind' <=> Blind
    BY <1>0, <1>2 DEF Blind
  <2>1. RecordTypes'
    BY <1>0, <1>2 DEF Inv, RecordTypes, ControlPoints, flashVars
  <2>2. Positions' /\ Requests'
    BY <1>0, <1>2 DEF Inv, Positions, Requests, Untried, Writing, flashVars
  <2>3. Pending' /\ Memory' /\ Programs'
    BY <1>0, <1>2, <2>0
    DEF Inv, Pending, Step, Memory, Programs, Writing, flashVars
  <2> QED
    BY <2>1, <2>2, <2>3 DEF Inv
<1> QED
  BY <1>1, <1>2 DEF ProgramPage

LEMMA RecoverSectorInv == Inv /\ RecoverSector => Inv'
<1> SUFFICES ASSUME Inv, RecoverSector PROVE Inv'
  OBVIOUS
<1> USE DEF RecoverSector
<1>0. Blind' <=> Blind
  BY DEF Blind
<1>1. RecordTypes'
  BY BootAssumption DEF Inv, RecordTypes, ControlPoints
<1>2. Positions' /\ Requests'
  BY DEF Inv, Positions, Requests, Untried, Writing
<1>3. Pending' /\ Memory' /\ Programs'
  BY <1>0 DEF Inv, Pending, Step, Memory, Programs, Writing
<1> QED
  BY <1>1, <1>2, <1>3 DEF Inv

LEMMA ReprogramPageInv == Inv /\ ReprogramPage => Inv'
<1> SUFFICES ASSUME Inv, ReprogramPage PROVE Inv'
  OBVIOUS
<1>0. pc = "reprogram" /\ Writing /\ image' = image
  BY DEF ReprogramPage, Writing
<1>1. CASE filled' = 1 /\ latest' = cur /\ Return(1)
  <2>1. /\ 1 \in 0..(BCB_MAX_COUNT - 1) /\ filled' \in 0..BCB_MAX_COUNT
        /\ 1 = Behind(filled')
    BY <1>1, BootAssumption DEF Behind
  <2> QED
    BY <1>0, <1>1, <2>1, Programmed, WriteEnds
<1>2. CASE pc' = "recover" /\ UNCHANGED <<flashVars, then, running, cur, index, base>>
  <2>0. Blind' <=> Blind
    BY <1>0, <1>2 DEF Blind
  <2>1. RecordTypes'
    BY <1>0, <1>2 DEF Inv, RecordTypes, ControlPoints, flashVars
  <2>2. Positions' /\ Requests'
    BY <1>0, <1>2 DEF Inv, Positions, Requests, Untried, Writing, flashVars
  <2>3. Pending' /\ Memory' /\ Programs'
    BY <1>0, <1>2, <2>0
    DEF Inv, Pending, Step, Memory, Programs, Writing, flashVars
  <2> QED
    BY <2>1, <2>2, <2>3 DEF Inv
<1> QED
  BY <1>1, <1>2 DEF ReprogramPage

---------------------------------------------------------------------------
(* The steps that begin a write.                                           *)

LEMMA WriteInv ==
  ASSUME Inv, ~Writing,
         NEW r \in Records, NEW i \in 0..(BCB_MAX_COUNT - 1),
         NEW next \in {"boot", "update", "start", "run"},
         i = Place, Step(latest, r), Untried(r),
         next \in {"update", "run"} => ~Blind,
         next = "update" => Beginning(latest, r),
         next = "run" => Confirming(latest, r) /\ r.attempt = 0,
         Write(r, i, next)
  PROVE  Inv'
<1>1. Blind' <=> Blind
  BY DEF Write, Blind
<1> QED
  BY <1>1, WriteBegins DEF Write

LEMMA WriteDefaultInv == Inv /\ WriteDefault => Inv'
<1> SUFFICES ASSUME Inv, WriteDefault PROVE Inv'
  OBVIOUS
<1>1. ~Writing /\ latest = Missing
  BY DEF WriteDefault, Writing, Inv, RecordTypes
<1>5. ~Blind
  BY DEF WriteDefault, Blind, Inv, Programs
<1>2. Step(latest, Default) /\ Untried(Default)
  BY <1>1, <1>5 DEF Step, FromMemory, Untried, Default, Bcb
<1>3. 0 \in 0..(BCB_MAX_COUNT - 1) /\ 0 = Place
  BY <1>5, BootAssumption DEF WriteDefault, Place, Behind
<1>4. Write(Default, 0, "boot")
  BY DEF WriteDefault
<1> QED
  BY <1>1, <1>2, <1>3, <1>4, <1>5, ConstantRecords, WriteInv

\* At every record of the boot loader.
LEMMA BootWrite ==
  ASSUME Inv, AtBoot, NEW r \in Records, NEW next \in {"update", "start"},
         Operation(latest, r), Untried(r),
         next = "update" => Beginning(latest, r),
         Write(r, NextIndex, next)
  PROVE  Inv'
<1>1. ~Writing /\ latest # Missing /\ ~Blind
  BY FoundRecord DEF AtBoot, Writing, Blind, Inv, Programs
<1>2. Step(latest, r) /\ NextIndex = Place
  BY <1>1, NextIndexType DEF Step, Place
<1> QED
  BY <1>1, <1>2, NextIndexType, WriteInv

LEMMA BootWritesInv ==
  /\ Inv /\ BeginUpdate => Inv'
  /\ Inv /\ RollbackAtBoot => Inv'
  /\ Inv /\ TryAgain => Inv'
  /\ Inv /\ GiveUp => Inv'
  /\ Inv /\ TryFirst => Inv'
<1>1. ASSUME Inv, BeginUpdate PROVE Inv'
  <2>1. AtBoot /\ latest \in Records /\ latest # Missing /\ Untried(latest)
    BY <1>1, FoundRecord DEF BeginUpdate, AtBoot
  <2>2. /\ Operation(latest, BeginIn(latest)) /\ Beginning(latest, BeginIn(latest))
        /\ Write(BeginIn(latest), NextIndex, "update")
    BY <1>1, <2>1 DEF BeginUpdate, Operation, Beginning
  <2>3. Untried(BeginIn(latest)) /\ BeginIn(latest) \in Records
    BY <2>1, OperationTypes DEF Untried, BeginIn, Bcb
  <2> QED
    BY <1>1, <2>1, <2>2, <2>3, BootWrite
<1>2. ASSUME Inv, RollbackAtBoot PROVE Inv'
  <2>1. AtBoot /\ latest \in Records
    BY <1>2, FoundRecord DEF RollbackAtBoot, AtBoot
  <2>2. Operation(latest, RollbackIn(latest)) /\ Write(RollbackIn(latest), NextIndex, "start")
    BY <1>2 DEF RollbackAtBoot, Operation
  <2>3. Untried(RollbackIn(latest)) /\ RollbackIn(latest) \in Records
    BY <2>1, OperationTypes DEF Untried, RollbackIn, Bcb
  <2> QED
    BY <1>2, <2>1, <2>2, <2>3, BootWrite
<1>3. ASSUME Inv, TryAgain PROVE Inv'
  <2>1. AtBoot /\ latest \in Records
    BY <1>3, FoundRecord DEF TryAgain, AtBoot
  <2>2. latest.attempt + 1 \in 0..MaxAttempt
    BY <1>3, <2>1, FieldTypes DEF TryAgain, MaxAttempt
  <2>3. /\ Operation(latest, TriedIn(latest, latest.attempt + 1))
        /\ Write(TriedIn(latest, latest.attempt + 1), NextIndex, "start")
    BY <1>3 DEF TryAgain, Operation
  <2>4. /\ Untried(TriedIn(latest, latest.attempt + 1))
        /\ TriedIn(latest, latest.attempt + 1) \in Records
    BY <1>3, <2>1, <2>2, OperationTypes DEF TryAgain, Untried, TriedIn, Bcb
  <2> QED
    BY <1>3, <2>1, <2>3, <2>4, BootWrite
<1>4. ASSUME Inv, GiveUp PROVE Inv'
  <2>1. AtBoot /\ latest \in Records
    BY <1>4, FoundRecord DEF GiveUp, AtBoot
  <2>2. latest.attempt = MaxAttempt
    BY <1>4, <2>1, FieldTypes DEF GiveUp, MaxAttempt
  <2>3. /\ Operation(latest, GivenUpIn(latest))
        /\ Write(GivenUpIn(latest), NextIndex, "start")
    BY <1>4, <2>2 DEF GiveUp, Operation
  <2>4. Untried(GivenUpIn(latest)) /\ GivenUpIn(latest) \in Records
    BY <1>4, <2>1, OperationTypes DEF GiveUp, Untried, GivenUpIn, Bcb
  <2> QED
    BY <1>4, <2>1, <2>3, <2>4, BootWrite
<1>5. ASSUME Inv, TryFirst PROVE Inv'
  <2>1. AtBoot /\ latest \in Records
    BY <1>5, FoundRecord DEF TryFirst, AtBoot
  <2>2. /\ Operation(latest, TriedIn(latest, 1))
        /\ Write(TriedIn(latest, 1), NextIndex, "start")
    BY <1>5 DEF TryFirst, Operation
  <2>3. Untried(TriedIn(latest, 1)) /\ TriedIn(latest, 1) \in Records
    <3>1. 1 \in 0..MaxAttempt
      BY DEF MaxAttempt
    <3> QED
      BY <1>5, <2>1, <3>1, OperationTypes DEF TryFirst, Untried, TriedIn, Bcb
  <2> QED
    BY <1>5, <2>1, <2>2, <2>3, BootWrite
<1> QED
  BY <1>1, <1>2, <1>3, <1>4, <1>5

\* The boot loader at the end of an update.
LEMMA UpdateOperation ==
  ASSUME Inv, pc = "update"
  PROVE  /\ cur \in Records
         /\ Step(latest, RollbackIn(cur))
         /\ \A app \in Apps : Step(latest, CommitIn(cur, app))
<1>1. cur \in Records /\ UpdateMemory(latest, cur) /\ ~Blind
  BY DEF Inv, RecordTypes, Memory, Programs, Blind
<1>2. CASE latest = Missing
  BY <1>1, <1>2 DEF Step, FromMemory
<1>3. CASE Beginning(latest, cur)
  <2>1. /\ latest # Missing /\ latest.request
        /\ RollbackIn(cur) = RollbackIn(latest)
    BY <1>3, BeginForgotten DEF Beginning
  <2>2. ASSUME NEW app \in Apps
        PROVE  CommitIn(cur, app) = CommitIn(latest, app)
    BY <1>3, BeginForgotten DEF Beginning
  <2>3. ASSUME NEW app \in Apps PROVE Step(latest, CommitIn(cur, app))
    BY <1>1, <2>1, <2>2 DEF Step, Operation
  <2>4. Step(latest, RollbackIn(cur))
    BY <1>1, <2>1 DEF Step, Operation
  <2> QED
    BY <1>1, <2>3, <2>4
<1>4. CASE latest # Missing /\ latest.request /\ cur = latest
  <2>1. ASSUME NEW app \in Apps PROVE Step(latest, CommitIn(cur, app))
    BY <1>1, <1>4 DEF Step, Operation
  <2>2. Step(latest, RollbackIn(cur))
    BY <1>1, <1>4 DEF Step, Operation
  <2> QED
    BY <1>1, <2>1, <2>2
<1> QED
  BY <1>1, <1>2, <1>3, <1>4 DEF UpdateMemory

LEMMA CommitInv == Inv /\ BCB_CommitUpdate => Inv'
<1> SUFFICES ASSUME Inv, BCB_CommitUpdate PROVE Inv'
  OBVIOUS
<1>1. /\ pc = "update" /\ ~Writing
      /\ writeCurrentBcb(CommitIn(cur, Other(cur.app)), index, "boot")
      /\ UNCHANGED flashVars
  BY DEF BCB_CommitUpdate, Writing
<1>2. /\ cur \in Records /\ index \in 0..(BCB_MAX_COUNT - 1)
      /\ index = Place /\ running = "none"
  BY <1>1 DEF Inv, RecordTypes, Positions, Programs, Place
<1>3. Other(cur.app) \in Apps
  BY <1>2, AppsFacts, FieldTypes
<1>4. /\ CommitIn(cur, Other(cur.app)) \in Records
      /\ Step(latest, CommitIn(cur, Other(cur.app)))
  BY <1>1, <1>2, <1>3, OperationTypes, UpdateOperation
<1>5. Untried(CommitIn(cur, Other(cur.app)))
  BY DEF Untried, CommitIn, Bcb
<1>6. Blind' <=> Blind
  BY <1>2 DEF BCB_CommitUpdate, Blind
<1> QED
  BY <1>1, <1>2, <1>4, <1>5, <1>6, WriteBegins

LEMMA UpdateRollbackInv == Inv /\ BCB_UpdateRollbackHandler => Inv'
<1> SUFFICES ASSUME Inv, BCB_UpdateRollbackHandler PROVE Inv'
  OBVIOUS
<1>1. pc = "update" /\ ~Writing /\ Write(RollbackIn(cur), index, "start")
  BY DEF BCB_UpdateRollbackHandler, Writing
<1>2. /\ cur \in Records /\ index \in 0..(BCB_MAX_COUNT - 1)
      /\ index = Place /\ running = "none"
  BY <1>1 DEF Inv, RecordTypes, Positions, Programs, Place
<1>3. RollbackIn(cur) \in Records /\ Step(latest, RollbackIn(cur))
  BY <1>1, <1>2, OperationTypes, UpdateOperation
<1>4. Untried(RollbackIn(cur))
  BY DEF Untried, RollbackIn, Bcb
<1> QED
  BY <1>1, <1>2, <1>3, <1>4, WriteInv

\* An application that read the record confirms it; one that did not, or wrote
\* it already, asks for an update with what it has in memory.
LEMMA RequestUpdateInv == Inv /\ BCB_RequestUpdate => Inv'
<1> SUFFICES ASSUME Inv, BCB_RequestUpdate PROVE Inv'
  OBVIOUS
<1>1. /\ pc = "run" /\ ~Writing /\ UNCHANGED flashVars
      /\ writeCurrentBcb(RequestIn(cur), index, "boot")
  BY DEF BCB_RequestUpdate, Writing
<1>2. /\ cur \in Records /\ index \in 0..(BCB_MAX_COUNT - 1)
      /\ index = Place
      /\ cur.attempt = 0 /\ RunMemory(latest, cur)
  BY <1>1 DEF Inv, RecordTypes, Positions, Requests, Memory, Place
<1>3. Step(latest, RequestIn(cur))
  <2>1. CASE Blind
    BY <1>2, <2>1 DEF RunMemory, Step
  <2>2. CASE ~Blind /\ latest = Missing
    BY <1>2, <2>2 DEF Step, FromMemory
  <2>3. CASE ~Blind /\ Confirming(latest, cur)
    BY <2>3 DEF Confirming, Step, Operation
  <2>4. CASE ~Blind /\ latest # Missing /\ cur = latest
    BY <2>4 DEF Step, Operation
  <2> QED
    BY <1>2, <2>1, <2>2, <2>3, <2>4 DEF RunMemory
<1>4. RequestIn(cur) \in Records /\ Untried(RequestIn(cur))
  BY <1>2, OperationTypes DEF Untried, RequestIn, Bcb
<1>5. Blind' <=> Blind
  BY DEF BCB_RequestUpdate, Blind
<1> QED
  BY <1>1, <1>2, <1>3, <1>4, <1>5, WriteBegins

LEMMA ApplicationInitInv == Inv /\ BCB_ApplicationInit => Inv'
<1> SUFFICES ASSUME Inv, BCB_ApplicationInit PROVE Inv'
  OBVIOUS
<1>0. /\ pc = "start" /\ filled > 0 /\ ~Writing
      /\ latest \in Records /\ latest # Missing /\ Untried(latest) /\ ~Blind
  BY FoundRecord DEF BCB_ApplicationInit, Writing, Blind
<1>1. CASE /\ latest.attempt = 0
           /\ pc' = "run" /\ cur' = latest /\ index' = NextIndex
           /\ UNCHANGED <<flashVars, image, running, then, base>>
  <2>0. ~Writing' /\ ~Blind'
    BY <1>0, <1>1 DEF Writing, Blind
  <2>1. RecordTypes'
    BY <1>0, <1>1, NextIndexType DEF Inv, RecordTypes, ControlPoints, flashVars
  <2>2. Positions' /\ Requests'
    BY <1>0, <1>1, <2>0, NextIndexType
    DEF Inv, Positions, Requests, Untried, Behind, flashVars
  <2>3. Pending' /\ Memory' /\ Programs'
    BY <1>0, <1>1, <2>0
    DEF Inv, Pending, Memory, RunMemory, Programs, flashVars
  <2> QED
    BY <2>1, <2>2, <2>3 DEF Inv
<1>2. CASE /\ latest.attempt # 0
           /\ Write(ConfirmIn(latest), NextIndex, "run")
  <2>1. latest.attempt > 0 /\ ~latest.request
    BY <1>0, <1>2, FieldTypes DEF Untried, MaxAttempt
  <2>2. ConfirmIn(latest) \in Records /\ ConfirmIn(latest).attempt = 0
    BY <1>0, OperationTypes DEF ConfirmIn, Bcb
  <2>3. /\ Step(latest, ConfirmIn(latest)) /\ Untried(ConfirmIn(latest))
        /\ Confirming(latest, ConfirmIn(latest))
    BY <1>0, <2>1, <2>2 DEF Step, Operation, Untried, Confirming
  <2> QED
    BY <1>0, <1>2, <2>2, <2>3, NextIndexType, WriteInv DEF Place
<1> QED
  BY <1>1, <1>2 DEF BCB_ApplicationInit

---------------------------------------------------------------------------
(* The steps that leave the record and the memory alone.                   *)

\* An application starts to run, or nothing does any more.
LEMMA QuietInv ==
  ASSUME Inv, ~Writing, UNCHANGED <<flashVars, then, cur, index, base>>,
         \/ pc' = "halt"
         \/ pc = "boot" /\ pc' = "start" /\ running' # "none"
         \/ pc = "start" /\ pc' = "run" /\ Blind'
         \/ UNCHANGED <<pc, running>> /\ (Blind' <=> Blind)
  PROVE  Inv'
<1> USE DEF flashVars
<1>0. ~Writing'
  BY DEF Writing
<1>1. RecordTypes'
  BY DEF Inv, RecordTypes, ControlPoints
<1>2. Positions'
  BY <1>0 DEF Inv, Positions, Writing, Behind
<1>3. Requests'
  BY <1>0, ZeroFields DEF Inv, Requests, Untried, Memory
<1>4. Pending' /\ Memory'
  BY <1>0 DEF Inv, Pending, Memory, RunMemory
<1>5. Programs'
  BY <1>0 DEF Inv, Programs
<1> QED
  BY <1>1, <1>2, <1>3, <1>4, <1>5 DEF Inv

LEMMA QuietStepsInv ==
  /\ Inv /\ jumpToApplication => Inv'
  /\ Inv /\ Halt => Inv'
  /\ Inv /\ StartSilently => Inv'
  /\ Inv /\ ProgramImage => Inv'
<1>1. ASSUME Inv, jumpToApplication PROVE Inv'
  <2>1. /\ pc = "boot" /\ pc' = "start"
        /\ UNCHANGED <<flashVars, then, cur, index, base>>
    BY <1>1 DEF jumpToApplication, AtBoot
  <2>2. ~Writing
    BY <2>1 DEF Writing
  <2>3. running' # "none"
    BY <1>1, FoundRecord, FieldTypes DEF jumpToApplication, AtBoot, Apps
  <2> QED
    BY <1>1, <2>1, <2>2, <2>3, QuietInv
<1>2. Inv /\ Halt => Inv'
  BY QuietInv DEF Halt, AtBoot, Writing
<1>3. ASSUME Inv, StartSilently PROVE Inv'
  <2>1. Blind'
    BY <1>3 DEF StartSilently, Blind, Inv, Programs
  <2> QED
    BY <1>3, <2>1, QuietInv DEF StartSilently, Writing
<1>4. ASSUME Inv, ProgramImage PROVE Inv'
  <2>1. Blind' <=> Blind
    BY <1>4 DEF ProgramImage, programVars, Blind, Inv, Programs
  <2> QED
    BY <1>4, <2>1, QuietInv DEF ProgramImage, programVars, Writing
<1> QED
  BY <1>1, <1>2, <1>3, <1>4

LEMMA ResetStepsInv ==
  /\ Inv /\ PowerLoss => Inv'
  /\ Inv /\ WatchdogInWrite => Inv'
  /\ Inv /\ Hang => Inv'
BY ResetEnds DEF PowerLoss, WatchdogInWrite, Hang

LEMMA StutterInv == Inv /\ UNCHANGED bootVars => Inv'
<1> SUFFICES ASSUME Inv, UNCHANGED bootVars PROVE Inv'
  OBVIOUS
<1> USE DEF bootVars, flashVars, programVars
<1>1. RecordTypes' /\ Positions'
  BY DEF Inv, RecordTypes, Positions, Behind, Blind
<1>2. Requests' /\ Pending'
  BY DEF Inv, Requests, Pending, Step, Writing, Blind
<1>3. Memory' /\ Programs'
  BY DEF Inv, Memory, RunMemory, Programs, Writing, Blind
<1> QED
  BY <1>1, <1>2, <1>3 DEF Inv

LEMMA NextInv == Inv /\ [bootNext]_bootVars => Inv'
BY EraseSectorInv, FillSectorInv, ProgramPageInv, RecoverSectorInv,
   ReprogramPageInv, WriteDefaultInv, BootWritesInv, CommitInv,
   UpdateRollbackInv, RequestUpdateInv, ApplicationInitInv, QuietStepsInv,
   ResetStepsInv, StutterInv
DEF bootNext, BootStep, UpdateStep

LEMMA BootInvariant == bootSpec => []Inv
BY InitInv, NextInv, PTL DEF bootSpec

---------------------------------------------------------------------------
(* The types.                                                              *)

LEMMA FlagsInit == bootInit => FlagTypes
BY Zenon DEF bootInit, FlagTypes

LEMMA FlagsNext == FlagTypes /\ [bootNext]_bootVars => FlagTypes'
<1> SUFFICES ASSUME FlagTypes, [bootNext]_bootVars PROVE FlagTypes'
  OBVIOUS
<1> USE DEF FlagTypes
<1>1. ASSUME UNCHANGED <<smu, disturbed>> PROVE FlagTypes'
  BY <1>1
<1>2. ASSUME NEW i, Return(i), disturbed' \in BOOLEAN PROVE FlagTypes'
  BY <1>2, Zenon DEF Return
<1>3. ASSUME NEW watchdog \in BOOLEAN, Reset(watchdog), disturbed' \in BOOLEAN
      PROVE  FlagTypes'
  BY <1>3, Zenon DEF Reset
<1>4. ASSUME NEW r, NEW i, NEW next, Write(r, i, next) PROVE FlagTypes'
  BY <1>1, <1>4 DEF Write
<1>5. EraseSector => FlagTypes'
  BY <1>1, <1>2, Zenon DEF EraseSector
<1>6. FillSector => FlagTypes'
  BY <1>1, <1>2, Zenon DEF FillSector
<1>7. ProgramPage => FlagTypes'
  BY <1>1, <1>2, Zenon DEF ProgramPage
<1>8. ReprogramPage => FlagTypes'
  BY <1>1, <1>2, Zenon DEF ReprogramPage
<1>9. PowerLoss => FlagTypes'
  BY <1>3, Zenon DEF PowerLoss
<1>10. WatchdogInWrite => FlagTypes'
  BY <1>3, Zenon DEF WatchdogInWrite
<1>11. Hang => FlagTypes'
  BY <1>3, Zenon DEF Hang
<1>12. WriteDefault \/ BeginUpdate \/ RollbackAtBoot => FlagTypes'
  BY <1>4 DEF WriteDefault, BeginUpdate, RollbackAtBoot
<1>13. TryAgain \/ GiveUp \/ TryFirst \/ BCB_UpdateRollbackHandler => FlagTypes'
  BY <1>4 DEF TryAgain, GiveUp, TryFirst, BCB_UpdateRollbackHandler
<1>14. BCB_ApplicationInit => FlagTypes'
  BY <1>1, <1>4 DEF BCB_ApplicationInit
<1>15. RecoverSector \/ jumpToApplication \/ Halt => FlagTypes'
  BY <1>1 DEF RecoverSector, jumpToApplication, Halt
<1>16. StartSilently \/ ProgramImage => FlagTypes'
  BY <1>1 DEF StartSilently, ProgramImage
<1>17. BCB_CommitUpdate \/ BCB_RequestUpdate => FlagTypes'
  BY <1>1 DEF BCB_CommitUpdate, BCB_RequestUpdate
<1>18. UNCHANGED bootVars => FlagTypes'
  BY <1>1 DEF bootVars
<1> QED
  BY <1>5, <1>6, <1>7, <1>8, <1>9, <1>10, <1>11, <1>12, <1>13, <1>14, <1>15,
     <1>16, <1>17, <1>18
  DEF bootNext, BootStep, UpdateStep

LEMMA OthersInit == bootInit => OtherTypes
<1> SUFFICES ASSUME bootInit PROVE OtherTypes
  OBVIOUS
<1>1. \A i \in FirstImages : [A |-> i, B |-> "partial"] \in [Apps -> Images]
  BY BootAssumption DEF Apps, Images
<1> QED
  BY <1>1, BootAssumption DEF bootInit, OtherTypes

LEMMA OthersNext == Inv /\ OtherTypes /\ [bootNext]_bootVars => OtherTypes'
<1> SUFFICES ASSUME Inv, OtherTypes, [bootNext]_bootVars PROVE OtherTypes'
  OBVIOUS
<1> USE DEF OtherTypes, bounds
<1>0. /\ cur \in Records /\ cur.app \in Apps /\ Other(cur.app) \in Apps
      /\ filled > 0 => latest.app \in Apps
  BY FieldTypes, FoundRecord, AppsFacts DEF Inv, RecordTypes
<1>1. ASSUME UNCHANGED <<image, running, bounds>> PROVE OtherTypes'
  BY <1>1
<1>2. ASSUME NEW i, Return(i), UNCHANGED <<image, updates, resets>>,
             UNCHANGED faults \/ FlashFault
      PROVE  OtherTypes'
  <2>1. running' \in Apps \cup {"none"}
    BY <1>0, <1>2 DEF Return
  <2>2. faults' \in 0..MaxFaults
    BY <1>2, BootAssumption DEF FlashFault
  <2> QED
    BY <1>2, <2>1, <2>2
<1>3. ASSUME NEW watchdog, Reset(watchdog),
             UNCHANGED resets \/ (resets < MaxResets /\ resets' = resets + 1)
      PROVE  OtherTypes'
  BY <1>3, BootAssumption DEF Reset
<1>4. ASSUME NEW r, NEW i, NEW next, Write(r, i, next) PROVE OtherTypes'
  BY <1>1, <1>4 DEF Write
<1>5. EraseSector => OtherTypes'
  BY <1>1, <1>2 DEF EraseSector
<1>6. FillSector => OtherTypes'
  BY <1>1, <1>2 DEF FillSector
<1>7. ASSUME ProgramPage \/ ReprogramPage PROVE OtherTypes'
  <2>1. \/ \E i : Return(i) /\ UNCHANGED <<image, updates, resets, faults>>
        \/ FlashFault /\ UNCHANGED <<image, running, updates, resets>>
    BY <1>7 DEF ProgramPage, ReprogramPage
  <2>2. FlashFault => faults' \in 0..MaxFaults
    BY BootAssumption DEF FlashFault
  <2> QED
    BY <1>2, <2>1, <2>2
<1>8. PowerLoss \/ WatchdogInWrite \/ Hang => OtherTypes'
  BY <1>3 DEF PowerLoss, WatchdogInWrite, Hang
<1>9. WriteDefault \/ BeginUpdate \/ RollbackAtBoot => OtherTypes'
  BY <1>4 DEF WriteDefault, BeginUpdate, RollbackAtBoot
<1>10. TryAgain \/ GiveUp \/ TryFirst \/ BCB_UpdateRollbackHandler => OtherTypes'
  BY <1>4 DEF TryAgain, GiveUp, TryFirst, BCB_UpdateRollbackHandler
<1>11. BCB_ApplicationInit => OtherTypes'
  BY <1>1, <1>4 DEF BCB_ApplicationInit
<1>12. RecoverSector \/ Halt \/ StartSilently => OtherTypes'
  BY <1>1 DEF RecoverSector, Halt, StartSilently
<1>13. jumpToApplication => OtherTypes'
  BY <1>0 DEF jumpToApplication, AtBoot
<1>14. ProgramImage => OtherTypes'
  <2>1. "partial" \in Images
    BY DEF Images
  <2> QED
    BY <2>1 DEF ProgramImage, programVars
<1>15. BCB_CommitUpdate => OtherTypes'
  BY BootAssumption DEF BCB_CommitUpdate
<1>16. BCB_RequestUpdate => OtherTypes'
  BY BootAssumption DEF BCB_RequestUpdate
<1>17. UNCHANGED bootVars => OtherTypes'
  BY <1>1 DEF bootVars, programVars
<1> QED
  BY <1>5, <1>6, <1>7, <1>8, <1>9, <1>10, <1>11, <1>12, <1>13, <1>14, <1>15,
     <1>16, <1>17
  DEF bootNext, BootStep, UpdateStep

\* Every variable keeps its type, whatever the programs do with the record.
THEOREM BootTypes == bootSpec => []TypeOK
<1>1. bootInit => Inv /\ FlagTypes /\ OtherTypes
  BY InitInv, FlagsInit, OthersInit
<1>2. Inv /\ FlagTypes /\ OtherTypes /\ [bootNext]_bootVars
        => (Inv /\ FlagTypes /\ OtherTypes)'
  BY NextInv, FlagsNext, OthersNext
<1>3. Inv /\ FlagTypes /\ OtherTypes => TypeOK
  BY DEF Inv, TypeOK
<1> QED
  BY <1>1, <1>2, <1>3, PTL DEF bootSpec

\* The scan for the first page without a magic number finds the end of the
\* records: a record is only written right behind the last one.
THEOREM BootNoGap == bootSpec => []NoGap
<1>1. Inv => NoGap
  BY DEF Inv, Positions, NoGap
<1> QED
  BY <1>1, BootInvariant, PTL

---------------------------------------------------------------------------
(* BootRecord implements BootControl.                                      *)

record == IF InWindow THEN base ELSE latest
room == BCB_MAX_COUNT - filled
risk == IF pc \in {"recover", "reprogram"} THEN "page"
        ELSE IF ~InWindow THEN "none"
        ELSE IF Blind THEN "unread" ELSE "full"
controlVars == <<record, room, risk, Blind, faults>>

FaultOrNot == faults' \in {faults, faults + 1}

\* The steps of BootControl.
LEMMA AbstractUpdate ==
  ASSUME room > 0, room' = room - 1,
         record' \in Records, Step(record, record'),
         risk' = "none", faults' = faults
  PROVE  Control!Update
<1>1. Blind' \in BOOLEAN
  BY DEF Blind
<1> QED
  BY <1>1
  DEF Control!Update, Step, record, room, risk,
      Operation, FromMemory, RequestIn, BeginIn, RollbackIn, CommitIn,
      ConfirmIn, TriedIn, GivenUpIn, Default, Zero, Bcb, Records, Missing,
      Apps, MaxAttempt,
      Control!Operation, Control!FromMemory, Control!RequestIn,
      Control!BeginIn, Control!RollbackIn, Control!CommitIn,
      Control!ConfirmIn, Control!TriedIn, Control!GivenUpIn, Control!Default,
      Control!Zero, Control!Bcb, Control!Records, Control!Missing,
      Control!Apps, Control!MaxAttempt

LEMMA AbstractErase ==
  ASSUME record # Missing, risk = "none", ~Blind => room = 0,
         room' = BCB_MAX_COUNT, risk' = IF Blind THEN "unread" ELSE "full",
         record' = record, Blind' = Blind, faults' = faults
  PROVE  Control!EraseFull \/ Control!EraseUnread
BY DEF Control!EraseFull, Control!EraseUnread, Control!Erase, record, room,
       risk, Missing, Control!Missing

LEMMA AbstractPage ==
  ASSUME record' = record, Blind' = Blind
  PROVE  /\ /\ risk' = "page" /\ faults' = faults + 1 /\ room' = room
            => Control!PageFails
         /\ /\ risk = "page" /\ risk' = "page" /\ room' = BCB_MAX_COUNT
            /\ faults' = faults
            => Control!ErasePage
BY DEF Control!PageFails, Control!ErasePage, Control!Erase, record, room, risk

LEMMA AbstractLose ==
  ASSUME risk # "none", room = BCB_MAX_COUNT, record' = Missing,
         risk' = "none", room' = room, FaultOrNot
  PROVE  Control!Lose
<1>1. Blind' \in BOOLEAN
  BY DEF Blind
<1> QED
  BY <1>1 DEF Control!Lose, Control!FaultOrNot, FaultOrNot, record, room, risk,
              Missing, Control!Missing

LEMMA AbstractGoOn ==
  ASSUME room = BCB_MAX_COUNT => record = Missing,
         record' = record, room' = room, risk' = "none", FaultOrNot
  PROVE  Control!GoOn
<1>1. Blind' \in BOOLEAN
  BY DEF Blind
<1> QED
  BY <1>1 DEF Control!GoOn, Control!FaultOrNot, FaultOrNot, record, room, risk,
              Missing, Control!Missing

Abstract == Control!Next \/ UNCHANGED controlVars

LEMMA AbstractSteps ==
  /\ Control!Update => Abstract
  /\ Control!EraseFull \/ Control!EraseUnread => Abstract
  /\ Control!PageFails \/ Control!ErasePage => Abstract
  /\ Control!Lose \/ Control!GoOn => Abstract
BY DEF Abstract, Control!Next

\* Outside the window the flash is what it seems.
LEMMA Outside ==
  ASSUME ~InWindow, pc \notin {"recover", "reprogram"}
  PROVE  record = latest /\ risk = "none"
BY DEF record, risk

LEMMA Inside ==
  ASSUME InWindow
  PROVE  record = base /\ risk # "none" /\ base # Missing /\ filled = 0
BY DEF record, risk, InWindow

LEMMA OutsideNext ==
  ASSUME ~InWindow', pc' \notin {"recover", "reprogram"}
  PROVE  record' = latest' /\ risk' = "none"
BY DEF record, risk

LEMMA NotWritingNext ==
  ASSUME ~Writing' PROVE ~InWindow' /\ pc' \notin {"recover", "reprogram"}
BY DEF InWindow, Writing

\* Who runs does not change within a write.
LEMMA SameProgram ==
  ASSUME UNCHANGED <<running, image>> PROVE Blind' = Blind
BY DEF Blind

\* A step that leaves the flash alone outside the window: the record stays.
LEMMA Same ==
  ASSUME Inv, ~InWindow, ~InWindow', pc' \notin {"recover", "reprogram"},
         UNCHANGED flashVars, FaultOrNot
  PROVE  Abstract
<1>1. record' = record /\ room' = room /\ risk' = "none"
  BY OutsideNext DEF record, room, flashVars
<1>2. room = BCB_MAX_COUNT => record = Missing
  BY BootAssumption DEF room, record, Inv, RecordTypes
<1> QED
  BY <1>1, <1>2, AbstractGoOn, AbstractSteps

\* A write that is dropped in the window loses the record.
LEMMA Dropped ==
  ASSUME Inv, UNCHANGED flashVars, ~Writing', FaultOrNot
  PROVE  Abstract
<1>1. CASE ~InWindow
  BY <1>1, Same, NotWritingNext
<1>2. CASE InWindow
  <2>1. filled' = 0 /\ latest' = Missing
    BY <1>2 DEF InWindow, Inv, RecordTypes, flashVars
  <2>2. /\ record' = Missing /\ risk' = "none"
        /\ room = BCB_MAX_COUNT /\ room' = room
    BY <1>2, <2>1, Inside, NotWritingNext, OutsideNext, BootAssumption DEF room
  <2> QED
    BY <1>2, <2>2, Inside, AbstractLose, AbstractSteps
<1> QED
  BY <1>1, <1>2

LEMMA ReturnNotWriting == ASSUME Inv, NEW i, Return(i) PROVE ~Writing'
BY DEF Return, Inv, RecordTypes, Writing

LEMMA FaultCounts ==
  /\ FlashFault => FaultOrNot /\ faults' = faults + 1
  /\ faults' = faults => FaultOrNot
BY DEF FlashFault, FaultOrNot

LEMMA EraseSectorStep == Inv /\ EraseSector => Abstract
<1> SUFFICES ASSUME Inv, EraseSector PROVE Abstract
  OBVIOUS
<1>0. pc = "erase" /\ base = latest /\ ~InWindow
  BY DEF EraseSector, Inv, Pending, Writing, InWindow
<1>1. CASE /\ pc' = "fill" /\ filled' = 0 /\ latest' = Missing /\ base' = base
           /\ UNCHANGED <<running, image, faults>>
  <2>1. CASE base = Missing
    <3>1. filled = 0 /\ ~InWindow'
      BY <1>0, <1>1, <2>1 DEF Inv, RecordTypes, InWindow
    <3> QED
      BY <1>0, <1>1, <2>1, <3>1, Same, FaultCounts DEF flashVars
  <2>2. CASE base # Missing
    <3>1. InWindow' /\ Blind' = Blind
      BY <1>1, <2>2, SameProgram DEF InWindow, Writing
    <3>2. record = base /\ record' = base /\ risk = "none"
      BY <1>0, <3>1, <1>1, Outside DEF record
    <3>3. room' = BCB_MAX_COUNT /\ risk' = IF Blind THEN "unread" ELSE "full"
      BY <1>1, <3>1, BootAssumption DEF room, risk
    <3>4. ~Blind => room = 0
      BY <1>0, <2>2, BootAssumption DEF room, Inv, Positions, RecordTypes
    <3> QED
      BY <1>1, <2>2, <3>1, <3>2, <3>3, <3>4, AbstractErase, AbstractSteps
  <2> QED
    BY <2>1, <2>2
<1>2. CASE Return(index) /\ UNCHANGED flashVars /\ FlashFault
  BY <1>2, ReturnNotWriting, Dropped, FaultCounts
<1> QED
  BY <1>1, <1>2 DEF EraseSector

LEMMA FillSectorStep == Inv /\ FillSector => Abstract
<1> SUFFICES ASSUME Inv, FillSector PROVE Abstract
  OBVIOUS
<1>1. CASE /\ pc' = "program"
           /\ UNCHANGED <<flashVars, base, running, image, faults>>
  <2>1. pc = "fill" /\ Blind' = Blind
    BY <1>1, SameProgram DEF FillSector
  <2>2. InWindow' <=> InWindow
    BY <1>1, <2>1 DEF InWindow, Writing, flashVars
  <2>3. record' = record /\ room' = room /\ risk' = risk
    BY <1>1, <2>1, <2>2 DEF record, room, risk, flashVars
  <2> QED
    BY <1>1, <2>1, <2>3 DEF Abstract, controlVars
<1>2. CASE Return(index) /\ UNCHANGED flashVars /\ FlashFault
  BY <1>2, ReturnNotWriting, Dropped, FaultCounts
<1> QED
  BY <1>1, <1>2 DEF FillSector

\* The record has been programmed behind the i records of the sector.
LEMMA ProgrammedStep ==
  ASSUME Inv, Writing, NEW i \in 0..(BCB_MAX_COUNT - 1), pc # "erase",
         filled = i, filled' = i + 1, latest' = cur, ~Writing',
         faults' = faults
  PROVE  Abstract
<1>1. record' = cur /\ risk' = "none"
  BY NotWritingNext, OutsideNext
<1>2. cur \in Records /\ Step(base, cur)
  BY DEF Inv, RecordTypes, Pending
<1>3. room > 0 /\ room' = room - 1
  BY BootAssumption DEF room
<1>4. record = base
  <2>1. CASE InWindow
    BY <2>1, Inside
  <2>2. CASE ~InWindow
    BY <2>2 DEF record, InWindow, Inv, RecordTypes, Pending
  <2> QED
    BY <2>1, <2>2
<1> QED
  BY <1>1, <1>2, <1>3, <1>4, AbstractUpdate, AbstractSteps

\* A page that does not take.
LEMMA PageFailsStep ==
  ASSUME Inv, Writing, Writing', pc # "erase", pc' = "recover", FlashFault,
         UNCHANGED <<flashVars, base, running, image>>
  PROVE  Abstract
<1>1. InWindow' <=> InWindow
  BY DEF InWindow, flashVars
<1>2. record' = record /\ room' = room /\ risk' = "page" /\ Blind' = Blind
  BY <1>1, SameProgram DEF record, room, risk, flashVars
<1> QED
  BY <1>2, FaultCounts, AbstractPage, AbstractSteps

LEMMA ProgramPageStep == Inv /\ ProgramPage => Abstract
<1> SUFFICES ASSUME Inv, ProgramPage PROVE Abstract
  OBVIOUS
<1>0. pc = "program" /\ Writing /\ index = filled /\ index \in 0..(BCB_MAX_COUNT - 1)
  BY DEF ProgramPage, Writing, Inv, Positions, RecordTypes
<1>1. CASE /\ filled' = index + 1 /\ latest' = cur
           /\ Return((index + 1) % BCB_MAX_COUNT) /\ faults' = faults
  BY <1>0, <1>1, ReturnNotWriting, ProgrammedStep
<1>2. CASE /\ pc' = "recover" /\ FlashFault
           /\ UNCHANGED <<flashVars, base, running, image>>
  BY <1>0, <1>2, PageFailsStep DEF Writing
<1> QED
  BY <1>1, <1>2 DEF ProgramPage

LEMMA RecoverSectorStep == Inv /\ RecoverSector => Abstract
<1> SUFFICES ASSUME Inv, RecoverSector PROVE Abstract
  OBVIOUS
<1>0. /\ pc = "recover" /\ Writing /\ pc' = "reprogram"
      /\ filled' = 0 /\ latest' = Missing
      /\ UNCHANGED <<base, running, image, faults>>
      /\ filled > 0 => base = latest
  BY DEF RecoverSector, Writing, Inv, Pending, bounds
<1>1. record' = record
  <2>1. CASE base = Missing
    BY <1>0, <2>1 DEF record, InWindow, Inv, RecordTypes
  <2>2. CASE base # Missing
    <3>1. InWindow'
      BY <1>0, <2>2 DEF InWindow, Writing
    <3>2. record = base
      BY <1>0, <2>2 DEF record, InWindow, Inv, RecordTypes
    <3> QED
      BY <1>0, <3>1, <3>2 DEF record
  <2> QED
    BY <2>1, <2>2
<1>2. risk = "page" /\ risk' = "page" /\ room' = BCB_MAX_COUNT
  BY <1>0, BootAssumption DEF risk, room
<1>3. Blind' = Blind
  BY <1>0, SameProgram
<1> QED
  BY <1>0, <1>1, <1>2, <1>3, AbstractPage, AbstractSteps

LEMMA ReprogramPageStep == Inv /\ ReprogramPage => Abstract
<1> SUFFICES ASSUME Inv, ReprogramPage PROVE Abstract
  OBVIOUS
<1>0. pc = "reprogram" /\ Writing /\ filled = 0
  BY DEF ReprogramPage, Writing, Inv, Positions
<1>1. CASE filled' = 1 /\ latest' = cur /\ Return(1) /\ faults' = faults
  <2>1. 0 \in 0..(BCB_MAX_COUNT - 1) /\ filled' = 0 + 1
    BY <1>1, BootAssumption
  <2> QED
    BY <1>0, <1>1, <2>1, ReturnNotWriting, ProgrammedStep
<1>2. CASE /\ pc' = "recover" /\ FlashFault
           /\ UNCHANGED <<flashVars, base, running, image>>
  BY <1>0, <1>2, PageFailsStep DEF Writing
<1> QED
  BY <1>1, <1>2 DEF ReprogramPage

\* The call that begins a write changes nothing yet.
LEMMA BeginStep ==
  ASSUME Inv, ~Writing, NEW r, NEW i, NEW next, i = 0 \/ i = filled,
         writeCurrentBcb(r, i, next), UNCHANGED <<flashVars, faults>>
  PROVE  Abstract
<1>1. ~InWindow
  BY DEF InWindow
<1>2. ~InWindow' /\ pc' \notin {"recover", "reprogram"}
  BY DEF InWindow, writeCurrentBcb, flashVars
<1> QED
  BY <1>1, <1>2, Same, FaultCounts

LEMMA BootWriteStep ==
  ASSUME Inv, ~Writing, NEW r, NEW next, NEW i, i = NextIndex \/ i = 0,
         Write(r, i, next)
  PROVE  Abstract
BY NextIndexType, BeginStep DEF Write, Behind, bounds

LEMMA WritesStep ==
  /\ Inv /\ WriteDefault => Abstract
  /\ Inv /\ BeginUpdate => Abstract
  /\ Inv /\ RollbackAtBoot => Abstract
  /\ Inv /\ TryAgain => Abstract
  /\ Inv /\ GiveUp => Abstract
  /\ Inv /\ TryFirst => Abstract
<1>1. Inv /\ WriteDefault => Abstract
  BY BootWriteStep DEF WriteDefault, Writing
<1>2. AtBoot => ~Writing
  BY DEF AtBoot, Writing
<1>3. Inv /\ BeginUpdate => Abstract
  BY <1>2, BootWriteStep DEF BeginUpdate
<1>4. Inv /\ RollbackAtBoot => Abstract
  BY <1>2, BootWriteStep DEF RollbackAtBoot
<1>5. Inv /\ TryAgain => Abstract
  BY <1>2, BootWriteStep DEF TryAgain
<1>6. Inv /\ GiveUp => Abstract
  BY <1>2, BootWriteStep DEF GiveUp
<1>7. Inv /\ TryFirst => Abstract
  BY <1>2, BootWriteStep DEF TryFirst
<1> QED
  BY <1>1, <1>3, <1>4, <1>5, <1>6, <1>7

LEMMA ProgramWritesStep ==
  /\ Inv /\ BCB_CommitUpdate => Abstract
  /\ Inv /\ BCB_UpdateRollbackHandler => Abstract
  /\ Inv /\ BCB_RequestUpdate => Abstract
<1>1. Inv /\ pc \in {"update", "run"} => (index = 0 \/ index = filled) /\ ~Writing
  BY DEF Inv, Positions, Behind, Writing
<1>2. Inv /\ BCB_CommitUpdate => Abstract
  BY <1>1, BeginStep DEF BCB_CommitUpdate, bounds
<1>3. Inv /\ BCB_UpdateRollbackHandler => Abstract
  BY <1>1, BeginStep DEF BCB_UpdateRollbackHandler, Write, bounds
<1>4. Inv /\ BCB_RequestUpdate => Abstract
  BY <1>1, BeginStep DEF BCB_RequestUpdate
<1> QED
  BY <1>2, <1>3, <1>4

LEMMA QuietStep ==
  ASSUME Inv, ~Writing, ~Writing', UNCHANGED <<flashVars, faults>>
  PROVE  Abstract
<1>1. ~InWindow
  BY DEF InWindow
<1> QED
  BY <1>1, NotWritingNext, Same, FaultCounts

LEMMA QuietStepsStep ==
  /\ Inv /\ jumpToApplication => Abstract
  /\ Inv /\ Halt => Abstract
  /\ Inv /\ StartSilently => Abstract
  /\ Inv /\ ProgramImage => Abstract
<1>1. Inv /\ jumpToApplication => Abstract
  BY QuietStep DEF jumpToApplication, AtBoot, Writing, bounds
<1>2. Inv /\ Halt => Abstract
  BY QuietStep DEF Halt, AtBoot, Writing, bounds
<1>3. Inv /\ StartSilently => Abstract
  BY QuietStep DEF StartSilently, Writing, bounds
<1>4. Inv /\ ProgramImage => Abstract
  BY QuietStep DEF ProgramImage, programVars, Writing, bounds
<1> QED
  BY <1>1, <1>2, <1>3, <1>4

LEMMA ApplicationInitStep == Inv /\ BCB_ApplicationInit => Abstract
<1> SUFFICES ASSUME Inv, BCB_ApplicationInit PROVE Abstract
  OBVIOUS
<1>0. pc = "start" /\ ~Writing
  BY DEF BCB_ApplicationInit, Writing
<1>1. CASE pc' = "run" /\ UNCHANGED <<flashVars, faults>>
  BY <1>0, <1>1, QuietStep DEF Writing
<1>2. CASE Write(ConfirmIn(latest), NextIndex, "run")
  BY <1>0, <1>2, BootWriteStep
<1> QED
  BY <1>1, <1>2 DEF BCB_ApplicationInit, bounds

LEMMA ResetStep ==
  ASSUME Inv, NEW watchdog, Reset(watchdog) PROVE Abstract
<1>1. ~Writing' /\ UNCHANGED <<flashVars, faults>>
  BY DEF Reset, Writing
<1> QED
  BY <1>1, Dropped, FaultCounts

LEMMA ResetStepsStep ==
  /\ Inv /\ PowerLoss => Abstract
  /\ Inv /\ WatchdogInWrite => Abstract
  /\ Inv /\ Hang => Abstract
BY ResetStep DEF PowerLoss, WatchdogInWrite, Hang

LEMMA StutterStep == UNCHANGED bootVars => Abstract
<1> SUFFICES ASSUME UNCHANGED bootVars PROVE UNCHANGED controlVars
  BY DEF Abstract
<1> USE DEF bootVars, flashVars, programVars, bounds
<1>1. Blind' = Blind /\ InWindow' = InWindow
  BY DEF Blind, InWindow, Writing
<1> QED
  BY <1>1 DEF controlVars, record, room, risk

LEMMA NextStep == Inv /\ [bootNext]_bootVars => Abstract
BY EraseSectorStep, FillSectorStep, ProgramPageStep, RecoverSectorStep,
   ReprogramPageStep, WritesStep, ProgramWritesStep, QuietStepsStep,
   ApplicationInitStep, ResetStepsStep, StutterStep
DEF bootNext, BootStep, UpdateStep

LEMMA InitStep == bootInit => Control!Init
<1> SUFFICES ASSUME bootInit PROVE Control!Init
  OBVIOUS
<1>1. ~InWindow /\ Blind = FALSE /\ pc \notin {"recover", "reprogram"}
  BY DEF bootInit, InWindow, Writing, Blind
<1> QED
  BY <1>1, BootAssumption DEF bootInit, Control!Init, Missing, Control!Missing

\* Whatever resets, watchdogs and failing flash commands come in between, the
\* record changes as BootControl says: in one step, and lost only after its
\* sector was erased, which happens to a full sector, after a failed page, and at
\* the request of an application that never read the record.
THEOREM BootImplementsControl == bootSpec => ImplementsControl
<1>1. Inv /\ [bootNext]_bootVars => [Control!Next]_controlVars
  BY NextStep DEF Abstract
<1>2. bootInit => Control!Init
  BY InitStep
<1> QED
  BY <1>1, <1>2, BootInvariant, PTL
  DEF bootSpec, ImplementsControl, Control!Spec, controlVars, record, room, risk
=============================================================================
