# A TLA+ model of projectComm

projectComm is the software of a small car: the firmware of an Infineon TC375
(`src/src`: driving, emergency braking, parking, CAN, UDS diagnostics, OTA boot
records) and the tools around it (`src/tools`: a DoIP-to-CAN gateway in C++, PC
clients in Python). This directory models the parts whose correctness depends
on what happens in which order, checks them with TLC, and proves the central
results with TLAPS. Paths below are relative to the repository; file names
without a path (`fsm.c:47`) are under `src/src`.

## 1. The system

### Processes

* **The foreground loop** of CPU0 (`app/main0.c:16`): `handleStateMachine`,
  then `CANTP_MainFunction`, then `UDS_HandlePeriodicTransmission`, for ever.
  It waits inside many of the functions it calls: 350 ms and 500 ms in an
  emergency stop, 5 s in a motor routine, without a bound in a parking run.
* **Interrupts** of CPU0: CAN receive (SOA commands, ToF frames, UDS frames),
  STM0 compare (ToF timeout), STM1 (periodic transmission), STM2 (ToF
  publisher), GPT12 (lamps, buzzer), UART; the ERU one is empty, echoes are
  polled. They do not nest: the interrupt macros of the toolchains (`CompilerTasking.h:127`,
  `CompilerGnuc.h:128`) leave interrupts disabled in a service routine. The
  loop may be preempted anywhere. CPU1 and CPU2 idle.
* **The gateway** (`src/tools/UDS/uds_gateway.cpp`): a session thread and a
  forwarder thread that share a queue and a socket.
* **Outside**: the SOA commander, the ToF sensor, the diagnostic client.

### Components

| component | state it keeps | operations | talks to |
|---|---|---|---|
| state machine `ASW/fsm/fsm.c` | `currentState`, `buzzerFlag` | `handleStateMachine` | AEB, drive command, parking, lamps |
| AEB `ASW/emergencystop/aeb.c` | `aebActiveFlag`, `currentDuty` (shared) | `updateAebFlagByTof` (loop and interrupt), `performEmergencyStop` | motor, publisher, buzzer |
| drive command `ASW/drivecontrol/control.c` | `motorState` (shared) | `motorRunCommand` (loop and interrupt) | motor, lamps |
| SOA handler `soa_handler.c` | `g_isLogin` | six commands, from the CAN interrupt | drive command, AEB, publisher |
| SOA publisher `soa_publisher.c` | `prev...State` | `send...StateIfChanged`, `sendTofDistancePeriodic` | CAN |
| ToF `tof.c`, `stm.c` | `g_TofValue`, `aebEnableFlag`, comparator | `tofUpdateFromCAN`, `stm0IsrHandler`, `resetTofTimeoutTimer` | AEB |
| parking `autopark.c`, `ultrasonic.c` | `prevAutoparkState`, echo times | `autoPark` | motor, lamps |
| motor, PWM `motor.c` | port and timer registers | `motorMoveForward`, `motorMoveReverse`, `motorStop` | - |
| lamps, buzzer `ledport.c`, `buzzerport.c` | port pins (shared), `activeLed`, counters | start, stop, GPT12 toggling | - |
| timing `util.c`, echoes `ultrasonic.c` | the system timer and its capture register (shared) | `delayMs`, `delayUs`, `getTime10Ns`, `getDistanceByUltra` | parking, emergency stop |
| CAN driver `can.c` | one shared transmit buffer, receive FIFO | `canSendMsg`, `canRecvMsg`, `canRxIsrHandler` | everything |
| CAN transport `cantp.c` | mailbox, receive and transmit state | four frame handlers, `CANTP_SendResponse` | UDS, CAN |
| UDS `diagnostics/` | session, periodic tasks, DTCs | eight services | CAN transport, motor, boot records |
| boot records `bcb.c`, `flash_programming.c` | a ring of records in flash, a copy in RAM | update, commit, roll back, boot | reset |
| gateway | sessions, queue of flow controls | send, receive, forward | CAN, TCP |
| OTA client, PC clients | - | straight sequences of requests | gateway |

### What is hard about it

The loop decides on values that an interrupt may replace before it acts;
interrupts drive the motor and change the AEB flag on their own; two time-outs
race the frames that cancel them; a frame is dropped when the one-frame mailbox
is full; the transport has no time-out of its own; flow controls outlive the
request they answer; the loop and the interrupts change one timer register, one
transmit buffer, two ports and the configuration of a PWM channel; the CAN
interrupt reads one frame of a FIFO that may hold more; a busy-wait compares
with a clock that wraps; a power loss may fall between the erase and the write of a
boot record. `PROJECT.json` lists each hazard at its line.

What would make the components correct: a distance in use is under timeout
supervision; an obstacle, a STOP and a logout win in the end; an emergency stop
is left only for a reason; the published state is the state; a reassembled
message is a message somebody sent; an undisturbed request is answered; a message
is sent once and as it was meant; the car moves as it was asked; after a
power loss there is always a valid boot record, and an update that does not
commit is rolled back.

## 2. Modules

| module | what it is |
|---|---|
| `Vehicle` | the driving core: loop, CAN interrupt, STM0 timeout |
| `VehicleModes` | the abstract state machine `Vehicle` implements: four modes and who may move between them |
| `VehicleProofs` | theorems about `Vehicle` |
| `MCVehicle` | its small worlds |
| `CanBus` | ISO-TP frames, the ECU's mailbox, the gateway's CAN socket |
| `CanTp` | the ECU's transport layer |
| `Gateway` | the two threads of the gateway |
| `IsoTpLink` | client, `Gateway` and `CanTp` composed, and its properties |
| `IsoTpLinkProofs` | theorems about `IsoTpLink`: types, places of pieces, whole responses |
| `IsoTpExchangeProofs` | a further one: the undisturbed exchange |
| `MCIsoTpLink` | its small worlds |
| `BootFields` | the boot record and what each operation makes of it |
| `BootControl` | the abstract boot control block: one record, replaced in one step |
| `BootRecord` | the block in flash, the boot loader, the applications, resets |
| `BootRecordProofs` | theorems about `BootRecord`: the record |
| `BootStartProofs` | theorems about `BootRecord`: what is started |
| `MCBootRecord` | its small world |
| `Diagnostics` | sessions, services, periodic transmissions, routines, and the registers they share with the ToF timeout |
| `DiagnosticsProofs` | theorems about `Diagnostics` |
| `MCDiagnostics` | its small world |
| `CanDriver` | the CAN driver: one transmit buffer for the loop and the interrupts, the receive FIFO, the published distance |
| `CanDriverProofs` | theorems about `CanDriver` |
| `MCCanDriver` | its small world |
| `Board` | the ports and PWM channels, who writes them in which order; lamps, buzzer, the measurements of a parking run |
| `Timing` | busy-waits and echo measurements on the wrapping timer |
| `BoardProofs` | theorems about `Board` and `Timing` |
| `MCBoard` | the small worlds of `Board` and `Timing`, in one run |

Operators called "Seeded fault for X" or "a mistake" are deliberate mistakes,
each in front of the definition it stands in for; no specification uses them.
They show that the property they are paired with in `PROJECT.json` is able to
fail.

### Vehicle

`pc` is where the foreground loop is; between two values of `pc` an interrupt
may run. The loop is cut wherever it uses a value it read before (`distance`,
the command in `cmd`, the flag in a frame `txAeb`), between a test and the
assignment it guards, and at every wait. An interrupt service routine is one
action: `RxSetDir`, `RxSetSpeed`, `RxCtrlAeb`, `RxCtrlAutopark`, `RxAuth`,
`RxEmergencyStop`, `RxTof`, `Stm0Isr`. `ToFTimeout` is the comparator latching
its request, which a late frame does not take back: `resetTofTimeoutTimer`
clears the comparator's flag, not the latched request, so the interrupt may run
after the frame.

    gate -> sample -> update -> [clear | decide -> publish] -> dispatch
         -> IDLE            gate
         -> MANUAL_DRIVE    gate (brake), or read command -> drive -> gate
         -> EMERGENCY_STOP  flag -> publish -> reverse -> duty 0 -> halt
                            -> warn -> exit -> gate
         -> AUTO_PARK       search -> found -> ... -> reached -> done -> gate

Abstractions. The two motor channels are one movement with a duty, produced by
one step; the order of the register writes is in `Board`. `PIVOT` stands for the
turn of a parking run, which no command produces. Delays have no length. The
locals of `handleStateMachine` are reset when it returns. `TOF_INVALID_VALUE`
is a number above every 24-bit distance, which is all the code uses of
0xFFFFFFFF here. A password matches or not. `busAeb` is what a receiver of the
AEB_STATE frames has last been told, and `rxSinceSample` a history variable: a
CAN frame was handled since the loop sampled the distance.

`VehicleModes` is what a reader of `fsm.c` expects of it: IDLE to driving,
driving to an emergency stop and back, one warning per stop, parking only for a
request that only the parking run takes back, and a logout to IDLE from
anywhere. `Vehicle` implements it with `mode` the `currentState`, `armed` the
`buzzerFlag` and `request` the `autoParkFlag`.

### CanBus, CanTp, Gateway, IsoTpLink

A message is a number, a frame carries the number and the offset of its bytes,
and a reassembly is the sequence of the pieces received, so that a mixture of
two messages is visible. Byte counters, block counters and the 4-bit sequence
numbers are the code's.

`CanTp`: each frame handler of `CANTP_MainFunction` is one action, because the
receive interrupt touches only the mailbox, which the loop empties before it
handles the frame. `sendConsecutiveFrame`, which waits between frames, is one
action per frame; meanwhile (`txState = "SENDING_CF"`) the loop takes no frame.
`UDS_HandleMessage` is seen from below: one response of some length.
`Gateway`: one action per blocking call or frame of each thread. `FlowControlTimeout`
and `CollectTimeout` may happen whenever there is nothing to read: two seconds
are less than the loop of the ECU may take. A session ends when the client is
gone; the CAN socket and its backlog go with it, the queue of flow controls
stays. A write to the CAN bus and the receive interrupt of the ECU are one
step: a bus delay is a delay of the writer or of the loop.
`IsoTpLink` adds the client, which may ask again before it has its answer,
leave and come back, and the history variable `disturbed`.

Left out: flow statuses other than clear to send (neither end sends one), STmin
lengths, the DoIP headers and acknowledgements (sent before the request goes to
CAN), the 0x62 prefix, failures of a CAN write, empty requests and services
that give no response.

### BootFields, BootRecord, BootControl

The block is a sector of the data flash that records are written into one after
the other; the last one counts, and when the sector is full it is erased for the
next. A boot finds it by looking for the first page without a magic number.
`filled` is the number of records, `latest` the last of them, the only one that
is ever read. One power supply, one processor: the boot loader and an
application never run at the same time, so one set of variables serves both.
`pc` says who is where, `cur` and `index` are `g_currentBcb` and
`g_bcbIndexToWrite` of the program that runs, `then` what follows the write that
is under way.

    boot -> WriteDefault | BeginUpdate | RollbackAtBoot | jumpToApplication
            | TryAgain | GiveUp | TryFirst | Halt
    a write:  erase -> fill -> program [-> recover -> reprogram]*   -> then
    then:     boot (a reset) | update | start (an application) | run

Each flash command is one action, a power loss may come between any two, and a
command may fail: an error of the erase or of the zeros gives the write up, a
page that does not read back is written again into an erased sector for as long
as it takes. A command either takes or does nothing; half-programmed words,
which the error correction of the flash would report, are left out.

The image of an application is one of four: `partial` (being overwritten),
`faulty` (never switches the watchdog of the boot loader off), `silent` (runs,
never calls `BCB_ApplicationInit`, as the application of this repository), and
`confirming` (calls it first, as `Cpu0_Main.c:39` would). The program of
the boot loader, which receives an image and calls the functions of `bcb.h`, is
not in the repository: `ProgramImage` and the choice of the application under
update are taken from how the block is used, and marked external.

`BootControl` is what a user of the block may rely on: a record that each
operation replaces in a single step. Its limit is the erase of the sector, after
which a reset or an error loses the record (`Lose`). There are three such erases,
each an action of its own with its own guard: of a full sector (`EraseFull`, not
for an application that never read the record), after a page that did not take
(`PageFails`, which costs a failed command, then `ErasePage`), and at the request
of an application that never read the record (`EraseUnread`). The last one is the
application of this repository: its index is still 0 (bcb.c:303), so it erases a
sector that may have room, with nothing failing. `BootRecord` implements it with
`record` the last record, or, while it is out of the flash and its successor not
in it yet (`InWindow`), the one from before the write; `room` the places left;
`risk` the reason of the erase, from the control point and the window; and
`blind` whether a `silent` application runs (`Blind`).

### Diagnostics

    fsm -> uds -> a service                            -> serve
                | 0x31: routine                        -> serve
                | 0x2A: setTimer -> test [-> read -> write] -> serve
                | 0x10: reset                          -> fsm
    serve (slot 1..5, each may be sent -> next)        -> fsm

A request is chosen where `UDS_HandleMessage` gets one; `CanTp` says how it got
there. A service is one action with three ways out: it refuses, changes what it
changes and confirms, or does so silently. `answer` is the kind of response;
`CANTP_SendResponse` drops it when another transmission is under way, which
`CanTp` models. Of the data identifiers only the ToF sensor's depends on a
state, `tofValid`: `g_TofValue` is a distance and not the error value. The other
sensors answer or refuse.

`handleSID2A` is cut where the STM1 interrupt may come between two steps that
matter: the task is active, its timer is set, the enable is tested, the register
is read, the register is written. `MODULE_STM0.ICR.B.CMP1EN = 1U` is an assignment to a
bit field, so the processor reads the register, changes a bit and writes it
back; the other bit that changes is `CMP0EN`, the enable of the ToF timeout.
`between` is a history variable: the last ToF frame came in that gap, and the
register had been read with the timeout off.
The interrupts change the same register in one step, because nothing
interrupts them. `Vehicle` does not have this write of the diagnostics; its
`TofSupervised` speaks of a car nobody starts a periodic task on.

Time is counted in periods of the STM1 interrupt (10 ms). `timer` and `Interval`
are in these periods, and the code's case distinction at stm.c:44 becomes a
decrement that stops at zero. `since` is a history variable, the periods since a
slot was started or served, counted up to the interval. `StateMachine` and
`RxSoa` say of the driving only what a routine shares with it: the motor. The
ToF interrupt may come whenever it is enabled; a comparator latched while a
frame is handled is in `Vehicle`.

### CanDriver

    loop:       idle -> header -> data -> test -> copyHeader -> copyData -> request -> idle
    interrupt:  off -> started -> cleared -> read [-> send] -> off

`canSendMsg` fills the one message and data buffer of `g_mcmcan`, hands both to
`IfxCan_Can_sendMessage` and tries again while the controller is busy. The loop
does this one step at a time; an interrupt that calls it does it in one, because
nothing comes between, but it may find the loop anywhere in it. The controller
goes on all the time: `FrameArrives`, `BusSends`. `canRxIsrHandler` clears the
new-message flag and reads one frame (`ClearFlag`, `ReadFrame`); what becomes of
the frame is a distance or something else, perhaps with a status to publish.
`PublisherRuns` is `stm2IsrHandler`. The controller (a FIFO whose flag requests
an interrupt when it rises, one transmit buffer) is modelled from how can.c
configures it. A message is the number of the call that sends it, so that a
frame with the identifier of one call and the data of another is visible.
`crossed`, `together` and `fresh` are history variables: the calls that were
under way together, whether two frames were ever in the FIFO at once, and
whether the publisher has run since the distance changed.

### Board

A call of the motor, lamp or buzzer functions is the sequence of its writes, in
the order of the code. `todo` holds the calls the loop has still to make,
`writes` what is left of the one it is in. `BeginCall` takes the next call; if it
is one of the motor, `asked` becomes the movement the comments of control.c
promise for it. The loop makes a write in two halves (`BeginWrite`, `EndWrite`): a
port bit is an assignment to a bit field, so the port is read (`held`), changed
and written back; a duty is put into the configuration of the channel (`cfg`),
which is then applied. The enable of the beeper's interrupt is a register of its
own, written in one step (`WriteEnable`). An interrupt makes all the writes of
its command at once, between two steps of the loop (`CommandArrives`, `Beeps`);
`After` is what a sequence of writes leaves in the outputs, the last write to each
of them (`Left`). `FoundSpace`, `StartBeeper` and `StopBacking` are the
measurements of `autoPark`; `room` and `wall` say what a measurement would show.
When the loop drives, warns or parks is the subject of `Vehicle` and left open.

### Timing

The clock ticks, and the loop is in a delay or in a measurement: `BeginDelay`
computes the value of TIM0 that ends it, a reading at any later time may end it
(`Over`, `EndDelay`); `getTime10Ns` reads the lower word and then the upper one
from the capture register (`ReadLow`, `ReadHigh`), which the CAN interrupt
overwrites by its own reading (`IsrReads`). `TimerSpec` is the specification of
the timer alone; the run looks at it inside `MCSpec`.

## 3. Runs

| run | question | bounds | size |
|---|---|---|---|
| `vehicle_safety` | what holds whatever interrupts the loop; does the loop implement `VehicleModes` | directions 0 (undocumented, lets IDLE go on to AUTO_PARK), reverse, forward; one speed, clamped; distances 300 and 600 mm; all switches | 3.7 M states |
| `vehicle_liveness` | who wins in the end | directions 4, STOP, 8; a speed above the limit; distances 300 and 600 | 150 k |
| `vehicle_estop`, `vehicle_off`, `vehicle_park_request` | claims of comments that fail | least frames that show it | small |
| `link_all` | reassembly under overlap, drops, time-outs, new sessions; is an undisturbed request answered | two kinds of dialogue: 3 requests of 1 or 4 frames answered by 1, 3 or 4 frames; 2 requests and responses of 1 or 17 frames. Block size 2, one periodic frame in the socket | 780 k |
| `link_mixed` | a claim of a comment that fails | 2 requests of 3 frames, block size of the code | small |
| `boot_all` | is the record readable, one step at a time, and does a failing image fall back | a sector of 3 records, 3 updates, 7 resets, 1 failing command, images of every kind | 199 k |
| `boot_rollback` | a claim of a comment that fails | applications that never confirm themselves | small |
| `diag_all` | are the periodic tasks, the routines and the registers they share sound under interrupts | intervals of 1 and 2 periods, three slots that are not set up | 134 k |
| `can_driver` | is every frame read, every message sent once, the distance told | a FIFO of 2 frames, 3 sends, distances of 4 bits in words of 6, a reading that drifts by less than the publisher reports | 303 k |
| `board` | does the car move as asked, is the buzzer silent, does parking end; are delays and echoes right across the wrap of the timer | directions 0 to 9, duties 0 and 900, gaps of 4 measurements; a timer of 8 ticks, every delay, three rounds of the clock | 293 k |

The bounds are enough for this reason. In `Vehicle` distances matter only by
their comparison with 350, 500 and 950 mm and directions by stop, reverse, drive
and unknown; the runs hold a value of the classes the properties tell apart,
and what matters of every value is proved. Histories are not bounded: any number
of frames may come. In `IsoTpLink` the effects need two requests (a left-over
and its victim) and a third to show the victim's own left-over; three
consecutive frames have a first, a middle and a last one; a block size of 2
(150 in the code) ends blocks in the middle and at the end of a message.
Sixteen consecutive frames make the sequence number wrap.
`PeriodicBacklog` bounds the periodic frames waiting in the socket. In
`BootRecord` a sector of three records is filled, wraps and is filled again by
the three updates, each of which takes at least four records (request, begin,
commit, attempt); seven resets are more than the three attempts of both
applications. Deadlock is not checked there: a running application that asks
for nothing and the blinking lamps of `Halt` do nothing more to the block.
In `CanDriver` two frames fill the FIFO, so that one is rejected and one stays
behind; three sends are one of the loop and two of interrupts that cross it, or
two that the publisher remembers. `FrameValues` and `WordValues` keep the
relation of the code: the error value is above every distance and reads as a
distance no sensor sends once it is cut to the width of the frame (`SensorAssumption`; in the
code 2^32 - 1 and 2^24 - 1 mm). In `Board`
every documented direction and an undocumented one occur; the duties are one
that stops and one that drives, which the inner wheel of a turn divides by
three. `Board` and `Timing` share no state, so `MCBoard` lets a behaviour look at
one and leaves the other alone (`phase = "off"`): the same states as two runs
have. `Timing` looks at every delay shorter than a round and at time-outs
shorter and longer than one, from every start in two rounds.
In `Diagnostics` an interval of one period is due at the next interrupt and one
of two periods is not; the empty slots have interval 0, as in the code. The
fourth and the fifth slot are never active, because 0x2A finds the first slot of an
identifier. Nothing else is bounded.

What the passing runs check:

* `TofSupervised`: every distance the AEB may act on has its timeout enabled.
* `NoBlindDrive`: an iteration no frame interrupted never applies a command
  towards an obstacle it sampled.
* `ImplementsModes`: the loop with its interrupts is `VehicleModes`; in
  particular one warning per stop, and no parking without a standing request.
* `TornOnlyByInterrupt`: the only way the publisher's memory and the bus part.
* `ReleasedByFrame`: an emergency stop ends for a reverse command or because of
  a frame handled in the same iteration.
* `StopPrevails`, `ObstaclePrevails`, `LogoutPrevails`: a STOP, an obstacle or a
  logout that stays wins, whatever the loop was in the middle of.
* `LimitPrevails`: with the AEB on and the distance in the limit zone, a car
  driven only by direction commands settles at or under the limited duty, though
  the iteration that releases the braking does not limit it.
* `PiecesInPlace`: in the ECU's buffer each piece lies where it lay in its own
  message, up to sixteen lost frames.
* `ResponsesWhole`: what the client gets is one whole response.
* `WholeUnlessDisturbed`: requests are mixed only after a drop, a time-out or an
  overlap.
* `RequestAnswered`: an undisturbed request is answered.
* `NoGap`: a record is written right behind the last one, so the scan finds it.
* `NeverStartsPartial`: a half-written application is not started, though its
  mark in `valid` stays until the commit.
* `NamesRunning`: the record names the application that runs, the one it will
  confirm.
* `ImplementsControl`: the block is `BootControl`: one step per operation, the
  record lost only after one of the three erases, an application that read the
  record erases only a full sector unless a page fails.
* `FallsBack`: a failing application makes way for the confirmed one.
* `TaskTicks`: an active task keeps the interrupt that counts it down, although
  the interrupt switches itself off, perhaps while a task is being started.
* `NotTooOften`: a task sends no sooner than its interval after it was started or
  sent last.
* `TaskServed`: a task that is started and left alone sends again and again.
* `RoutineStops`: what a motor routine set going ends with the routine.
* `WatchLostBetween`: a distance has its timeout, except when its frame came
  between the read and the write of a register read with the timeout off; then
  it has none, and the distance of the next frame has it again.
* `ReadsWhatCame`: an interrupt finds a frame, never the last one again.
* `LeftOnlyBehindAnother`: a frame is left without an interrupt only behind
  another one.
* `OthersSentOnce`: what no interrupt crossed goes out once; a mixed frame has
  the data of a message that was crossed.
* `ToldTheDistance`: who listens knows the distance to less than 5 mm, and
  silence from every distance, once the publisher has run.
* `SendReturns`: `canSendMsg` returns, also from an interrupt that waits with
  the processor.
* `MovesAsAsked`: outside the motor calls the wheels turn as the last call
  asked, unless an interrupt crossed a motor call or a write to the same port.
* `StopSurvivesCrossing`: a STOP holds even when the write it crossed puts the
  released brakes back.
* `BeeperSilent`: no beeping outside a warning or a parking run.
* `ParkingEnds`: a parking run ends once the sensors show room and a wall.
* `DelayLasts`: a delay is not short unless it would cross the wrap of the timer.
* `EchoTrue`: an echo is measured right even if an interrupt reads the timer
  between its two words while it wraps.

`NeverStartsPartial`, `NamesRunning` and `FallsBack` hold as long as no write
was disturbed (a reset in the window, a write given up or cut
off by the watchdog, `disturbed`): after one the program acts on its memory.

Fairness. `Vehicle!FairSpec` asks only that the loop keeps running
(`WF_vars(LoopStep)`): no frame, no timeout and no ultrasonic reading need ever
come, and the liveness properties hold all the same, which is why they leave
out AUTO_PARK, where the loop waits for a sensor. `IsoTpLink!FairSpec` asks that
the loop and each gateway thread keep running. Time-outs are not fair there:
otherwise every lost message would be excused by the time-out that follows it.
The ECU's part of it means that no parking run waits for ever.
`BootRecord!bootFairSpec` asks that the program that runs goes on
(`WF_bootVars(BootStep)`); an update need not be asked for or end, and the
power need not fail. `Diagnostics!diagFairSpec` asks that the loop goes on, which again means
that no parking run waits for ever, and that the STM1 interrupt comes as long as
it is enabled. `TaskServed` leaves out a client that starts the same task again
and again, which puts its transmission off every time (readdatahandler.c:252).
`CanDriver!FairSpec` asks that the bus takes what is sent and that an interrupt
that runs goes on (weak fairness), and that the loop makes its steps between the
interrupts (strong fairness): a frame takes longer on the bus than in its
handler, so the interrupts leave time. `MCBoard!MCSpec` asks that the loop makes
its writes and its measurements; the sensors need not ever show anything, which
is why `ParkingEnds` has premises.

## 4. Disagreements between code and comments

Kept as runs that find a counterexample: `OffMeansOff` (fsm.c:50),
`StopHolds` (soa_handler.c:70), `ParkRequestServed` (fsm.c:61, fsm.c:69),
`HandedOverWhole` (cantp.c:211), `FailureRolledBack` (bcb.c:59: since the call of
`BCB_ApplicationInit` at Cpu0_Main.c:39 is commented out, no application is ever
marked valid, and three failed starts end with blinking lamps, bcb.c:247).

Seen while modelling, in the model as the code has them, not kept as runs:

* aeb.c:60 limits the speed by an assignment, which also raises it: a car at
  duty 0 gets 500 (comments at aeb.c:43 and aeb.c:58), and the reverse kick of an
  emergency stop from standstill runs at 500.
* aeb.c:70: the call that releases the braking does not limit the speed.
* stm.c:29: the error value of a timeout is above every threshold, so a silent
  sensor releases the brake (aeb.c:71, comment at aeb.c:69).
* soa_publisher.c:25: the remembered state is read after the frame was built,
  and may differ from it (comment at :18).
* fsm.c:34: a logout during an emergency stop leaves `buzzerFlag` false: the next
  one is silent (fsm.c:104, fsm.c:116).
* fsm.c:39: each iteration clears the blinking started before (fsm.c:98, :108).
* autopark.c:113: a parking run goes on after an emergency-stop frame.
* soa_handler.c:28: a direction command drives before a login (fsm.c:34) and in
  EMERGENCY_STOP (fsm.c:97).
* stm.h:25: `STM_TICK_500MS` is one second at 100 MHz.
* soa_publisher.c:63 says 5 mm or less, the code tests less than 5.
* uds_gateway.cpp:123 says every flow control goes into the queue; one that
  arrives while a response is collected is dropped (uds_gateway.cpp:529).
* bcb.c:239: an application keeps its valid mark while an update overwrites it.
* bcb.c:229: the application to fall back to is chosen by the marks from before
  the failing one lost its own, so it may be the failing one again.
* readdatahandler.c:261: the ToF timeout has disabled itself, "to be enabled again
  by the next message" (stm.c:31). If that frame comes between the read and the
  write of `STM0_ICR`, the write takes the enable back (`between`): the AEB acts
  on a distance that stays valid however long the sensor is silent from then on.
* readdatahandler.c:236: the identifier 0 is found in an empty slot and starts it;
  its interval is 0, it sends nothing, and the STM1 interrupt stays on.
* diagnosticsdata.c:126: the left distance is sent with `sizeof(payload)`, seven
  bytes, three of them never set.
* session.c:66 says `session_mainFunction` is called every 10 ms; nothing calls
  it, and an extended session never times out.
* writedatahandler.c:73 writes `g_config.isAebEnabled` (diagnosticsdata.h:74: AEB
  ON/OFF); nothing reads it.
* sessioncontrolhandler.c:131: 0x11 confirms a reset that is commented out.
* main0.c:23: the only check that would set a fault is commented out; 0x19
  reports none.
* routinecontrol.c:61: for the five seconds of a routine the loop looks at no
  distance, no login and no request.
* bcb.c:80: a request of the application that never reads the record erases the
  sector whatever room it has; a power loss before the request is written leaves
  no record (`EraseUnread`, `Lose`).
* bcb.c:86: an erase that fails gives the write up; the caller is not told, and
  the boot loader jumps to the application its memory names.
* can.c:188: the flag is cleared once and one frame is read. Two frames that came
  before leave one behind without an interrupt; every later interrupt is then a
  frame late, and once the FIFO is full no frame raises the flag again:
  reception has ended. `LeftOnlyBehindAnother` states what is left.
* can.c:165: an interrupt that sends while the loop is in `canSendMsg` replaces
  its message; the loop then sends a mixture, or one message twice and the other
  not at all. `OthersSentOnce` excepts these.
* can.c:178: eight bytes are read from arrays that are shorter
  (soa_publisher.c:26); only `dlc` of them are sent.
* motor.c:20, ledport.c:15, buzzerport.c:13: a bit of a port is changed by read
  and write back; a drive command in between may be left with a wrong direction
  or a released brake. `MovesAsAsked` excepts these, and `StopSurvivesCrossing`
  says why a STOP is safe all the same.
* util.c:9: a delay that would end behind the wrap of the timer ends at once; one
  whose last readings fall into an interrupt at the wrap lasts another 43 s.
* autopark.c:130: an echo that never comes (-1) is less than any distance and
  ends the backing.

## 5. Proofs

`VehicleProofs` proves for every set of frames that may arrive (the only
assumption is `FrameAssumption`: payloads are bytes, distances are below the
error value):

| theorem | statement |
|---|---|
| `TypeCorrect` | `Spec => []TypeOK` |
| `TofSupervision` | `Spec => []TofSupervised` |
| `BrakingHolds` | `Spec => []NoBlindDrive` |
| `ParkingHasRequest` | `Spec => []ParkKeepsRequest` |
| `ModesImplemented` | `Spec => ImplementsModes` |
| `PublisherTorn` | `Spec => TornOnlyByInterrupt` |
| `EmergencyHolds` | `Spec => ReleasedByFrame` |

`TypeOK` is inductive; the proof treats flags and numbers apart (`FlagStep`,
`ValueStep`), because one prover is good at each. `TofSupervised` is inductive
with no help. `NoBlindDrive` is not: a state with an old command in `cmd` and a
near obstacle in `distance` satisfies it and has a bad successor. The inductive
invariant is `BrakeDecided`: as long as no frame has come since the sample, the
flag set by `Decide` stands from the decision to the dispatch, the direction
read is a reverse one, and so is the command held (`BrakeStep`, with
`LoopKeepsInputs` for the loop and the history variable for the interrupts).
`ReleasedByFrame` rests in the same way on `StopArmed`: the flag
`performEmergencyStop` has set stands until an interrupt clears it
(`StopStep`, `LeavingStep`). `ModesImplemented` needs to know in which case of
the switch the loop is at each control point (`CaseKept`) and that a parking run
keeps its request, which `ParkingHasRequest` gives.

`BootRecordProofs` proves for every size of the sector above one, every choice
of images and every bound (`BootAssumption`):

| theorem | statement |
|---|---|
| `BootTypes` | `bootSpec => []TypeOK` |
| `BootNoGap` | `bootSpec => []NoGap` |
| `BootImplementsControl` | `bootSpec => ImplementsControl` |

None of the three is inductive. The invariant `Inv` adds where the next record
goes at each control point (`Positions`: behind the last one, or at the first
place for an application that never read the record; a sector about to be erased
is full, or empty, or such an application's), whether an application runs there
(`Programs`), that only a confirmed application asks for an update (`Requests`),
that the write under way is an operation on the record before it (`Pending`), and
how the memory of a program is related to the record in the flash (`Memory`: it
is the record, the record as just changed, or zero in an application that never
read it). Its proof has one lemma for each of
the three kinds of steps (`WriteBegins`, `WriteEnds`, `ResetEnds`) and one for
each action. The refinement follows the window: an erase that opens it is
`EraseFull` or `EraseUnread`, by the program that runs (`EraseSectorStep`), a page
that does not take is `PageFails` and the erase behind it `ErasePage`, a reset or
an error in the window is `Lose`, the programmed page is `Update`; what leaves the
flash alone is `GoOn` or no step of `BootControl`.

`BootStartProofs` adds, when the images delivered are whole (`ImageAssumption`):

| theorem | statement |
|---|---|
| `BootNamesRunning` | `bootSpec => []NamesRunning` |
| `BootNeverStartsPartial` | `bootSpec => []NeverStartsPartial` |

Their invariant is `Starts`: as long as no write was disturbed, every record in
flash, in memory or being written is `Fit`. Such a record names a whole
application (`Usable`), and a request in it comes from an application that
confirms itself or from one that never read it (`Asking`). That the other
application may be half overwritten while it is still marked valid is harmless
because the named one confirms itself, so its attempts never run out and the
mark is never used; `Hung` says that the watchdog ends only programs that do not
confirm themselves.

`DiagnosticsProofs` proves for every choice of intervals (`IntervalAssumption`):

| theorem | statement |
|---|---|
| `DiagTypes` | `diagSpec => []TypeOK` |
| `TasksTick` | `diagSpec => []TaskTicks` |
| `TasksKeepInterval` | `diagSpec => []NotTooOften` |
| `RoutinesStop` | `diagSpec => []RoutineStops` |
| `WatchIsLostBetween` | `diagSpec => []WatchLostBetween` |

`TaskTicks` and `RoutineStops` are inductive with the types. `NotTooOften` speaks
of the moment of sending only; the invariant behind it is `Timing`: in every
active slot the periods counted and the periods the timer still has make up
the interval, but for a slot that is just being started. That exception is the
reason why `isActive` may be set before the timer (readdatahandler.c:251): the
interrupt may count an old timer down in between, the loop sends nothing there.
`WatchLostBetween` says nothing while the loop is about to write the register;
its invariant, `WatchKnown`, speaks there of the enable that will be written
back (`icr`) instead of the one in the register.
`ServedSteps` sorts the services into five kinds of steps, so that each
invariant is proved once for a kind and not once for a service.

`IsoTpLinkProofs` and `IsoTpExchangeProofs` prove for every block size, every
set of dialogues and every number of requests (`CanTpAssumption`,
`LinkAssumption`):

| theorem | statement |
|---|---|
| `LinkTypes` | `Spec => []TypeOK` |
| `LinkPiecesInPlace` | `Spec => []PiecesInPlace` |
| `LinkResponsesWhole` | `Spec => []ResponsesWhole` |
| `LinkWholeUnlessDisturbed` | `Spec => WholeUnlessDisturbed` |

The first two rest on `LinkInv`: in every frame, wherever it waits, the sequence
number and the offset belong together (`InPlace`), and the number of pieces in
the buffer and the number expected next agree up to a multiple of sixteen
(`Counted`). `ResponsesWhole` needs to know which frame may follow which in the
gateway's socket (`Stream`): a response that was begun is continued in order or
cut off by a first frame, because the ECU sends one response at a time, and the
forwarder gives a response up at the first frame that does not continue it. The
undisturbed exchange rests on `Exchange`: the request under way is the last one
asked and in one place (`Owned`), nothing is heard of it before all of it has
arrived (`Unheard`), and the session thread is as far as the reassembly or one
frame ahead (`InStep`).

`CanDriverProofs` proves for every size of the FIFO, every width of the distance
and every number of sends (`DriverAssumption`):

| theorem | statement |
|---|---|
| `DriverTypes` | `Spec => []TypeOK` |
| `InterruptFindsFrame` | `Spec => []ReadsWhatCame` |
| `AloneNotLeft` | `Spec => []LeftOnlyBehindAnother` |
| `UncrossedSentOnce` | `Spec => []OthersSentOnce` |
| `DistanceTold` | `Spec => []ToldTheDistance` |

On the receiving side `RxInv` connects the flag, the request and the FIFO: the
flag is up from an arrival until it is cleared (`Flagged`), who was called finds
a frame, and who was called again while one is still to be read finds another
(`Waiting`), a frame that was always alone still has its interrupt (`Alone`). On
the sending side `Meeting` says whose header and whose data the buffers hold at
each position of the loop, and that a message is in one place only; `Once`, that
a message nobody crossed has one frame when its call is over and none before.

`DistanceTold` needs `SensorAssumption` as well: readings lie below the value the
error value is cut to. Its invariant is `Heard`: as long as no send was crossed,
the distance the publisher remembers is about to be sent, waits for the bus or
was the last one told (`Newest`), because the loop sends no distances and its
message is in the transmit buffer alone (`Plain`); and once the publisher has
run, what it remembers is less than `MIN_CHANGE` from the distance (`Sensed`).
The error value is further than that from every reading, so the beginning and
the end of a silence are always published.

`BoardProofs` proves for every set of directions and duties and every length of a
gap (`BoardAssumption`), and for a timer of any size, any delays shorter than a
round and any time-outs (`TimingAssumption`):

| theorem | statement |
|---|---|
| `WellFormed` | `Spec => []TypeOK` |
| `MovesRight` | `Spec => []MovesAsAsked` |
| `StopHolds` | `Spec => []StopSurvivesCrossing` |
| `BuzzerSilent` | `Spec => []BeeperSilent` |
| `DelaysLast` | `TimerSpec => []DelayLasts` |
| `EchoesTrue` | `TimerSpec => []EchoTrue` |

`MovesAsAsked` says nothing of a state inside a call; the invariant `Moving` looks
ahead instead: what is left to be written, made at once, leads to the movement
asked, and the copy of a port or the configuration of a channel that a half-made
write holds is still true as far as the motor goes. It is kept because the first
write of a sequence and then the rest leave what the sequence leaves
(`LeftTail`), and it begins because every call makes the movement it asks for of
any board (`CommandCalls`, from `StopMakes`, `StraightMakes`, `PairMakes` and
`BrakedMakes`): no call relies on what the one before it left. The third part of
`Moving` is behind `StopHolds`: after a STOP both duties are zero, and a write
back of a port cannot change a duty. These lemmas speak of sequences of any
writes; that an output has a last write in one, the largest of a set of positions,
is `MaxOf`, from the well-founded order of the naturals.

`BuzzerSilent` rests on `Beeping`. Outside of a parking run the interrupt is
disabled and what is left to be written ends with the buzzer off (`Calm`); at the
end of the run the loop is in one of the stages of `Silencing`, in which the
interrupt is disabled before the buzzer is written, so that no toggle comes
after the last write and no port copy holds a toggle that is undone.

The two theorems about the timer share `TimerInv`: a reading has the lower word
of the time it was taken at, and the upper one as well unless an interrupt came
between (`IsReading`). What is left is arithmetic: two times with the same lower
words differ by whole rounds (`RestIsUnique`), and a time in the round of another
one, or in the next, has its distance from the start of that round as its lower
word (`InTheRound`).

Only model-checked: the liveness properties (`StopPrevails`, `ObstaclePrevails`,
`LogoutPrevails`, `LimitPrevails`, `RequestAnswered`, `FallsBack`, `TaskServed`,
`SendReturns`, `ParkingEnds`). They rest on fairness, which is out of reach of the
prover. Every safety property of a passing run is proved.

## 6. Not modelled

All but about two per cent of the 475 000 lines under `src` are vendored or
generated: the iLLD driver library of the TC37x, its register headers, tables and
start-up files. They are left aside; what the program does with a register is
modelled where two parties use it. The program's own C, C++ and Python is about
8 000 lines, so the lines the modules stand for are a small share of the whole.

Of the program's own code these parts are left out:

* the register set-up and the initialisation of every driver: straight-line code
  that runs once, before the interrupts; its result is `Init`;
* what nothing calls: `autoParkTune`, `buzzerParkingWarning`, the soft and hard
  braking of `motor.c`, `BCB_ClearBcb`, `session_mainFunction`, `isotp_receive`;
* the turn signals on P13 and their toggling, which share a port with nothing
  else, and the length of a beep;
* the filtered distances of the ultrasonic sensors, which only diagnostics read,
  and the fault status, whose only writer is commented out;
* the contents of diagnostic responses, the DoIP headers and the routing
  activation of the gateway: formatting that no decision depends on;
* the OTA client, a straight sequence of requests that each wait for an answer,
  with `hex_parser`, a pure function of a file;
* UART and Bluetooth dialogues and the user interfaces of the PC clients;
* `uploaddownloadhandler.c`, a skeleton without state;
* interrupts that are blocked for more than a period of a compare timer
  (stm.c:55): the next compare value then lies in the past and the interrupt
  stays away until the timer has come round. A period is one step in
  `Diagnostics`; what could block interrupts for 10 ms, a send that waits for the
  bus, is in `CanDriver`, which has no STM1.
