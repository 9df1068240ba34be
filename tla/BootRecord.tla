----------------------------- MODULE BootRecord ------------------------------
(***************************************************************************)
(* The boot control block in flash (Libraries/ota/bcb/bcb.c) and the two   *)
(* programs that use it: the boot loader, which calls BCB_BootLoaderInit   *)
(* at every reset, and the application it jumps to.  A record is written   *)
(* by separate flash commands, and the power can fail between any two.     *)
(*                                                                         *)
(* The sector is represented by the number of its records and the last of  *)
(* them, the only one ever read.  A page command either takes or leaves    *)
(* the page blank.                                                         *)
(***************************************************************************)
EXTENDS BootFields

CONSTANTS
  BCB_MAX_COUNT, \* records the sector holds
  FirstImages,  \* the images application A may be delivered with
  NewImages,    \* the images an update may bring
  MaxUpdates,   \* bound: updates
  MaxResets,    \* bound: power losses and watchdogs during a write
  MaxFaults     \* bound: flash commands that fail

\* What is in the flash of an application: nothing usable, a program that never
\* gets as far as switching its watchdog off, one that does, and one that calls
\* BCB_ApplicationInit first (Cpu0_Main.c:39 has the call commented out).
Images == {"partial", "faulty", "silent", "confirming"}

ASSUME BootAssumption ==
  /\ BCB_MAX_COUNT \in Nat \ {0, 1}
  /\ FirstImages \subseteq Images /\ NewImages \subseteq Images
  /\ MaxUpdates \in Nat /\ MaxResets \in Nat /\ MaxFaults \in Nat

\* What is delivered or committed is a whole program.
ASSUME ImageAssumption == "partial" \notin FirstImages \cup NewImages

VARIABLES
  \* in flash
  filled, latest, image,
  \* the program that runs: its control point, where a write returns to, the
  \* application if it is one, g_currentBcb and g_bcbIndexToWrite
  pc, then, running, cur, index,
  smu,   \* the last reset came from the watchdog (SCU_RESET_STATUS)
  \* history: the record when the write began; a reset lost a record, a write
  \* was given up or the watchdog cut one off; what the bounds count
  base, disturbed, updates, resets, faults

flashVars == <<filled, latest>>
programVars == <<pc, then, running, cur, index>>
bounds == <<updates, resets, faults>>
bootVars ==
  <<flashVars, image, programVars, smu, base, disturbed, bounds>>

bootInit ==
  /\ filled = 0 /\ latest = Missing
  /\ \E i \in FirstImages : image = [A |-> i, B |-> "partial"]
  /\ pc = "boot" /\ then = "boot" /\ running = "none"
  /\ cur = Zero /\ index = 0 /\ smu = FALSE
  /\ base = Missing /\ disturbed = FALSE
  /\ updates = 0 /\ resets = 0 /\ faults = 0

---------------------------------------------------------------------------
(* writeCurrentBcb.                                                        *)

\* The call: r is written at g_bcbIndexToWrite = i, then the program goes on.
writeCurrentBcb(r, i, next) ==
  /\ cur' = r /\ index' = i
  /\ pc' = IF i = 0 THEN "erase" ELSE "program"
  /\ then' = next
  /\ base' = latest

\* What follows a write.  An application starts with the memory its start-up
\* code clears, and so does the boot loader after a reset.
Return(i) ==
  /\ pc' = then
  /\ running' = IF then = "start" THEN cur.app
                ELSE IF then = "run" THEN running ELSE "none"
  /\ cur' = IF then \in {"start", "boot"} THEN Zero ELSE cur
  /\ index' = IF then \in {"start", "boot"} THEN 0 ELSE i
  /\ smu' = (smu /\ then # "boot")
  /\ then' = "boot" /\ base' = Missing

FlashFault == faults < MaxFaults /\ faults' = faults + 1

\* The first record of a sector: what was there is erased (an error keeps it,
\* the zeros written all the same change nothing) ...
EraseSector ==
  /\ pc = "erase"
  /\ \/ /\ filled' = 0 /\ latest' = Missing
        /\ pc' = "fill"
        /\ UNCHANGED <<then, running, cur, index, smu, base, disturbed, faults>>
     \/ /\ FlashFault
        /\ disturbed' = TRUE
        /\ Return(index)
        /\ UNCHANGED flashVars
  /\ UNCHANGED <<image, updates, resets>>

\* ... and overwritten by zeros; an error of either gives the write up.
FillSector ==
  /\ pc = "fill"
  /\ \/ /\ pc' = "program"
        /\ UNCHANGED <<then, running, cur, index, smu, base, disturbed, faults>>
     \/ /\ FlashFault
        /\ disturbed' = TRUE
        /\ Return(index)
  /\ UNCHANGED <<flashVars, image, updates, resets>>

ProgramPage ==
  /\ pc = "program"
  /\ \/ /\ filled' = index + 1 /\ latest' = cur
        /\ Return((index + 1) % BCB_MAX_COUNT)
        /\ UNCHANGED faults
     \/ /\ FlashFault
        /\ pc' = "recover"
        /\ UNCHANGED <<flashVars, then, running, cur, index, smu, base>>
  /\ UNCHANGED <<image, disturbed, updates, resets>>

\* The comparison failed: the sector is erased, and the record becomes its
\* first one, for as long as it takes.
RecoverSector ==
  /\ pc = "recover"
  /\ filled' = 0 /\ latest' = Missing
  /\ pc' = "reprogram"
  /\ UNCHANGED <<image, then, running, cur, index, smu, base, disturbed,
                 bounds>>

ReprogramPage ==
  /\ pc = "reprogram"
  /\ \/ /\ filled' = 1 /\ latest' = cur
        /\ Return(1)
        /\ UNCHANGED faults
     \/ /\ FlashFault
        /\ pc' = "recover"
        /\ UNCHANGED <<flashVars, then, running, cur, index, smu, base>>
  /\ UNCHANGED <<image, disturbed, updates, resets>>

Writing == pc \in {"erase", "fill", "program", "recover", "reprogram"}

---------------------------------------------------------------------------
(* The boot loader: BCB_BootLoaderInit.                                    *)

\* Seeded fault for NextIndex: the last record is overwritten.
LastIndex == (filled - 1) % BCB_MAX_COUNT

\* Seeded fault for NextIndex: a page is left out.
IndexBehindGap == (filled + 1) % BCB_MAX_COUNT

\* initiateGlobalVariables: where the next record goes.
NextIndex == filled % BCB_MAX_COUNT

\* A record is written and nothing else happens.
Write(r, i, next) ==
  /\ writeCurrentBcb(r, i, next)
  /\ UNCHANGED <<flashVars, image, running, smu, disturbed, bounds>>

AtBoot == pc = "boot" /\ filled > 0

\* There is no record: the default one is written, and the system is reset.
WriteDefault ==
  /\ filled = 0
  /\ pc = "boot" \/ (pc = "start" /\ image[running] = "confirming")
  /\ Write(Default, 0, "boot")

\* An update was asked for; it has not begun, or it was cut off.
BeginUpdate ==
  /\ AtBoot /\ latest.request /\ ~latest.inProgress
  /\ Write(BeginIn(latest), NextIndex, "update")

RollbackAtBoot ==
  /\ AtBoot /\ latest.request /\ latest.inProgress
  /\ Write(RollbackIn(latest), NextIndex, "start")

Confirmed == latest.app \in latest.valid /\ latest.attempt = 0

\* Seeded fault for jumpToApplication: it only knows the first application.
JumpToFirst ==
  /\ AtBoot /\ ~latest.request /\ Confirmed
  /\ pc' = "start" /\ running' = "A"
  /\ UNCHANGED <<flashVars, image, then, cur, index, smu, base, disturbed,
                 bounds>>

jumpToApplication ==
  /\ AtBoot /\ ~latest.request /\ Confirmed
  /\ pc' = "start" /\ running' = latest.app
  /\ UNCHANGED <<flashVars, image, then, cur, index, smu, base, disturbed,
                 bounds>>

\* Seeded fault for TryAgain: the attempts are not limited.
TryForEver ==
  /\ AtBoot /\ ~latest.request /\ ~Confirmed /\ smu
  /\ Write(TriedIn(latest, latest.attempt + 1), NextIndex, "start")

\* Seeded fault for TryAgain: the attempt is not counted.
TryUncounted ==
  /\ AtBoot /\ ~latest.request /\ ~Confirmed
  /\ smu /\ latest.attempt < MaxAttempt
  /\ Write(TriedIn(latest, 1), NextIndex, "start")

\* The watchdog ended the last attempt: another one, ...
TryAgain ==
  /\ AtBoot /\ ~latest.request /\ ~Confirmed
  /\ smu /\ latest.attempt < MaxAttempt
  /\ Write(TriedIn(latest, latest.attempt + 1), NextIndex, "start")

\* ... the other application, ...
GiveUp ==
  /\ AtBoot /\ ~latest.request /\ ~Confirmed
  /\ smu /\ latest.attempt >= MaxAttempt /\ latest.valid # {}
  /\ Write(GivenUpIn(latest), NextIndex, "start")

\* ... or the lamps blink for ever.
Halt ==
  /\ AtBoot /\ ~latest.request /\ ~Confirmed
  /\ smu /\ latest.attempt >= MaxAttempt /\ latest.valid = {}
  /\ pc' = "halt"
  /\ UNCHANGED <<flashVars, image, then, running, cur, index, smu, base,
                 disturbed, bounds>>

\* Any other reset makes it the first attempt.
TryFirst ==
  /\ AtBoot /\ ~latest.request /\ ~Confirmed /\ ~smu
  /\ Write(TriedIn(latest, 1), NextIndex, "start")

---------------------------------------------------------------------------
(* The boot loader during an update, as far as bcb.h lets it go.           *)

\* It overwrites the application that does not run ...
ProgramImage ==
  /\ pc = "update"
  /\ image' = [image EXCEPT ![Other(cur.app)] = "partial"]
  /\ UNCHANGED <<flashVars, programVars, smu, base, disturbed, bounds>>

\* ... and commits it when it is complete; a reset follows.
BCB_CommitUpdate ==
  LET app == Other(cur.app)
  IN /\ pc = "update" /\ image[app] = "partial"
     /\ \E i \in NewImages : image' = [image EXCEPT ![app] = i]
     /\ writeCurrentBcb(CommitIn(cur, app), index, "boot")
     /\ UNCHANGED <<flashVars, running, smu, disturbed, bounds>>

BCB_UpdateRollbackHandler ==
  /\ pc = "update"
  /\ Write(RollbackIn(cur), index, "start")

---------------------------------------------------------------------------
(* The application.                                                        *)

\* core0_main without BCB_ApplicationInit: g_currentBcb stays zero.
StartSilently ==
  /\ pc = "start" /\ image[running] = "silent"
  /\ pc' = "run"
  /\ UNCHANGED <<flashVars, image, then, running, cur, index, smu, base,
                 disturbed, bounds>>

BCB_ApplicationInit ==
  /\ pc = "start" /\ image[running] = "confirming" /\ filled > 0
  /\ IF latest.attempt = 0
       THEN /\ pc' = "run" /\ cur' = latest /\ index' = NextIndex
            /\ UNCHANGED <<flashVars, image, then, running, smu, base,
                           disturbed, bounds>>
       ELSE Write(ConfirmIn(latest), NextIndex, "run")

\* The diagnostic service 0x10 asks for the programming session.
BCB_RequestUpdate ==
  /\ pc = "run" /\ updates < MaxUpdates
  /\ updates' = updates + 1
  /\ writeCurrentBcb(RequestIn(cur), index, "boot")
  /\ UNCHANGED <<flashVars, image, running, smu, disturbed, resets, faults>>

---------------------------------------------------------------------------
(* Resets.                                                                 *)

\* The record is out of the flash and its successor is not in it yet.
InWindow == Writing /\ pc # "erase" /\ filled = 0 /\ base # Missing

\* The running application has not read the record.
Blind == running # "none" /\ image[running] = "silent"

Reset(watchdog) ==
  /\ pc' = "boot" /\ then' = "boot" /\ running' = "none"
  /\ cur' = Zero /\ index' = 0
  /\ smu' = watchdog
  /\ base' = Missing
  /\ UNCHANGED <<flashVars, image, updates, faults>>

PowerLoss ==
  /\ resets < MaxResets /\ resets' = resets + 1
  /\ Reset(FALSE)
  /\ disturbed' = (disturbed \/ InWindow)

\* The watchdog set by the boot loader goes off: in a write of
\* BCB_ApplicationInit that takes too long (it is off at a request), ...
WatchdogInWrite ==
  /\ Writing /\ running # "none" /\ ~cur.request
  /\ resets < MaxResets /\ resets' = resets + 1
  /\ Reset(TRUE)
  /\ disturbed' = TRUE

\* ... or in a program that does not get as far as switching it off.
Hang ==
  /\ pc = "start" /\ image[running] \in {"faulty", "partial"}
  /\ Reset(TRUE)
  /\ UNCHANGED <<resets, disturbed>>

BootStep ==
  \/ EraseSector \/ FillSector \/ ProgramPage
  \/ RecoverSector \/ ReprogramPage
  \/ WriteDefault \/ BeginUpdate \/ RollbackAtBoot \/ jumpToApplication
  \/ TryAgain \/ GiveUp \/ Halt \/ TryFirst
  \/ StartSilently \/ BCB_ApplicationInit \/ Hang

UpdateStep == ProgramImage \/ BCB_CommitUpdate \/ BCB_UpdateRollbackHandler

bootNext ==
  BootStep \/ UpdateStep \/ BCB_RequestUpdate \/ PowerLoss \/ WatchdogInWrite

bootSpec == bootInit /\ [][bootNext]_bootVars

\* The programs run; power losses, updates and their end need not come.
bootFairSpec == bootSpec /\ WF_bootVars(BootStep)

---------------------------------------------------------------------------
(* Properties.                                                             *)

ControlPoints == {"boot", "erase", "fill", "program", "recover", "reprogram",
                  "update", "start", "run", "halt"}

RecordTypes ==
  /\ filled \in 0..BCB_MAX_COUNT
  /\ latest \in Records \cup {Missing} /\ base \in Records \cup {Missing}
  /\ (latest = Missing) <=> (filled = 0)
  /\ pc \in ControlPoints /\ then \in {"boot", "update", "start", "run"}
  /\ cur \in Records /\ index \in 0..(BCB_MAX_COUNT - 1)

FlagTypes == smu \in BOOLEAN /\ disturbed \in BOOLEAN

OtherTypes ==
  /\ image \in [Apps -> Images] /\ running \in Apps \cup {"none"}
  /\ updates \in 0..MaxUpdates /\ resets \in 0..MaxResets
  /\ faults \in 0..MaxFaults

TypeOK == RecordTypes /\ FlagTypes /\ OtherTypes

\* A record is only ever written right behind the last one, so the scan for the
\* first page without a magic number finds it (bcb.c:146-154), whichever
\* program wrote the last one and whatever went wrong before.
NoGap == pc = "program" => index = filled

\* An application that is half overwritten is not started, unless a write was
\* disturbed: its mark in valid stays until the commit (bcb.c:200-206, 239-258).
NeverStartsPartial ==
  pc = "start" /\ image[running] = "partial" => disturbed

\* The record names the application that runs: BCB_ApplicationInit, which
\* confirms the one it finds there, confirms its own (bcb.c:283-301).
NamesRunning ==
  pc \in {"start", "run"} /\ ~disturbed => filled > 0 /\ latest.app = running

\* The record changes in one step, whatever resets come in between, and is lost
\* only after its sector was erased: because it was full, because a page did not
\* take, or by the request of an application that never read the record, which
\* erases a sector with room in it although nothing failed (bcb.c:77-116,
\* 303-308).
Control ==
  INSTANCE BootControl
  WITH record <- IF InWindow THEN base ELSE latest,
       room <- BCB_MAX_COUNT - filled,
       risk <- IF pc \in {"recover", "reprogram"} THEN "page"
               ELSE IF ~InWindow THEN "none"
               ELSE IF Blind THEN "unread" ELSE "full",
       blind <- Blind
ImplementsControl == Control!Spec

\* An application that fails after an update is replaced by the confirmed one
\* after three attempts, unless a write was disturbed (bcb.c:225-269).
Failing(app) ==
  pc = "start" /\ running = app /\ image[app] = "faulty" /\ filled > 0

FallsBack ==
  \A app \in Apps :
    Failing(app) /\ Other(app) \in latest.valid
      ~> (pc = "run" /\ running = Other(app)) \/ disturbed

---------------------------------------------------------------------------
(* What a comment of the code announces and the code does not do.          *)

\* bcb.c:59, "roll back - update failed": when the new application fails,
\* one that works is started again.
FailureRolledBack ==
  \A app \in Apps :
    Failing(app) /\ image[Other(app)] \in {"silent", "confirming"}
      ~> pc = "run" \/ disturbed
=============================================================================
