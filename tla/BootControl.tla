----------------------------- MODULE BootControl -----------------------------
(***************************************************************************)
(* What the boot control block promises (Libraries/ota/bcb): one record    *)
(* that every operation replaces in a single step, whatever resets come in *)
(* between.  The promise has a limit: the records are written one after    *)
(* the other into a sector, and the sector is erased before its first      *)
(* record is written.  A record is lost only in between, and the sector is *)
(* erased for three reasons only: it is full, a page did not take, or the  *)
(* application that asks for an update never read the record, and so       *)
(* writes at the first place of a sector that may have room.               *)
(***************************************************************************)
EXTENDS BootFields

CONSTANT BCB_MAX_COUNT   \* records a sector holds, more than one

VARIABLES
  record,  \* the last record written, until it is lost
  room,    \* records the sector still takes
  risk,    \* why a reset would lose the record: full, page, unread, or none
  blind,   \* the program that runs is an application that never reads it
  faults   \* flash commands that failed

Init ==
  /\ record = Missing /\ room = BCB_MAX_COUNT
  /\ risk = "none" /\ blind = FALSE
  /\ faults = 0

FaultOrNot == faults' \in {faults, faults + 1}

Update ==
  /\ room > 0 /\ room' = room - 1
  /\ record' \in Records
  /\ \/ ~blind /\ record = Missing /\ FromMemory(record')
     \/ ~blind /\ record # Missing /\ Operation(record, record')
     \/ blind /\ record' = RequestIn(Zero)
  /\ risk' = "none" /\ blind' \in BOOLEAN
  /\ UNCHANGED faults

Erase(why) ==
  /\ room' = BCB_MAX_COUNT /\ risk' = why
  /\ UNCHANGED <<record, blind, faults>>

EraseFull == record # Missing /\ risk = "none" /\ ~blind /\ room = 0 /\ Erase("full")

\* The sector may have room, and nothing failed.
EraseUnread == record # Missing /\ risk = "none" /\ blind /\ Erase("unread")

PageFails ==
  /\ risk' = "page" /\ faults' = faults + 1
  /\ UNCHANGED <<record, room, blind>>

ErasePage == risk = "page" /\ Erase("page")

\* A reset, or an error that gives the write up, after the sector was erased.
Lose ==
  /\ risk # "none" /\ room = BCB_MAX_COUNT
  /\ record' = Missing /\ risk' = "none" /\ blind' \in BOOLEAN
  /\ FaultOrNot
  /\ UNCHANGED room

\* Before it was erased, or outside of a write, one program follows another
\* and the record stays.
GoOn ==
  /\ room = BCB_MAX_COUNT => record = Missing
  /\ risk' = "none" /\ blind' \in BOOLEAN
  /\ FaultOrNot
  /\ UNCHANGED <<record, room>>

Next ==
  Update \/ EraseFull \/ EraseUnread \/ PageFails \/ ErasePage \/ Lose \/ GoOn

Spec == Init /\ [][Next]_<<record, room, risk, blind, faults>>
=============================================================================
