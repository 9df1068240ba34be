-------------------------- MODULE BootStartProofs ---------------------------
(* Which application the boot loader starts, and which one the record      *)
(* names: proofs of NeverStartsPartial and NamesRunning, on top of the     *)
(* invariant of BootRecordProofs.                                          *)
EXTENDS BootRecordProofs

---------------------------------------------------------------------------
(* Records the boot loader can start from.                                 *)

\* The application named by r is whole; one of those marked valid may be half
\* overwritten only while the named one confirms itself, which is the one the
\* update was asked for by, and so keeps being named.
Usable(im, r) ==
  /\ im[r.app] # "partial"
  /\ \A app \in r.valid : im[app] = "partial" => im[r.app] = "confirming"

\* Who asks for an update: an application that confirmed itself, or one that
\* never read the record and asks with an empty one.
Asking(im, r) ==
  r.request => im[r.app] = "confirming" \/ (r.app = "A" /\ r.valid = {})

Fit(im, r) == Usable(im, r) /\ Asking(im, r)

LEMMA FitChanges ==
  ASSUME NEW im, NEW r, Fit(im, r)
  PROVE  /\ Fit(im, BeginIn(r)) /\ Fit(im, RollbackIn(r))
         /\ im[r.app] = "confirming" => Fit(im, RequestIn(r))
BY DEF Fit, Usable, Asking, BeginIn, RollbackIn, RequestIn, Bcb

LEMMA FitTried ==
  ASSUME NEW im, NEW r, NEW n, Fit(im, r)
  PROVE  Fit(im, TriedIn(r, n))
BY DEF Fit, Usable, Asking, TriedIn, Bcb

LEMMA FitConfirmed ==
  ASSUME NEW im, NEW r, Fit(im, r), im[r.app] = "confirming"
  PROVE  Fit(im, ConfirmIn(r))
BY DEF Fit, Usable, Asking, ConfirmIn, Bcb

LEMMA FitConstants ==
  ASSUME NEW im, im["A"] # "partial"
  PROVE  Fit(im, Default) /\ Fit(im, RequestIn(Zero))
BY DEF Fit, Usable, Asking, Default, Zero, RequestIn, Bcb

\* The application that failed cannot be one that confirms itself, so whatever
\* is marked valid is whole.
LEMMA FitGivenUp ==
  ASSUME NEW im, NEW r \in Records, Fit(im, r), ~r.request, r.valid # {},
         im[r.app] # "confirming"
  PROVE  Fit(im, GivenUpIn(r))
<1>1. \A app \in r.valid : im[app] # "partial"
  BY DEF Fit, Usable
<1>2. r.valid \subseteq {"A", "B"}
  BY FieldTypes DEF Apps
<1>3. (IF "A" \in r.valid THEN "A" ELSE "B") \in r.valid
  BY <1>2
<1>4. PICK app : app = (IF "A" \in r.valid THEN "A" ELSE "B")
  OBVIOUS
<1>5. /\ GivenUpIn(r).app = app /\ GivenUpIn(r).request = r.request
      /\ GivenUpIn(r).valid \subseteq r.valid
  BY <1>4 DEF GivenUpIn, Bcb
<1> QED
  BY <1>1, <1>3, <1>4, <1>5 DEF Fit, Usable, Asking

\* The other application is overwritten.
LEMMA FitOverwritten ==
  ASSUME NEW im \in [Apps -> Images], NEW r \in Records, Fit(im, r), r.request,
         NEW im2, im2 = [im EXCEPT ![Other(r.app)] = "partial"]
  PROVE  Fit(im2, r) /\ (im2["A"] = "partial" => im2["B"] = "confirming")
<1>1. r.app \in {"A", "B"} /\ r.valid \subseteq {"A", "B"}
  BY FieldTypes DEF Apps
<1>2. im2[r.app] = im[r.app] /\ im2[Other(r.app)] = "partial"
  BY <1>1 DEF Other, Apps
<1>3. im[r.app] = "confirming" \/ (r.app = "A" /\ r.valid = {})
  BY DEF Fit, Asking
<1>4. im[r.app] # "partial"
  BY DEF Fit, Usable
<1>5. Fit(im2, r)
  BY <1>1, <1>2, <1>3, <1>4 DEF Fit, Usable, Asking
<1>6. im2["A"] = "partial" => im2["B"] = "confirming"
  BY <1>1, <1>2, <1>3, <1>4 DEF Other
<1> QED
  BY <1>5, <1>6

\* The other application is complete.
LEMMA FitCommitted ==
  ASSUME NEW im \in [Apps -> Images], NEW r \in Records, Fit(im, r),
         NEW i \in NewImages,
         NEW im2, im2 = [im EXCEPT ![Other(r.app)] = i]
  PROVE  /\ Fit(im2, CommitIn(r, Other(r.app))) /\ Fit(im2, r)
         /\ im2["A"] # "partial"
<1>1. r.app \in {"A", "B"} /\ r.valid \subseteq {"A", "B"}
  BY FieldTypes DEF Apps
<1>2. im2[r.app] = im[r.app] /\ im2[Other(r.app)] = i
  BY <1>1 DEF Other, Apps
<1>3. i # "partial" /\ im[r.app] # "partial"
  BY ImageAssumption DEF Fit, Usable
<1>4. im2["A"] # "partial" /\ im2["B"] # "partial"
  BY <1>1, <1>2, <1>3 DEF Other
<1>5. /\ CommitIn(r, Other(r.app)).app = Other(r.app)
      /\ CommitIn(r, Other(r.app)).request = FALSE
      /\ CommitIn(r, Other(r.app)).valid \subseteq r.valid
  BY DEF CommitIn, Bcb
<1>6. Other(r.app) \in {"A", "B"}
  BY DEF Other
<1>7. Fit(im2, CommitIn(r, Other(r.app)))
  BY <1>1, <1>4, <1>5, <1>6 DEF Fit, Usable, Asking
<1>8. Fit(im2, r)
  BY <1>1, <1>2, <1>4 DEF Fit, Usable, Asking
<1> QED
  BY <1>4, <1>7, <1>8

---------------------------------------------------------------------------
(* The inductive invariant, on top of that of BootRecordProofs.            *)

Idle == ~Writing => base = Missing

\* What is in flash.  Without a record the boot loader starts A.
Found ==
  /\ filled > 0 => Fit(image, latest)
  /\ filled = 0 /\ base = Missing => image["A"] # "partial"
  /\ image["A"] = "partial" => image["B"] = "confirming"

\* The record names the running application, which confirms itself.
Own(r) == r.app = running /\ image[running] = "confirming"

\* What is being written.
Written ==
  /\ Writing => Fit(image, cur)
  /\ Writing /\ then = "run" => Own(cur)

\* What is in memory: the record in flash, or nothing of it.
Remembered ==
  /\ pc = "update" => filled > 0 /\ cur = latest
  /\ pc = "run" => \/ cur = Zero /\ image[running] # "confirming"
                   \/ Own(cur) /\ Fit(image, cur)

Named == pc \in {"start", "run"} => filled > 0 /\ latest.app = running

\* The watchdog ends programs that do not confirm themselves.
Hung == pc = "boot" /\ smu => filled > 0 /\ image[latest.app] # "confirming"

Chosen == Found /\ Written /\ Remembered /\ Named /\ Hung

Starts == Idle /\ (~disturbed => Chosen)

\* What holds of every state, by BootRecordProofs.
Base == Inv /\ OtherTypes

LEMMA InitStarts == bootInit => Starts
<1> SUFFICES ASSUME bootInit PROVE Starts
  OBVIOUS
<1> USE DEF bootInit
<1>1. PICK i \in FirstImages : image = [A |-> i, B |-> "partial"]
  OBVIOUS
<1>2. image["A"] # "partial"
  BY <1>1, ImageAssumption
<1>3. Idle
  BY DEF Idle
<1>4. Found /\ Written
  BY <1>2 DEF Found, Written, Writing
<1>5. Remembered /\ Named /\ Hung
  BY DEF Remembered, Named, Hung
<1> QED
  BY <1>3, <1>4, <1>5 DEF Starts, Chosen

---------------------------------------------------------------------------
(* The kinds of steps.                                                     *)

\* A write begins.
LEMMA BeginKeeps ==
  ASSUME Base, Starts, NEW r, NEW i, NEW next, writeCurrentBcb(r, i, next),
         disturbed' = disturbed,
         ~disturbed => Found' /\ Fit(image', r),
         ~disturbed /\ next = "run"
           => r.app = running' /\ image'[running'] = "confirming"
  PROVE  Starts'
<1> USE DEF writeCurrentBcb
<1>1. pc' \in {"erase", "program"} /\ Writing' /\ cur' = r /\ then' = next
  BY DEF Writing
<1>2. Idle'
  BY <1>1 DEF Idle
<1>3. SUFFICES ASSUME ~disturbed PROVE Chosen'
  BY <1>2 DEF Starts
<1>4. Written'
  BY <1>1, <1>3 DEF Written, Own
<1>5. Remembered' /\ Named' /\ Hung'
  BY <1>1 DEF Remembered, Named, Hung
<1> QED
  BY <1>3, <1>4, <1>5 DEF Chosen

\* What is in flash stays as it was when a write begins.
LEMMA FoundKept ==
  ASSUME Base, Starts, ~disturbed, ~Writing, UNCHANGED <<flashVars, image>>
  PROVE  Found'
<1>1. Found /\ base = Missing
  BY DEF Starts, Chosen, Idle
<1> QED
  BY <1>1 DEF Found, flashVars

LEMMA WriteKeeps ==
  ASSUME Base, Starts, ~Writing, NEW r, NEW i, NEW next, Write(r, i, next),
         ~disturbed => Fit(image, r),
         ~disturbed /\ next = "run" => Own(r)
  PROVE  Starts'
<1>1. /\ writeCurrentBcb(r, i, next) /\ disturbed' = disturbed
      /\ UNCHANGED <<flashVars, image>> /\ running' = running
  BY DEF Write
<1>2. ~disturbed => Found'
  BY <1>1, FoundKept
<1>3. ~disturbed => Fit(image', r)
  BY <1>1
<1>4. ~disturbed /\ next = "run"
        => r.app = running' /\ image'[running'] = "confirming"
  BY <1>1 DEF Own
<1> QED
  BY <1>1, <1>2, <1>3, <1>4, BeginKeeps

\* A write ends with the record in flash.
LEMMA EndKeeps ==
  ASSUME Base, Starts, Writing, NEW i, Return(i), filled' > 0, latest' = cur,
         image' = image, disturbed' = disturbed
  PROVE  Starts'
<1> USE DEF Return
<1>1. /\ pc' = then /\ base' = Missing
      /\ then \in {"boot", "update", "start", "run"}
  BY DEF Base, Inv, RecordTypes
<1>2. ~Writing'
  BY <1>1 DEF Writing
<1>3. SUFFICES ASSUME ~disturbed PROVE Chosen'
  BY <1>1 DEF Starts, Idle
<1>4. Found /\ Fit(image, cur) /\ (then = "run" => Own(cur))
  BY <1>3 DEF Starts, Chosen, Written
<1>5. filled' # 0
  OBVIOUS
<1>6. Found'
  BY <1>4, <1>5 DEF Found
<1>7. Written'
  BY <1>2 DEF Written
<1>8. Named'
  BY <1>1, <1>4 DEF Named, Own
<1>9. Remembered'
  BY <1>1, <1>4 DEF Remembered, Own
<1>10. Hung'
  BY <1>1 DEF Hung
<1> QED
  BY <1>6, <1>7, <1>8, <1>9, <1>10 DEF Chosen

\* A step inside a write.
LEMMA WithinKeeps ==
  ASSUME Starts, Writing, Writing',
         UNCHANGED <<then, running, cur, image, disturbed>>,
         ~disturbed => Found'
  PROVE  Starts'
<1>1. Idle'
  BY DEF Idle
<1>2. SUFFICES ASSUME ~disturbed PROVE Chosen'
  BY <1>1 DEF Starts
<1>3. Written'
  BY <1>2 DEF Starts, Chosen, Written, Own
<1>4. pc' \notin {"boot", "update", "start", "run"}
  BY DEF Writing
<1> QED
  BY <1>2, <1>3, <1>4 DEF Chosen, Remembered, Named, Hung

\* A write is given up.
LEMMA DisturbedKeeps ==
  ASSUME disturbed', base' = Missing PROVE Starts'
BY DEF Starts, Idle

---------------------------------------------------------------------------
(* The invariant is inductive.                                             *)

\* The sector is erased: a record that was there is remembered in base.
LEMMA ErasedFound ==
  ASSUME Base, Starts, ~disturbed, Writing,
         filled' = 0, latest' = Missing, base' = base, image' = image
  PROVE  Found'
<1>1. base = Missing => filled = 0
  BY DEF Base, Inv, RecordTypes, Pending
<1>2. Found
  BY DEF Starts, Chosen
<1> QED
  BY <1>1, <1>2 DEF Found

LEMMA EraseSectorStarts == Base /\ Starts /\ EraseSector => Starts'
<1> SUFFICES ASSUME Base, Starts, EraseSector PROVE Starts'
  OBVIOUS
<1>1. pc = "erase" /\ Writing /\ image' = image
  BY DEF EraseSector, Writing
<1>2. CASE /\ filled' = 0 /\ latest' = Missing /\ pc' = "fill"
           /\ UNCHANGED <<then, running, cur, base, disturbed>>
  <2>1. Writing'
    BY <1>2 DEF Writing
  <2> QED
    BY <1>1, <1>2, <2>1, ErasedFound, WithinKeeps
<1>3. CASE disturbed' = TRUE /\ Return(index)
  BY <1>3, DisturbedKeeps DEF Return
<1> QED
  BY <1>2, <1>3 DEF EraseSector

LEMMA FillSectorStarts == Base /\ Starts /\ FillSector => Starts'
<1> SUFFICES ASSUME Base, Starts, FillSector PROVE Starts'
  OBVIOUS
<1>1. pc = "fill" /\ Writing /\ UNCHANGED <<flashVars, image>>
  BY DEF FillSector, Writing
<1>2. CASE pc' = "program" /\ UNCHANGED <<then, running, cur, base, disturbed>>
  <2>1. Writing'
    BY <1>2 DEF Writing
  <2>2. ~disturbed => Found'
    BY <1>1, <1>2 DEF Starts, Chosen, Found, flashVars
  <2> QED
    BY <1>1, <1>2, <2>1, <2>2, WithinKeeps
<1>3. CASE disturbed' = TRUE /\ Return(index)
  BY <1>3, DisturbedKeeps DEF Return
<1> QED
  BY <1>2, <1>3 DEF FillSector

\* The page stayed blank, and the sector will be erased.
LEMMA BlankKeeps ==
  ASSUME Base, Starts, Writing, pc' = "recover",
         UNCHANGED <<flashVars, then, running, cur, base, image, disturbed>>
  PROVE  Starts'
<1>1. Writing'
  BY DEF Writing
<1>2. ~disturbed => Found'
  BY DEF Starts, Chosen, Found, flashVars
<1> QED
  BY <1>1, <1>2, WithinKeeps

LEMMA ProgramPageStarts == Base /\ Starts /\ ProgramPage => Starts'
<1> SUFFICES ASSUME Base, Starts, ProgramPage PROVE Starts'
  OBVIOUS
<1>1. Writing /\ image' = image /\ disturbed' = disturbed
  BY DEF ProgramPage, Writing
<1>2. CASE /\ filled' = index + 1 /\ latest' = cur
           /\ Return((index + 1) % BCB_MAX_COUNT)
  <2>1. filled' > 0
    BY <1>2, BootAssumption DEF Base, Inv, RecordTypes
  <2> QED
    BY <1>1, <1>2, <2>1, EndKeeps
<1>3. CASE pc' = "recover" /\ UNCHANGED <<flashVars, then, running, cur, base>>
  BY <1>1, <1>3, BlankKeeps
<1> QED
  BY <1>2, <1>3 DEF ProgramPage

LEMMA ReprogramPageStarts == Base /\ Starts /\ ReprogramPage => Starts'
<1> SUFFICES ASSUME Base, Starts, ReprogramPage PROVE Starts'
  OBVIOUS
<1>1. Writing /\ image' = image /\ disturbed' = disturbed
  BY DEF ReprogramPage, Writing
<1>2. CASE filled' = 1 /\ latest' = cur /\ Return(1)
  <2>1. filled' > 0
    BY <1>2
  <2> QED
    BY <1>1, <1>2, <2>1, EndKeeps
<1>3. CASE pc' = "recover" /\ UNCHANGED <<flashVars, then, running, cur, base>>
  BY <1>1, <1>3, BlankKeeps
<1> QED
  BY <1>2, <1>3 DEF ReprogramPage

LEMMA RecoverSectorStarts == Base /\ Starts /\ RecoverSector => Starts'
<1> SUFFICES ASSUME Base, Starts, RecoverSector PROVE Starts'
  OBVIOUS
<1>1. Writing /\ Writing'
  BY DEF RecoverSector, Writing
<1>2. ~disturbed => Found'
  BY <1>1, ErasedFound DEF RecoverSector
<1> QED
  BY <1>1, <1>2, WithinKeeps DEF RecoverSector

\* The boot loader has found a record.
LEMMA AtBootFacts ==
  ASSUME Base, Starts, AtBoot
  PROVE  /\ ~Writing /\ latest \in Records
         /\ ~disturbed => Fit(image, latest)
<1>1. ~Writing
  BY DEF AtBoot, Writing
<1>2. latest \in Records
  BY FoundRecord DEF AtBoot, Base
<1> QED
  BY <1>1, <1>2 DEF AtBoot, Starts, Chosen, Found

LEMMA WriteDefaultStarts == Base /\ Starts /\ WriteDefault => Starts'
<1> SUFFICES ASSUME Base, Starts, WriteDefault PROVE Starts'
  OBVIOUS
<1>1. ~Writing /\ filled = 0
  BY DEF WriteDefault, Writing
<1>2. ~disturbed => Fit(image, Default)
  BY <1>1, FitConstants DEF Starts, Chosen, Idle, Found
<1> QED
  BY <1>1, <1>2, WriteKeeps DEF WriteDefault

LEMMA UpdateStarts ==
  Base /\ Starts /\ (BeginUpdate \/ RollbackAtBoot) => Starts'
<1> SUFFICES ASSUME Base, Starts, BeginUpdate \/ RollbackAtBoot PROVE Starts'
  OBVIOUS
<1>1. ~Writing /\ (~disturbed => Fit(image, latest))
  BY AtBootFacts DEF BeginUpdate, RollbackAtBoot
<1>2. ~disturbed
        => Fit(image, BeginIn(latest)) /\ Fit(image, RollbackIn(latest))
  BY <1>1, FitChanges
<1> QED
  BY <1>1, <1>2, WriteKeeps DEF BeginUpdate, RollbackAtBoot

LEMMA TryStarts == Base /\ Starts /\ (TryAgain \/ TryFirst) => Starts'
<1> SUFFICES ASSUME Base, Starts, TryAgain \/ TryFirst PROVE Starts'
  OBVIOUS
<1>1. ~Writing /\ (~disturbed => Fit(image, latest))
  BY AtBootFacts DEF TryAgain, TryFirst
<1>2. \A n : ~disturbed => Fit(image, TriedIn(latest, n))
  BY <1>1, FitTried
<1>3. PICK n : Write(TriedIn(latest, n), NextIndex, "start")
  BY DEF TryAgain, TryFirst
<1> QED
  BY <1>1, <1>2, <1>3, WriteKeeps

LEMMA GiveUpStarts == Base /\ Starts /\ GiveUp => Starts'
<1> SUFFICES ASSUME Base, Starts, GiveUp PROVE Starts'
  OBVIOUS
<1>1. AtBoot /\ ~latest.request /\ latest.valid # {} /\ pc = "boot" /\ smu
  BY DEF GiveUp, AtBoot
<1>2. ~Writing /\ latest \in Records /\ (~disturbed => Fit(image, latest))
  BY <1>1, AtBootFacts
<1>3. ~disturbed => image[latest.app] # "confirming"
  BY <1>1 DEF Starts, Chosen, Hung
<1>4. ~disturbed => Fit(image, GivenUpIn(latest))
  BY <1>1, <1>2, <1>3, FitGivenUp
<1> QED
  BY <1>2, <1>4, WriteKeeps DEF GiveUp

LEMMA JumpStarts == Base /\ Starts /\ (jumpToApplication \/ Halt) => Starts'
<1> SUFFICES ASSUME Base, Starts, jumpToApplication \/ Halt PROVE Starts'
  OBVIOUS
<1>1. /\ ~Writing /\ pc' \in {"start", "halt"}
      /\ UNCHANGED <<flashVars, image, base, disturbed>>
      /\ pc' = "start" => filled > 0 /\ running' = latest.app
  BY DEF jumpToApplication, Halt, AtBoot, Writing
<1>2. Idle'
  BY <1>1 DEF Starts, Idle
<1>3. SUFFICES ASSUME ~disturbed PROVE Chosen'
  BY <1>1, <1>2 DEF Starts
<1>4. Found'
  BY <1>1, <1>3, FoundKept
<1>5. Named'
  BY <1>1 DEF Named, flashVars
<1>6. Written' /\ Remembered' /\ Hung'
  BY <1>1 DEF Written, Writing, Remembered, Hung
<1> QED
  BY <1>4, <1>5, <1>6 DEF Chosen

\* The boot loader during an update.
LEMMA UpdateFacts ==
  ASSUME Base, Starts, pc = "update"
  PROVE  /\ ~Writing /\ cur \in Records
         /\ ~disturbed => /\ filled > 0 /\ latest = cur
                          /\ Fit(image, cur) /\ cur.request
<1>1. ~Writing
  BY DEF Writing
<1>2. /\ cur \in Records /\ UpdateMemory(latest, cur)
      /\ (latest = Missing) <=> (filled = 0)
  BY DEF Base, Inv, RecordTypes, Memory
<1>3. ASSUME ~disturbed
      PROVE  filled > 0 /\ latest = cur /\ Fit(image, cur)
  BY <1>3 DEF Starts, Chosen, Remembered, Found
<1>4. ASSUME ~disturbed PROVE cur.request
  BY <1>2, <1>3, <1>4 DEF UpdateMemory, Beginning, BeginIn, Bcb
<1> QED
  BY <1>1, <1>2, <1>3, <1>4

LEMMA ProgramImageStarts == Base /\ Starts /\ ProgramImage => Starts'
<1> SUFFICES ASSUME Base, Starts, ProgramImage PROVE Starts'
  OBVIOUS
<1>1. /\ pc = "update" /\ pc' = pc
      /\ UNCHANGED <<flashVars, cur, base, disturbed>>
      /\ image' = [image EXCEPT ![Other(cur.app)] = "partial"]
  BY DEF ProgramImage, programVars
<1>2. Idle'
  BY <1>1 DEF Starts, Idle, Writing
<1>3. SUFFICES ASSUME ~disturbed PROVE Chosen'
  BY <1>1, <1>2 DEF Starts
<1>4. image \in [Apps -> Images]
  BY DEF Base, OtherTypes
<1>5. /\ cur \in Records /\ filled > 0 /\ latest = cur
      /\ Fit(image, cur) /\ cur.request
  BY <1>1, <1>3, UpdateFacts
<1>6. PICK im2 : im2 = [image EXCEPT ![Other(cur.app)] = "partial"]
  OBVIOUS
<1>7. Fit(im2, cur) /\ (im2["A"] = "partial" => im2["B"] = "confirming")
  BY <1>4, <1>5, <1>6, FitOverwritten
<1>8. image' = im2 /\ filled' = filled /\ latest' = cur
  BY <1>1, <1>5, <1>6 DEF flashVars
<1>9. filled # 0
  BY <1>5
<1>10. Found'
  BY <1>7, <1>8, <1>9 DEF Found
<1>11. Remembered'
  BY <1>1, <1>5, <1>8 DEF Remembered
<1>12. Written' /\ Named' /\ Hung'
  BY <1>1 DEF Written, Writing, Named, Hung
<1> QED
  BY <1>10, <1>11, <1>12 DEF Chosen

LEMMA CommitStarts == Base /\ Starts /\ BCB_CommitUpdate => Starts'
<1> SUFFICES ASSUME Base, Starts, BCB_CommitUpdate PROVE Starts'
  OBVIOUS
<1>1. PICK i \in NewImages : image' = [image EXCEPT ![Other(cur.app)] = i]
  BY DEF BCB_CommitUpdate
<1>2. /\ pc = "update" /\ UNCHANGED flashVars /\ disturbed' = disturbed
      /\ writeCurrentBcb(CommitIn(cur, Other(cur.app)), index, "boot")
  BY DEF BCB_CommitUpdate
<1>3. image \in [Apps -> Images] /\ cur \in Records
  BY <1>2, UpdateFacts DEF Base, OtherTypes
<1>4. PICK im2 : im2 = [image EXCEPT ![Other(cur.app)] = i]
  OBVIOUS
<1>5. image' = im2
  BY <1>1, <1>4
<1>6. ASSUME ~disturbed
      PROVE  Found' /\ Fit(image', CommitIn(cur, Other(cur.app)))
  <2>1. filled > 0 /\ latest = cur /\ Fit(image, cur)
    BY <1>2, <1>6, UpdateFacts
  <2>2. /\ Fit(im2, CommitIn(cur, Other(cur.app))) /\ Fit(im2, cur)
        /\ im2["A"] # "partial"
    BY <1>3, <1>4, <2>1, FitCommitted
  <2>3. filled' = filled /\ latest' = cur
    BY <1>2, <2>1 DEF flashVars
  <2>4. Found'
    BY <1>5, <2>2, <2>3 DEF Found
  <2> QED
    BY <1>5, <2>2, <2>4
<1> QED
  BY <1>2, <1>6, BeginKeeps

LEMMA RollbackStarts == Base /\ Starts /\ BCB_UpdateRollbackHandler => Starts'
<1> SUFFICES ASSUME Base, Starts, BCB_UpdateRollbackHandler PROVE Starts'
  OBVIOUS
<1>1. ~Writing /\ (~disturbed => Fit(image, cur))
  BY UpdateFacts DEF BCB_UpdateRollbackHandler
<1>2. ~disturbed => Fit(image, RollbackIn(cur))
  BY <1>1, FitChanges
<1> QED
  BY <1>1, <1>2, WriteKeeps DEF BCB_UpdateRollbackHandler

\* An application runs.
LEMMA RunningFacts ==
  ASSUME Base, Starts, pc \in {"start", "run"}
  PROVE  /\ ~Writing
         /\ ~disturbed => /\ filled > 0 /\ latest.app = running
                          /\ Fit(image, latest)
BY DEF Writing, Starts, Chosen, Named, Found

\* An application starts to run with cur' in its memory.
LEMMA RunKeeps ==
  ASSUME Base, Starts, pc = "start", pc' = "run",
         UNCHANGED <<flashVars, image, running, base, disturbed>>,
         ~disturbed => \/ cur' = Zero /\ image[running] # "confirming"
                       \/ Own(cur') /\ Fit(image, cur')
  PROVE  Starts'
<1>1. ~Writing
  BY DEF Writing
<1>2. Idle'
  BY <1>1 DEF Starts, Idle
<1>3. SUFFICES ASSUME ~disturbed PROVE Chosen'
  BY <1>2 DEF Starts
<1>4. Found'
  BY <1>1, <1>3, FoundKept
<1>5. Remembered'
  BY <1>3 DEF Remembered, Own
<1>6. Named'
  BY <1>3, RunningFacts DEF Named, flashVars
<1>7. Written' /\ Hung'
  BY DEF Written, Writing, Hung
<1> QED
  BY <1>4, <1>5, <1>6, <1>7 DEF Chosen

LEMMA StartSilentlyStarts == Base /\ Starts /\ StartSilently => Starts'
<1> SUFFICES ASSUME Base, Starts, StartSilently PROVE Starts'
  OBVIOUS
<1>1. cur' = Zero /\ image[running] # "confirming"
  BY DEF StartSilently, Base, Inv, Memory
<1> QED
  BY <1>1, RunKeeps DEF StartSilently

LEMMA ApplicationInitStarts == Base /\ Starts /\ BCB_ApplicationInit => Starts'
<1> SUFFICES ASSUME Base, Starts, BCB_ApplicationInit PROVE Starts'
  OBVIOUS
<1>1. pc = "start" /\ image[running] = "confirming" /\ ~Writing
  BY DEF BCB_ApplicationInit, Writing
<1>2. ~disturbed => Own(latest) /\ Fit(image, latest)
  BY <1>1, RunningFacts DEF Own
<1>3. CASE /\ pc' = "run" /\ cur' = latest
           /\ UNCHANGED <<flashVars, image, running, base, disturbed>>
  <2>1. ~disturbed => Own(cur') /\ Fit(image, cur')
    BY <1>2, <1>3
  <2> QED
    BY <1>1, <1>3, <2>1, RunKeeps
<1>4. CASE Write(ConfirmIn(latest), NextIndex, "run")
  <2>1. ~disturbed => Own(ConfirmIn(latest))
    BY <1>2 DEF Own, ConfirmIn, Bcb
  <2>2. ~disturbed => Fit(image, ConfirmIn(latest))
    BY <1>2, FitConfirmed DEF Own
  <2> QED
    BY <1>1, <1>4, <2>1, <2>2, WriteKeeps
<1> QED
  BY <1>3, <1>4 DEF BCB_ApplicationInit

LEMMA RequestUpdateStarts == Base /\ Starts /\ BCB_RequestUpdate => Starts'
<1> SUFFICES ASSUME Base, Starts, BCB_RequestUpdate PROVE Starts'
  OBVIOUS
<1>1. /\ pc = "run" /\ writeCurrentBcb(RequestIn(cur), index, "boot")
      /\ UNCHANGED <<flashVars, image>> /\ disturbed' = disturbed
  BY DEF BCB_RequestUpdate
<1>2. ASSUME ~disturbed PROVE Found' /\ Fit(image', RequestIn(cur))
  <2>1. ~Writing /\ latest.app = running /\ Fit(image, latest) /\ filled > 0
    BY <1>1, <1>2, RunningFacts
  <2>2. Found /\ Found'
    BY <1>1, <1>2, <2>1, FoundKept DEF Starts, Chosen
  <2>3. CASE cur = Zero /\ image[running] # "confirming"
    <3>1. latest.app \in {"A", "B"}
      BY <2>1, FoundRecord, FieldTypes DEF Base, Apps
    <3>2. image["A"] # "partial"
      BY <2>1, <2>2, <2>3, <3>1 DEF Fit, Usable, Found
    <3> QED
      BY <1>1, <2>2, <2>3, <3>2, FitConstants
  <2>4. CASE Own(cur) /\ Fit(image, cur)
    <3>1. Fit(image, RequestIn(cur))
      BY <2>4, FitChanges DEF Own
    <3> QED
      BY <1>1, <2>2, <3>1
  <2> QED
    BY <1>1, <1>2, <2>3, <2>4 DEF Starts, Chosen, Remembered
<1> QED
  BY <1>1, <1>2, BeginKeeps

\* A reset outside the window finds a record, or never had one.
LEMMA ResetKeeps ==
  ASSUME Base, Starts, NEW watchdog, Reset(watchdog),
         ~disturbed' => ~disturbed /\ ~InWindow,
         ~disturbed' /\ watchdog
           => filled > 0 /\ image[latest.app] # "confirming"
  PROVE  Starts'
<1>1. /\ pc' = "boot" /\ base' = Missing /\ smu' = watchdog /\ ~Writing'
      /\ UNCHANGED <<flashVars, image>>
  BY DEF Reset, Writing
<1>2. SUFFICES ASSUME ~disturbed' PROVE Chosen'
  BY <1>1 DEF Starts, Idle
<1>3. Found
  BY <1>2 DEF Starts, Chosen
<1>4. filled = 0 => base = Missing
  <2>1. CASE ~Writing
    BY <2>1 DEF Starts, Idle
  <2>2. CASE Writing
    BY <1>2, <2>2 DEF InWindow, Base, Inv, RecordTypes, Pending
  <2> QED
    BY <2>1, <2>2
<1>5. Found'
  BY <1>1, <1>3, <1>4 DEF Found, flashVars
<1>6. Hung'
  BY <1>1, <1>2 DEF Hung, flashVars
<1>7. Written' /\ Remembered' /\ Named'
  BY <1>1 DEF Written, Remembered, Named
<1> QED
  BY <1>5, <1>6, <1>7 DEF Chosen

LEMMA PowerLossStarts == Base /\ Starts /\ PowerLoss => Starts'
<1> SUFFICES ASSUME Base, Starts, PowerLoss PROVE Starts'
  OBVIOUS
<1>1. Reset(FALSE) /\ (~disturbed' => ~disturbed /\ ~InWindow)
  BY DEF PowerLoss
<1> QED
  BY <1>1, ResetKeeps

LEMMA HangStarts == Base /\ Starts /\ Hang => Starts'
<1> SUFFICES ASSUME Base, Starts, Hang PROVE Starts'
  OBVIOUS
<1>1. Reset(TRUE) /\ disturbed' = disturbed /\ ~InWindow
  BY DEF Hang, InWindow, Writing
<1>2. pc = "start" /\ image[running] # "confirming"
  BY DEF Hang
<1>3. ~disturbed => filled > 0 /\ latest.app = running
  BY <1>2, RunningFacts
<1> QED
  BY <1>1, <1>2, <1>3, ResetKeeps

LEMMA WatchdogStarts == WatchdogInWrite => Starts'
BY DisturbedKeeps DEF WatchdogInWrite, Reset

LEMMA StutterStarts == Starts /\ UNCHANGED bootVars => Starts'
<1> SUFFICES ASSUME Starts, UNCHANGED bootVars PROVE Starts'
  OBVIOUS
<1> USE DEF bootVars, flashVars, programVars
<1>1. Idle' /\ (Written <=> Written') /\ (Found <=> Found')
  BY DEF Starts, Idle, Writing, Written, Own, Found
<1>2. (Remembered <=> Remembered') /\ (Named <=> Named') /\ (Hung <=> Hung')
  BY DEF Remembered, Own, Named, Hung
<1> QED
  BY <1>1, <1>2 DEF Starts, Chosen

LEMMA NextStarts == Base /\ Starts /\ [bootNext]_bootVars => Starts'
BY EraseSectorStarts, FillSectorStarts, ProgramPageStarts, ReprogramPageStarts,
   RecoverSectorStarts,
   WriteDefaultStarts, UpdateStarts, TryStarts, GiveUpStarts, JumpStarts,
   ProgramImageStarts, CommitStarts, RollbackStarts, StartSilentlyStarts,
   ApplicationInitStarts, RequestUpdateStarts, PowerLossStarts, HangStarts,
   WatchdogStarts, StutterStarts
DEF bootNext, BootStep, UpdateStep

LEMMA StartsInvariant == bootSpec => [](Base /\ Starts)
<1>1. bootInit => Base /\ Starts
  BY InitInv, OthersInit, InitStarts DEF Base
<1>2. Base /\ Starts /\ [bootNext]_bootVars => (Base /\ Starts)'
  BY NextInv, OthersNext, NextStarts DEF Base
<1> QED
  BY <1>1, <1>2, PTL DEF bootSpec

\* The record names the application that runs, so the one that confirms what
\* it finds there confirms itself.
THEOREM BootNamesRunning == bootSpec => []NamesRunning
<1>1. Base /\ Starts => NamesRunning
  BY DEF Starts, Chosen, Named, NamesRunning
<1> QED
  BY <1>1, StartsInvariant, PTL

\* An application that an update has half overwritten is not started, although
\* its mark in the record outlives the overwriting.
THEOREM BootNeverStartsPartial == bootSpec => []NeverStartsPartial
<1>1. Base /\ Starts => NeverStartsPartial
  <2> SUFFICES ASSUME Base, Starts, pc = "start", ~disturbed
               PROVE  image[running] # "partial"
    BY DEF NeverStartsPartial
  <2>1. latest.app = running /\ Fit(image, latest)
    BY RunningFacts
  <2> QED
    BY <2>1 DEF Fit, Usable
<1> QED
  BY <1>1, StartsInvariant, PTL
=============================================================================
