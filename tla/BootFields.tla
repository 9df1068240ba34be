----------------------------- MODULE BootFields ------------------------------
(***************************************************************************)
(* The record of the boot control block (Libraries/ota/bcb/bcb.c) and how  *)
(* each operation changes it.                                              *)
(***************************************************************************)
EXTENDS Integers

Apps == {"A", "B"}
Other(app) == IF app = "A" THEN "B" ELSE "A"

MaxAttempt == 3

\* The fields of BlockControlBlock.
Records == [app : Apps, request : BOOLEAN, inProgress : BOOLEAN,
            valid : SUBSET Apps, attempt : 0..MaxAttempt]

Missing == [app |-> "none"]

Bcb(app, request, inProgress, valid, attempt) ==
  [app |-> app, request |-> request, inProgress |-> inProgress,
   valid |-> valid, attempt |-> attempt]

Zero == Bcb("A", FALSE, FALSE, {}, 0)

\* No record was found: application A, to be tried once.
Default == Bcb("A", FALSE, FALSE, {}, 1)

RequestIn(r) == Bcb(r.app, TRUE, FALSE, r.valid, r.attempt)
BeginIn(r) == Bcb(r.app, r.request, TRUE, r.valid, r.attempt)

\* Seeded fault for RollbackIn: back to the application under update.
RollbackToOther(r) == Bcb(Other(r.app), FALSE, FALSE, r.valid, 1)

RollbackIn(r) == Bcb(r.app, FALSE, FALSE, r.valid, 1)
CommitIn(r, app) == Bcb(app, FALSE, FALSE, r.valid \ {app}, 1)
ConfirmIn(r) == Bcb(r.app, FALSE, r.inProgress, r.valid \cup {r.app}, 0)
TriedIn(r, n) == Bcb(r.app, r.request, r.inProgress, r.valid, n)

\* Three attempts failed: the application loses its mark; the choice of the
\* next one goes by the marks before that.
GivenUpIn(r) ==
  Bcb(IF "A" \in r.valid THEN "A" ELSE "B", r.request, r.inProgress,
      r.valid \ {r.app}, 1)

\* With no record to start from, or none that was read, the program writes the
\* default one or what it has in memory.
FromMemory(s) ==
  \/ s = Default
  \/ \E r \in Records : s = RequestIn(r) \/ s = RollbackIn(r)
                        \/ \E app \in Apps : s = CommitIn(r, app)

\* The operations, and when the code applies them.
Operation(r, s) ==
  \/ s = RequestIn(r)
  \/ r.request /\ ~r.inProgress /\ s = BeginIn(r)
  \/ r.request /\ s = RollbackIn(r)
  \/ r.request /\ \E app \in Apps : s = CommitIn(r, app)
  \/ ~r.request /\ r.attempt > 0 /\ s = ConfirmIn(r)
  \* the write of the confirmation was given up: the request brings it along
  \/ ~r.request /\ r.attempt > 0 /\ s = RequestIn(ConfirmIn(r))
  \/ ~r.request /\ s = TriedIn(r, 1)
  \/ ~r.request /\ r.attempt < MaxAttempt /\ s = TriedIn(r, r.attempt + 1)
  \/ ~r.request /\ r.attempt = MaxAttempt /\ r.valid # {} /\ s = GivenUpIn(r)
=============================================================================
