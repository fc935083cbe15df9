---------------------------- MODULE DispatchNote ----------------------------
(***************************************************************************)
(* external-integration/customs/asycuda/cdn: cargo dispatch notes. The     *)
(* integration result releases the first wait of the note's branch, and    *)
(* the acknowledgment or the cancellation the second. Unlike a             *)
(* declaration, a note whose row says that a callback has been applied     *)
(* has the task that is still parked for it released once more.            *)
(***************************************************************************)
EXTENDS EdgeExchange

ASSUME KindsAssumption == Kinds \subseteq {"result", "acknowledged", "cancelled", "amended"}

VARIABLE told  \* the ack_status the branch was released with, "none" before

vars == <<exchangeVars, told>>

Statuses == {"SUBMITTED", "INTEGRATED", "FAILED", "ACKNOWLEDGED", "CANCELLED"}
Steps == {"form", "send", "record", "result", "acknowledged", "done"}

\* The wait a callback answers: a cancellation releases the acknowledgment's.
WaitFor(kind) == IF kind = "result" THEN "result" ELSE "acknowledged"

\* Where the branch goes when a wait is completed.
After(cb) ==
  IF cb.kind # "result" THEN "done" ELSE IF Integrated(cb.dispatch) THEN "acknowledged" ELSE "form"

\* The acknowledgment, the cancellation and the amendments name the cdnRef that the
\* result brings; among themselves they come in any order.
DeliverInTurn(h, cb) ==
  /\ cb.kind # "result" => sends[[kind |-> "result", dispatch |-> cb.dispatch]] > 0
  /\ Deliver(h, cb)
  /\ UNCHANGED told

----------------------------------------------------------------------------
(***************************************************************************)
(* ProcessIntegrationResult, ProcessAcknowledgment, ProcessCancellation    *)
(* and ProcessAmendment, read by read and write by write.                  *)
(***************************************************************************)
\* A row has its cdnRef from the moment it is INTEGRATED.
Registered(d) == row[d] \in {"INTEGRATED", "ACKNOWLEDGED", "CANCELLED"}

\* A result that differs from the failure on record is applied over it.
ResultVerdict(s, integrated) ==
  CASE s = "none" -> "early"
    [] s = "SUBMITTED" \/ (s = "FAILED" /\ integrated) -> "apply"
    [] OTHER -> "release"
\* Mutant: a cancelled note is marked acknowledged, as an acknowledged one is marked cancelled.
AckVerdictMarks(s) ==
  CASE s = "ACKNOWLEDGED" -> "release" [] s = "CANCELLED" -> "mark" [] s = "INTEGRATED" -> "apply"
AckVerdict(s) ==
  CASE s = "ACKNOWLEDGED" -> "release"
    [] s = "CANCELLED" -> "applied"
    [] s = "INTEGRATED" -> "apply"
\* The branch of an acknowledged note is over: the note is only marked.
CancelVerdict(s) ==
  CASE s = "CANCELLED" -> "release"
    [] s = "ACKNOWLEDGED" -> "mark"
    [] s = "INTEGRATED" -> "apply"

\* What the service makes of the row it reads. The acknowledgment and the cancellation
\* look for it by the cdnRef.
Verdict(cb) ==
  LET s == row[cb.dispatch] IN
  IF cb.kind = "result" THEN ResultVerdict(s, Integrated(cb.dispatch))
  ELSE IF ~Registered(cb.dispatch) THEN "early"
  ELSE IF cb.kind = "acknowledged" THEN AckVerdict(s) ELSE CancelVerdict(s)

Read(h) ==
  LET cb == worker[h].cb
      verdict == Verdict(cb) IN
  /\ worker[h].pc = "read" /\ cb.kind # "amended"
  /\ \/ verdict = "early" /\ Early(h)
     \/ verdict = "applied" /\ Done(h)
     \/ verdict = "apply" /\ Goto(h, "find", 0)
     \/ verdict = "release" /\ Goto(h, "release", 0)
     \/ verdict = "mark" /\ Goto(h, "update", 0)
  /\ UNCHANGED <<row, flowVars, edgeVars, notices, answered, faults, told>>

\* An amendment reads the note and starts its flow on the case. Every delivery names the
\* same workflow ID, so a repeat starts nothing.
Amend(h) ==
  LET cb == worker[h].cb IN
  /\ worker[h].pc = "read" /\ cb.kind = "amended"
  /\ \/ ~Registered(cb.dispatch) /\ Early(h) /\ UNCHANGED notices
     \/ Registered(cb.dispatch) /\ Done(h) /\ notices' = notices \cup {cb}
  /\ UNCHANGED <<row, flowVars, edgeVars, answered, faults, told>>

\* Mutants: a task that is not parked yet is refused; the callback is recorded without it.
NotParkedRefused(h) == IF worker[h].pc = "release" THEN Done(h) ELSE Refused(h)
NotParkedRecorded(h) == IF worker[h].pc = "release" THEN Done(h) ELSE Goto(h, "update", 0)
\* No task is parked: a callback that is new is early, one that was applied is over.
NotParked(h) == IF worker[h].pc = "release" THEN Done(h) ELSE Early(h)

\* resumeWait: the tasks of the case are read.
Find(h) ==
  LET step == ParkedStep(WaitFor(worker[h].cb.kind)) IN
  /\ worker[h].pc \in {"find", "release"}
  /\ \/ step = 0 /\ NotParked(h)
     \/ step # 0 /\ Goto(h, IF worker[h].pc = "find" THEN "complete" ELSE "free", step)
  /\ UNCHANGED <<row, flowVars, edgeVars, notices, answered, faults, told>>

\* Mutant: a new callback is recorded even though its step could not be completed.
CompleteRegardless(h) ==
  LET cb == worker[h].cb
      step == worker[h].step IN
  /\ worker[h].pc \in {"complete", "free"}
  /\ IF parked = step
     THEN /\ Resume(cb, step, After(cb))
          /\ told' = IF cb.kind = "result" THEN told ELSE cb.kind
     ELSE UNCHANGED <<at, parked, answered, told>>
  /\ IF worker[h].pc = "free" THEN Done(h) ELSE Goto(h, "update", step)
  /\ UNCHANGED <<row, visits, sent, waiting, edgeVars, notices, faults>>
\* resumeWait: the step is completed, unless the workflow has moved on from it.
Complete(h) ==
  LET cb == worker[h].cb
      step == worker[h].step IN
  /\ worker[h].pc \in {"complete", "free"}
  /\ \/ /\ Resume(cb, step, After(cb))
        /\ told' = IF cb.kind = "result" THEN told ELSE cb.kind
        /\ IF worker[h].pc = "free" THEN Done(h) ELSE Goto(h, "update", step)
     \/ MovedOn(h, step) /\ UNCHANGED told
  /\ UNCHANGED <<row, visits, sent, waiting, edgeVars, notices, faults>>

\* Mutant: the result's own word for the outcome is recorded.
NewStatusAsSent(cb) ==
  CASE cb.kind = "acknowledged" -> "ACKNOWLEDGED"
    [] cb.kind = "cancelled" -> "CANCELLED"
    [] OTHER -> outcome[cb.dispatch]
\* The status a callback records, whatever the row says by now.
NewStatus(cb) ==
  CASE cb.kind = "acknowledged" -> "ACKNOWLEDGED"
    [] cb.kind = "cancelled" -> "CANCELLED"
    [] OTHER -> IF Integrated(cb.dispatch) THEN "INTEGRATED" ELSE "FAILED"

Update(h) ==
  /\ worker[h].pc = "update"
  /\ row' = [row EXCEPT ![worker[h].cb.dispatch] = NewStatus(worker[h].cb)]
  /\ Done(h)
  /\ UNCHANGED <<flowVars, edgeVars, notices, answered, faults, told>>

Process(h) == Read(h) \/ Amend(h) \/ Find(h) \/ Complete(h) \/ Update(h)

----------------------------------------------------------------------------
Init == ExchangeInit /\ told = "none"

Next ==
  \/ ExchangeStep /\ UNCHANGED told
  \/ \E h \in Workers : Process(h) \/ \E cb \in Callbacks : DeliverInTurn(h, cb)

\* As for declarations: Temporal runs the workflow's steps and a worker runs on; SLC
\* Edge's deliveries and the held callbacks contend for the workers.
Fairness ==
  /\ WF_vars((Send \/ Record \/ Park) /\ UNCHANGED told)
  /\ \A h \in Workers : WF_vars(Process(h))
  /\ \A cb \in Callbacks :
       SF_vars(\E h \in Workers : DeliverInTurn(h, cb) \/ (Retry(h, cb) /\ UNCHANGED told))

Spec == Init /\ [][Next]_vars
FairSpec == Spec /\ Fairness

----------------------------------------------------------------------------
(***************************************************************************)
(* Properties.                                                             *)
(***************************************************************************)
TypeOK ==
  /\ row \in [Dispatches -> Statuses \cup {"none"}]
  /\ at \in Steps
  /\ told \in {"none", "acknowledged", "cancelled"}
  /\ ExchangeType

\* A note's status only moves forward, however many callbacks are processed at once: the
\* one wait that each of them must release first lets a single one through.
Rank(s) == CASE s = "none" -> 0 [] s = "SUBMITTED" -> 1 [] s = "FAILED" -> 2
             [] s = "INTEGRATED" -> 2 [] s = "ACKNOWLEDGED" -> 3 [] s = "CANCELLED" -> 4
NoteOnlyMovesForward ==
  [][\A d \in Dispatches : row'[d] = row[d] \/ Rank(row'[d]) > Rank(row[d])]_vars

\* The branch of a note that Customs has settled is not left waiting, and was told what
\* its row says: an acknowledged note's was released as acknowledged, a cancelled one's
\* as cancelled or, before that, as acknowledged.
SettledNotesReleased ==
  \A d \in Dispatches :
    /\ row[d] = "ACKNOWLEDGED" => at = "done" /\ told = "acknowledged"
    /\ row[d] = "CANCELLED" => at = "done" /\ told # "none"
    /\ row[d] \in {"INTEGRATED", "FAILED"} => \E s \in StepIDs : answered[s] = d

\* A branch never has two registered notes: the container's second note is not recorded
\* while the first is live.
OneRegisteredNote ==
  \A d, e \in Dispatches : Registered(d) /\ Registered(e) => d = e

\* A wait is released by the result of the note it was parked for: the edgeId is the
\* correlator of the round trip.
WaitReleasedByItsNote == \A s \in StepIDs : answered[s] \in {0, waiting[s]}

\* A callback answered 2xx is applied or still held: a 202 ends SLC Edge's retries, so
\* nothing but the retries here can deliver it.
Landed(cb) ==
  CASE cb.kind = "result" -> row[cb.dispatch] \notin {"none", "SUBMITTED"}
    [] cb.kind = "acknowledged" -> row[cb.dispatch] \in {"ACKNOWLEDGED", "CANCELLED"}
    [] cb.kind = "cancelled" -> row[cb.dispatch] = "CANCELLED"
    [] cb.kind = "amended" -> cb \in notices
HeldOrLanded == \A cb \in acked : cb \in held \/ Landed(cb)

\* Whatever Customs has to say of a note lands in the end, unless the branch has gone
\* back to the trader, who may never submit the note again.
EveryCallbackLands ==
  \A cb \in Callbacks : Issued(cb) /\ sends[cb] > 0 ~> Landed(cb) \/ at = "form"
=============================================================================
