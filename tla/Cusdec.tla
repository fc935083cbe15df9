------------------------------- MODULE Cusdec -------------------------------
(***************************************************************************)
(* external-integration/customs/asycuda/cusdec: customs declarations.      *)
(* After the integration result Customs sends the events payment,          *)
(* warranting and release, each of which releases a wait of the            *)
(* declaration's workflow and moves its row on, and the notices of an      *)
(* amendment or a cancellation, each of which opens a flow on the case.    *)
(***************************************************************************)
EXTENDS EdgeExchange

Events == {"payment", "warranting", "release"}
Notices == {"amended", "cancelled"}

ASSUME KindsAssumption == Kinds \subseteq {"result"} \cup Events \cup Notices

Statuses == {"SUBMITTED", "INTEGRATED", "FAILED", "PAID", "WARRANTED", "RELEASED"}
\* eventStatusOrder, where a status that is not listed ranks 0.
Order(s) == CASE s = "SUBMITTED" -> 1 [] s = "INTEGRATED" -> 2 [] s = "PAID" -> 3
              [] s = "WARRANTED" -> 4 [] s = "RELEASED" -> 5 [] OTHER -> 0

\* Mutant: a status counts as reached only when it is the same.
HasReachedSame(s, target) == s = target
HasReached(s, target) == Order(s) >= Order(target)

Target(kind) == CASE kind = "payment" -> "PAID" [] kind = "warranting" -> "WARRANTED"
                  [] kind = "release" -> "RELEASED"

Steps == {"form", "send", "record", "result", "done"} \cup Events

vars == exchangeVars

\* Where the workflow goes when a wait is completed.
After(cb) ==
  CASE cb.kind = "result" -> IF Integrated(cb.dispatch) THEN "payment" ELSE "form"
    [] cb.kind = "payment" -> "warranting"
    [] cb.kind = "warranting" -> "release"
    [] cb.kind = "release" -> "done"

\* Customs' events follow one another.
Precedes(k, kind) ==
  \/ k = "result" /\ kind # "result"
  \/ k = "payment" /\ kind \in {"warranting", "release"}
  \/ k = "warranting" /\ kind = "release"

DeliverInTurn(h, cb) ==
  /\ \A k \in Kinds : Precedes(k, cb.kind) => sends[[kind |-> k, dispatch |-> cb.dispatch]] > 0
  /\ Deliver(h, cb)

----------------------------------------------------------------------------
(***************************************************************************)
(* ProcessIntegrationResult, ProcessEvent, ProcessAmendment and            *)
(* ProcessCancellation, read by read and write by write.                   *)
(***************************************************************************)
\* A row has its cusDecRef from the moment it is INTEGRATED.
Registered(d) == row[d] \notin {"none", "SUBMITTED", "FAILED"}

\* Mutant: a repeat of a result is applied again.
ResultVerdictRepeats(s) == IF s = "none" THEN "early" ELSE "apply"
\* What the service makes of the row it reads for a result, and for an event.
ResultVerdict(s) ==
  CASE s = "none" -> "early" [] s = "SUBMITTED" -> "apply" [] OTHER -> "duplicate"
EventVerdict(cb) ==
  IF ~Registered(cb.dispatch) THEN "early"
  ELSE IF HasReached(row[cb.dispatch], Target(cb.kind)) THEN "duplicate" ELSE "apply"

\* A result or an event reads the declaration.
Read(h) ==
  LET cb == worker[h].cb
      verdict == IF cb.kind = "result" THEN ResultVerdict(row[cb.dispatch]) ELSE EventVerdict(cb) IN
  /\ worker[h].pc = "read" /\ cb.kind \notin Notices
  /\ \/ verdict = "early" /\ Early(h)
     \/ verdict = "duplicate" /\ Done(h)
     \/ verdict = "apply" /\ Goto(h, "find", 0)
  /\ UNCHANGED <<row, flowVars, edgeVars, notices, answered, faults>>

\* A notice reads the declaration and starts its flow on the case. Every delivery names
\* the same workflow ID, so a repeat starts nothing.
Notify(h) ==
  LET cb == worker[h].cb IN
  /\ worker[h].pc = "read" /\ cb.kind \in Notices
  /\ \/ ~Registered(cb.dispatch) /\ Early(h) /\ UNCHANGED notices
     \/ Registered(cb.dispatch) /\ Done(h) /\ notices' = notices \cup {cb}
  /\ UNCHANGED <<row, flowVars, edgeVars, answered, faults>>

\* Mutants: a result is recorded without its task, as an event is; it is not taken for early.
NotParkedRecorded(h, kind) == Goto(h, "update", 0)
NotParkedRefused(h, kind) == IF kind = "result" THEN Refused(h) ELSE Goto(h, "update", 0)
\* No task is parked: a result is early, an event's status is recorded all the same.
NotParked(h, kind) == IF kind = "result" THEN Early(h) ELSE Goto(h, "update", 0)

\* The tasks of the case are read.
Find(h) ==
  LET kind == worker[h].cb.kind IN
  /\ worker[h].pc = "find"
  /\ \/ ParkedStep(kind) = 0 /\ NotParked(h, kind)
     \/ ParkedStep(kind) # 0 /\ Goto(h, "complete", ParkedStep(kind))
  /\ UNCHANGED <<row, flowVars, edgeVars, notices, answered, faults>>

\* The step is completed, unless the workflow has moved on from it.
Complete(h) ==
  LET cb == worker[h].cb
      step == worker[h].step IN
  /\ worker[h].pc = "complete"
  /\ \/ Resume(cb, step, After(cb)) /\ Goto(h, "update", step)
     \/ MovedOn(h, step)
  /\ UNCHANGED <<row, visits, sent, waiting, edgeVars, notices, faults>>

\* Mutant: the result's own word for the outcome is recorded.
NewStatusAsSent(cb) == IF cb.kind # "result" THEN Target(cb.kind) ELSE outcome[cb.dispatch]
\* The status a callback records, whatever the row says by now.
NewStatus(cb) ==
  IF cb.kind # "result" THEN Target(cb.kind)
  ELSE IF Integrated(cb.dispatch) THEN "INTEGRATED" ELSE "FAILED"

Update(h) ==
  /\ worker[h].pc = "update"
  /\ row' = [row EXCEPT ![worker[h].cb.dispatch] = NewStatus(worker[h].cb)]
  /\ Done(h)
  /\ UNCHANGED <<flowVars, edgeVars, notices, answered, faults>>

Process(h) == Read(h) \/ Notify(h) \/ Find(h) \/ Complete(h) \/ Update(h)

----------------------------------------------------------------------------
Init == ExchangeInit

Next ==
  \/ ExchangeStep
  \/ \E h \in Workers : Process(h) \/ \E cb \in Callbacks : DeliverInTurn(h, cb)

\* Temporal runs the workflow's own steps, a worker runs on, SLC Edge sends a callback
\* until it is acknowledged, and each held callback has its turn again and again. The
\* last two contend for the workers, hence strong fairness. Nothing makes the trader
\* submit or Customs decide.
Fairness ==
  /\ WF_vars(Send) /\ WF_vars(Record) /\ WF_vars(Park)
  /\ \A h \in Workers : WF_vars(Process(h))
  /\ \A cb \in Callbacks : SF_vars(\E h \in Workers : DeliverInTurn(h, cb) \/ Retry(h, cb))

Spec == Init /\ [][Next]_vars
FairSpec == Spec /\ Fairness

----------------------------------------------------------------------------
(***************************************************************************)
(* Properties.                                                             *)
(***************************************************************************)
TypeOK ==
  /\ row \in [Dispatches -> Statuses \cup {"none"}]
  /\ at \in Steps
  /\ ExchangeType

\* A registered declaration never goes back to an earlier status: a repeat is ignored and
\* an event that arrives after a later one cannot drag the status backwards.
StatusNeverFallsBack ==
  [][\A d \in Dispatches : Registered(d) => Order(row'[d]) >= Order(row[d])]_vars

\* A declaration is recorded as INTEGRATED or FAILED only once its own result has
\* completed a review step, so a result that met no parked task can still be retried.
RecordedAfterReview ==
  \A d \in Dispatches : row[d] \notin {"none", "SUBMITTED"} => \E s \in StepIDs : answered[s] = d

\* The edgeId correlates the whole round trip: a review step is completed by the result
\* of the dispatch it was parked for, never by an earlier dispatch's.
ReviewAnsweredByItsDispatch == \A s \in StepIDs : answered[s] \in {0, waiting[s]}

\* A callback answered 2xx is applied or still held: a 202 ends SLC Edge's retries, so
\* nothing but the retries here can deliver it.
Landed(cb) ==
  CASE cb.kind = "result" -> row[cb.dispatch] \notin {"none", "SUBMITTED"}
    [] cb.kind \in Events -> Registered(cb.dispatch) /\ HasReached(row[cb.dispatch], Target(cb.kind))
    [] cb.kind \in Notices -> cb \in notices
HeldOrLanded == \A cb \in acked : cb \in held \/ Landed(cb)

\* Every callback Customs issues lands in the end: a result is recorded, an event's
\* status is reached, and a notice is opened.
EveryCallbackLands == \A cb \in Callbacks : Issued(cb) /\ sends[cb] > 0 ~> Landed(cb)

\* A callback that arrives before its task has parked is retried until it lands: when
\* its wait is reached, the workflow does not stay on it.
EventReleasesItsWait ==
  \A cb \in Callbacks : cb.kind \in Events /\ cb \in acked /\ at = cb.kind ~> at # cb.kind
=============================================================================
