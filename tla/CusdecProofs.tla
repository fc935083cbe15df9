---------------------------- MODULE CusdecProofs ----------------------------
(***************************************************************************)
(* Theorems about Cusdec. What holds with any number of workers, and what  *)
(* holds when callbacks are processed one at a time: the runs              *)
(* cusdec_concurrent and cusdec_reanswered show that the second part needs *)
(* its assumptions.                                                        *)
(***************************************************************************)
EXTENDS EdgeExchangeProofs, Cusdec

USE DEF flowVars, edgeVars, replyVars

----------------------------------------------------------------------------
(***************************************************************************)
(* Any number of workers.                                                  *)
(***************************************************************************)
\* A worker past its read is at work on a result, which has completed its step before it is
\* saved, or on an event of a declaration that was integrated; a step it holds that is still
\* parked is on the callback's wait.
Past(h) == worker[h].pc \notin {"idle", "read"}
WorkerOK(h) ==
  LET cb == worker[h].cb IN
  /\ Past(h) => /\ worker[h].pc \in {"find", "complete", "update"}
                /\ cb.kind \notin Notices
                /\ cb.kind # "result" \/ worker[h].pc = "update" => Answered(cb.dispatch)
  /\ worker[h].pc = "complete" /\ worker[h].step = parked => at = cb.kind
WorkersOK == \A h \in Workers : WorkerOK(h)

IInv == TypeOK /\ StepsOK /\ CallbacksIssued /\ RecordedAfterReview /\ WorkersOK

\* What the declaration's exchange shares with the note's holds of it.
LEMMA ExchangeInvFollows == IInv => ExchangeInv
BY DEF IInv, TypeOK, ExchangeInv

\* What the callback of a worker at work can be.
LEMMA AtWork ==
  ASSUME IInv, NEW h \in Workers, worker[h].pc # "idle"
  PROVE  /\ worker[h].cb \in Callbacks /\ worker[h].cb.dispatch \in Dispatches
         /\ worker[h].cb.kind \in {"result"} \cup Events \cup Notices
         /\ outcome[worker[h].cb.dispatch] # "none"
         /\ Past(h) => worker[h].cb.kind \in {"result"} \cup Events
BY ExchangeInvFollows, WorkersCallback, KindsAssumption
   DEF Callbacks, IInv, WorkersOK, WorkerOK, CallbacksIssued, Issued

\* A step in which the rows and the branch stay, and no worker goes past its read.
LEMMA QuietStep ==
  ASSUME IInv, ExchangeInv', UNCHANGED <<row, at, parked, answered>>,
         \A h \in Workers : worker'[h] = worker[h] \/ worker'[h].pc \in {"idle", "read"}
  PROVE  IInv'
<1> USE DEF IInv
<1>1. TypeOK' /\ StepsOK' /\ CallbacksIssued'
  BY DEF TypeOK, ExchangeInv
<1>2. RecordedAfterReview'
  BY DEF RecordedAfterReview
<1>3. WorkersOK'
  BY DEF WorkersOK, WorkerOK, Past, Answered
<1> QED
  BY <1>1, <1>2, <1>3

\* A declaration that has not been sent has nothing to its name.
LEMMA InitInv == Init => IInv
<1> SUFFICES ASSUME Init PROVE IInv
  OBVIOUS
<1>1. ExchangeInv
  BY ExchangeInitInv DEF Init
<1>2. TypeOK
  BY <1>1 DEF Init, ExchangeInit, TypeOK, ExchangeInv, Steps
<1>3. RecordedAfterReview
  BY DEF Init, ExchangeInit, RecordedAfterReview
<1>4. WorkersOK
  BY DEF Init, ExchangeInit, Idle, WorkersOK, WorkerOK, Past
<1> QED
  BY <1>1, <1>2, <1>3, <1>4 DEF IInv, ExchangeInv

\* The steps up to the first wait, and parking: a row is at most recorded.
LEMMA DispatchStep ==
  ASSUME IInv, Dispatch
  PROVE  /\ IInv'
         /\ \A d \in Dispatches : row'[d] = row[d] \/ (row[d] = "none" /\ row'[d] = "SUBMITTED")
<1> USE DEF IInv
<1>1. ExchangeInv'
  BY ExchangeInvFollows, DispatchInv
<1>2. UNCHANGED <<worker, answered>>
  BY DEF Dispatch, Submit, Send, Record, RecordFails, ActivityAgain, Park
<1>3. /\ \A d \in Dispatches : row'[d] = row[d] \/ (row[d] = "none" /\ row'[d] = "SUBMITTED")
      /\ row' \in [Dispatches -> Statuses \cup {"none"}]
  <2>1. row' = row \/ \E s \in {row[sent], Recorded(row[sent])} : row' = [row EXCEPT ![sent] = s]
    BY DEF Dispatch, Submit, Send, Record, RecordFails, ActivityAgain, Park
  <2>2. row \in [Dispatches -> Statuses \cup {"none"}]
    BY DEF TypeOK
  <2>3. \A d \in Dispatches : row'[d] = row[d] \/ (row[d] = "none" /\ row'[d] = "SUBMITTED")
    BY <2>1, <2>2 DEF Recorded
  <2>4. ASSUME NEW s \in {row[sent], Recorded(row[sent])}, row' = [row EXCEPT ![sent] = s]
        PROVE  row' \in [Dispatches -> Statuses \cup {"none"}]
    <3>1. sent \in Dispatches => s \in Statuses \cup {"none"}
      BY <2>2 DEF Recorded, Statuses
    <3> QED
      BY <2>2, <2>4, <3>1
  <2>5. row' \in [Dispatches -> Statuses \cup {"none"}]
    BY <2>1, <2>2, <2>4
  <2> QED
    BY <2>3, <2>5
<1>4. \/ at' = at /\ parked' \in {parked, visits + 1}
      \/ at \in {"form", "send", "record"} /\ at' \in {"send", "record", "result"} /\ parked' = 0
  <2>1. Submit \/ Send \/ Record \/ RecordFails \/ ActivityAgain =>
          at \in {"form", "send", "record"} /\ at' \in {"send", "record", "result"} /\ parked' = parked
    BY DEF Submit, Send, Record, RecordFails, ActivityAgain
  <2>2. Park => at' = at /\ parked' = visits + 1
    BY DEF Park
  <2> QED
    BY <2>1, <2>2 DEF Dispatch, StepsOK
<1>5. TypeOK'
  <2>1. at' \in Steps
    BY <1>4 DEF TypeOK, Steps
  <2> QED
    BY <1>1, <1>3, <2>1 DEF TypeOK, ExchangeInv
<1>6. RecordedAfterReview'
  BY <1>2, <1>3 DEF RecordedAfterReview
<1>7. WorkersOK'
  <2>1. \A h \in Workers : worker[h].step \in Nat /\ worker[h].step <= visits /\ visits \in Nat
    <3>1. StepIDOrNone \subseteq Nat
      BY DEF StepIDOrNone, StepIDs
    <3>2. visits \in StepIDOrNone /\ \A h \in Workers : worker[h].step \in StepIDOrNone
      BY DEF TypeOK, ExchangeType, WorkerState
    <3> QED
      BY <3>1, <3>2 DEF StepsOK
  <2>2. \A h \in Workers : worker[h].pc = "complete" /\ worker[h].step = parked' =>
          at' = at /\ parked' = parked
    BY <1>4, <2>1 DEF StepsOK
  <2> QED
    BY <1>2, <2>2 DEF WorkersOK, WorkerOK, Past, Answered
<1> QED
  BY <1>1, <1>3, <1>5, <1>6, <1>7 DEF ExchangeInv

\* A worker that ends or fails leaves branch and row alone.
LEMMA EndStep ==
  ASSUME IInv, NEW h \in Workers, worker[h].pc # "idle", Done(h) \/ Early(h) \/ Refused(h),
         UNCHANGED <<row, flowVars, edgeVars, answered>>,
         notices' \subseteq Callbacks, faults' \in 0 .. MaxFaults
  PROVE  IInv'
<1>1. worker' = [worker EXCEPT ![h] = Idle]
  BY ExchangeInvFollows, WorkerEnds
<1>2. \A g \in Workers : worker'[g] = worker[g] \/ worker'[g].pc \in {"idle", "read"}
  BY <1>1 DEF IInv, TypeOK, ExchangeType, Idle
<1>3. ExchangeInv'
  BY ExchangeInvFollows, EndInv
<1> QED
  BY <1>2, <1>3, QuietStep

\* A worker that takes a callback has not read anything yet.
LEMMA TakeStep ==
  ASSUME IInv, NEW h \in Workers, NEW cb \in Callbacks, DeliverInTurn(h, cb) \/ Retry(h, cb)
  PROVE  /\ IInv' /\ worker'[h].pc = "read"
         /\ \A g \in Workers \ {h} : worker'[g] = worker[g]
<1>1. Deliver(h, cb) \/ Retry(h, cb)
  BY DEF DeliverInTurn
<1>2. ExchangeInv'
  BY <1>1, ExchangeInvFollows, DeliverInv
<1>3. PICK b \in BOOLEAN :
        worker' = [worker EXCEPT ![h] = [pc |-> "read", cb |-> cb, step |-> 0, retry |-> b]]
  BY <1>1, ExchangeInvFollows, DeliverInv
<1>4. worker'[h].pc = "read" /\ \A g \in Workers \ {h} : worker'[g] = worker[g]
  BY <1>3 DEF IInv, TypeOK, ExchangeType
<1>5. UNCHANGED <<row, at, parked, answered>>
  BY DEF DeliverInTurn, Deliver, Retry
<1> QED
  BY <1>2, <1>4, <1>5, QuietStep

\* A worker goes on: what it has seen is still so.
LEMMA GoStep ==
  ASSUME IInv, NEW h \in Workers, worker[h].pc # "idle", NEW pc \in {"find", "complete", "update"},
         NEW step \in StepIDOrNone, Goto(h, pc, step), step <= visits, pc = "complete" => step # 0,
         UNCHANGED <<row, flowVars, edgeVars, answered, notices, faults>>,
         worker[h].cb.kind \notin Notices,
         worker[h].cb.kind # "result" \/ pc = "update" => Answered(worker[h].cb.dispatch),
         pc = "complete" /\ step = parked => at = worker[h].cb.kind
  PROVE  /\ IInv' /\ worker'[h].pc = pc /\ worker'[h].cb = worker[h].cb
         /\ \A g \in Workers \ {h} : worker'[g] = worker[g]
<1> USE DEF IInv
<1>1. pc \in {"find", "complete", "release", "free", "update"} /\ (pc \in {"complete", "free"} => step # 0)
  OBVIOUS
<1>2. /\ \A g \in Workers \ {h} : worker'[g] = worker[g]
      /\ worker'[h].pc = pc /\ worker'[h].step = step /\ worker'[h].cb = worker[h].cb
  <2>1. worker \in [Workers -> WorkerState]
    BY DEF TypeOK, ExchangeType
  <2> HIDE DEF IInv
  <2> QED
    BY <2>1 DEF Goto, WorkerState
<1>3. ExchangeInv'
  <2>1. ExchangeInv
    BY ExchangeInvFollows
  <2> HIDE DEF IInv
  <2> QED
    BY <1>1, <2>1, GoInv
<1>4. TypeOK' /\ RecordedAfterReview'
  BY <1>3 DEF TypeOK, ExchangeInv, RecordedAfterReview
<1>5. WorkersOK'
  BY <1>2 DEF WorkersOK, WorkerOK, Past, Answered
<1> QED
  BY <1>2, <1>3, <1>4, <1>5 DEF ExchangeInv

\* A worker sees its row: a result is new, an event's declaration is registered and has
\* not reached the event's status.
LEMMA ReadStep ==
  ASSUME IInv, NEW h \in Workers, Read(h)
  PROVE  /\ IInv' /\ UNCHANGED row
         /\ \A g \in Workers \ {h} : worker'[g] = worker[g]
         /\ \/ worker'[h].pc = "idle"
            \/ /\ worker'[h].pc = "find" /\ worker'[h].cb = worker[h].cb
               /\ IF worker[h].cb.kind = "result"
                  THEN row[worker[h].cb.dispatch] = "SUBMITTED"
                  ELSE /\ Registered(worker[h].cb.dispatch)
                       /\ ~HasReached(row[worker[h].cb.dispatch], Target(worker[h].cb.kind))
<1> DEFINE cb == worker[h].cb
           d == worker[h].cb.dispatch
<1>1. /\ ExchangeInv /\ worker[h].pc = "read" /\ cb \in Callbacks /\ d \in Dispatches
      /\ cb.kind \notin Notices /\ row[d] \in Statuses \cup {"none"} /\ visits \in Nat
  BY ExchangeInvFollows, AtWork DEF Read, IInv, TypeOK, ExchangeType, StepIDOrNone, StepIDs
<1>2. CASE Done(h) \/ Early(h)
  <2>1. worker' = [worker EXCEPT ![h] = Idle]
    BY <1>1, <1>2, WorkerEnds
  <2>2. worker'[h].pc = "idle" /\ \A g \in Workers \ {h} : worker'[g] = worker[g]
    BY <2>1 DEF IInv, TypeOK, ExchangeType, Idle
  <2> QED
    BY <1>1, <1>2, <2>2, EndStep DEF Read, IInv, TypeOK, ExchangeType
<1>3. CASE ~(Done(h) \/ Early(h))
  <2>1. /\ Goto(h, "find", 0)
        /\ (IF cb.kind = "result" THEN ResultVerdict(row[d]) ELSE EventVerdict(cb)) = "apply"
    BY <1>3 DEF Read
  <2>2. IF cb.kind = "result"
        THEN row[d] = "SUBMITTED"
        ELSE Registered(d) /\ ~HasReached(row[d], Target(cb.kind))
    BY <1>1, <2>1 DEF ResultVerdict, EventVerdict, Statuses
  <2>3. cb.kind # "result" => Answered(d)
    BY <1>1, <2>2 DEF Registered, IInv, RecordedAfterReview, Answered
  <2>4. 0 \in StepIDOrNone /\ 0 <= visits
    BY <1>1 DEF StepIDOrNone
  <2>5. UNCHANGED <<row, flowVars, edgeVars, answered, notices, faults>>
    BY DEF Read
  <2> QED
    BY <1>1, <2>1, <2>2, <2>3, <2>4, <2>5, GoStep
<1> QED
  BY <1>2, <1>3

\* A step that is found is parked on the wait of the callback; an event goes on without one.
LEMMA FindStep ==
  ASSUME IInv, NEW h \in Workers, Find(h)
  PROVE  /\ IInv' /\ UNCHANGED row
         /\ \A g \in Workers \ {h} : worker'[g] = worker[g]
         /\ \/ worker'[h].pc = "idle"
            \/ /\ worker'[h].pc \in {"complete", "update"} /\ worker'[h].cb = worker[h].cb
               /\ worker[h].cb.kind = "result" => worker'[h].pc = "complete"
<1> DEFINE cb == worker[h].cb
           step == ParkedStep(worker[h].cb.kind)
<1>1. /\ ExchangeInv /\ worker[h].pc = "find" /\ cb \in Callbacks /\ cb.kind \notin Notices
      /\ cb.kind # "result" => Answered(cb.dispatch)
  BY ExchangeInvFollows, AtWork DEF Find, IInv, WorkersOK, WorkerOK, Past
<1>2. /\ step \in StepIDOrNone /\ 0 \in StepIDOrNone /\ step <= visits /\ 0 <= visits
      /\ step # 0 => at = cb.kind
  BY DEF IInv, TypeOK, ExchangeType, StepsOK, StepIDOrNone, StepIDs, ParkedStep
<1>3. UNCHANGED <<row, flowVars, edgeVars, answered, notices, faults>>
  BY DEF Find
<1>4. \/ Early(h)
      \/ Goto(h, "update", 0) /\ cb.kind # "result"
      \/ Goto(h, "complete", step) /\ step # 0
  BY DEF Find, NotParked
<1> HIDE DEF step
<1>5. CASE Early(h)
  <2>1. worker' = [worker EXCEPT ![h] = Idle]
    BY <1>1, <1>5, WorkerEnds
  <2>2. worker'[h].pc = "idle" /\ \A g \in Workers \ {h} : worker'[g] = worker[g]
    BY <2>1 DEF IInv, TypeOK, ExchangeType, Idle
  <2> QED
    BY <1>1, <1>3, <1>5, <2>2, EndStep DEF IInv, TypeOK, ExchangeType
<1>6. CASE Goto(h, "update", 0) /\ cb.kind # "result"
  BY <1>1, <1>2, <1>3, <1>6, GoStep
<1>7. CASE Goto(h, "complete", step) /\ step # 0
  BY <1>1, <1>2, <1>3, <1>7, GoStep
<1> QED
  BY <1>4, <1>5, <1>6, <1>7

\* A wait is completed: the workflow goes on to the next, and a result is answered.
LEMMA ReleaseStep ==
  ASSUME IInv, NEW h \in Workers, Complete(h), parked = worker[h].step
  PROVE  /\ IInv' /\ UNCHANGED row
         /\ worker'[h].pc = "update" /\ worker'[h].cb = worker[h].cb
         /\ \A g \in Workers \ {h} : worker'[g] = worker[g]
         /\ at = worker[h].cb.kind /\ at' = After(worker[h].cb)
<1> DEFINE cb == worker[h].cb
<1> USE DEF IInv
<1>1. /\ ExchangeInv /\ worker[h].pc = "complete" /\ cb \in Callbacks /\ cb.dispatch \in Dispatches
      /\ cb.kind \in {"result"} \cup Events /\ at = cb.kind
      /\ cb.kind # "result" => Answered(cb.dispatch)
  BY ExchangeInvFollows, AtWork DEF Complete, WorkersOK, WorkerOK, Past
<1>2. /\ Resume(cb, worker[h].step, After(cb)) /\ Goto(h, "update", worker[h].step)
      /\ UNCHANGED <<row, visits, sent, waiting, edgeVars, notices, faults>>
  BY <1>1 DEF Complete, MovedOn
<1>3. /\ ExchangeInv'
      /\ cb.kind = "result" => answered' = [answered EXCEPT ![worker[h].step] = cb.dispatch]
      /\ \A d \in Dispatches : Answered(d) => Answered(d)'
  BY <1>1, <1>2, ResumeInv
<1>4. worker[h].step \in StepIDs
  BY <1>1 DEF TypeOK, ExchangeType, WorkerState, StepIDOrNone, StepsOK
<1>5. /\ worker'[h].pc = "update" /\ worker'[h].cb = cb
      /\ \A g \in Workers \ {h} : worker'[g] = worker[g]
  BY <1>1, <1>2, <1>4, WorkerGoes DEF StepIDOrNone
<1>6. TypeOK'
  BY <1>1, <1>2, <1>3 DEF TypeOK, ExchangeInv, Resume, After, Steps, Events
<1>7. RecordedAfterReview'
  BY <1>2, <1>3 DEF RecordedAfterReview, Answered
<1>8. \E s \in StepIDs : cb.kind = "result" => answered'[s] = cb.dispatch
  BY <1>3, <1>4 DEF TypeOK, ExchangeType
<1>9. WorkersOK'
  <2>1. parked' = 0
    BY <1>2 DEF Resume
  <2>2. \A g \in Workers : worker'[g].pc = "complete" => worker'[g].step # 0
    BY <1>3 DEF ExchangeInv, StepsOK
  <2>3. ASSUME NEW g \in Workers \ {h}, Past(g)
        PROVE  worker[g].cb.dispatch \in Dispatches
    BY <2>3, AtWork DEF Past
  <2>4. \A g \in Workers \ {h} : WorkerOK(g)'
    BY <1>3, <1>5, <2>1, <2>2, <2>3 DEF WorkersOK, WorkerOK, Past
  <2>5. PICK d \in Dispatches : d = cb.dispatch
    BY <1>1
  <2>6. Answered(d)'
    BY <1>1, <1>3, <1>8, <2>5 DEF Answered
  <2>7. WorkerOK(h)'
    BY <1>1, <1>5, <2>5, <2>6 DEF WorkerOK, Past, Events, Notices
  <2> QED
    BY <2>4, <2>7 DEF WorkersOK
<1> QED
  BY <1>1, <1>2, <1>3, <1>5, <1>6, <1>7, <1>9 DEF ExchangeInv, Resume

\* A worker saves its row, of which the result was answered.
LEMMA UpdateStep ==
  ASSUME IInv, NEW h \in Workers, Update(h)
  PROVE  /\ IInv' /\ worker'[h].pc = "idle"
         /\ \A g \in Workers \ {h} : worker'[g] = worker[g]
         /\ row'[worker[h].cb.dispatch] = NewStatus(worker[h].cb)
         /\ \A d \in Dispatches \ {worker[h].cb.dispatch} : row'[d] = row[d]
         /\ Past(h) /\ worker[h].cb.kind \in {"result"} \cup Events
<1> DEFINE cb == worker[h].cb
<1> USE DEF IInv
<1>1. /\ ExchangeInv /\ worker[h].pc = "update" /\ Done(h) /\ Past(h)
      /\ cb.dispatch \in Dispatches /\ cb.kind \in {"result"} \cup Events /\ Answered(cb.dispatch)
      /\ UNCHANGED <<flowVars, edgeVars, notices, answered, faults>>
  BY ExchangeInvFollows, AtWork DEF Update, WorkersOK, WorkerOK, Past
<1>2. /\ row'[cb.dispatch] = NewStatus(cb)
      /\ \A d \in Dispatches \ {cb.dispatch} : row'[d] = row[d]
  BY <1>1 DEF Update, TypeOK
<1>3. worker'[h].pc = "idle" /\ \A g \in Workers \ {h} : worker'[g] = worker[g]
  BY <1>1, WorkerEnds DEF TypeOK, ExchangeType, Idle
<1>4. ExchangeInv'
  BY <1>1, EndInv DEF ExchangeInv, ExchangeType
<1>5. TypeOK'
  <2>1. NewStatus(cb) \in Statuses
    BY <1>1 DEF NewStatus, Target, Events, Statuses
  <2>2. row' \in [Dispatches -> Statuses \cup {"none"}]
    BY <1>1, <2>1 DEF Update, TypeOK
  <2> QED
    BY <1>1, <1>4, <2>2 DEF TypeOK, ExchangeInv
<1>6. RecordedAfterReview'
  BY <1>1, <1>2 DEF RecordedAfterReview, Answered
<1>7. WorkersOK'
  BY <1>1, <1>3 DEF WorkersOK, WorkerOK, Past, Answered
<1> QED
  BY <1>1, <1>2, <1>3, <1>4, <1>5, <1>6, <1>7 DEF ExchangeInv

\* Every step preserves the invariant.
LEMMA NextInv == IInv /\ [Next]_vars => IInv'
<1> SUFFICES ASSUME IInv, [Next]_vars PROVE IInv'
  OBVIOUS
<1>1. CASE Dispatch
  BY <1>1, DispatchStep
<1>2. ASSUME NEW d \in Dispatches, NEW o \in {"integrated", "failed"}, Decide(d, o)
      PROVE  IInv'
  <2>1. ExchangeInv'
    BY <1>2, ExchangeInvFollows, DecideInv
  <2> QED
    BY <1>2, <2>1, QuietStep DEF Decide
<1>3. ASSUME NEW h \in Workers, Fail(h)
      PROVE  IInv'
  <2>1. faults' \in 0 .. MaxFaults /\ notices' \subseteq Callbacks
    BY <1>3, BoundsAssumption DEF Fail, Fault, IInv, TypeOK, ExchangeType
  <2> QED
    BY <1>3, <2>1, EndStep DEF Fail
<1>4. ASSUME NEW h \in Workers, NEW cb \in Callbacks, DeliverInTurn(h, cb) \/ Retry(h, cb)
      PROVE  IInv'
  BY <1>4, TakeStep
<1>5. CASE (\E cb \in Callbacks : GiveUp(cb)) \/ Restart
  <2>1. ExchangeInv' /\ \A h \in Workers : worker'[h] \in {worker[h], Idle}
    BY <1>5, ExchangeInvFollows, ForgetInv
  <2>2. UNCHANGED <<row, at, parked, answered>>
    BY <1>5 DEF GiveUp, Restart
  <2> QED
    BY <2>1, <2>2, QuietStep DEF Idle
<1>6. ASSUME NEW h \in Workers, Process(h)
      PROVE  IInv'
  <2>1. CASE Notify(h)
    <3>1. worker[h].pc # "idle" /\ (Done(h) \/ Early(h)) /\ notices' \subseteq Callbacks
      BY <2>1, WorkersCallback, ExchangeInvFollows DEF Notify, IInv, TypeOK, ExchangeType
    <3> QED
      BY <2>1, <3>1, EndStep DEF Notify, IInv, TypeOK, ExchangeType
  <2>2. CASE Complete(h) /\ parked # worker[h].step
    BY <2>2, EndStep DEF Complete, Resume, MovedOn, IInv, TypeOK, ExchangeType
  <2> QED
    BY <1>6, <2>1, <2>2, ReadStep, FindStep, ReleaseStep, UpdateStep DEF Process
<1>7. CASE UNCHANGED vars
  <2>1. ExchangeInv' /\ UNCHANGED <<row, at, parked, answered, worker>>
    BY <1>7, ExchangeInvFollows
       DEF vars, exchangeVars, ExchangeInv, ExchangeType, StepsOK, CallbacksIssued, Issued, Integrated, Answered
  <2> QED
    BY <2>1, QuietStep
<1> QED
  BY <1>1, <1>2, <1>3, <1>4, <1>5, <1>6, <1>7 DEF Next, ExchangeStep

\* The invariant holds of every state the exchange can reach.
THEOREM Invariance == Spec => []IInv
BY InitInv, NextInv, PTL DEF Spec

\* Every variable keeps its type.
THEOREM TypeCorrect == Spec => []TypeOK
<1>1. IInv => TypeOK
  BY DEF IInv
<1> QED
  BY <1>1, Invariance, PTL

\* A declaration is not recorded as INTEGRATED or FAILED before a review step was completed
\* with its result, whatever fails, repeats or overlaps.
THEOREM RecordedOnlyAfterReview == Spec => []RecordedAfterReview
<1>1. IInv => RecordedAfterReview
  BY DEF IInv
<1> QED
  BY <1>1, Invariance, PTL

----------------------------------------------------------------------------
(***************************************************************************)
(* One callback at a time.                                                 *)
(***************************************************************************)
Alone == \A g, h \in Workers : g = h

\* Until it is done, what a worker has read of its row is still so.
StillNew(h) ==
  LET cb == worker[h].cb IN
  Past(h) => IF cb.kind = "result"
             THEN row[cb.dispatch] = "SUBMITTED"
             ELSE Registered(cb.dispatch) /\ ~HasReached(row[cb.dispatch], Target(cb.kind))
AloneInv == \A h \in Workers : StillNew(h)

\* How a row may change.
RowMoves(d) ==
  \/ row'[d] = row[d]
  \/ row[d] = "none" /\ row'[d] = "SUBMITTED"
  \/ row[d] = "SUBMITTED" /\ row'[d] \in {"INTEGRATED", "FAILED"}
  \/ Registered(d) /\ Registered(d)' /\ Order(row'[d]) >= Order(row[d])

\* A worker that saves its row takes it forward.
LEMMA UpdateMoves ==
  ASSUME IInv, AloneInv, NEW h \in Workers, Update(h)
  PROVE  \A d \in Dispatches : RowMoves(d)
<1> DEFINE cb == worker[h].cb
<1>1. PICK d \in Dispatches : d = cb.dispatch
  BY AtWork DEF Update
<1>2. /\ row'[d] = NewStatus(cb) /\ cb.kind \in {"result"} \cup Events /\ Past(h)
      /\ \A e \in Dispatches \ {d} : row'[e] = row[e]
  BY <1>1, UpdateStep
<1>3. row[d] \in Statuses \cup {"none"}
  BY DEF IInv, TypeOK
<1>4. CASE cb.kind = "result"
  BY <1>1, <1>2, <1>4 DEF AloneInv, StillNew, NewStatus, RowMoves
<1>5. CASE cb.kind \in Events
  <2>1. Registered(d) /\ ~HasReached(row[d], Target(cb.kind)) /\ row'[d] = Target(cb.kind)
    BY <1>1, <1>2, <1>5 DEF AloneInv, StillNew, NewStatus, Events
  <2>2. row'[d] \in {"PAID", "WARRANTED", "RELEASED"}
    BY <1>5, <2>1 DEF Target, Events
  <2>3. Order(row'[d]) >= Order(row[d])
    BY <1>3, <2>1, <2>2 DEF HasReached, Order, Statuses
  <2> QED
    BY <1>2, <2>1, <2>2, <2>3 DEF RowMoves, Registered
<1> QED
  BY <1>2, <1>4, <1>5

\* With no other worker to change it, a row is as it was read.
LEMMA AloneStep ==
  ASSUME IInv, AloneInv, Alone, [Next]_vars
  PROVE  AloneInv' /\ \A d \in Dispatches : RowMoves(d)
<1>1. CASE Dispatch
  <2>1. /\ \A d \in Dispatches : row'[d] = row[d] \/ (row[d] = "none" /\ row'[d] = "SUBMITTED")
        /\ worker' = worker
    BY <1>1, DispatchStep DEF Dispatch, Submit, Send, Record, RecordFails, ActivityAgain, Park
  <2>2. \A h \in Workers : Past(h) => worker[h].cb.dispatch \in Dispatches
    BY AtWork DEF Past
  <2> QED
    BY <2>1, <2>2 DEF AloneInv, StillNew, Past, Registered, RowMoves
<1>2. ASSUME row' = row, \A h \in Workers : \/ worker'[h] = worker[h]
                                            \/ worker'[h].pc \in {"idle", "read"}
                                            \/ Past(h) /\ worker'[h].cb = worker[h].cb
      PROVE  AloneInv' /\ \A d \in Dispatches : RowMoves(d)
  BY <1>2 DEF AloneInv, StillNew, Past, Registered, RowMoves
<1>3. CASE UNCHANGED vars \/ \E d \in Dispatches, o \in {"integrated", "failed"} : Decide(d, o)
  BY <1>2, <1>3 DEF Decide, vars, exchangeVars
<1>4. CASE (\E cb \in Callbacks : GiveUp(cb)) \/ Restart
  BY <1>2, <1>4, ExchangeInvFollows, ForgetInv DEF GiveUp, Restart, Idle
<1>5. CASE \E h \in Workers, cb \in Callbacks : DeliverInTurn(h, cb) \/ Retry(h, cb)
  BY <1>2, <1>5, TakeStep DEF DeliverInTurn, Deliver, Retry
<1>6. ASSUME NEW h \in Workers, Fail(h) \/ Process(h)
      PROVE  AloneInv' /\ \A d \in Dispatches : RowMoves(d)
  <2>1. CASE Fail(h) \/ Notify(h) \/ (Complete(h) /\ parked # worker[h].step)
    <3>1. /\ worker[h].pc # "idle" /\ (Done(h) \/ Early(h) \/ Refused(h)) /\ row' = row
      BY <2>1 DEF Fail, Notify, Complete, Resume, MovedOn
    <3>2. worker' = [worker EXCEPT ![h] = Idle]
      BY <3>1, ExchangeInvFollows, WorkerEnds
    <3> QED
      BY <1>2, <3>1, <3>2 DEF IInv, TypeOK, ExchangeType, Idle
  <2>2. CASE Read(h)
    BY <2>2, ReadStep DEF AloneInv, StillNew, Registered, RowMoves, Past
  <2>3. CASE Find(h) \/ (Complete(h) /\ parked = worker[h].step)
    BY <1>2, <2>3, FindStep, ReleaseStep DEF Find, Complete, Past
  <2>4. CASE Update(h)
    <3>1. worker'[h].pc = "idle" /\ \A g \in Workers : g = h
      BY <2>4, UpdateStep DEF Alone
    <3> QED
      BY <2>4, <3>1, UpdateMoves DEF AloneInv, StillNew, Past
  <2> QED
    BY <1>6, <2>1, <2>2, <2>3, <2>4 DEF Process
<1> QED
  BY <1>1, <1>3, <1>4, <1>5, <1>6 DEF Next, ExchangeStep

\* When callbacks are processed one at a time, a registered declaration never goes back to
\* an earlier status.
THEOREM NeverFallsBackAlone == Alone => (Spec => StatusNeverFallsBack)
<1> SUFFICES ASSUME Alone PROVE Spec => StatusNeverFallsBack
  OBVIOUS
<1>1. Init => AloneInv
  BY DEF Init, ExchangeInit, AloneInv, StillNew, Past, Idle
<1>2. IInv /\ AloneInv /\ [Next]_vars => AloneInv'
  BY AloneStep
<1>3. IInv /\ AloneInv /\ [Next]_vars =>
        [\A d \in Dispatches : Registered(d) => Order(row'[d]) >= Order(row[d])]_vars
  <2> SUFFICES ASSUME IInv, AloneInv, Next, NEW d \in Dispatches, Registered(d)
               PROVE  Order(row'[d]) >= Order(row[d])
    OBVIOUS
  <2>1. row'[d] = row[d] \/ Order(row'[d]) >= Order(row[d])
    BY AloneStep DEF RowMoves, Registered
  <2>2. Order(row[d]) \in Nat
    BY DEF Order
  <2> QED
    BY <2>1, <2>2
<1> QED
  BY <1>1, <1>2, <1>3, Invariance, PTL DEF Spec, StatusNeverFallsBack

----------------------------------------------------------------------------
(***************************************************************************)
(* What a 2xx promises.                                                    *)
(***************************************************************************)
\* When a callback has landed, kind by kind.
LEMMA LandedIs ==
  ASSUME NEW cb \in Callbacks
  PROVE  /\ cb.kind = "result" => /\ Landed(cb) <=> row[cb.dispatch] \notin {"none", "SUBMITTED"}
                                  /\ Landed(cb)' <=> row'[cb.dispatch] \notin {"none", "SUBMITTED"}
         /\ cb.kind \in Events =>
              /\ Landed(cb) <=> Registered(cb.dispatch) /\ HasReached(row[cb.dispatch], Target(cb.kind))
              /\ Landed(cb)' <=> Registered(cb.dispatch)' /\ HasReached(row'[cb.dispatch], Target(cb.kind))
         /\ cb.kind \in Notices => /\ Landed(cb) <=> cb \in notices
                                   /\ Landed(cb)' <=> cb \in notices'
<1>1. CASE cb.kind = "result"
  BY <1>1 DEF Landed, Events, Notices
<1>2. CASE cb.kind \in Events
  <2>1. cb.kind # "result" /\ cb.kind \notin Notices
    BY <1>2 DEF Events, Notices
  <2> QED
    BY <1>2, <2>1 DEF Landed
<1>3. CASE cb.kind \in Notices
  <2>1. cb.kind # "result" /\ cb.kind \notin Events
    BY <1>3 DEF Events, Notices
  <2> QED
    BY <1>3, <2>1 DEF Landed
<1> QED
  BY <1>1, <1>2, <1>3

\* What has landed stays landed.
LEMMA LandedStays ==
  ASSUME IInv, AloneInv, Alone, [Next]_vars, NEW cb \in Callbacks, Landed(cb)
  PROVE  Landed(cb)'
<1>1. cb.dispatch \in Dispatches /\ cb.kind \in {"result"} \cup Events \cup Notices
  BY KindsAssumption DEF Callbacks
<1>2. RowMoves(cb.dispatch)
  BY <1>1, AloneStep
<1>3. notices \subseteq notices'
  BY DEF Next, ExchangeStep, Dispatch, Submit, Send, Record, RecordFails, ActivityAgain, Park, Decide, Fail,
         Retry, GiveUp, Restart, Process, Read, Notify, Find, Complete, Update, DeliverInTurn, Deliver,
         vars, exchangeVars
<1>4. CASE cb.kind = "result"
  BY <1>2, <1>4, LandedIs DEF RowMoves, Registered
<1>5. CASE cb.kind \in Events
  <2> DEFINE s == row[cb.dispatch]
             r == row'[cb.dispatch]
  <2>1. Registered(cb.dispatch) /\ HasReached(s, Target(cb.kind))
    BY <1>5, LandedIs
  <2>2. Registered(cb.dispatch)' /\ (r = s \/ Order(r) >= Order(s))
    BY <1>2, <2>1 DEF RowMoves, Registered
  <2>3. Order(s) \in Nat /\ Order(r) \in Nat /\ Order(Target(cb.kind)) \in Nat
    BY DEF Order
  <2>4. HasReached(r, Target(cb.kind))
    BY <2>1, <2>2, <2>3 DEF HasReached
  <2> QED
    BY <1>5, <2>2, <2>4, LandedIs
<1>6. CASE cb.kind \in Notices
  BY <1>3, <1>6, LandedIs
<1> QED
  BY <1>1, <1>4, <1>5, <1>6

\* A worker may answer 2xx and be done once its callback has landed; until then a callback
\* that is early is held, and one that is refused is as before.
LEMMA WorkerHeld ==
  ASSUME IInv, AloneInv, Alone, [Next]_vars, HeldOrLanded,
         NEW h \in Workers, NEW cb \in Callbacks, cb = worker[h].cb,
         (Done(h) /\ Landed(cb)') \/ Early(h) \/ Refused(h) \/ UNCHANGED <<acked, held>>
  PROVE  HeldOrLanded'
<1>1. \A c \in Callbacks : Landed(c) => Landed(c)'
  BY LandedStays
<1>2. \A c \in acked' : c \in acked \/ (c = cb /\ (Landed(cb)' \/ cb \in held'))
  BY DEF Done, Early, Refused
<1>3. \A c \in held : c \in held' \/ (c = cb /\ Landed(cb)')
  BY DEF Done, Early, Refused
<1>4. acked \subseteq Callbacks /\ \A c \in acked : c \in held \/ Landed(c)
  BY DEF IInv, TypeOK, ExchangeType, HeldOrLanded
<1> SUFFICES ASSUME NEW c \in acked' PROVE c \in held' \/ Landed(c)'
  BY DEF HeldOrLanded
<1> QED
  BY <1>1, <1>2, <1>3, <1>4

\* No step loses a callback, unless the window passes or the process is restarted.
LEMMA HeldStep ==
  ASSUME IInv, AloneInv, Alone, [Next]_vars, HeldOrLanded, FaultSites \cap {"window", "restart"} = {}
  PROVE  HeldOrLanded'
<1>1. \A c \in Callbacks : Landed(c) => Landed(c)'
  BY LandedStays
<1>2. CASE UNCHANGED <<acked, held>>
  BY <1>1, <1>2 DEF IInv, TypeOK, ExchangeType, HeldOrLanded
<1>3. CASE Dispatch \/ UNCHANGED vars \/ \E d \in Dispatches, o \in {"integrated", "failed"} : Decide(d, o)
  BY <1>2, <1>3 DEF Dispatch, Submit, Send, Record, RecordFails, ActivityAgain, Park, Decide, vars, exchangeVars
<1>4. CASE \E h \in Workers, cb \in Callbacks : DeliverInTurn(h, cb) \/ Retry(h, cb)
  BY <1>2, <1>4 DEF DeliverInTurn, Deliver, Retry
<1>5. CASE (\E cb \in Callbacks : GiveUp(cb)) \/ Restart
  BY <1>5 DEF GiveUp, Restart, Fault
<1>6. ASSUME NEW h \in Workers, Fail(h) \/ Process(h)
      PROVE  HeldOrLanded'
  <2>1. worker[h].pc # "idle" /\ worker[h].cb \in Callbacks
    BY <1>6, AtWork DEF Fail, Process, Read, Notify, Find, Complete, Update
  <2>2. PICK cb \in Callbacks : cb = worker[h].cb
    BY <2>1
  <2>3. cb.dispatch \in Dispatches /\ cb.kind \in {"result"} \cup Events \cup Notices
    BY KindsAssumption DEF Callbacks
  <2>4. row[cb.dispatch] \in Statuses \cup {"none"}
    BY <2>3 DEF IInv, TypeOK
  <2>5. CASE Fail(h)
    BY <2>2, <2>5, WorkerHeld DEF Fail
  <2>6. CASE Read(h)
    <3>1. Early(h) \/ (Done(h) /\ Landed(cb)) \/ Goto(h, "find", 0)
      <4>1. cb.kind = "result" /\ ResultVerdict(row[cb.dispatch]) = "duplicate" => Landed(cb)
        BY <2>4, LandedIs DEF ResultVerdict, Statuses
      <4>2. cb.kind \in Events /\ EventVerdict(cb) = "duplicate" => Landed(cb)
        BY LandedIs DEF EventVerdict
      <4> QED
        BY <2>2, <2>3, <2>6, <4>1, <4>2 DEF Read
    <3> QED
      BY <1>1, <2>2, <2>6, <3>1, WorkerHeld DEF Read, Goto
  <2>7. CASE Notify(h)
    <3>1. Done(h) /\ notices' = notices \cup {cb} => Landed(cb)'
      BY <2>2, <2>7, LandedIs DEF Notify
    <3> QED
      BY <2>2, <2>7, <3>1, WorkerHeld DEF Notify
  <2>8. CASE Find(h) \/ Complete(h)
    BY <2>2, <2>8, WorkerHeld DEF Find, NotParked, Complete, MovedOn, Goto
  <2>9. CASE Update(h)
    <3>1. row'[cb.dispatch] = NewStatus(cb) /\ cb.kind \in {"result"} \cup Events
      BY <2>2, <2>9, UpdateStep
    <3>2. ASSUME cb.kind = "result" PROVE Landed(cb)'
      <4>1. row'[cb.dispatch] \in {"INTEGRATED", "FAILED"}
        BY <3>1, <3>2 DEF NewStatus
      <4>2. Landed(cb)' <=> row'[cb.dispatch] \notin {"none", "SUBMITTED"}
        BY <3>2, LandedIs
      <4> QED
        BY <4>1, <4>2
    <3>3. ASSUME cb.kind \in Events PROVE Landed(cb)'
      <4>1. row'[cb.dispatch] = Target(cb.kind) /\ Target(cb.kind) \in {"PAID", "WARRANTED", "RELEASED"}
        BY <3>1, <3>3 DEF NewStatus, Events, Target
      <4>2. Order(Target(cb.kind)) \in Nat
        BY DEF Order
      <4> QED
        <5>1. Landed(cb)' <=> Registered(cb.dispatch)' /\ HasReached(row'[cb.dispatch], Target(cb.kind))
          BY <3>3, LandedIs
        <5>2. Registered(cb.dispatch)' /\ HasReached(row'[cb.dispatch], Target(cb.kind))
          BY <4>1, <4>2 DEF Registered, HasReached
        <5> QED
          BY <5>1, <5>2
    <3> QED
      BY <2>2, <2>9, <3>1, <3>2, <3>3, WorkerHeld DEF Update
  <2> QED
    BY <1>6, <2>5, <2>6, <2>7, <2>8, <2>9 DEF Process
<1> QED
  BY <1>3, <1>4, <1>5, <1>6 DEF Next, ExchangeStep

\* A callback answered 2xx is applied or still held, when callbacks are processed one at a
\* time, unless the window passes or the process is restarted.
THEOREM CallbacksHeldOrLanded ==
  Alone /\ FaultSites \cap {"window", "restart"} = {} => (Spec => []HeldOrLanded)
<1> SUFFICES ASSUME Alone, FaultSites \cap {"window", "restart"} = {} PROVE Spec => []HeldOrLanded
  OBVIOUS
<1>1. Init => AloneInv /\ HeldOrLanded
  BY DEF Init, ExchangeInit, AloneInv, StillNew, Past, Idle, HeldOrLanded
<1>2. IInv /\ AloneInv /\ HeldOrLanded /\ [Next]_vars => AloneInv' /\ HeldOrLanded'
  BY AloneStep, HeldStep
<1> QED
  BY <1>1, <1>2, Invariance, PTL DEF Spec

----------------------------------------------------------------------------
(***************************************************************************)
(* The round trip of the edgeId.                                           *)
(***************************************************************************)
\* The dispatch has no result to come: it is recorded, or about to be.
Settled(d) ==
  \/ row[d] # "SUBMITTED"
  \/ \E h \in Workers :
       worker[h].pc = "update" /\ worker[h].cb.kind = "result" /\ worker[h].cb.dispatch = d

\* A review that is parked is of the last dispatch, and those before it are settled.
ReviewInv ==
  /\ ReviewAnsweredByItsDispatch
  /\ parked # 0 /\ at = "result" => waiting[parked] = sent
  /\ \A d \in Dispatches : outcome[d] # "none" => d <= sent
  /\ \A d \in Dispatches : d < sent \/ (d = sent /\ at \in {"form", "send"}) => Settled(d)

\* A result whose row is saved has been answered, and no save is lost or repeated.
Undisturbed == Alone /\ FaultSites \cap {"update", "activity", "restart"} = {}

\* The steps up to the review, and parking.
LEMMA DispatchReview ==
  ASSUME IInv, ReviewInv, Undisturbed, Dispatch
  PROVE  ReviewInv'
<1> USE DEF ReviewInv
<1>1. UNCHANGED <<worker, answered, outcome>>
  BY DEF Dispatch, Submit, Send, Record, RecordFails, ActivityAgain, Park
<1>2. sent \in Nat /\ visits \in Nat /\ \A d \in Dispatches : d \in Nat
  BY BoundsAssumption DEF IInv, TypeOK, ExchangeType, StepIDOrNone, StepIDs, Dispatches
<1>3. CASE Submit
  BY <1>1, <1>2, <1>3 DEF Submit, Settled, ReviewAnsweredByItsDispatch
<1>4. CASE Send
  BY <1>1, <1>2, <1>4 DEF Send, Settled, ReviewAnsweredByItsDispatch, IInv, StepsOK
<1>5. CASE Record \/ RecordFails
  <2>1. \A d \in Dispatches : d < sent => row'[d] = row[d]
    <3>1. row' = row \/ row' = [row EXCEPT ![sent] = Recorded(@)]
      BY <1>5 DEF Record, RecordFails
    <3>2. DOMAIN row = Dispatches
      BY DEF IInv, TypeOK
    <3> QED
      BY <1>2, <3>1, <3>2
  <2>2. parked = 0 /\ UNCHANGED <<sent, waiting, parked>> /\ at' = "result"
    BY <1>5 DEF Record, RecordFails, IInv, StepsOK
  <2> QED
    BY <1>1, <1>2, <2>1, <2>2 DEF Settled, ReviewAnsweredByItsDispatch
<1>6. CASE Park
  <2>1. visits + 1 \in StepIDs /\ parked' = visits + 1
    BY <1>6 DEF Park
  <2>2. /\ \A s \in StepIDs : s # visits + 1 => waiting'[s] = waiting[s]
        /\ waiting'[visits + 1] = IF at = "result" THEN sent ELSE 0
    BY <1>6, <2>1 DEF Park, IInv, TypeOK, ExchangeType
  <2>3. answered[visits + 1] = 0
    BY <1>2, <2>1 DEF IInv, StepsOK
  <2>4. ReviewAnsweredByItsDispatch'
    BY <1>1, <2>2, <2>3 DEF ReviewAnsweredByItsDispatch
  <2>5. UNCHANGED <<row, at, sent>>
    BY <1>6 DEF Park
  <2> QED
    BY <1>1, <2>1, <2>2, <2>4, <2>5 DEF Settled
<1>7. ~ActivityAgain
  BY DEF ActivityAgain, Fault, Undisturbed
<1> QED
  BY <1>3, <1>4, <1>5, <1>6, <1>7 DEF Dispatch

\* A step in which the workflow stays, and what is settled stays settled.
LEMMA SettledReview ==
  ASSUME ReviewInv, UNCHANGED <<flowVars, answered>>, \A d \in Dispatches : Settled(d) => Settled(d)',
         \A d \in Dispatches : outcome'[d] # "none" => outcome[d] # "none" \/ d <= sent
  PROVE  ReviewInv'
BY DEF ReviewInv, ReviewAnsweredByItsDispatch

\* The review is completed by the result of the dispatch that it waits for.
LEMMA ReleaseReview ==
  ASSUME IInv, AloneInv, ReviewInv, Undisturbed, NEW h \in Workers, Complete(h), parked = worker[h].step
  PROVE  ReviewInv'
<1> DEFINE cb == worker[h].cb
<1> USE DEF ReviewInv
<1>1. /\ worker[h].pc = "complete" /\ cb.kind \in {"result"} \cup Events
      /\ outcome[cb.dispatch] # "none"
      /\ Resume(cb, worker[h].step, After(cb))
      /\ UNCHANGED <<row, visits, sent, waiting, edgeVars, notices, faults>>
  BY AtWork DEF Complete, MovedOn, Past
<1>2. PICK d \in Dispatches : d = cb.dispatch
  BY <1>1, AtWork
<1>3. /\ worker'[h].pc = "update" /\ worker'[h].cb = cb /\ \A g \in Workers : g = h
      /\ at = cb.kind /\ at' = After(cb)
  BY ReleaseStep DEF Undisturbed, Alone
<1>4. worker[h].step \in StepIDs /\ worker[h].step # 0
  BY <1>1 DEF IInv, TypeOK, ExchangeType, WorkerState, StepIDOrNone, StepsOK
<1>5. sent \in Nat /\ \A e \in Dispatches : e \in Nat
  BY BoundsAssumption DEF IInv, TypeOK, ExchangeType, Dispatches
<1>6. \A e \in Dispatches : Settled(e) => Settled(e)'
  BY <1>1, <1>3 DEF Settled
<1>7. parked' = 0
  BY <1>1 DEF Resume
<1>8. CASE cb.kind = "result"
  <2>1. row[d] = "SUBMITTED" /\ ~Settled(d)
    BY <1>1, <1>2, <1>3, <1>8 DEF AloneInv, StillNew, Past, Settled
  <2>2. d = sent
    BY <1>1, <1>2, <1>5, <2>1
  <2>3. waiting[worker[h].step] = sent
    BY <1>3, <1>4, <1>8
  <2>4. answered' = [answered EXCEPT ![worker[h].step] = d]
    BY <1>1, <1>2, <1>8 DEF Resume
  <2>5. ReviewAnsweredByItsDispatch'
    BY <1>1, <2>2, <2>3, <2>4 DEF ReviewAnsweredByItsDispatch, IInv, TypeOK, ExchangeType
  <2>6. Settled(d)'
    BY <1>2, <1>3, <1>8 DEF Settled
  <2> QED
    BY <1>1, <1>6, <1>7, <2>2, <2>5, <2>6
<1>9. CASE cb.kind \in Events
  <2>1. at' \notin {"form", "send"} /\ UNCHANGED answered
    BY <1>1, <1>3, <1>9 DEF After, Events, Resume
  <2> QED
    BY <1>1, <1>6, <1>7, <2>1 DEF ReviewAnsweredByItsDispatch
<1> QED
  BY <1>1, <1>8, <1>9

\* Every step keeps the round trip.
LEMMA ReviewStep ==
  ASSUME IInv, AloneInv, ReviewInv, Undisturbed, [Next]_vars
  PROVE  ReviewInv'
<1>1. CASE Dispatch
  BY <1>1, DispatchReview
<1>2. CASE UNCHANGED vars
  BY <1>2 DEF vars, exchangeVars, ReviewInv, ReviewAnsweredByItsDispatch, Settled
<1>3. CASE \E d \in Dispatches, o \in {"integrated", "failed"} : Decide(d, o)
  BY <1>3, SettledReview DEF Decide, Settled, IInv, TypeOK, ExchangeType
<1>4. ASSUME UNCHANGED <<row, flowVars, outcome, answered>>,
             \A h \in Workers : worker[h].pc = "update" => worker'[h] = worker[h]
      PROVE  ReviewInv'
  <2>1. \A d \in Dispatches : Settled(d) => Settled(d)'
    BY <1>4 DEF Settled
  <2> QED
    BY <1>4, <2>1, SettledReview
<1>5. CASE \E cb \in Callbacks : GiveUp(cb)
  BY <1>4, <1>5 DEF GiveUp
<1>6. ~Restart
  BY DEF Restart, Fault, Undisturbed
<1>7. ASSUME NEW h \in Workers, NEW cb \in Callbacks, DeliverInTurn(h, cb) \/ Retry(h, cb)
      PROVE  ReviewInv'
  <2>1. worker[h].pc = "idle" /\ UNCHANGED <<row, flowVars, outcome, answered>>
    BY <1>7 DEF DeliverInTurn, Deliver, Retry
  <2>2. \A g \in Workers \ {h} : worker'[g] = worker[g]
    BY <1>7, TakeStep
  <2> QED
    BY <1>4, <2>1, <2>2
<1>8. ASSUME NEW h \in Workers, Fail(h) \/ Process(h)
      PROVE  ReviewInv'
  <2>1. \A g \in Workers : g = h
    BY DEF Undisturbed, Alone
  <2>2. CASE Complete(h) /\ parked = worker[h].step
    BY <2>2, ReleaseReview
  <2>3. CASE Update(h)
    <3>1. PICK d \in Dispatches : d = worker[h].cb.dispatch
      BY <2>3, AtWork DEF Update
    <3>2. row'[d] # "SUBMITTED" /\ \A e \in Dispatches \ {d} : row'[e] = row[e]
      BY <2>3, <3>1, UpdateStep DEF NewStatus, Target, Events
    <3>3. \A e \in Dispatches : Settled(e) => Settled(e)'
      BY <2>1, <3>1, <3>2 DEF Settled
    <3> QED
      BY <2>3, <3>3, SettledReview DEF Update
  <2>4. CASE Fail(h) \/ Read(h) \/ Notify(h) \/ Find(h) \/ (Complete(h) /\ parked # worker[h].step)
    <3>1. worker[h].pc # "update"
      BY <2>4 DEF Fail, Fault, Undisturbed, Read, Notify, Find, Complete
    <3>2. UNCHANGED <<row, flowVars, outcome, answered>>
      BY <2>4 DEF Fail, Read, Notify, Find, Complete, Resume, MovedOn
    <3> QED
      BY <1>4, <2>1, <3>1, <3>2
  <2> QED
    BY <1>8, <2>2, <2>3, <2>4 DEF Process
<1> QED
  BY <1>1, <1>2, <1>3, <1>5, <1>6, <1>7, <1>8 DEF Next, ExchangeStep

\* A review is only ever completed by the result of the dispatch it was parked for, when
\* callbacks are processed one at a time and no save of a row is lost.
THEOREM ReviewAnswered == Undisturbed => (Spec => []ReviewAnsweredByItsDispatch)
<1> SUFFICES ASSUME Undisturbed PROVE Spec => []ReviewAnsweredByItsDispatch
  OBVIOUS
<1>1. Init => AloneInv /\ ReviewInv
  BY DEF Init, ExchangeInit, AloneInv, StillNew, Past, Idle, ReviewInv, ReviewAnsweredByItsDispatch, Settled,
         Dispatches
<1>2. IInv /\ AloneInv /\ ReviewInv /\ [Next]_vars => AloneInv' /\ ReviewInv'
  BY AloneStep, ReviewStep DEF Undisturbed
<1>3. ReviewInv => ReviewAnsweredByItsDispatch
  BY DEF ReviewInv
<1> QED
  BY <1>1, <1>2, <1>3, Invariance, PTL DEF Spec
=============================================================================
