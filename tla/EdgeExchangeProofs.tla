------------------------- MODULE EdgeExchangeProofs -------------------------
(***************************************************************************)
(* What the exchange with SLC Edge guarantees, whatever the services make  *)
(* of the callbacks: the invariants that Cusdec and DispatchNote share.    *)
(***************************************************************************)
EXTENDS EdgeExchange, TLAPS

\* Some wait was released by the result of the dispatch.
Answered(d) == \E s \in StepIDs : answered[s] = d

\* A step that is parked is the latest and has not been completed; a wait has one.
StepsOK ==
  /\ parked \in {0, visits}
  /\ parked # 0 => at \notin {"form", "send", "record", "done"}
  /\ \A s \in StepIDs : answered[s] # 0 => s <= visits /\ s # parked
  /\ \A h \in Workers : worker[h].step <= visits
  /\ \A h \in Workers : worker[h].pc \in {"complete", "free"} => worker[h].step # 0

\* What is processed or held was issued by Customs, and so was a result that was answered.
CallbacksIssued ==
  /\ \A h \in Workers : worker[h].pc # "idle" => Issued(worker[h].cb)
  /\ \A cb \in held : Issued(cb)
  /\ \A d \in Dispatches : Answered(d) => outcome[d] # "none"

ExchangeInv == ExchangeType /\ StepsOK /\ CallbacksIssued

USE DEF flowVars, edgeVars, replyVars

----------------------------------------------------------------------------
(***************************************************************************)
(* The workers.                                                            *)
(***************************************************************************)
\* A worker at work is at work on a callback.
LEMMA WorkersCallback ==
  ASSUME ExchangeInv, NEW h \in Workers, worker[h].pc # "idle"
  PROVE  worker[h].cb \in Callbacks
BY DEF ExchangeInv, CallbacksIssued, Issued

\* A worker that ends is idle, and its callback may be held.
LEMMA WorkerEnds ==
  ASSUME ExchangeInv, NEW h \in Workers, worker[h].pc # "idle", Done(h) \/ Early(h) \/ Refused(h)
  PROVE  /\ worker' = [worker EXCEPT ![h] = Idle]
         /\ worker' \in [Workers -> WorkerState]
         /\ acked' \subseteq Callbacks
         /\ held' \subseteq Callbacks
         /\ held' \subseteq held \cup {worker[h].cb}
<1>1. Idle \in WorkerState
  BY DEF Idle, WorkerState, StepIDOrNone
<1>2. worker[h].cb \in Callbacks
  BY WorkersCallback
<1> QED
  BY <1>1, <1>2 DEF ExchangeInv, ExchangeType, Done, Early, Refused

\* A worker that goes on keeps its callback.
LEMMA WorkerGoes ==
  ASSUME ExchangeInv, NEW h \in Workers, NEW pc, NEW step, Goto(h, pc, step),
         pc \in {"find", "complete", "release", "free", "update"}, step \in StepIDOrNone
  PROVE  /\ worker' = [worker EXCEPT ![h].pc = pc, ![h].step = step]
         /\ worker' \in [Workers -> WorkerState]
         /\ worker'[h].pc = pc /\ worker'[h].step = step /\ worker'[h].cb = worker[h].cb
         /\ \A g \in Workers \ {h} : worker'[g] = worker[g]
         /\ acked' = acked /\ held' = held
<1>1. worker \in [Workers -> WorkerState]
  BY DEF ExchangeInv, ExchangeType
<1> QED
  BY <1>1 DEF Goto, WorkerState

----------------------------------------------------------------------------
(***************************************************************************)
(* The steps of the exchange.                                              *)
(***************************************************************************)
\* Initially nothing is parked, sent or held.
LEMMA ExchangeInitInv == ExchangeInit => ExchangeInv
<1> SUFFICES ASSUME ExchangeInit PROVE ExchangeInv
  OBVIOUS
<1> USE DEF ExchangeInit
<1>1. ExchangeType
  BY BoundsAssumption DEF ExchangeType, Dispatches, Idle, WorkerState, StepIDOrNone
<1>2. StepsOK /\ CallbacksIssued
  BY DEF StepsOK, CallbacksIssued, Idle, Answered, Dispatches
<1> QED
  BY <1>1, <1>2 DEF ExchangeInv

\* The workflow's own steps park one step at a time.
LEMMA DispatchInv ==
  ASSUME ExchangeInv, Dispatch
  PROVE  ExchangeInv'
<1> USE BoundsAssumption DEF ExchangeInv, Fault
<1>1. CallbacksIssued'
  BY DEF Dispatch, Submit, Send, Record, RecordFails, ActivityAgain, Park, CallbacksIssued, Issued,
    Integrated, Answered
<1>2. CASE Submit
  BY <1>1, <1>2 DEF Submit, ExchangeType, StepsOK
<1>3. CASE Send
  BY <1>1, <1>3 DEF Send, ExchangeType, StepsOK
<1>4. CASE Record
  BY <1>1, <1>4 DEF Record, ExchangeType, StepsOK
<1>5. CASE RecordFails
  BY <1>1, <1>5 DEF RecordFails, ExchangeType, StepsOK
<1>6. CASE ActivityAgain
  BY <1>1, <1>6 DEF ActivityAgain, ExchangeType, StepsOK
<1>7. CASE Park
  <2>1. visits \in Nat /\ parked \in Nat /\ sent \in 0 .. MaxDispatches /\ \A s \in StepIDs : s \in Nat
    BY DEF ExchangeType, StepIDOrNone, StepIDs
  <2>2. waiting' \in [StepIDs -> 0 .. MaxDispatches]
    BY <1>7, <2>1 DEF Park, ExchangeType
  <2>3. ExchangeType'
    BY <1>7, <2>2 DEF Park, ExchangeType, StepIDOrNone
  <2>4. \A s \in StepIDs : answered'[s] # 0 => s <= visits' /\ s # parked'
    BY <1>7, <2>1 DEF Park, StepsOK
  <2>5. \A h \in Workers : worker[h].step \in Nat
    BY DEF ExchangeType, WorkerState, StepIDOrNone, StepIDs
  <2>6. \A h \in Workers : worker'[h].step <= visits'
    BY <1>7, <2>1, <2>5 DEF Park, StepsOK
  <2>7. StepsOK'
    BY <1>7, <2>1, <2>4, <2>6 DEF Park, StepsOK
  <2> QED
    BY <1>1, <2>3, <2>7
<1> QED
  BY <1>2, <1>3, <1>4, <1>5, <1>6, <1>7 DEF Dispatch

\* A decision is for good: what was issued stays issued.
LEMMA DecideInv ==
  ASSUME ExchangeInv, NEW d \in Dispatches, NEW o \in {"integrated", "failed"}, Decide(d, o)
  PROVE  ExchangeInv' /\ \A e \in Dispatches : outcome[e] # "none" => outcome'[e] = outcome[e]
<1> USE DEF ExchangeInv, Decide
<1>1. ExchangeType'
  BY DEF ExchangeType
<1>2. StepsOK'
  BY DEF StepsOK
<1>3. \A e \in Dispatches : outcome[e] # "none" => outcome'[e] = outcome[e]
  BY DEF ExchangeType
<1>4. CallbacksIssued'
  BY <1>3 DEF CallbacksIssued, Issued, Integrated, Callbacks, Answered, ExchangeType
<1> QED
  BY <1>1, <1>2, <1>3, <1>4

\* A worker takes a callback: one that Customs issued, or one that is held.
LEMMA DeliverInv ==
  ASSUME ExchangeInv, NEW h \in Workers, NEW cb \in Callbacks, Deliver(h, cb) \/ Retry(h, cb)
  PROVE  ExchangeInv' /\ \E b \in BOOLEAN :
           worker' = [worker EXCEPT ![h] = [pc |-> "read", cb |-> cb, step |-> 0, retry |-> b]]
<1> USE DEF ExchangeInv
<1>1. PICK b \in BOOLEAN :
        worker' = [worker EXCEPT ![h] = [pc |-> "read", cb |-> cb, step |-> 0, retry |-> b]]
  BY DEF Deliver, Retry
<1>2. ExchangeType'
  <2>1. worker' \in [Workers -> WorkerState]
    BY <1>1 DEF ExchangeType, WorkerState, StepIDOrNone
  <2>2. sends' \in [Callbacks -> 0 .. MaxSends]
    BY BoundsAssumption DEF Deliver, Retry, ExchangeType
  <2> QED
    BY <2>1, <2>2 DEF Deliver, Retry, ExchangeType
<1>3. StepsOK'
  <2>1. /\ \A g \in Workers \ {h} : worker'[g] = worker[g]
        /\ worker'[h].step = 0 /\ worker'[h].pc = "read"
    BY <1>1 DEF ExchangeType
  <2>2. 0 <= visits
    BY DEF ExchangeType, StepIDOrNone, StepIDs
  <2> QED
    BY <2>1, <2>2 DEF Deliver, Retry, StepsOK
<1>4. CallbacksIssued'
  BY <1>1 DEF Deliver, Retry, CallbacksIssued, Issued, Integrated, ExchangeType, Answered
<1> QED
  BY <1>1, <1>2, <1>3, <1>4

\* A worker that ends, where nothing else of the exchange changes.
LEMMA EndInv ==
  ASSUME ExchangeInv, NEW h \in Workers, worker[h].pc # "idle", Done(h) \/ Early(h) \/ Refused(h),
         UNCHANGED <<flowVars, edgeVars, answered>>, notices' \subseteq Callbacks,
         faults' \in 0 .. MaxFaults
  PROVE  ExchangeInv'
<1> USE DEF ExchangeInv
<1>1. ExchangeType'
  BY WorkerEnds DEF ExchangeType
<1>2. worker' = [worker EXCEPT ![h] = Idle] /\ held' \subseteq held \cup {worker[h].cb}
  BY WorkerEnds
<1>3. StepsOK'
  BY <1>2 DEF StepsOK, ExchangeType, Idle, StepIDOrNone, StepIDs
<1>4. CallbacksIssued'
  BY <1>2 DEF CallbacksIssued, Issued, Integrated, ExchangeType, Idle, Answered
<1> QED
  BY <1>1, <1>3, <1>4

\* A worker that goes on with a step it has found.
LEMMA GoInv ==
  ASSUME ExchangeInv, NEW h \in Workers, worker[h].pc # "idle", NEW pc, NEW step, Goto(h, pc, step),
         pc \in {"find", "complete", "release", "free", "update"}, step \in StepIDOrNone, step <= visits,
         pc \in {"complete", "free"} => step # 0,
         UNCHANGED <<flowVars, edgeVars, answered, notices, faults>>
  PROVE  ExchangeInv'
<1> USE DEF ExchangeInv
<1>1. /\ worker' \in [Workers -> WorkerState]
      /\ worker'[h].pc = pc /\ worker'[h].step = step /\ worker'[h].cb = worker[h].cb
      /\ \A g \in Workers \ {h} : worker'[g] = worker[g]
      /\ acked' = acked /\ held' = held
  <2>1. worker \in [Workers -> WorkerState]
    BY DEF ExchangeType
  <2> HIDE DEF ExchangeInv
  <2> QED
    BY <2>1 DEF Goto, WorkerState
<1>2. ExchangeType'
  BY <1>1 DEF ExchangeType
<1>3. StepsOK'
  BY <1>1 DEF StepsOK
<1>4. CallbacksIssued'
  BY <1>1 DEF CallbacksIssued, Issued, Integrated, Answered
<1> QED
  BY <1>2, <1>3, <1>4

\* A worker completes the step that is parked, and nothing is parked any more.
LEMMA ResumeInv ==
  ASSUME ExchangeInv, NEW h \in Workers, worker[h].pc \in {"complete", "free"}, NEW next,
         Resume(worker[h].cb, worker[h].step, next), Done(h) \/ Goto(h, "update", worker[h].step),
         UNCHANGED <<visits, sent, waiting, edgeVars, notices, faults>>
  PROVE  /\ ExchangeInv'
         /\ worker[h].cb.kind = "result" =>
              answered' = [answered EXCEPT ![worker[h].step] = worker[h].cb.dispatch]
         /\ \A d \in Dispatches : Answered(d) => Answered(d)'
<1> USE DEF ExchangeInv
<1>1. worker[h].cb \in Callbacks /\ worker[h].cb.dispatch \in Dispatches
  BY WorkersCallback DEF Callbacks
<1>2. worker[h].step \in StepIDs /\ worker[h].step <= visits /\ worker[h].step = parked
  BY DEF ExchangeType, WorkerState, StepIDOrNone, StepsOK, Resume
<1>3. /\ worker' \in [Workers -> WorkerState]
      /\ acked' \subseteq Callbacks /\ held' \subseteq held \cup {worker[h].cb}
      /\ worker'[h].step <= visits /\ worker'[h].pc \in {"idle", "update"}
      /\ worker'[h].pc # "idle" => worker'[h].cb = worker[h].cb
      /\ \A g \in Workers \ {h} : worker'[g] = worker[g]
  <2>1. CASE Done(h)
    BY <2>1, WorkerEnds DEF Idle, ExchangeType, StepIDOrNone, StepIDs
  <2>2. CASE Goto(h, "update", worker[h].step)
    <3>1. /\ worker \in [Workers -> WorkerState]
          /\ acked \subseteq Callbacks /\ held \subseteq Callbacks
          /\ worker[h].step \in StepIDOrNone
      BY <1>2 DEF ExchangeType, StepIDOrNone
    <3> HIDE DEF ExchangeInv
    <3> QED
      BY <2>2, <3>1, <1>2 DEF Goto, WorkerState
  <2> QED
    BY <2>1, <2>2
<1>4. answered' \in [StepIDs -> 0 .. MaxDispatches]
  <2>1. worker[h].cb.dispatch \in 0 .. MaxDispatches
    BY <1>1 DEF Dispatches
  <2>2. answered' = answered \/ answered' = [answered EXCEPT ![worker[h].step] = worker[h].cb.dispatch]
    BY DEF Resume
  <2> QED
    BY <2>1, <2>2 DEF ExchangeType
<1>5. ExchangeType'
  BY <1>1, <1>3, <1>4 DEF ExchangeType, Resume, StepIDOrNone
<1>6. StepsOK'
  <2>1. /\ UNCHANGED visits /\ parked' = 0
        /\ \A s \in StepIDs : answered'[s] # 0 => s = worker[h].step \/ answered[s] # 0
    BY <1>2 DEF Resume, ExchangeType
  <2>2. \A s \in StepIDs : answered'[s] # 0 => s <= visits' /\ s # parked'
    BY <1>2, <2>1 DEF StepsOK, StepIDs
  <2>3. \A g \in Workers : /\ worker'[g].step <= visits'
                           /\ worker'[g].pc \in {"complete", "free"} => worker'[g].step # 0
    BY <1>3, <2>1 DEF StepsOK
  <2> QED
    BY <2>1, <2>2, <2>3 DEF StepsOK
<1>7. CallbacksIssued'
  <2>1. \A g \in Workers : (worker[g].pc # "idle" => Issued(worker[g].cb))'
    BY <1>3 DEF CallbacksIssued, Issued, Integrated
  <2>2. \A cb \in held' : Issued(cb)'
    BY <1>3 DEF CallbacksIssued, Issued, Integrated
  <2>3. outcome[worker[h].cb.dispatch] # "none"
    BY DEF CallbacksIssued, Issued
  <2>4. \A d \in Dispatches : Answered(d)' => Answered(d) \/ d = worker[h].cb.dispatch
    <3>1. \A s \in StepIDs : answered'[s] \in {answered[s], worker[h].cb.dispatch}
      BY <1>2 DEF Resume, ExchangeType
    <3> QED
      BY <3>1 DEF Answered
  <2> QED
    BY <2>1, <2>2, <2>3, <2>4 DEF CallbacksIssued
<1>8. \A d \in Dispatches : Answered(d) => Answered(d)'
  <2>1. answered[worker[h].step] = 0
    BY <1>2 DEF StepsOK
  <2>2. \A s \in StepIDs : answered[s] # 0 => answered'[s] = answered[s]
    BY <1>2, <2>1 DEF Resume, ExchangeType
  <2> QED
    BY <2>2 DEF Answered, Dispatches
<1> QED
  BY <1>5, <1>6, <1>7, <1>8 DEF Resume

\* Giving up and a restart only forget.
LEMMA ForgetInv ==
  ASSUME ExchangeInv, (\E cb \in Callbacks : GiveUp(cb)) \/ Restart
  PROVE  /\ ExchangeInv'
         /\ \A h \in Workers : worker'[h] \in {worker[h], Idle}
<1> USE BoundsAssumption DEF ExchangeInv, Fault
<1>1. CASE \E cb \in Callbacks : GiveUp(cb)
  <2>1. held' \subseteq held /\ UNCHANGED <<row, flowVars, edgeVars, acked, worker, notices, answered>>
    BY <1>1 DEF GiveUp
  <2>2. ExchangeType'
    BY <1>1, <2>1 DEF GiveUp, ExchangeType
  <2>3. StepsOK'
    BY <2>1 DEF StepsOK
  <2>4. CallbacksIssued'
    BY <2>1 DEF CallbacksIssued, Issued, Integrated, Answered
  <2> QED
    BY <2>1, <2>2, <2>3, <2>4
<1>2. CASE Restart
  <2>1. Idle \in WorkerState
    BY DEF Idle, WorkerState, StepIDOrNone
  <2>2. ExchangeType' /\ worker' = [h \in Workers |-> Idle]
    BY <1>2, <2>1 DEF Restart, ExchangeType
  <2>3. StepsOK'
    BY <1>2 DEF Restart, StepsOK, Idle, ExchangeType, StepIDOrNone, StepIDs
  <2>4. CallbacksIssued'
    <3>1. \A d \in Dispatches : Answered(d)' = Answered(d) /\ outcome' = outcome
      BY <1>2 DEF Restart, Answered
    <3>2. held' = {} /\ \A h \in Workers : worker'[h].pc = "idle"
      BY <1>2 DEF Restart, Idle
    <3> QED
      BY <3>1, <3>2 DEF CallbacksIssued
  <2> QED
    BY <2>2, <2>3, <2>4
<1> QED
  BY <1>1, <1>2
=============================================================================
