---------------------------- MODULE EdgeExchange ----------------------------
(***************************************************************************)
(* external-integration/customs/asycuda: what the declarations (Cusdec)    *)
(* and the dispatch notes (DispatchNote) share. A step of a workflow       *)
(* dispatches a document to SLC Edge and the workflow waits for Customs'   *)
(* callbacks, the integration result first. They reach POST /webhooks/slce *)
(* at least once and in any order; one that is early is answered 202 and   *)
(* held in this process for retry.                                         *)
(*                                                                         *)
(* A worker is one goroutine that runs a callback through a service: an    *)
(* HTTP request, or a retry of a held callback. What it has read is in     *)
(* worker[h]; nothing locks a row between a read and the write after it.   *)
(***************************************************************************)
EXTENDS Integers

CONSTANTS
  Workers,       \* goroutines that process callbacks
  Kinds,         \* the callbacks Customs sends, "result" among them
  MaxDispatches, \* bound on submissions; the n-th one accepted has edgeId n
  MaxSends,      \* how often SLC Edge sends a callback that is not acknowledged
  FaultSites,    \* where calls may fail
  MaxFaults      \* bound on calls that fail

Dispatches == 1 .. MaxDispatches
Callbacks == [kind : Kinds, dispatch : Dispatches]

ASSUME BoundsAssumption ==
  MaxDispatches \in Nat \ {0} /\ MaxSends \in Nat \ {0} /\ MaxFaults \in Nat

VARIABLES
  row,      \* the status of each dispatch's row, "none" before it is recorded
  at,       \* the step the workflow is on: a wait is named for the callback it is for
  parked,   \* the ID of the step that is parked, 0 when none is
  visits,   \* steps parked so far
  sent,     \* submissions that SLC Edge has accepted
  outcome,  \* what Customs made of each dispatch
  sends,    \* how often each callback has been sent
  acked,    \* the callbacks SLC Edge has had a 2xx for
  held,     \* the callbacks held for retry
  worker,   \* what each worker is doing
  notices,  \* the notice flows opened on the case
  waiting,  \* the dispatch that each result's wait was parked for
  answered, \* the dispatch whose result completed each wait, 0 for none
  faults    \* calls that have failed

flowVars == <<at, parked, visits, sent, waiting>>
edgeVars == <<outcome, sends>>
replyVars == <<acked, held, worker, notices>>
exchangeVars == <<row, flowVars, edgeVars, replyVars, answered, faults>>

\* At most three waits follow the result's.
StepIDs == 1 .. (MaxDispatches + 3)
StepIDOrNone == {0} \cup StepIDs

\* find and complete are taken for a callback that is new, release and free for one whose
\* row says that it has been applied.
NoCallback == [kind |-> "none", dispatch |-> 0]
Idle == [pc |-> "idle", cb |-> NoCallback, step |-> 0, retry |-> FALSE]
WorkerState == [pc : {"idle", "read", "find", "complete", "release", "free", "update"},
                cb : Callbacks \cup {NoCallback}, step : StepIDOrNone, retry : BOOLEAN]

Fault(site) == site \in FaultSites /\ faults < MaxFaults /\ faults' = faults + 1

----------------------------------------------------------------------------
(***************************************************************************)
(* The workflow: a form, the step that dispatches it, and the waits.       *)
(***************************************************************************)
\* The trader submits the form.
Submit ==
  /\ at = "form"
  /\ at' = "send"
  /\ UNCHANGED <<row, parked, visits, sent, waiting, edgeVars, replyVars, answered, faults>>

\* api_call: SLC Edge accepts the document under a new edgeId.
Send ==
  /\ at = "send"
  /\ sent < MaxDispatches
  /\ sent' = sent + 1
  /\ at' = "record"
  /\ UNCHANGED <<row, parked, visits, waiting, edgeVars, replyVars, answered, faults>>

\* The row RecordSubmitted leaves: ON CONFLICT DO NOTHING.
Recorded(s) == IF s = "none" THEN "SUBMITTED" ELSE s

\* RecordSubmitted, after which the workflow goes on to wait for the result.
Record ==
  /\ at = "record"
  /\ row' = [row EXCEPT ![sent] = Recorded(@)]
  /\ at' = "result"
  /\ UNCHANGED <<parked, visits, sent, waiting, edgeVars, replyVars, answered, faults>>

\* Every attempt to record fails; the step is not failed for it.
RecordFails ==
  /\ at = "record"
  /\ Fault("record")
  /\ at' = "result"
  /\ UNCHANGED <<row, parked, visits, sent, waiting, edgeVars, replyVars, answered>>

\* The process dies with the activity unfinished, and Temporal runs it again: the
\* document is sent a second time.
ActivityAgain ==
  /\ at = "record"
  /\ Fault("activity")
  /\ \E s \in {row[sent], Recorded(row[sent])} : row' = [row EXCEPT ![sent] = s]
  /\ at' = "send"
  /\ UNCHANGED <<parked, visits, sent, waiting, edgeVars, replyVars, answered>>

\* The workflow parks on the wait it has come to, under a new step ID.
Park ==
  /\ at \notin {"form", "send", "record", "done"}
  /\ parked = 0
  /\ visits + 1 \in StepIDs
  /\ visits' = visits + 1
  /\ parked' = visits + 1
  /\ waiting' = [waiting EXCEPT ![visits + 1] = IF at = "result" THEN sent ELSE 0]
  /\ UNCHANGED <<row, at, sent, edgeVars, replyVars, answered, faults>>

Dispatch == Submit \/ Send \/ Record \/ RecordFails \/ ActivityAgain \/ Park

----------------------------------------------------------------------------
(***************************************************************************)
(* Customs and SLC Edge.                                                   *)
(***************************************************************************)
Integrated(d) == outcome[d] = "integrated"
Issued(cb) ==
  /\ cb \in Callbacks
  /\ outcome[cb.dispatch] # "none"
  /\ cb.kind # "result" => Integrated(cb.dispatch)

\* Customs decides a document that SLC Edge has accepted.
Decide(d, o) ==
  /\ d <= sent
  /\ outcome[d] = "none"
  /\ outcome' = [outcome EXCEPT ![d] = o]
  /\ UNCHANGED <<row, flowVars, sends, replyVars, answered, faults>>

\* SLC Edge sends a callback until an answer reaches it: a repeat may come while an
\* earlier delivery is being served, or after it was answered.
Deliver(h, cb) ==
  /\ worker[h].pc = "idle"
  /\ Issued(cb) /\ sends[cb] < MaxSends
  /\ sends' = [sends EXCEPT ![cb] = @ + 1]
  /\ worker' = [worker EXCEPT ![h] = [pc |-> "read", cb |-> cb, step |-> 0, retry |-> FALSE]]
  /\ UNCHANGED <<row, flowVars, outcome, acked, held, notices, answered, faults>>

----------------------------------------------------------------------------
(***************************************************************************)
(* How a callback ends.                                                    *)
(***************************************************************************)
\* Applied, or found applied: a delivery is answered 2xx, a retry is over.
Done(h) ==
  /\ worker' = [worker EXCEPT ![h] = Idle]
  /\ IF worker[h].retry
     THEN held' = held \ {worker[h].cb} /\ UNCHANGED acked
     ELSE acked' = acked \cup {worker[h].cb} /\ UNCHANGED held

\* Mutant: a retry that is still early is given up.
EarlyDropped(h) ==
  /\ worker' = [worker EXCEPT ![h] = Idle]
  /\ IF worker[h].retry
     THEN held' = held \ {worker[h].cb} /\ UNCHANGED acked
     ELSE held' = held \cup {worker[h].cb} /\ acked' = acked \cup {worker[h].cb}
\* Early: a delivery is answered 202 and held, a retry waits for its next turn.
Early(h) ==
  /\ worker' = [worker EXCEPT ![h] = Idle]
  /\ held' = held \cup {worker[h].cb}
  /\ acked' = IF worker[h].retry THEN acked ELSE acked \cup {worker[h].cb}

\* Any other error: a delivery is answered 5xx, a retry waits for its next turn.
Refused(h) ==
  /\ worker' = [worker EXCEPT ![h] = Idle]
  /\ UNCHANGED <<held, acked>>

Goto(h, pc, step) ==
  /\ worker' = [worker EXCEPT ![h].pc = pc, ![h].step = step]
  /\ UNCHANGED <<held, acked>>

\* The read or write the worker is at fails.
Fail(h) ==
  /\ worker[h].pc # "idle"
  /\ Fault(worker[h].pc)
  /\ Refused(h)
  /\ UNCHANGED <<row, flowVars, edgeVars, notices, answered>>

\* The step parked on a wait, 0 when none is.
ParkedStep(wait) == IF at = wait THEN parked ELSE 0

\* CompleteTaskStep completes exactly the step that was found; the workflow goes on to next.
Resume(cb, step, next) ==
  /\ parked = step
  /\ at' = next
  /\ parked' = 0
  /\ answered' = IF cb.kind = "result" THEN [answered EXCEPT ![step] = cb.dispatch] ELSE answered

\* It is refused when the workflow has moved on from the step.
MovedOn(h, step) ==
  /\ parked # step
  /\ Refused(h)
  /\ UNCHANGED <<at, parked, answered>>

----------------------------------------------------------------------------
(***************************************************************************)
(* callbackRetries.                                                        *)
(***************************************************************************)
Retrying(cb) == \E h \in Workers : worker[h].retry /\ worker[h].cb = cb

\* A held callback is applied again, exactly as it arrived.
Retry(h, cb) ==
  /\ worker[h].pc = "idle"
  /\ cb \in held /\ ~Retrying(cb)
  /\ worker' = [worker EXCEPT ![h] = [pc |-> "read", cb |-> cb, step |-> 0, retry |-> TRUE]]
  /\ UNCHANGED <<row, flowVars, edgeVars, acked, held, notices, answered, faults>>

\* The window has passed since the callback was held.
GiveUp(cb) ==
  /\ cb \in held /\ ~Retrying(cb)
  /\ Fault("window")
  /\ held' = held \ {cb}
  /\ UNCHANGED <<row, flowVars, edgeVars, acked, worker, notices, answered>>

\* A restart drops what the process was doing and the callbacks it held.
Restart ==
  /\ Fault("restart")
  /\ worker' = [h \in Workers |-> Idle]
  /\ held' = {}
  /\ UNCHANGED <<row, flowVars, edgeVars, acked, notices, answered>>

----------------------------------------------------------------------------
ExchangeInit ==
  /\ row = [d \in Dispatches |-> "none"]
  /\ at = "form" /\ parked = 0 /\ visits = 0 /\ sent = 0
  /\ outcome = [d \in Dispatches |-> "none"]
  /\ sends = [cb \in Callbacks |-> 0]
  /\ acked = {} /\ held = {} /\ notices = {}
  /\ worker = [h \in Workers |-> Idle]
  /\ waiting = [s \in StepIDs |-> 0]
  /\ answered = [s \in StepIDs |-> 0]
  /\ faults = 0

\* Everything but the processing of a callback and the order Customs sends them in.
ExchangeStep ==
  \/ Dispatch
  \/ \E d \in Dispatches, o \in {"integrated", "failed"} : Decide(d, o)
  \/ \E h \in Workers : Fail(h) \/ \E cb \in Callbacks : Retry(h, cb)
  \/ \E cb \in Callbacks : GiveUp(cb)
  \/ Restart

ExchangeType ==
  /\ parked \in StepIDOrNone
  /\ visits \in StepIDOrNone /\ sent \in 0 .. MaxDispatches
  /\ outcome \in [Dispatches -> {"none", "integrated", "failed"}]
  /\ sends \in [Callbacks -> 0 .. MaxSends]
  /\ acked \subseteq Callbacks /\ held \subseteq Callbacks /\ notices \subseteq Callbacks
  /\ worker \in [Workers -> WorkerState]
  /\ waiting \in [StepIDs -> 0 .. MaxDispatches]
  /\ answered \in [StepIDs -> 0 .. MaxDispatches]
  /\ faults \in 0 .. MaxFaults
=============================================================================
