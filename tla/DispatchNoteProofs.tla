------------------------- MODULE DispatchNoteProofs -------------------------
(***************************************************************************)
(* Theorems about DispatchNote: with any number of workers, dispatches,    *)
(* repeats, faults and restarts, a note only moves forward, a branch has   *)
(* one registered note, and it was told what its note records.             *)
(***************************************************************************)
EXTENDS EdgeExchangeProofs, DispatchNote

----------------------------------------------------------------------------
(***************************************************************************)
(* The inductive invariant.                                                *)
(***************************************************************************)
\* The note whose integration released the branch to the wait for its acknowledgment.
Won(d) == Answered(d) /\ Integrated(d)

\* There is one such note at most, and none while the branch may still release another.
OneWinner ==
  /\ \A d \in Dispatches : Won(d) => at \in {"acknowledged", "done"}
  /\ \A d, e \in Dispatches : Won(d) /\ Won(e) => d = e

\* A row records what Customs made of its note, once the branch has been told of it.
RowsOK ==
  \A d \in Dispatches :
    /\ row[d] = "FAILED" => Answered(d) /\ ~Integrated(d)
    /\ Registered(d) => Won(d)
    /\ row[d] = "ACKNOWLEDGED" => told = "acknowledged"
    /\ row[d] = "CANCELLED" => told # "none"

ToldOK == told = "none" <=> at # "done"

\* A worker past its read is at work on a callback whose row it has seen, and the step it
\* holds, while still parked, is on the wait of that callback.
Past(h) == worker[h].pc \notin {"idle", "read"}
WorkerOK(h) ==
  LET cb == worker[h].cb IN
  /\ Past(h) => /\ cb.kind # "amended"
                /\ cb.kind = "result" => row[cb.dispatch] # "none"
                /\ cb.kind # "result" => Registered(cb.dispatch)
  /\ worker[h].pc \in {"complete", "free"} /\ worker[h].step = parked => at = WaitFor(cb.kind)
WorkersOK == \A h \in Workers : WorkerOK(h)

\* A worker that is about to save has released the wait and nothing was saved since.
Saves(h, kind) == worker[h].pc = "update" /\ worker[h].cb.kind = kind
SaveOK(h) ==
  LET d == worker[h].cb.dispatch IN
  /\ Saves(h, "result") => Answered(d) /\ (Integrated(d) => row[d] = "SUBMITTED")
  /\ Saves(h, "acknowledged") => told = "acknowledged" /\ row[d] = "INTEGRATED"
  /\ Saves(h, "cancelled") => told = "cancelled" \/ row[d] \in {"ACKNOWLEDGED", "CANCELLED"}
SavesOK == \A h \in Workers : SaveOK(h)

\* No two workers are about to save the same thing, but for repeats of a failure or of a
\* cancellation.
SavesUnique ==
  \A g, h \in Workers :
    /\ Saves(g, "result") /\ Integrated(worker[g].cb.dispatch)
         /\ Saves(h, "result") /\ Integrated(worker[h].cb.dispatch) => g = h
    /\ Saves(g, "acknowledged") /\ Saves(h, "acknowledged") => g = h

NoteInv == OneWinner /\ RowsOK /\ ToldOK /\ WorkersOK /\ SavesOK /\ SavesUnique
IInv == TypeOK /\ StepsOK /\ CallbacksIssued /\ NoteInv

USE DEF flowVars, edgeVars, replyVars

\* What the note's exchange shares with the declaration's holds of it.
LEMMA ExchangeInvFollows == IInv => ExchangeInv
BY DEF IInv, TypeOK, ExchangeInv

----------------------------------------------------------------------------
(***************************************************************************)
(* The steps.                                                              *)
(***************************************************************************)
\* A branch that has not started has nothing to its name.
LEMMA InitInv == Init => IInv
<1> SUFFICES ASSUME Init PROVE IInv
  OBVIOUS
<1>1. ExchangeInv
  BY ExchangeInitInv DEF Init
<1>2. TypeOK
  BY <1>1 DEF Init, ExchangeInit, TypeOK, ExchangeInv, Steps
<1>3. \A d \in Dispatches : ~Answered(d) /\ ~Registered(d) /\ row[d] = "none"
  BY DEF Init, ExchangeInit, Answered, Registered, Dispatches
<1>4. \A h \in Workers : worker[h].pc = "idle"
  BY DEF Init, ExchangeInit, Idle
<1>5. OneWinner /\ RowsOK
  BY <1>3 DEF OneWinner, RowsOK, Won
<1>6. ToldOK
  BY DEF Init, ExchangeInit, ToldOK
<1>7. WorkersOK /\ SavesOK /\ SavesUnique
  BY <1>4 DEF WorkersOK, WorkerOK, Past, SavesOK, SaveOK, SavesUnique, Saves
<1> QED
  BY <1>1, <1>2, <1>5, <1>6, <1>7 DEF IInv, NoteInv, ExchangeInv

\* A step that touches neither the branch nor a row, and takes no worker past its read.
LEMMA QuietStep ==
  ASSUME IInv, ExchangeInv', UNCHANGED <<row, told, at, parked, answered>>,
         \A d \in Dispatches : outcome[d] # "none" => outcome'[d] = outcome[d],
         \A h \in Workers : worker'[h] = worker[h] \/ worker'[h].pc \in {"idle", "read"}
  PROVE  IInv'
<1> USE DEF IInv, NoteInv
<1>1. TypeOK'
  BY DEF TypeOK, ExchangeInv
<1>2. \A d \in Dispatches : /\ Answered(d)' <=> Answered(d)
                            /\ Answered(d) => (Integrated(d)' <=> Integrated(d))
                            /\ Registered(d)' <=> Registered(d)
  BY DEF Answered, Integrated, Registered, CallbacksIssued
<1>3. \A d \in Dispatches : Won(d)' <=> Won(d)
  BY <1>2 DEF Won
<1>4. OneWinner'
  BY <1>3 DEF OneWinner
<1>5. RowsOK'
  BY <1>2, <1>3 DEF RowsOK
<1>6. ToldOK'
  BY DEF ToldOK
<1>7. \A h \in Workers : Past(h)' => worker'[h] = worker[h] /\ worker[h].cb.dispatch \in Dispatches
  BY ExchangeInvFollows, WorkersCallback DEF Past, Callbacks
<1>8. WorkersOK'
  BY <1>2, <1>7 DEF WorkersOK, WorkerOK, Past
<1>9. SavesOK'
  BY <1>2, <1>7 DEF SavesOK, SaveOK, Saves, Past
<1>10. SavesUnique'
  BY <1>2, <1>7 DEF SavesUnique, SavesOK, SaveOK, Saves, Past
<1> QED
  BY <1>1, <1>4, <1>5, <1>6, <1>8, <1>9, <1>10 DEF ExchangeInv

\* The steps up to the first wait, and parking: a row is at most recorded.
LEMMA DispatchStep ==
  ASSUME IInv, Dispatch, UNCHANGED told
  PROVE  IInv'
<1> USE DEF IInv, NoteInv
<1>1. ExchangeInv'
  BY ExchangeInvFollows, DispatchInv
<1>2. UNCHANGED <<worker, answered, outcome>>
  BY DEF Dispatch, Submit, Send, Record, RecordFails, ActivityAgain, Park
<1>3. \A d \in Dispatches :
        row'[d] = row[d] \/ (row[d] = "none" /\ row'[d] = "SUBMITTED")
  <2>1. row' = row \/ \E s \in {row[sent], Recorded(row[sent])} : row' = [row EXCEPT ![sent] = s]
    BY DEF Dispatch, Submit, Send, Record, RecordFails, ActivityAgain, Park
  <2>2. DOMAIN row = Dispatches
    BY DEF TypeOK
  <2> QED
    BY <2>1, <2>2 DEF Recorded
<1>4. \/ at' = at
      \/ at \in {"form", "send", "record"} /\ at' \in {"send", "record", "result"} /\ parked' = 0
  <2>1. Submit \/ Send \/ Record \/ RecordFails \/ ActivityAgain =>
          at \in {"form", "send", "record"} /\ at' \in {"send", "record", "result"} /\ parked' = parked
    BY DEF Submit, Send, Record, RecordFails, ActivityAgain
  <2>2. Park => at' = at
    BY DEF Park
  <2> QED
    BY <2>1, <2>2 DEF Dispatch, StepsOK
<1>5. \/ at' = at /\ parked' \in {parked, visits + 1}
      \/ parked' = 0
  BY <1>4 DEF Dispatch, Submit, Send, Record, RecordFails, ActivityAgain, Park, StepsOK
<1>6. TypeOK'
  <2>1. row' \in [Dispatches -> Statuses \cup {"none"}]
    BY <1>3 DEF Dispatch, Submit, Send, Record, RecordFails, ActivityAgain, Park, TypeOK, Statuses, Recorded
  <2>2. at' \in Steps
    BY <1>4 DEF TypeOK, Steps
  <2> QED
    BY <1>1, <2>1, <2>2 DEF TypeOK, ExchangeInv
<1>7. \A d \in Dispatches : /\ Answered(d)' <=> Answered(d)
                            /\ Integrated(d)' <=> Integrated(d)
                            /\ Won(d)' <=> Won(d)
                            /\ Registered(d)' <=> Registered(d)
  BY <1>2, <1>3 DEF Answered, Integrated, Registered, Won
<1>8. OneWinner'
  BY <1>4, <1>7 DEF OneWinner
<1>9. RowsOK'
  BY <1>3, <1>7 DEF RowsOK
<1>10. ToldOK'
  BY <1>4 DEF ToldOK
<1>11. \A h \in Workers : worker[h].pc # "idle" => worker[h].cb.dispatch \in Dispatches
  BY ExchangeInvFollows, WorkersCallback DEF Callbacks
<1>12. WorkersOK'
  <2>1. \A h \in Workers : worker[h].step \in Nat /\ worker[h].step <= visits /\ visits \in Nat
    BY DEF StepsOK, TypeOK, ExchangeType, WorkerState, StepIDOrNone, StepIDs
  <2>2. \A h \in Workers : worker[h].pc \in {"complete", "free"} /\ worker[h].step = parked' =>
          at' = at /\ parked' = parked
    BY <1>5, <2>1 DEF StepsOK
  <2> QED
    BY <1>2, <1>3, <1>7, <1>11, <2>2 DEF WorkersOK, WorkerOK, Past
<1>13. SavesOK'
  BY <1>2, <1>3, <1>7, <1>11 DEF SavesOK, SaveOK, Saves
<1>14. SavesUnique'
  BY <1>2, <1>7, <1>11 DEF SavesUnique, Saves
<1> QED
  BY <1>1, <1>6, <1>8, <1>9, <1>10, <1>12, <1>13, <1>14 DEF ExchangeInv

\* A worker sees its row: what it goes on to do, the row and the branch allow.
LEMMA ReadStep ==
  ASSUME IInv, NEW h \in Workers, Read(h)
  PROVE  IInv'
<1> DEFINE cb == worker[h].cb
           d == worker[h].cb.dispatch
<1> USE DEF IInv, NoteInv
<1>1. ExchangeInv /\ worker[h].pc = "read" /\ cb \in Callbacks /\ d \in Dispatches /\ cb.kind \in Kinds
  BY ExchangeInvFollows, WorkersCallback DEF Read, Callbacks
<1>2. CASE Done(h) \/ Early(h)
  <2>1. worker' = [worker EXCEPT ![h] = Idle]
    BY <1>1, <1>2, WorkerEnds
  <2>2. \A g \in Workers : worker'[g] = worker[g] \/ worker'[g].pc \in {"idle", "read"}
    BY <2>1 DEF TypeOK, ExchangeType, Idle
  <2>3. ExchangeInv'
    BY <1>1, <1>2, EndInv DEF Read, ExchangeInv, ExchangeType
  <2> QED
    BY <2>2, <2>3, QuietStep DEF Read
<1>3. CASE ~(Done(h) \/ Early(h))
  <2>1. PICK pc \in {"find", "release", "update"} :
          /\ Goto(h, pc, 0)
          /\ pc = "find" => Verdict(cb) = "apply"
          /\ pc = "release" => Verdict(cb) = "release"
          /\ pc = "update" => Verdict(cb) = "mark"
    BY <1>3 DEF Read
  <2>2. /\ \A g \in Workers \ {h} : worker'[g] = worker[g]
        /\ worker'[h].pc = pc /\ worker'[h].step = 0 /\ worker'[h].cb = cb
    BY <1>1, <2>1, WorkerGoes DEF StepIDOrNone
  <2>3. ExchangeInv'
    <3>1. 0 \in StepIDOrNone /\ 0 <= visits
      BY DEF TypeOK, ExchangeType, StepIDOrNone, StepIDs
    <3>2. pc \in {"find", "complete", "release", "free", "update"} /\ pc \notin {"complete", "free"}
      OBVIOUS
    <3>3. UNCHANGED <<flowVars, edgeVars, answered, notices, faults>> /\ worker[h].pc # "idle"
      BY <1>1 DEF Read
    <3> QED
      BY <1>1, <2>1, <3>1, <3>2, <3>3, GoInv
  <2>4. UNCHANGED <<row, at, parked, answered, outcome, told>>
    BY DEF Read
  <2>5. TypeOK'
    BY <2>3, <2>4 DEF TypeOK, ExchangeInv
  <2>6. OneWinner' /\ RowsOK' /\ ToldOK'
    BY <2>4 DEF OneWinner, RowsOK, ToldOK, Won, Answered, Integrated, Registered
  <2>7. /\ cb.kind # "amended"
        /\ cb.kind = "result" => row[d] # "none" /\ pc # "update"
        /\ cb.kind # "result" => Registered(d)
        /\ pc = "update" => cb.kind = "cancelled" /\ row[d] = "ACKNOWLEDGED"
    BY <1>1, <2>1, KindsAssumption
       DEF Read, Verdict, ResultVerdict, AckVerdict, CancelVerdict, Registered, TypeOK, Statuses
  <2>8. WorkersOK'
    BY <2>2, <2>4, <2>7 DEF WorkersOK, WorkerOK, Past, Registered
  <2>9. SavesOK'
    BY <2>2, <2>4, <2>7 DEF SavesOK, SaveOK, Saves, Answered, Integrated
  <2>10. SavesUnique'
    BY <2>2, <2>4, <2>7 DEF SavesUnique, Saves, Integrated
  <2> QED
    BY <2>3, <2>5, <2>6, <2>8, <2>9, <2>10 DEF ExchangeInv
<1> QED
  BY <1>2, <1>3

\* A worker that ends or fails leaves branch and row alone.
LEMMA EndStep ==
  ASSUME IInv, NEW h \in Workers, worker[h].pc # "idle", Done(h) \/ Early(h) \/ Refused(h),
         UNCHANGED <<row, flowVars, edgeVars, answered, told>>,
         notices' \subseteq Callbacks, faults' \in 0 .. MaxFaults
  PROVE  IInv'
<1>1. worker' = [worker EXCEPT ![h] = Idle]
  BY ExchangeInvFollows, WorkerEnds
<1>2. \A g \in Workers : worker'[g] = worker[g] \/ worker'[g].pc \in {"idle", "read"}
  BY <1>1 DEF IInv, TypeOK, ExchangeType, Idle
<1>3. ExchangeInv'
  BY ExchangeInvFollows, EndInv
<1> QED
  BY <1>2, <1>3, QuietStep

\* A worker that takes a callback has not read anything yet.
LEMMA TakeStep ==
  ASSUME IInv, NEW h \in Workers, NEW cb \in Callbacks,
         DeliverInTurn(h, cb) \/ (Retry(h, cb) /\ UNCHANGED told)
  PROVE  IInv'
<1>1. Deliver(h, cb) \/ Retry(h, cb)
  BY DEF DeliverInTurn
<1>2. ExchangeInv'
  BY <1>1, ExchangeInvFollows, DeliverInv
<1>3. PICK b \in BOOLEAN :
        worker' = [worker EXCEPT ![h] = [pc |-> "read", cb |-> cb, step |-> 0, retry |-> b]]
  BY <1>1, ExchangeInvFollows, DeliverInv
<1>4. \A g \in Workers : worker'[g] = worker[g] \/ worker'[g].pc \in {"idle", "read"}
  BY <1>3 DEF IInv, TypeOK, ExchangeType
<1>5. UNCHANGED <<row, told, at, parked, answered, outcome>>
  BY DEF DeliverInTurn, Deliver, Retry
<1> QED
  BY <1>2, <1>4, <1>5, QuietStep

\* A step that is found is parked on the wait of the callback.
LEMMA FindStep ==
  ASSUME IInv, NEW h \in Workers, Find(h)
  PROVE  IInv'
<1> DEFINE cb == worker[h].cb
           d == worker[h].cb.dispatch
           step == ParkedStep(WaitFor(cb.kind))
<1> USE DEF IInv, NoteInv
<1>1. ExchangeInv /\ worker[h].pc \in {"find", "release"} /\ worker[h].pc # "idle" /\ d \in Dispatches
  BY ExchangeInvFollows, WorkersCallback DEF Find, Callbacks
<1>2. CASE step = 0
  BY <1>1, <1>2, EndStep DEF Find, NotParked, TypeOK, ExchangeType
<1>3. CASE step # 0
  <2>1. at = WaitFor(cb.kind) /\ step = parked
    BY <1>3 DEF ParkedStep
  <2>2. PICK pc \in {"complete", "free"} : Goto(h, pc, step)
    BY <1>3 DEF Find
  <2>3. step \in StepIDOrNone /\ step <= visits
    BY <1>3, <2>1 DEF TypeOK, ExchangeType, StepsOK, StepIDOrNone, StepIDs
  <2> HIDE DEF step
  <2>4. /\ \A g \in Workers \ {h} : worker'[g] = worker[g]
        /\ worker'[h].pc = pc /\ worker'[h].step = step /\ worker'[h].cb = cb
    <3>1. pc \in {"find", "complete", "release", "free", "update"}
      OBVIOUS
    <3> QED
      BY <1>1, <2>2, <2>3, <3>1, WorkerGoes
  <2>5. UNCHANGED <<row, flowVars, edgeVars, notices, answered, faults, told>>
    BY DEF Find
  <2>6. ExchangeInv'
    BY <1>1, <1>3, <2>2, <2>3, <2>5, GoInv
  <2>7. TypeOK'
    BY <2>5, <2>6 DEF TypeOK, ExchangeInv
  <2>8. OneWinner' /\ RowsOK' /\ ToldOK'
    BY <2>5 DEF OneWinner, RowsOK, ToldOK, Won, Answered, Integrated, Registered
  <2>9. WorkersOK'
    BY <1>1, <2>1, <2>4, <2>5 DEF WorkersOK, WorkerOK, Past, Registered
  <2>10. SavesOK'
    BY <2>4, <2>5 DEF SavesOK, SaveOK, Saves, Answered, Integrated
  <2>11. SavesUnique'
    BY <2>4, <2>5 DEF SavesUnique, Saves, Integrated
  <2> QED
    BY <2>6, <2>7, <2>8, <2>9, <2>10, <2>11 DEF ExchangeInv
<1> QED
  BY <1>2, <1>3

\* The result's wait is released: no note has won the branch before.
LEMMA ReleaseResult ==
  ASSUME IInv, NEW h \in Workers, worker[h].cb.kind = "result", Complete(h), parked = worker[h].step
  PROVE  IInv'
<1> DEFINE cb == worker[h].cb
           d == worker[h].cb.dispatch
<1> USE DEF IInv, NoteInv
<1>1. ExchangeInv /\ worker[h].pc \in {"complete", "free"} /\ cb \in Callbacks /\ d \in Dispatches
  BY ExchangeInvFollows, WorkersCallback DEF Complete, Callbacks
<1>2. /\ Resume(cb, worker[h].step, After(cb))
      /\ UNCHANGED <<row, told, visits, sent, waiting, edgeVars, notices, faults>>
      /\ Done(h) \/ Goto(h, "update", worker[h].step)
  BY <1>1 DEF Complete, MovedOn
<1>3. ExchangeInv' /\ (\A e \in Dispatches : Answered(e) => Answered(e)')
  BY <1>1, <1>2, ResumeInv
<1>4. at = "result" /\ at' \in {"acknowledged", "form"} /\ (Integrated(d) => at' = "acknowledged")
  BY <1>1, <1>2 DEF WorkersOK, WorkerOK, WaitFor, Resume, After
<1>5. \A e \in Dispatches : ~Won(e) /\ ~Registered(e)
  BY <1>4 DEF OneWinner, RowsOK
<1>6. worker[h].step \in StepIDs
  BY <1>1 DEF TypeOK, ExchangeType, WorkerState, StepIDOrNone, StepsOK
<1>7. answered' = [answered EXCEPT ![worker[h].step] = d]
  BY <1>2 DEF Resume
<1>8. /\ \E s \in StepIDs : answered'[s] = d
      /\ \A e \in Dispatches : Answered(e)' => Answered(e) \/ e = d
  <2>1. answered'[worker[h].step] = d /\ \A s \in StepIDs : answered'[s] \in {answered[s], d}
    BY <1>6, <1>7 DEF TypeOK, ExchangeType
  <2> QED
    BY <1>6, <2>1 DEF Answered
<1>9. \A e \in Dispatches : Integrated(e)' <=> Integrated(e)
  BY <1>2 DEF Integrated
<1>10. \A e \in Dispatches : Won(e)' => e = d /\ Integrated(d)
  BY <1>5, <1>8, <1>9 DEF Won
<1>11. /\ \A g \in Workers \ {h} : worker'[g] = worker[g]
       /\ \/ worker'[h].pc = "idle"
          \/ worker'[h].pc = "update" /\ worker'[h].cb = cb
  <2>1. CASE Done(h)
    BY <1>1, <2>1, WorkerEnds DEF Idle, TypeOK, ExchangeType
  <2>2. CASE Goto(h, "update", worker[h].step)
    BY <1>1, <1>6, <2>2, WorkerGoes DEF StepIDOrNone
  <2> QED
    BY <1>2, <2>1, <2>2
<1>12. TypeOK'
  BY <1>2, <1>3, <1>4 DEF TypeOK, Steps, ExchangeInv
<1>13. OneWinner'
  BY <1>4, <1>10 DEF OneWinner
<1>14. RowsOK'
  BY <1>2, <1>3, <1>5, <1>9 DEF RowsOK, Registered
<1>15. ToldOK'
  BY <1>2, <1>4 DEF ToldOK
<1>16. WorkersOK'
  <2>1. parked' = 0
    BY <1>2 DEF Resume
  <2>2. \A g \in Workers : worker'[g].pc \in {"complete", "free"} => worker'[g].step # 0
    BY <1>3 DEF ExchangeInv, StepsOK
  <2> QED
    BY <1>1, <1>2, <1>11, <2>1, <2>2 DEF WorkersOK, WorkerOK, Past, Registered
<1>17. \A g \in Workers : ~Saves(g, "acknowledged") /\ ~Saves(g, "cancelled")
  BY <1>5, WorkersCallback, ExchangeInvFollows DEF WorkersOK, WorkerOK, Past, Saves, Callbacks
<1>18. \A g \in Workers : Saves(g, "result") => ~Integrated(worker[g].cb.dispatch)
  BY <1>5, WorkersCallback, ExchangeInvFollows DEF SavesOK, SaveOK, Saves, Won, Callbacks
<1>19. Integrated(d) => row[d] = "SUBMITTED"
  BY <1>1, <1>5 DEF WorkersOK, WorkerOK, Past, RowsOK, Registered, TypeOK, Statuses
<1>20. SavesOK'
  <2>1. \A g \in Workers \ {h} : SaveOK(g)'
    BY <1>2, <1>3, <1>9, <1>11, <1>17, WorkersCallback, ExchangeInvFollows
       DEF SavesOK, SaveOK, Saves, Callbacks
  <2>2. SaveOK(h)'
    BY <1>1, <1>2, <1>8, <1>9, <1>11, <1>19 DEF SaveOK, Saves, Answered
  <2> QED
    BY <2>1, <2>2 DEF SavesOK
<1>21. SavesUnique'
  BY <1>2, <1>9, <1>11, <1>17, <1>18 DEF SavesUnique, Saves, Integrated
<1> QED
  BY <1>3, <1>12, <1>13, <1>14, <1>15, <1>16, <1>20, <1>21 DEF ExchangeInv

\* The acknowledgment's wait is released: the branch had been told nothing, so that no
\* acknowledgment or cancellation is saved or about to be.
LEMMA ReleaseBranch ==
  ASSUME IInv, NEW h \in Workers, worker[h].cb.kind # "result", Complete(h), parked = worker[h].step
  PROVE  IInv'
<1> DEFINE cb == worker[h].cb
           d == worker[h].cb.dispatch
<1> USE DEF IInv, NoteInv
<1>1. /\ ExchangeInv /\ worker[h].pc \in {"complete", "free"} /\ cb \in Callbacks /\ d \in Dispatches
      /\ cb.kind \in {"acknowledged", "cancelled"}
  BY ExchangeInvFollows, WorkersCallback, KindsAssumption
     DEF Complete, Callbacks, WorkersOK, WorkerOK, Past
<1>2. /\ Resume(cb, worker[h].step, "done")
      /\ told' = cb.kind
      /\ UNCHANGED <<row, visits, sent, waiting, edgeVars, notices, faults, answered>>
      /\ Done(h) \/ Goto(h, "update", worker[h].step)
  BY <1>1 DEF Complete, MovedOn, After, Resume
<1>3. ExchangeInv'
  BY <1>1, <1>2, ResumeInv
<1>4. at = "acknowledged" /\ at' = "done" /\ parked' = 0
  BY <1>1, <1>2 DEF WorkersOK, WorkerOK, WaitFor, Resume
<1>5. told = "none" /\ \A e \in Dispatches : row[e] \notin {"ACKNOWLEDGED", "CANCELLED"}
  BY <1>4 DEF ToldOK, RowsOK
<1>6. \A e \in Dispatches : /\ Answered(e)' <=> Answered(e)
                            /\ Integrated(e)' <=> Integrated(e)
                            /\ Won(e)' <=> Won(e)
                            /\ Registered(e)' <=> Registered(e)
  BY <1>2 DEF Answered, Integrated, Won, Registered
<1>7. /\ \A g \in Workers \ {h} : worker'[g] = worker[g]
      /\ \/ worker'[h].pc = "idle"
         \/ worker'[h].pc = "update" /\ worker'[h].cb = cb
  <2>1. CASE Done(h)
    BY <1>1, <2>1, WorkerEnds DEF Idle, TypeOK, ExchangeType
  <2>2. CASE Goto(h, "update", worker[h].step)
    <3>1. worker \in [Workers -> WorkerState]
      BY DEF TypeOK, ExchangeType
    <3> QED
      BY <2>2, <3>1 DEF Goto, WorkerState
  <2> QED
    BY <1>2, <2>1, <2>2
<1>8. \A g \in Workers : worker[g].pc # "idle" => worker[g].cb.dispatch \in Dispatches
  BY ExchangeInvFollows, WorkersCallback DEF Callbacks
<1>9. TypeOK'
  BY <1>1, <1>2, <1>3, <1>4 DEF TypeOK, Steps, ExchangeInv
<1>10. OneWinner'
  BY <1>4, <1>6 DEF OneWinner
<1>11. RowsOK'
  BY <1>2, <1>5, <1>6 DEF RowsOK
<1>12. ToldOK'
  BY <1>1, <1>2, <1>4 DEF ToldOK
<1>13. WorkersOK'
  <2>1. \A g \in Workers : worker'[g].pc \in {"complete", "free"} => worker'[g].step # 0
    BY <1>3 DEF ExchangeInv, StepsOK
  <2> QED
    BY <1>1, <1>2, <1>4, <1>6, <1>7, <1>8, <2>1 DEF WorkersOK, WorkerOK, Past
<1>14. \A g \in Workers : ~Saves(g, "acknowledged") /\ ~Saves(g, "cancelled")
  BY <1>5, <1>8 DEF SavesOK, SaveOK, Saves
<1>15. row[d] = "INTEGRATED"
  BY <1>1, <1>5 DEF WorkersOK, WorkerOK, Past, Registered
<1>16. SavesOK'
  BY <1>1, <1>2, <1>6, <1>7, <1>8, <1>14, <1>15 DEF SavesOK, SaveOK, Saves
<1>17. SavesUnique'
  BY <1>1, <1>6, <1>7, <1>8, <1>14 DEF SavesUnique, Saves
<1> QED
  BY <1>3, <1>9, <1>10, <1>11, <1>12, <1>13, <1>16, <1>17 DEF ExchangeInv

\* The row is saved, by the one worker that may: the status goes forward.
LEMMA UpdateStep ==
  ASSUME IInv, NEW h \in Workers, Update(h)
  PROVE  /\ IInv'
         /\ \A d \in Dispatches : row'[d] = row[d] \/ Rank(row'[d]) > Rank(row[d])
<1> DEFINE cb == worker[h].cb
<1> USE DEF IInv, NoteInv
<1>1. PICK d \in Dispatches : d = cb.dispatch
  BY ExchangeInvFollows, WorkersCallback DEF Update, Callbacks
<1>2. PICK s : s = NewStatus(cb)
  OBVIOUS
<1>3. /\ ExchangeInv /\ worker[h].pc = "update" /\ Done(h)
      /\ UNCHANGED <<at, parked, visits, sent, waiting, outcome, sends, notices, answered, faults, told>>
      /\ cb.kind \in {"result", "acknowledged", "cancelled"}
  BY ExchangeInvFollows, WorkersCallback, KindsAssumption DEF Update, Callbacks, WorkersOK, WorkerOK, Past
<1>4. row'[d] = s /\ \A e \in Dispatches \ {d} : row'[e] = row[e]
  BY <1>1, <1>2 DEF Update, TypeOK
<1>5. worker'[h].pc = "idle" /\ \A g \in Workers \ {h} : worker'[g] = worker[g]
  BY <1>3, WorkerEnds DEF TypeOK, ExchangeType, Idle
<1>6. ExchangeInv'
  BY <1>3, EndInv DEF ExchangeInv, ExchangeType
<1>7. \A e \in Dispatches : /\ Answered(e)' <=> Answered(e)
                            /\ Integrated(e)' <=> Integrated(e)
                            /\ Won(e)' <=> Won(e)
  BY <1>3 DEF Answered, Integrated, Won
<1>8. \A g \in Workers : worker[g].pc # "idle" => worker[g].cb.dispatch \in Dispatches
  BY ExchangeInvFollows, WorkersCallback DEF Callbacks
<1>9. \/ cb.kind = "result" /\ Integrated(d) /\ s = "INTEGRATED" /\ row[d] = "SUBMITTED" /\ Won(d)
      \/ cb.kind = "result" /\ ~Integrated(d) /\ s = "FAILED" /\ row[d] \in {"SUBMITTED", "FAILED"} /\ Answered(d)
      \/ cb.kind = "acknowledged" /\ s = "ACKNOWLEDGED" /\ row[d] = "INTEGRATED" /\ told = "acknowledged" /\ Won(d)
      \/ cb.kind = "cancelled" /\ s = "CANCELLED" /\ Registered(d) /\ told # "none" /\ Won(d)
  BY <1>1, <1>2, <1>3
     DEF NewStatus, WorkersOK, WorkerOK, Past, SavesOK, SaveOK, Saves, RowsOK, Won, Registered, TypeOK, Statuses
<1>10. TypeOK'
  <2>1. s \in Statuses \cup {"none"}
    BY <1>9 DEF Statuses
  <2>2. row' \in [Dispatches -> Statuses \cup {"none"}]
    BY <1>1, <1>2, <2>1 DEF Update, TypeOK
  <2> QED
    BY <1>3, <1>6, <2>2 DEF TypeOK, ExchangeInv
<1>11. OneWinner' /\ ToldOK'
  BY <1>3, <1>7 DEF OneWinner, ToldOK
<1>12. RowsOK'
  BY <1>3, <1>4, <1>7, <1>9 DEF RowsOK, Registered
<1>13. WorkersOK'
  BY <1>3, <1>4, <1>5, <1>8, <1>9 DEF WorkersOK, WorkerOK, Past, Registered, RowsOK, Won
<1>14. \A g \in Workers \ {h} :
         /\ Saves(g, "result") /\ Integrated(worker[g].cb.dispatch) => worker[g].cb.dispatch # d
         /\ Saves(g, "acknowledged") => worker[g].cb.dispatch # d
  <2> SUFFICES ASSUME NEW g \in Workers \ {h}, worker[g].pc = "update", worker[g].cb.dispatch = d
               PROVE  /\ ~(worker[g].cb.kind = "result" /\ Integrated(d))
                      /\ worker[g].cb.kind # "acknowledged"
    BY DEF Saves
  <2>1. worker[g].cb.kind = "result" /\ Integrated(d) => row[d] = "SUBMITTED" /\ cb.kind # "result"
    BY <1>1, <1>3 DEF SavesOK, SaveOK, SavesUnique, Saves
  <2>2. worker[g].cb.kind = "acknowledged" =>
          row[d] = "INTEGRATED" /\ told = "acknowledged" /\ cb.kind # "acknowledged"
    BY <1>3 DEF SavesOK, SaveOK, SavesUnique, Saves
  <2>3. cb.kind = "cancelled" => told = "cancelled" \/ row[d] \in {"ACKNOWLEDGED", "CANCELLED"}
    BY <1>1, <1>3 DEF SavesOK, SaveOK, Saves
  <2> QED
    BY <1>9, <2>1, <2>2, <2>3 DEF Registered
<1>15. SavesOK'
  <2> SUFFICES ASSUME NEW g \in Workers \ {h}, worker[g].pc = "update" PROVE SaveOK(g)'
    BY <1>5 DEF SavesOK, SaveOK, Saves
  <2>1. SaveOK(g) /\ worker'[g] = worker[g] /\ worker[g].cb.dispatch \in Dispatches
    BY <1>5, <1>8 DEF SavesOK
  <2>2. worker[g].cb.dispatch = d /\ worker[g].cb.kind = "cancelled" =>
          told = "cancelled" \/ s \in {"ACKNOWLEDGED", "CANCELLED"}
    BY <1>9, <2>1 DEF SaveOK, Saves
  <2> QED
    BY <1>3, <1>4, <1>7, <1>14, <2>1, <2>2 DEF SaveOK, Saves
<1>16. SavesUnique'
  BY <1>5, <1>7, <1>8 DEF SavesUnique, Saves
<1>17. row'[d] = row[d] \/ Rank(row'[d]) > Rank(row[d])
  BY <1>4, <1>9 DEF Rank, Registered
<1> QED
  BY <1>4, <1>6, <1>10, <1>11, <1>12, <1>13, <1>15, <1>16, <1>17 DEF ExchangeInv

\* Every step preserves the invariant, and no step takes a note backwards.
LEMMA NextInv == IInv /\ [Next]_vars => IInv'
<1> SUFFICES ASSUME IInv, [Next]_vars PROVE IInv'
  OBVIOUS
<1>1. CASE Dispatch /\ UNCHANGED told
  BY <1>1, DispatchStep
<1>2. ASSUME NEW d \in Dispatches, NEW o \in {"integrated", "failed"}, Decide(d, o), UNCHANGED told
      PROVE  IInv'
  <2>1. ExchangeInv' /\ \A e \in Dispatches : outcome[e] # "none" => outcome'[e] = outcome[e]
    BY <1>2, ExchangeInvFollows, DecideInv
  <2>2. UNCHANGED <<row, told, at, parked, answered, worker>>
    BY <1>2 DEF Decide
  <2> QED
    BY <2>1, <2>2, QuietStep
<1>3. ASSUME NEW h \in Workers, Fail(h), UNCHANGED told
      PROVE  IInv'
  <2>1. faults' \in 0 .. MaxFaults /\ notices' \subseteq Callbacks
    BY <1>3, BoundsAssumption DEF Fail, Fault, IInv, TypeOK, ExchangeType
  <2> QED
    BY <1>3, <2>1, EndStep DEF Fail
<1>4. ASSUME NEW h \in Workers, NEW cb \in Callbacks,
             DeliverInTurn(h, cb) \/ (Retry(h, cb) /\ UNCHANGED told)
      PROVE  IInv'
  BY <1>4, TakeStep
<1>5. CASE ((\E cb \in Callbacks : GiveUp(cb)) \/ Restart) /\ UNCHANGED told
  <2>1. ExchangeInv' /\ \A h \in Workers : worker'[h] \in {worker[h], Idle}
    BY <1>5, ExchangeInvFollows, ForgetInv
  <2>2. UNCHANGED <<row, told, at, parked, answered, outcome>>
    BY <1>5 DEF GiveUp, Restart
  <2> QED
    BY <2>1, <2>2, QuietStep DEF Idle
<1>6. ASSUME NEW h \in Workers, Process(h)
      PROVE  IInv'
  <2>1. CASE Read(h)
    BY <2>1, ReadStep
  <2>2. CASE Amend(h)
    <3>1. worker[h].pc # "idle" /\ (Done(h) \/ Early(h)) /\ notices' \subseteq Callbacks
      BY <2>2, WorkersCallback, ExchangeInvFollows DEF Amend, IInv, TypeOK, ExchangeType
    <3> QED
      BY <2>2, <3>1, EndStep DEF Amend, IInv, TypeOK, ExchangeType
  <2>3. CASE Find(h)
    BY <2>3, FindStep
  <2>4. CASE Complete(h) /\ parked = worker[h].step
    BY <2>4, ReleaseResult, ReleaseBranch
  <2>5. CASE Complete(h) /\ parked # worker[h].step
    BY <2>5, EndStep DEF Complete, Resume, MovedOn, IInv, TypeOK, ExchangeType
  <2>6. CASE Update(h)
    BY <2>6, UpdateStep
  <2> QED
    BY <1>6, <2>1, <2>2, <2>3, <2>4, <2>5, <2>6 DEF Process
<1>7. CASE UNCHANGED vars
  <2>1. ExchangeInv' /\ UNCHANGED <<row, told, at, parked, answered, outcome, worker>>
    BY <1>7, ExchangeInvFollows
       DEF vars, exchangeVars, ExchangeInv, ExchangeType, StepsOK, CallbacksIssued, Issued, Integrated, Answered
  <2> QED
    BY <2>1, QuietStep
<1> QED
  BY <1>1, <1>2, <1>3, <1>4, <1>5, <1>6, <1>7 DEF Next, ExchangeStep

\* No step takes a note backwards.
LEMMA ForwardStep ==
  ASSUME IInv, Next, NEW d \in Dispatches
  PROVE  row'[d] = row[d] \/ Rank(row'[d]) > Rank(row[d])
<1>1. row' = row \/ (\E h \in Workers : Update(h)) \/ Record \/ ActivityAgain
  BY DEF Next, ExchangeStep, Dispatch, Submit, Send, RecordFails, Park, Decide, Fail, Retry, GiveUp,
         Restart, Process, Read, Amend, Find, Complete, DeliverInTurn, Deliver
<1>2. CASE Record \/ ActivityAgain
  <2>1. \E s \in {row[sent], Recorded(row[sent])} : row' = [row EXCEPT ![sent] = s]
    BY <1>2 DEF Record, ActivityAgain
  <2>2. row'[d] = row[d] \/ (row[d] = "none" /\ row'[d] = "SUBMITTED")
    BY <2>1 DEF Recorded, IInv, TypeOK
  <2> QED
    BY <2>2 DEF Rank
<1> QED
  BY <1>1, <1>2, UpdateStep

----------------------------------------------------------------------------
(***************************************************************************)
(* What a 2xx promises.                                                    *)
(***************************************************************************)
\* A callback whose row says that it was applied has landed, and so has one that is done.
HeldInv ==
  /\ HeldOrLanded
  /\ \A h \in Workers : worker[h].pc \in {"release", "free"} => Landed(worker[h].cb)

\* What has landed stays landed.
LEMMA LandedStays ==
  ASSUME IInv, Next, NEW cb \in Callbacks, Landed(cb)
  PROVE  Landed(cb)'
<1>1. cb.dispatch \in Dispatches /\ cb.kind \in {"result", "acknowledged", "cancelled", "amended"}
  BY KindsAssumption DEF Callbacks
<1>2. /\ row[cb.dispatch] \in Statuses \cup {"none"}
      /\ row'[cb.dispatch] \in Statuses \cup {"none"}
  BY <1>1, NextInv DEF IInv, TypeOK
<1>3. row'[cb.dispatch] = row[cb.dispatch] \/ Rank(row'[cb.dispatch]) > Rank(row[cb.dispatch])
  BY <1>1, ForwardStep
<1>4. notices \subseteq notices'
  BY DEF Next, ExchangeStep, Dispatch, Submit, Send, Record, RecordFails, ActivityAgain, Park, Decide, Fail,
         Retry, GiveUp, Restart, Process, Read, Amend, Find, Complete, Update, DeliverInTurn, Deliver
<1> QED
  <2> DEFINE s == row[cb.dispatch]
             r == row'[cb.dispatch]
  <2>1. /\ s \notin {"none", "SUBMITTED"} => r \notin {"none", "SUBMITTED"}
        /\ s \in {"ACKNOWLEDGED", "CANCELLED"} => r \in {"ACKNOWLEDGED", "CANCELLED"}
        /\ s = "CANCELLED" => r = "CANCELLED"
    BY <1>2, <1>3 DEF Rank, Statuses
  <2> QED
    BY <1>1, <1>4, <2>1 DEF Landed

\* A worker may answer 2xx and be done once its callback has landed; until then a callback
\* that is early is held, and one that is refused is as before.
LEMMA WorkerHeldInv ==
  ASSUME IInv, HeldInv, Next, NEW h \in Workers, worker[h].pc # "idle",
         NEW cb \in Callbacks, cb = worker[h].cb,
         \/ Done(h) /\ Landed(cb)'
         \/ Early(h) \/ Refused(h)
         \/ \E pc \in {"find", "release", "complete", "free", "update"}, step \in StepIDOrNone :
              Goto(h, pc, step) /\ (pc \in {"release", "free"} => Landed(cb))
  PROVE  HeldInv'
<1>1. acked \subseteq Callbacks /\ worker \in [Workers -> WorkerState]
  BY DEF IInv, TypeOK, ExchangeType
<1>2. \A c \in Callbacks : Landed(c) => Landed(c)'
  BY LandedStays
<1>3. HeldOrLanded'
  <2>1. \A c \in acked' : c \in acked \/ (c = cb /\ (Landed(cb)' \/ cb \in held'))
    BY DEF Done, Early, Refused, Goto
  <2>2. \A c \in held : c \in held' \/ (c = cb /\ Landed(cb)')
    BY DEF Done, Early, Refused, Goto
  <2>3. \A c \in acked : c \in held \/ Landed(c)
    BY DEF HeldInv, HeldOrLanded
  <2> SUFFICES ASSUME NEW c \in acked' PROVE c \in held' \/ Landed(c)'
    BY DEF HeldOrLanded
  <2> QED
    BY <1>1, <1>2, <2>1, <2>2, <2>3
<1>4. ASSUME NEW g \in Workers, worker'[g].pc \in {"release", "free"}
      PROVE  Landed(worker[g].cb)'
  <2>1. worker[g].cb \in Callbacks /\ Landed(worker[g].cb) /\ worker'[g].cb = worker[g].cb
    <3>1. CASE g # h
      <4>1. worker'[g] = worker[g]
        BY <1>1, <3>1 DEF Done, Early, Refused, Goto
      <4> QED
        BY <1>4, <4>1, ExchangeInvFollows, WorkersCallback DEF HeldInv
    <3>2. CASE g = h
      <4>1. CASE Done(h) \/ Early(h) \/ Refused(h)
        BY <1>1, <1>4, <3>2, <4>1 DEF Done, Early, Refused, Idle
      <4>2. ASSUME NEW pc \in {"find", "release", "complete", "free", "update"},
                   NEW step \in StepIDOrNone, Goto(h, pc, step),
                   pc \in {"release", "free"} => Landed(cb)
            PROVE  worker[g].cb \in Callbacks /\ Landed(worker[g].cb) /\ worker'[g].cb = worker[g].cb
        BY <1>4, <3>2, <4>2, ExchangeInvFollows, WorkerGoes
      <4> QED
        BY <4>1, <4>2
    <3> QED
      BY <3>1, <3>2
  <2>2. PICK c \in Callbacks : c = worker[g].cb
    BY <2>1
  <2>3. Landed(c)' /\ c = worker'[g].cb
    BY <1>2, <2>1, <2>2
  <2> QED
    BY <2>3
<1> QED
  BY <1>3, <1>4 DEF HeldInv

\* No step loses a callback, unless the window passes or the process is restarted.
LEMMA HeldStep ==
  ASSUME IInv, HeldInv, [Next]_vars, FaultSites \cap {"window", "restart"} = {}
  PROVE  HeldInv'
<1>1. CASE UNCHANGED vars
  <2>1. UNCHANGED <<row, notices, acked, held, worker>>
    BY <1>1 DEF vars, exchangeVars
  <2>2. \A c : Landed(c)' = Landed(c)
    BY <2>1 DEF Landed
  <2> QED
    BY <2>1, <2>2 DEF HeldInv, HeldOrLanded
<1> SUFFICES ASSUME Next PROVE HeldInv'
  BY <1>1
<1>2. \A c \in Callbacks : Landed(c) => Landed(c)'
  BY LandedStays
<1>3. acked \subseteq Callbacks /\ worker \in [Workers -> WorkerState]
  BY DEF IInv, TypeOK, ExchangeType
<1>4. ASSUME UNCHANGED <<acked, held>>,
             \A h \in Workers : worker'[h] = worker[h] \/ worker'[h].pc = "read"
      PROVE  HeldInv'
  <2>1. HeldOrLanded'
    BY <1>2, <1>3, <1>4 DEF HeldInv, HeldOrLanded
  <2>2. ASSUME NEW g \in Workers, worker'[g].pc \in {"release", "free"}
        PROVE  Landed(worker[g].cb)'
    <3>1. worker'[g] = worker[g] /\ Landed(worker[g].cb) /\ worker[g].cb \in Callbacks
      BY <1>4, <2>2, ExchangeInvFollows, WorkersCallback DEF HeldInv
    <3>2. PICK c \in Callbacks : c = worker[g].cb
      BY <3>1
    <3>3. Landed(c)' /\ c = worker'[g].cb
      BY <1>2, <3>1, <3>2
    <3> QED
      BY <3>3
  <2> QED
    BY <2>1, <2>2 DEF HeldInv
<1>5. CASE Dispatch \/ \E d \in Dispatches, o \in {"integrated", "failed"} : Decide(d, o)
  BY <1>4, <1>5 DEF Dispatch, Submit, Send, Record, RecordFails, ActivityAgain, Park, Decide
<1>6. CASE \E h \in Workers, cb \in Callbacks : DeliverInTurn(h, cb) \/ Retry(h, cb)
  BY <1>3, <1>4, <1>6 DEF DeliverInTurn, Deliver, Retry
<1>7. CASE (\E cb \in Callbacks : GiveUp(cb)) \/ Restart
  BY <1>7 DEF GiveUp, Restart, Fault
<1>8. ASSUME NEW h \in Workers, Fail(h) \/ Process(h)
      PROVE  HeldInv'
  <2>1. worker[h].pc # "idle" /\ worker[h].cb \in Callbacks
    BY <1>8, ExchangeInvFollows, WorkersCallback DEF Fail, Process, Read, Amend, Find, Complete, Update
  <2>2. PICK cb \in Callbacks : cb = worker[h].cb
    BY <2>1
  <2>3. cb.dispatch \in Dispatches /\ cb.kind \in {"result", "acknowledged", "cancelled", "amended"}
    BY KindsAssumption DEF Callbacks
  <2>4. row[cb.dispatch] \in Statuses \cup {"none"}
    BY <2>3 DEF IInv, TypeOK
  <2>5. 0 \in StepIDOrNone /\ parked \in StepIDOrNone /\ worker[h].step \in StepIDOrNone
    BY <1>3 DEF IInv, TypeOK, ExchangeType, WorkerState, StepIDOrNone
  <2>6. CASE Fail(h)
    BY <2>1, <2>2, <2>6, WorkerHeldInv DEF Fail
  <2>7. CASE Read(h)
    <3>1. Verdict(cb) \in {"applied", "release"} => Landed(cb)
      BY <2>2, <2>3, <2>4, <2>7
         DEF Read, Verdict, ResultVerdict, AckVerdict, CancelVerdict, Registered, Landed, Statuses
    <3> QED
      BY <1>2, <2>1, <2>2, <2>5, <2>7, <3>1, WorkerHeldInv DEF Read
  <2>8. CASE Amend(h)
    BY <2>1, <2>2, <2>8, WorkerHeldInv DEF Amend, Landed
  <2>9. CASE Find(h)
    <3>1. worker[h].pc = "release" => Landed(cb)
      BY <2>2 DEF HeldInv
    <3> QED
      BY <1>2, <2>1, <2>2, <2>5, <2>9, <3>1, WorkerHeldInv DEF Find, NotParked, ParkedStep
  <2>10. CASE Complete(h)
    <3>1. worker[h].pc = "free" => Landed(cb)
      BY <2>2 DEF HeldInv
    <3> QED
      BY <1>2, <2>1, <2>2, <2>5, <2>10, <3>1, WorkerHeldInv DEF Complete, MovedOn
  <2>11. CASE Update(h)
    <3>1. row'[cb.dispatch] = NewStatus(cb) /\ cb.kind # "amended"
      BY <2>2, <2>3, <2>11 DEF Update, IInv, NoteInv, WorkersOK, WorkerOK, Past, TypeOK
    <3>2. Landed(cb)'
      BY <2>3, <3>1 DEF Landed, NewStatus
    <3> QED
      BY <2>1, <2>2, <2>11, <3>2, WorkerHeldInv DEF Update
  <2> QED
    BY <1>8, <2>6, <2>7, <2>8, <2>9, <2>10, <2>11 DEF Process
<1> QED
  BY <1>5, <1>6, <1>7, <1>8 DEF Next, ExchangeStep

----------------------------------------------------------------------------
(***************************************************************************)
(* The theorems.                                                           *)
(***************************************************************************)
\* The invariant holds of every state the exchange can reach.
THEOREM Invariance == Spec => []IInv
BY InitInv, NextInv, PTL DEF Spec

\* Every variable keeps its type.
THEOREM TypeCorrect == Spec => []TypeOK
<1>1. IInv => TypeOK
  BY DEF IInv
<1> QED
  BY <1>1, Invariance, PTL

\* The branch of a settled note is over and was told what the note records.
THEOREM SettledReleased == Spec => []SettledNotesReleased
<1>1. IInv => SettledNotesReleased
  BY DEF IInv, NoteInv, RowsOK, ToldOK, SettledNotesReleased, Registered, Won, Answered, TypeOK
<1> QED
  BY <1>1, Invariance, PTL

\* A branch never has two registered notes.
THEOREM OneRegistered == Spec => []OneRegisteredNote
<1>1. IInv => OneRegisteredNote
  BY DEF IInv, NoteInv, RowsOK, OneWinner, OneRegisteredNote
<1> QED
  BY <1>1, Invariance, PTL

\* A note's status only moves forward, whatever is processed at once.
THEOREM OnlyForward == Spec => NoteOnlyMovesForward
<1>1. IInv /\ [Next]_vars => [\A d \in Dispatches : row'[d] = row[d] \/ Rank(row'[d]) > Rank(row[d])]_vars
  BY ForwardStep
<1> QED
  BY <1>1, Invariance, PTL DEF Spec, NoteOnlyMovesForward

\* A callback answered 2xx is applied or still held, unless retries are given up when
\* their window passes or the process is restarted.
THEOREM CallbacksHeldOrLanded ==
  FaultSites \cap {"window", "restart"} = {} => (Spec => []HeldOrLanded)
<1> SUFFICES ASSUME FaultSites \cap {"window", "restart"} = {} PROVE Spec => []HeldOrLanded
  OBVIOUS
<1>1. Init => HeldInv
  BY DEF Init, ExchangeInit, HeldInv, HeldOrLanded, Idle
<1>2. IInv /\ HeldInv /\ [Next]_vars => HeldInv'
  BY HeldStep
<1>3. HeldInv => HeldOrLanded
  BY DEF HeldInv
<1> QED
  BY <1>1, <1>2, <1>3, Invariance, PTL DEF Spec
=============================================================================
