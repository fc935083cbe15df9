-------------------------- MODULE CaseFlowsProofs --------------------------
(***************************************************************************)
(* Proofs about CaseFlows, for every set of clients, cases and workflows,  *)
(* every assignment of requests and any number of faults.                  *)
(***************************************************************************)
EXTENDS CaseFlows, TLAPS

----------------------------------------------------------------------------
(***************************************************************************)
(* The inductive invariant. FinishedExact alone is not inductive: that a   *)
(* commit of Record leaves the case IN_PROGRESS, and a commit of           *)
(* MarkCompleted decided on the flows that are still there, rests on the   *)
(* locks each holds since it read the other's rows.                        *)
(***************************************************************************)
\* What a client holds between the statements of Record.
HoldsTx(p) ==
  /\ tx[p].case => pc[p] \in InTx /\ cases[CaseOf(p)] = "none"
  /\ tx[p].flow <=> pc[p] \in {"reopen", "commit"}
  /\ tx[p].flow => flows[WorkflowOf(p)] = None
  /\ tx[p].reopen => pc[p] = "commit"
  /\ pc[p] \in InTx => tx[p].case \/ cases[CaseOf(p)] # "none"
  /\ pc[p] = "commit" /\ cases[CaseOf(p)] = "FINISHED" => tx[p].reopen
  /\ pc[p] \in InTx \cup {"insertCase"} =>
       def[p] \in Versions /\ Request[p].template \in TemplatesAt[def[p]]
TxOK == \A p \in Clients : HoldsTx(p)

\* Uncommitted inserts of one key exclude each other.
TxUnique ==
  \A p, q \in Clients : p # q =>
    /\ ~(tx[p].case /\ tx[q].case /\ CaseOf(p) = CaseOf(q))
    /\ ~(tx[p].flow /\ tx[q].flow /\ WorkflowOf(p) = WorkflowOf(q))

\* FOR UPDATE excludes FOR UPDATE and FOR KEY SHARE on the same case row.
LocksOK ==
  \A c \in Cases, w \in Workflows : ForUpdate(w, c) =>
    /\ \A u \in Workflows : ForUpdate(u, c) => u = w
    /\ \A p \in Clients : ~KeyShare(p, c)

\* A committed row has its case, a template its version holds, and stays under a run.
RowOK(w) ==
  /\ flows[w] # None => /\ cases[flows[w].case] # "none"
                        /\ flows[w].template \in TemplatesAt[flows[w].version]
  /\ run[w].stage # "none" => flows[w] # None
  /\ run[w].n > 0 <=> run[w].stage # "none"
RowsOK == \A w \in Workflows : RowOK(w)

\* What MarkCompleted has decided still holds when it commits.
Decided(w) ==
  run[w].stage = "decided" =>
    (run[w].finish <=> \A u \in Workflows :
       u # w /\ flows[u] # None /\ flows[u].case = flows[w].case => flows[u].status = "COMPLETED")
DecidedOK == \A w \in Workflows : Decided(w)

\* A client about to start or mark a flow has read its row, whose identity is fixed.
ReadOK(p) ==
  /\ pc[p] \in {"reread", "start", "mark", "ok"} => flows[WorkflowOf(p)] # None
  /\ pc[p] \in {"start", "mark"} =>
       /\ saw[p] \in Flow /\ saw[p].status = "STARTING"
       /\ saw[p].case = CaseOf(p) /\ saw[p].case = flows[WorkflowOf(p)].case
       /\ saw[p].template = Request[p].template
       /\ saw[p].template = flows[WorkflowOf(p)].template
       /\ def[p] = saw[p].version /\ saw[p].version = flows[WorkflowOf(p)].version
       /\ saw[p].by = flows[WorkflowOf(p)].by
ReadsOK == \A p \in Clients : ReadOK(p)

\* The engine has run every flow whose row says so.
StartedOK ==
  /\ \A w \in Workflows : flows[w] # None /\ flows[w].status # "STARTING" => run[w].n > 0
  /\ \A p \in Clients : pc[p] = "mark" => run[WorkflowOf(p)].n > 0
  /\ \A w \in Workflows : run[w].stage = "closed" => flows[w].status = "COMPLETED"

IInv == /\ TypeOK /\ TxOK /\ TxUnique /\ LocksOK /\ RowsOK /\ DecidedOK /\ ReadsOK
        /\ StartedOK /\ RunsAsRecorded /\ AnsweredOkRan /\ FinishedExact

----------------------------------------------------------------------------
(***************************************************************************)
(* Type correctness.                                                       *)
(***************************************************************************)
USE DEF dbVars, clientVars, Goto

\* The requests are well-typed.
LEMMA RequestType ==
  ASSUME NEW p \in Clients
  PROVE  /\ CaseOf(p) \in Cases /\ WorkflowOf(p) \in Workflows
         /\ Request[p].template \in Templates /\ Request[p].stable \in BOOLEAN
         /\ Request[p].owner \in OwnersOrNone
BY RequestAssumption DEF Requests, CaseOf, WorkflowOf, CaseOf, WorkflowOf

\* The records of the transactions and the runs keep their types when updated.
LEMMA NoTxType == NoTx \in TxState
BY DEF NoTx, TxState

\* A statement of Record leaves a well-typed transaction.
LEMMA TxUpdate ==
  ASSUME NEW t \in TxState, NEW b \in BOOLEAN
  PROVE  /\ [t EXCEPT !.case = b] \in TxState
         /\ [t EXCEPT !.flow = b] \in TxState
         /\ [t EXCEPT !.reopen = b] \in TxState
BY DEF TxState

\* A workflow ID that was never started has a well-typed run.
LEMMA NoRunType == NoRun \in Run
BY VersionAssumption DEF NoRun, Run, Stages

\* A stage of the completion activity leaves a well-typed run.
LEMMA RunUpdate ==
  ASSUME NEW r \in Run, NEW s \in Stages, NEW b \in BOOLEAN
  PROVE  /\ [r EXCEPT !.stage = s] \in Run
         /\ [r EXCEPT !.stage = s, !.finish = b] \in Run
BY DEF Run

\* A change of status leaves a well-typed row.
LEMMA FlowUpdate ==
  ASSUME NEW f \in Flow, NEW s \in Statuses
  PROVE  [f EXCEPT !.status = s] \in Flow
BY DEF Flow

\* The row that Record inserts is well-typed.
LEMMA NewFlow ==
  ASSUME NEW c \in Cases, NEW t \in Templates, NEW v \in Versions, NEW q \in Clients
  PROVE  [case |-> c, template |-> t, version |-> v, status |-> "STARTING", by |-> q] \in Flow
BY DEF Flow, Statuses

\* The run that the engine starts is well-typed.
LEMMA NewRun ==
  ASSUME NEW n \in Nat, NEW v \in Versions, NEW u \in Versions, NEW q \in Clients
  PROVE  [stage |-> "running", n |-> n + 1, def |-> v, version |-> u, by |-> q,
          finish |-> FALSE] \in Run
BY VersionAssumption DEF Run, Stages, Versions

\* The columns of a row are well-typed.
LEMMA FlowFields ==
  ASSUME NEW f \in Flow
  PROVE  /\ f.case \in Cases /\ f.version \in Versions /\ f.status \in Statuses
         /\ f.by \in Clients /\ f.template \in Templates
BY DEF Flow

\* The fields of a run that the invariants read are well-typed.
LEMMA RunFields ==
  ASSUME NEW r \in Run
  PROVE  r.stage \in Stages /\ r.n \in Nat /\ r.finish \in BOOLEAN
BY DEF Run

\* A client about to start a flow holds a well-typed row.
LEMMA ReadFlow ==
  ASSUME IInv, NEW p \in Clients, pc[p] \in {"start", "mark"}
  PROVE  saw[p] \in Flow /\ def[p] \in Versions /\ saw[p].version \in Versions /\ saw[p].by \in Clients
BY FlowFields DEF IInv, ReadsOK, ReadOK

\* Every variable keeps its type.
LEMMA TypeStep == IInv /\ [Next]_vars => TypeOK'
<1> SUFFICES ASSUME IInv, [Next]_vars PROVE TypeOK'
  OBVIOUS
<1> USE DEF IInv, TypeOK
<1>1. ASSUME NEW p \in Clients, Call(p) PROVE TypeOK'
  <2>1. pc' \in [Clients -> {"idle"} \cup Serving \cup Answers]
    BY <1>1 DEF Call, Serving, Answers
  <2>2. saw' \in [Clients -> FlowOrNone]
    BY <1>1 DEF Call, FlowOrNone
  <2>3. def' \in [Clients -> 0 .. MaxVersion]
    BY <1>1, VersionAssumption DEF Call, Versions
  <2> QED
    BY <1>1, <2>1, <2>2, <2>3 DEF Call
<1>2. ASSUME NEW p \in Clients, Lookup(p) PROVE TypeOK'
  <2>1. pc' \in [Clients -> {"idle"} \cup Serving \cup Answers]
    BY <1>2 DEF Lookup, Serving, Answers, ResumeAt
  <2>2. saw' \in [Clients -> FlowOrNone]
    BY <1>2, RequestType DEF Lookup, FlowOrNone
  <2>3. def' \in [Clients -> 0 .. MaxVersion]
    BY <1>2, RequestType, FlowFields, VersionAssumption DEF Lookup, Versions, FlowOrNone
  <2> QED
    BY <1>2, <2>1, <2>2, <2>3 DEF Lookup
<1>3. ASSUME NEW p \in Clients, CheckTemplate(p) PROVE TypeOK'
  <2>1. pc' \in [Clients -> {"idle"} \cup Serving \cup Answers]
    BY <1>3 DEF CheckTemplate, Serving, Answers
  <2>2. def' \in [Clients -> 0 .. MaxVersion]
    BY <1>3, VersionAssumption DEF CheckTemplate, Versions
  <2> QED
    BY <1>3, <2>1, <2>2 DEF CheckTemplate
<1>4. ASSUME NEW p \in Clients, RecordCase(p) PROVE TypeOK'
  <2>1. pc' \in [Clients -> {"idle"} \cup Serving \cup Answers]
    BY <1>4 DEF RecordCase, Serving, Answers
  <2>2. tx' \in [Clients -> TxState]
    BY <1>4, TxUpdate DEF RecordCase
  <2> QED
    BY <1>4, <2>1, <2>2 DEF RecordCase
<1>5. ASSUME NEW p \in Clients, RecordRepeat(p) PROVE TypeOK'
  <2>1. pc' \in [Clients -> {"idle"} \cup Serving \cup Answers]
    BY <1>5 DEF RecordRepeat, Serving, Answers
  <2>2. tx' \in [Clients -> TxState]
    BY <1>5, NoTxType DEF RecordRepeat
  <2> QED
    BY <1>5, <2>1, <2>2 DEF RecordRepeat
<1>6. ASSUME NEW p \in Clients, RecordFlow(p) PROVE TypeOK'
  <2>1. pc' \in [Clients -> {"idle"} \cup Serving \cup Answers]
    BY <1>6 DEF RecordFlow, Serving, Answers
  <2>2. tx' \in [Clients -> TxState]
    BY <1>6, TxUpdate DEF RecordFlow
  <2> QED
    BY <1>6, <2>1, <2>2 DEF RecordFlow
<1>7. ASSUME NEW p \in Clients, RecordReopen(p) PROVE TypeOK'
  <2>1. pc' \in [Clients -> {"idle"} \cup Serving \cup Answers]
    BY <1>7 DEF RecordReopen, Serving, Answers
  <2>2. tx' \in [Clients -> TxState]
    BY <1>7, TxUpdate DEF RecordReopen
  <2> QED
    BY <1>7, <2>1, <2>2 DEF RecordReopen
<1>8. ASSUME NEW p \in Clients, NEW acked \in BOOLEAN, RecordCommit(p, acked) PROVE TypeOK'
  <2>1. pc' \in [Clients -> {"idle"} \cup Serving \cup Answers]
    BY <1>8 DEF RecordCommit, Serving, Answers
  <2>2. flows' \in [Workflows -> FlowOrNone]
    BY <1>8, RequestType, NewFlow DEF RecordCommit, FlowOrNone, TxOK, HoldsTx, InTx
  <2>3. cases' \in [Cases -> {"none", "IN_PROGRESS", "FINISHED"}]
    BY <1>8 DEF RecordCommit
  <2>4. holder' \in [Cases -> OwnersOrNone]
    BY <1>8, RequestType DEF RecordCommit, OwnersOrNone
  <2>5. tx' \in [Clients -> TxState]
    BY <1>8, NoTxType DEF RecordCommit
  <2>6. faults' \in 0 .. MaxFaults
    BY <1>8, VersionAssumption DEF RecordCommit
  <2> QED
    BY <1>8, <2>1, <2>2, <2>3, <2>4, <2>5, <2>6 DEF RecordCommit
<1>9. ASSUME NEW p \in Clients, Reread(p) PROVE TypeOK'
  <2>1. pc' \in [Clients -> {"idle"} \cup Serving \cup Answers]
    BY <1>9 DEF Reread, Serving, Answers, ResumeAt
  <2>2. saw' \in [Clients -> FlowOrNone]
    BY <1>9, RequestType DEF Reread, FlowOrNone
  <2>3. def' \in [Clients -> 0 .. MaxVersion]
    BY <1>9, RequestType, FlowFields, VersionAssumption DEF Reread, Versions, ReadsOK, ReadOK, DefOfRow, FlowOrNone
  <2> QED
    BY <1>9, <2>1, <2>2, <2>3 DEF Reread
<1>10. ASSUME NEW p \in Clients, NEW acked \in BOOLEAN, Start(p, acked) PROVE TypeOK'
  <2>1. pc' \in [Clients -> {"idle"} \cup Serving \cup Answers]
    BY <1>10 DEF Start, Serving, Answers
  <2>2. run' \in [Workflows -> Run]
    BY <1>10, RequestType, ReadFlow, NewRun, RunFields DEF Start, Live
  <2>3. faults' \in 0 .. MaxFaults
    BY <1>10, VersionAssumption DEF Start
  <2> QED
    BY <1>10, <2>1, <2>2, <2>3 DEF Start
<1>11. ASSUME NEW p \in Clients, NEW acked \in BOOLEAN, MarkStarted(p, acked) PROVE TypeOK'
  <2>1. pc' \in [Clients -> {"idle"} \cup Serving \cup Answers]
    BY <1>11 DEF MarkStarted, Serving, Answers
  <2>2. flows' \in [Workflows -> FlowOrNone]
    <3> DEFINE f == flows[WorkflowOf(p)]
    <3>1. WorkflowOf(p) \in Workflows /\ f \in Flow
      BY <1>11, RequestType DEF MarkStarted, FlowOrNone, ReadsOK, ReadOK
    <3>2. [f EXCEPT !.status = StartedFrom(f.status)] \in Flow
      BY <3>1, FlowUpdate, FlowFields DEF StartedFrom, Statuses
    <3> QED
      BY <1>11, <3>1, <3>2 DEF MarkStarted, FlowOrNone
  <2>3. faults' \in 0 .. MaxFaults
    BY <1>11, VersionAssumption DEF MarkStarted
  <2> QED
    BY <1>11, <2>1, <2>2, <2>3 DEF MarkStarted
<1>12. ASSUME NEW p \in Clients, Fail(p) PROVE TypeOK'
  <2>1. pc' \in [Clients -> {"idle"} \cup Serving \cup Answers]
    BY <1>12 DEF Fail, Serving, Answers
  <2>2. tx' \in [Clients -> TxState]
    BY <1>12, NoTxType DEF Fail
  <2>3. faults' \in 0 .. MaxFaults
    BY <1>12, VersionAssumption DEF Fail
  <2> QED
    BY <1>12, <2>1, <2>2, <2>3 DEF Fail
<1>13. ASSUME NEW w \in Workflows, Finish(w) PROVE TypeOK'
  <2>1. run' \in [Workflows -> Run]
    BY <1>13, RunUpdate DEF Finish, Stages
  <2> QED
    BY <1>13, <2>1 DEF Finish
<1>14. ASSUME NEW w \in Workflows, LockCase(w) PROVE TypeOK'
  <2>1. run' \in [Workflows -> Run]
    BY <1>14, RunUpdate DEF LockCase, Stages
  <2> QED
    BY <1>14, <2>1 DEF LockCase
<1>15. ASSUME NEW w \in Workflows, DecideCase(w) PROVE TypeOK'
  <2>1. run' \in [Workflows -> Run]
    BY <1>15, RunUpdate DEF DecideCase, Stages
  <2> QED
    BY <1>15, <2>1 DEF DecideCase
<1>16. ASSUME NEW w \in Workflows, NEW acked \in BOOLEAN, CommitCompletion(w, acked) PROVE TypeOK'
  <2>1. flows' \in [Workflows -> FlowOrNone]
    BY <1>16, FlowUpdate DEF CommitCompletion, FlowOrNone, RowsOK, RowOK, Statuses
  <2>2. cases' \in [Cases -> {"none", "IN_PROGRESS", "FINISHED"}]
    BY <1>16 DEF CommitCompletion
  <2>3. run' \in [Workflows -> Run]
    BY <1>16, RunUpdate DEF CommitCompletion, Stages
  <2>4. faults' \in 0 .. MaxFaults
    BY <1>16, VersionAssumption DEF CommitCompletion
  <2> QED
    BY <1>16, <2>1, <2>2, <2>3, <2>4 DEF CommitCompletion
<1>17. ASSUME NEW w \in Workflows, FailCompletion(w) PROVE TypeOK'
  <2>1. run' \in [Workflows -> Run]
    BY <1>17, RunUpdate DEF FailCompletion, Stages
  <2>2. faults' \in 0 .. MaxFaults
    BY <1>17, VersionAssumption DEF FailCompletion
  <2> QED
    BY <1>17, <2>1, <2>2 DEF FailCompletion
<1>18. ASSUME NEW c \in Cases, EnsureCase(c) PROVE TypeOK'
  <2>1. cases' \in [Cases -> {"none", "IN_PROGRESS", "FINISHED"}]
    BY <1>18 DEF EnsureCase
  <2> QED
    BY <1>18, <2>1 DEF EnsureCase
<1>19. ASSUME NEW v \in Versions, Deploy(v) PROVE TypeOK'
  <2>1. serving' \subseteq Versions /\ serving' # {}
    BY <1>19 DEF Deploy
  <2> QED
    BY <1>19, <2>1 DEF Deploy
<1>20. ASSUME NEW v \in Versions, Retire(v) PROVE TypeOK'
  <2>1. serving' \subseteq Versions /\ serving' # {}
    BY <1>20 DEF Retire
  <2> QED
    BY <1>20, <2>1 DEF Retire
<1>21. CASE UNCHANGED vars
  BY <1>21 DEF vars
<1> QED
  BY <1>1, <1>2, <1>3, <1>4, <1>5, <1>6, <1>7, <1>8, <1>9, <1>10, <1>11, <1>12, <1>13, <1>14, <1>15, <1>16, <1>17, <1>18, <1>19, <1>20, <1>21 DEF Next, Step, Complete

----------------------------------------------------------------------------
\* A row's case is a case.
LEMMA RowType == IInv => \A w \in Workflows : flows[w] # None => flows[w].case \in Cases
BY FlowFields DEF IInv, TypeOK, FlowOrNone

\* What each commit does to the rows of case_flows, field by field.
SameIdentity(w) ==
  /\ flows'[w] = None <=> flows[w] = None
  /\ flows[w] # None => /\ flows'[w].case = flows[w].case
                        /\ flows'[w].template = flows[w].template
                        /\ flows'[w].version = flows[w].version
                        /\ flows'[w].by = flows[w].by

RecordDelta(p) ==
  /\ pc[p] = "commit" /\ flows[WorkflowOf(p)] = None /\ tx[p].flow
  /\ flows'[WorkflowOf(p)] # None
  /\ flows'[WorkflowOf(p)].case = CaseOf(p)
  /\ flows'[WorkflowOf(p)].template = Request[p].template
  /\ flows'[WorkflowOf(p)].version = def[p]
  /\ flows'[WorkflowOf(p)].status = "STARTING"
  /\ flows'[WorkflowOf(p)].by = p
  /\ \A w \in Workflows \ {WorkflowOf(p)} : flows'[w] = flows[w]
  /\ cases'[CaseOf(p)] = "IN_PROGRESS"
  /\ \A c \in Cases \ {CaseOf(p)} : cases'[c] = cases[c]
  /\ def[p] \in Versions /\ Request[p].template \in TemplatesAt[def[p]]
  /\ pc'[p] \in {"reread", "failed"} /\ tx'[p] = NoTx
  /\ \A q \in Clients \ {p} : pc'[q] = pc[q] /\ tx'[q] = tx[q]
  /\ UNCHANGED <<run, saw, def>>
\* A commit of Record has the effect RecordsRow.
LEMMA RecordEffect ==
  ASSUME IInv, NEW p \in Clients, NEW acked \in BOOLEAN, RecordCommit(p, acked)
  PROVE  RecordDelta(p)
<1> USE DEF RecordDelta
<1> USE RequestType DEF RecordCommit, IInv, TypeOK
<1>1. /\ pc[p] = "commit" /\ flows[WorkflowOf(p)] = None /\ tx[p].flow
      /\ def[p] \in Versions /\ Request[p].template \in TemplatesAt[def[p]]
  BY DEF TxOK, HoldsTx, InTx
<1>2. /\ flows'[WorkflowOf(p)] = [case |-> CaseOf(p), template |-> Request[p].template,
                                 version |-> def[p], status |-> "STARTING", by |-> p]
      /\ \A w \in Workflows \ {WorkflowOf(p)} : flows'[w] = flows[w]
  OBVIOUS
<1>3. flows'[WorkflowOf(p)] # None
  BY <1>1, <1>2, NewFlow, NoneAssumption
<1>4. /\ cases'[CaseOf(p)] = "IN_PROGRESS"
      /\ \A c \in Cases \ {CaseOf(p)} : cases'[c] = cases[c]
  BY DEF TxOK, HoldsTx, InTx
<1>5. /\ pc'[p] \in {"reread", "failed"} /\ tx'[p] = NoTx
      /\ \A q \in Clients \ {p} : pc'[q] = pc[q] /\ tx'[q] = tx[q]
      /\ UNCHANGED <<run, saw, def>>
  OBVIOUS
<1> QED
  BY <1>1, <1>2, <1>3, <1>4, <1>5

MarkDelta(p) ==
  /\ \A w \in Workflows : SameIdentity(w)
  /\ \A w \in Workflows \ {WorkflowOf(p)} : flows'[w] = flows[w]
  /\ flows'[WorkflowOf(p)].status = IF flows[WorkflowOf(p)].status = "STARTING" THEN "STARTED"
                                    ELSE flows[WorkflowOf(p)].status
  /\ flows[WorkflowOf(p)] # None /\ pc[p] = "mark"
  /\ pc'[p] \in {"ok", "failed"}
  /\ \A q \in Clients \ {p} : pc'[q] = pc[q]
  /\ UNCHANGED <<cases, run, saw, def, tx>>
\* MarkStarted has its effect.
LEMMA MarkEffect ==
  ASSUME IInv, NEW p \in Clients, NEW acked \in BOOLEAN, MarkStarted(p, acked)
  PROVE  MarkDelta(p)
<1> USE DEF MarkDelta
<1> USE RequestType DEF MarkStarted, StartedFrom, IInv, TypeOK
<1> DEFINE f == flows[WorkflowOf(p)]
<1>1. f # None /\ f \in Flow /\ pc[p] = "mark"
  BY DEF ReadsOK, ReadOK, FlowOrNone
<1>2. /\ flows'[WorkflowOf(p)] = [f EXCEPT !.status = StartedFrom(f.status)]
      /\ \A w \in Workflows \ {WorkflowOf(p)} : flows'[w] = flows[w]
  OBVIOUS
<1>3. [f EXCEPT !.status = StartedFrom(f.status)] \in Flow
  BY <1>1, FlowUpdate, FlowFields DEF Statuses
<1>4. SameIdentity(WorkflowOf(p))
  BY <1>1, <1>2, <1>3, NoneAssumption DEF SameIdentity, Flow
<1>5. /\ pc'[p] \in {"ok", "failed"}
      /\ \A q \in Clients \ {p} : pc'[q] = pc[q]
      /\ UNCHANGED <<cases, run, saw, def, tx>>
  OBVIOUS
<1> QED
  BY <1>1, <1>2, <1>3, <1>4, <1>5 DEF SameIdentity, Flow

CompletionDelta(w) ==
  /\ \A u \in Workflows : SameIdentity(u)
  /\ \A u \in Workflows \ {w} : flows'[u] = flows[u]
  /\ flows'[w].status = "COMPLETED" /\ flows[w] # None
  /\ cases'[flows[w].case] = IF run[w].finish THEN "FINISHED" ELSE cases[flows[w].case]
  /\ \A c \in Cases \ {flows[w].case} : cases'[c] = cases[c]
  /\ flows[w].case \in Cases
  /\ run[w].stage = "decided" /\ run'[w].stage \in {"closed", "completing"}
  /\ run'[w].n = run[w].n /\ run'[w].def = run[w].def
  /\ run'[w].version = run[w].version /\ run'[w].by = run[w].by
  /\ \A u \in Workflows \ {w} : run'[u] = run[u]
  /\ UNCHANGED <<pc, saw, def, tx>>
\* A commit of MarkCompleted has its effect.
LEMMA CompletionEffect ==
  ASSUME IInv, NEW w \in Workflows, NEW acked \in BOOLEAN, CommitCompletion(w, acked)
  PROVE  CompletionDelta(w)
<1> USE DEF CompletionDelta
<1> USE DEF CommitCompletion, IInv, TypeOK
<1>1. flows[w] # None /\ flows[w] \in Flow
  BY DEF RowsOK, RowOK, FlowOrNone
<1>2. /\ flows'[w] = [flows[w] EXCEPT !.status = "COMPLETED"]
      /\ \A u \in Workflows \ {w} : flows'[u] = flows[u]
  OBVIOUS
<1>3. flows'[w] \in Flow
  BY <1>1, <1>2, FlowUpdate DEF Statuses
<1>4. SameIdentity(w)
  BY <1>1, <1>2, <1>3, NoneAssumption DEF SameIdentity, Flow
<1>5. flows[w].case \in Cases
  BY <1>1, FlowFields
<1>6. /\ run[w].stage = "decided" /\ run'[w].stage \in {"closed", "completing"}
      /\ run'[w].n = run[w].n /\ run'[w].def = run[w].def
      /\ run'[w].version = run[w].version /\ run'[w].by = run[w].by
      /\ \A u \in Workflows \ {w} : run'[u] = run[u]
      /\ UNCHANGED <<pc, saw, def, tx>>
  BY DEF Run
<1> QED
  BY <1>1, <1>2, <1>3, <1>4, <1>5, <1>6 DEF SameIdentity, Flow

\* A start leaves a live run alone and replaces any other by a running one.
StartDelta(p) ==
  /\ \A u \in Workflows \ {WorkflowOf(p)} : run'[u] = run[u]
  /\ \/ Live(WorkflowOf(p)) /\ run'[WorkflowOf(p)] = run[WorkflowOf(p)]
     \/ /\ ~Live(WorkflowOf(p))
        /\ run'[WorkflowOf(p)] =
             [stage |-> "running", n |-> run[WorkflowOf(p)].n + 1, def |-> def[p],
              version |-> saw[p].version, by |-> saw[p].by, finish |-> FALSE]
  /\ pc[p] = "start" /\ UNCHANGED <<cases, flows, saw, def, tx>>
  /\ pc'[p] \in {"mark", "failed"}
  /\ \A q \in Clients \ {p} : pc'[q] = pc[q]
  /\ flows[WorkflowOf(p)] # None
  /\ run'[WorkflowOf(p)].n \in Nat /\ run'[WorkflowOf(p)].n > 0
\* The start of a run has its effect.
LEMMA StartEffect ==
  ASSUME IInv, NEW p \in Clients, NEW acked \in BOOLEAN, Start(p, acked)
  PROVE  StartDelta(p)
<1> USE DEF StartDelta
<1> USE RequestType DEF Start, Live, IInv, TypeOK
<1>1. pc[p] = "start" /\ flows[WorkflowOf(p)] # None /\ UNCHANGED <<cases, flows, saw, def, tx>>
  BY DEF ReadsOK, ReadOK
<1>2. /\ pc'[p] \in {"mark", "failed"}
      /\ \A q \in Clients \ {p} : pc'[q] = pc[q]
  OBVIOUS
<1>3. /\ \A u \in Workflows \ {WorkflowOf(p)} : run'[u] = run[u]
      /\ \/ Live(WorkflowOf(p)) /\ run'[WorkflowOf(p)] = run[WorkflowOf(p)]
         \/ /\ ~Live(WorkflowOf(p))
            /\ run'[WorkflowOf(p)] =
                 [stage |-> "running", n |-> run[WorkflowOf(p)].n + 1, def |-> def[p],
                  version |-> saw[p].version, by |-> saw[p].by, finish |-> FALSE]
  OBVIOUS
<1>4. run[WorkflowOf(p)].n \in Nat /\ (Live(WorkflowOf(p)) => run[WorkflowOf(p)].n > 0)
  BY RunFields DEF RowsOK, RowOK
<1> QED
  BY <1>1, <1>2, <1>3, <1>4

\* Record holds what it should between its statements.
LEMMA TxOKStep == IInv /\ [Next]_vars => TxOK'
<1> SUFFICES ASSUME IInv, [Next]_vars PROVE TxOK'
  OBVIOUS
<1> USE RequestType DEF TxOK, InTx, HoldsTx
<1>0. TypeOK /\ TxOK /\ TxUnique /\ RowsOK /\ LocksOK
  BY DEF IInv
<1>1. ASSUME NEW p \in Clients, Call(p) PROVE TxOK'
  BY <1>0, <1>1 DEF TypeOK, Call, Answers
<1>2. ASSUME NEW p \in Clients, Lookup(p) PROVE TxOK'
  BY <1>0, <1>2 DEF TypeOK, Lookup, ResumeAt
<1>3. ASSUME NEW p \in Clients, CheckTemplate(p) PROVE TxOK'
  BY <1>0, <1>3 DEF TypeOK, CheckTemplate
<1>4. ASSUME NEW p \in Clients, RecordCase(p) PROVE TxOK'
  <2> SUFFICES ASSUME NEW q \in Clients PROVE HoldsTx(q)'
    BY DEF TxOK
  <2>1. CASE q = p
    <3>1. tx[p] \in TxState /\ tx'[p] = [tx[p] EXCEPT !.case = (cases[CaseOf(p)] = "none")]
      BY <1>0, <1>4 DEF TypeOK, RecordCase
    <3>2. /\ tx'[p].case <=> cases[CaseOf(p)] = "none"
          /\ tx'[p].flow = tx[p].flow /\ tx'[p].reopen = tx[p].reopen
      BY <3>1 DEF TxState
    <3>3. pc[p] = "insertCase" /\ pc'[p] = "insertFlow" /\ UNCHANGED <<cases, flows, def>>
      BY <1>0, <1>4 DEF TypeOK, RecordCase
    <3> QED
      BY <1>0, <2>1, <3>2, <3>3
  <2>2. CASE q # p
    BY <1>0, <1>4, <2>2 DEF TypeOK, RecordCase
  <2> QED
    BY <2>1, <2>2
<1>5. ASSUME NEW p \in Clients, RecordRepeat(p) PROVE TxOK'
  BY <1>0, <1>5 DEF TypeOK, RecordRepeat, FlowUncontended, NoTx
<1>6. ASSUME NEW p \in Clients, RecordFlow(p) PROVE TxOK'
  BY <1>0, <1>6 DEF TypeOK, RecordFlow, FlowUncontended
<1>7. ASSUME NEW p \in Clients, RecordReopen(p) PROVE TxOK'
  <2> SUFFICES ASSUME NEW q \in Clients PROVE HoldsTx(q)'
    BY DEF TxOK
  <2>1. CASE q = p
    <3>1. tx[p] \in TxState /\ tx'[p] = [tx[p] EXCEPT !.reopen = (cases[CaseOf(p)] = "FINISHED")]
      BY <1>0, <1>7 DEF TypeOK, RecordReopen
    <3>2. /\ tx'[p].reopen <=> cases[CaseOf(p)] = "FINISHED"
          /\ tx'[p].case = tx[p].case /\ tx'[p].flow = tx[p].flow
      BY <3>1 DEF TxState
    <3>3. pc[p] = "reopen" /\ pc'[p] = "commit" /\ UNCHANGED <<cases, flows, def>>
      BY <1>0, <1>7 DEF TypeOK, RecordReopen
    <3> QED
      BY <1>0, <2>1, <3>2, <3>3
  <2>2. CASE q # p
    BY <1>0, <1>7, <2>2 DEF TypeOK, RecordReopen
  <2> QED
    BY <2>1, <2>2
<1>8. ASSUME NEW p \in Clients, NEW acked \in BOOLEAN, RecordCommit(p, acked) PROVE TxOK'
  <2> SUFFICES ASSUME NEW q \in Clients PROVE HoldsTx(q)'
    BY DEF TxOK
  <2>1. RecordDelta(p)
    BY <1>8, RecordEffect
  <2>2. CASE q = p
    BY <2>1, <2>2 DEF RecordDelta, NoTx
  <2>3. CASE q # p
    <3>1. /\ pc'[q] = pc[q] /\ tx'[q] = tx[q] /\ UNCHANGED def
          /\ CaseOf(q) # CaseOf(p) => cases'[CaseOf(q)] = cases[CaseOf(q)]
          /\ WorkflowOf(q) # WorkflowOf(p) => flows'[WorkflowOf(q)] = flows[WorkflowOf(q)]
      BY <2>1, <2>3 DEF RecordDelta
    <3>2. tx[q].flow => WorkflowOf(q) # WorkflowOf(p)
      BY <1>0, <2>1, <2>3 DEF RecordDelta, TxUnique
    <3>3. tx[q].case => CaseOf(q) # CaseOf(p)
      BY <1>0, <2>1, <2>3 DEF RecordDelta, TxUnique
    <3>4. CASE CaseOf(q) # CaseOf(p)
      BY <1>0, <3>1, <3>2, <3>4
    <3>5. CASE CaseOf(q) = CaseOf(p)
      BY <1>0, <2>1, <3>1, <3>2, <3>3, <3>5 DEF RecordDelta
    <3> QED
      BY <3>4, <3>5
  <2> QED
    BY <2>2, <2>3
<1>9. ASSUME NEW p \in Clients, Reread(p) PROVE TxOK'
  BY <1>0, <1>9 DEF TypeOK, Reread, ResumeAt, DefOfRow
<1>10. ASSUME NEW p \in Clients, NEW acked \in BOOLEAN, Start(p, acked) PROVE TxOK'
  <2>1. StartDelta(p)
    BY <1>10, StartEffect
  <2> QED
    BY <1>0, <2>1, RowType DEF StartDelta, Live
<1>11. ASSUME NEW p \in Clients, NEW acked \in BOOLEAN, MarkStarted(p, acked) PROVE TxOK'
  <2>1. MarkDelta(p)
    BY <1>11, MarkEffect
  <2> QED
    BY <1>0, <2>1, RowType DEF MarkDelta, SameIdentity
<1>12. ASSUME NEW p \in Clients, Fail(p) PROVE TxOK'
  BY <1>0, <1>12 DEF TypeOK, Fail, NoTx, Serving
<1>13. ASSUME NEW w \in Workflows, NEW acked \in BOOLEAN, CommitCompletion(w, acked) PROVE TxOK'
  <2> SUFFICES ASSUME NEW q \in Clients PROVE HoldsTx(q)'
    BY DEF TxOK
  <2>1. CompletionDelta(w)
    BY <1>13, CompletionEffect
  <2>2. /\ pc'[q] = pc[q] /\ tx'[q] = tx[q] /\ def'[q] = def[q]
        /\ flows'[WorkflowOf(q)] = None <=> flows[WorkflowOf(q)] = None
        /\ cases'[CaseOf(q)] = "none" <=> cases[CaseOf(q)] = "none"
    BY <1>0, <2>1 DEF CompletionDelta, SameIdentity, RowsOK, RowOK
  \* The case q works on is not finished under it: q holds FOR KEY SHARE.
  <2>3. pc[q] = "commit" => CaseOf(q) # flows[w].case
    BY <1>0, <2>1 DEF CompletionDelta, LocksOK, ForUpdate, KeyShare
  <2>4. pc[q] = "commit" => cases'[CaseOf(q)] = cases[CaseOf(q)]
    BY <2>1, <2>3 DEF CompletionDelta
  <2> QED
    BY <1>0, <2>2, <2>4
<1>14. ASSUME NEW c \in Cases, EnsureCase(c) PROVE TxOK'
  BY <1>0, <1>14 DEF TypeOK, EnsureCase
<1>15. CASE UNCHANGED <<pc, tx, cases, flows, def>>
  BY <1>0, <1>15
<1> QED
  BY <1>1, <1>2, <1>3, <1>4, <1>5, <1>6, <1>7, <1>8, <1>9, <1>10, <1>11, <1>12, <1>13, <1>14, <1>15 DEF Next, Step, Complete, vars, Finish, LockCase, DecideCase, FailCompletion, Deploy, Retire

\* Uncommitted inserts exclude each other.
LEMMA TxUniqueStep == IInv /\ [Next]_vars => TxUnique'
<1> SUFFICES ASSUME IInv, [Next]_vars PROVE TxUnique'
  OBVIOUS
<1> USE RequestType DEF TxUnique
<1>0. TypeOK /\ TxOK /\ TxUnique
  BY DEF IInv
<1>1. ASSUME NEW p \in Clients, RecordCase(p) PROVE TxUnique'
  BY <1>0, <1>1 DEF TypeOK, RecordCase
<1>2. ASSUME NEW p \in Clients, RecordRepeat(p) PROVE TxUnique'
  BY <1>0, <1>2 DEF TypeOK, RecordRepeat, FlowUncontended, NoTx
<1>3. ASSUME NEW p \in Clients, RecordFlow(p) PROVE TxUnique'
  BY <1>0, <1>3 DEF TypeOK, RecordFlow, FlowUncontended
<1>4. ASSUME NEW p \in Clients, RecordReopen(p) PROVE TxUnique'
  BY <1>0, <1>4 DEF TypeOK, RecordReopen
<1>5. ASSUME NEW p \in Clients, NEW acked \in BOOLEAN, RecordCommit(p, acked) PROVE TxUnique'
  <2>1. RecordDelta(p)
    BY <1>5, RecordEffect
  <2> QED
    BY <1>0, <2>1, RowType DEF RecordDelta, NoTx
<1>6. ASSUME NEW p \in Clients, Fail(p) PROVE TxUnique'
  BY <1>0, <1>6 DEF TypeOK, Fail, NoTx, Serving
<1>7. CASE UNCHANGED <<tx>>
  BY <1>0, <1>7
<1> QED
  BY <1>1, <1>2, <1>3, <1>4, <1>5, <1>6, <1>7 DEF Next, Step, Complete, vars, Call, Lookup, CheckTemplate, Reread, Start, MarkStarted, Finish, LockCase, DecideCase, CommitCompletion, FailCompletion, EnsureCase, Deploy, Retire

\* The case row is never locked in conflicting modes.
LEMMA LocksOKStep == IInv /\ [Next]_vars => LocksOK'
<1> SUFFICES ASSUME IInv, [Next]_vars PROVE LocksOK'
  OBVIOUS
<1> USE RequestType DEF LocksOK, ForUpdate, KeyShare
<1>0. TypeOK /\ TxOK /\ LocksOK /\ RowsOK
  BY DEF IInv
<1>1. ASSUME NEW p \in Clients, RecordCase(p) PROVE LocksOK'
  BY <1>0, <1>1 DEF TypeOK, RecordCase
<1>2. ASSUME NEW p \in Clients, RecordRepeat(p) PROVE LocksOK'
  BY <1>0, <1>2 DEF TypeOK, RecordRepeat, FlowUncontended, NoTx
<1>3. ASSUME NEW p \in Clients, RecordFlow(p) PROVE LocksOK'
  BY <1>0, <1>3 DEF TypeOK, RecordFlow, FlowUncontended
<1>4. ASSUME NEW p \in Clients, RecordReopen(p) PROVE LocksOK'
  BY <1>0, <1>4 DEF TypeOK, RecordReopen
<1>5. ASSUME NEW p \in Clients, NEW acked \in BOOLEAN, RecordCommit(p, acked) PROVE LocksOK'
  <2>1. RecordDelta(p)
    BY <1>5, RecordEffect
  <2>2. ASSUME NEW c \in Cases, NEW u \in Workflows PROVE ForUpdate(u, c)' <=> ForUpdate(u, c)
    BY <1>0, <2>1 DEF RecordDelta, RowsOK, RowOK
  <2>3. ASSUME NEW c \in Cases, NEW q \in Clients PROVE KeyShare(q, c)' => KeyShare(q, c)
    BY <2>1 DEF RecordDelta, NoTx
  <2> HIDE DEF ForUpdate, KeyShare
  <2> QED
    BY <1>0, <2>2, <2>3
<1>6. ASSUME NEW p \in Clients, NEW acked \in BOOLEAN, Start(p, acked) PROVE LocksOK'
  <2>1. StartDelta(p)
    BY <1>6, StartEffect
  <2> QED
    BY <1>0, <2>1, RowType DEF StartDelta, Live
<1>7. ASSUME NEW p \in Clients, NEW acked \in BOOLEAN, MarkStarted(p, acked) PROVE LocksOK'
  <2>1. MarkDelta(p)
    BY <1>7, MarkEffect
  <2> QED
    BY <1>0, <2>1, RowType DEF MarkDelta, SameIdentity
<1>8. ASSUME NEW p \in Clients, Fail(p) PROVE LocksOK'
  BY <1>0, <1>8 DEF TypeOK, Fail, NoTx, Serving
<1>9. ASSUME NEW w \in Workflows, Finish(w) PROVE LocksOK'
  BY <1>0, <1>9 DEF TypeOK, Finish
<1>10. ASSUME NEW w \in Workflows, LockCase(w) PROVE LocksOK'
  BY <1>0, <1>10 DEF TypeOK, LockCase
<1>11. ASSUME NEW w \in Workflows, DecideCase(w) PROVE LocksOK'
  BY <1>0, <1>11 DEF TypeOK, DecideCase
<1>12. ASSUME NEW w \in Workflows, NEW acked \in BOOLEAN, CommitCompletion(w, acked) PROVE LocksOK'
  <2>1. CompletionDelta(w)
    BY <1>12, CompletionEffect
  <2> QED
    BY <1>0, <2>1, RowType DEF CompletionDelta, SameIdentity
<1>13. ASSUME NEW w \in Workflows, FailCompletion(w) PROVE LocksOK'
  BY <1>0, <1>13 DEF TypeOK, FailCompletion
<1>14. CASE UNCHANGED <<run, flows, tx>>
  BY <1>0, <1>14
<1> QED
  BY <1>1, <1>2, <1>3, <1>4, <1>5, <1>6, <1>7, <1>8, <1>9, <1>10, <1>11, <1>12, <1>13, <1>14 DEF Next, Step, Complete, vars, Call, Lookup, CheckTemplate, Reread, EnsureCase, Deploy, Retire

\* Committed rows have their case, and runs their rows.
LEMMA RowsOKStep == IInv /\ [Next]_vars => RowsOK'
<1> SUFFICES ASSUME IInv, [Next]_vars PROVE RowsOK'
  OBVIOUS
<1> USE RequestType DEF RowsOK, RowOK
<1>0. TypeOK /\ TxOK /\ RowsOK /\ ReadsOK
  BY DEF IInv
<1>1. ASSUME NEW p \in Clients, NEW acked \in BOOLEAN, RecordCommit(p, acked) PROVE RowsOK'
  <2>1. RecordDelta(p)
    BY <1>1, RecordEffect
  <2> QED
    BY <1>0, <2>1, RowType DEF RecordDelta
<1>2. ASSUME NEW p \in Clients, NEW acked \in BOOLEAN, Start(p, acked) PROVE RowsOK'
  <2>1. StartDelta(p)
    BY <1>2, StartEffect
  <2> QED
    BY <1>0, <2>1, RowType DEF StartDelta, Live
<1>3. ASSUME NEW p \in Clients, NEW acked \in BOOLEAN, MarkStarted(p, acked) PROVE RowsOK'
  <2>1. MarkDelta(p)
    BY <1>3, MarkEffect
  <2> QED
    BY <1>0, <2>1, RowType DEF MarkDelta, SameIdentity
<1>4. ASSUME NEW w \in Workflows, Finish(w) PROVE RowsOK'
  BY <1>0, <1>4 DEF TypeOK, Finish
<1>5. ASSUME NEW w \in Workflows, LockCase(w) PROVE RowsOK'
  BY <1>0, <1>5 DEF TypeOK, LockCase
<1>6. ASSUME NEW w \in Workflows, DecideCase(w) PROVE RowsOK'
  BY <1>0, <1>6 DEF TypeOK, DecideCase
<1>7. ASSUME NEW w \in Workflows, NEW acked \in BOOLEAN, CommitCompletion(w, acked) PROVE RowsOK'
  <2>1. CompletionDelta(w)
    BY <1>7, CompletionEffect
  <2> QED
    BY <1>0, <2>1, RowType DEF CompletionDelta, SameIdentity
<1>8. ASSUME NEW w \in Workflows, FailCompletion(w) PROVE RowsOK'
  BY <1>0, <1>8 DEF TypeOK, FailCompletion
<1>9. ASSUME NEW c \in Cases, EnsureCase(c) PROVE RowsOK'
  BY <1>0, <1>9 DEF TypeOK, EnsureCase
<1>10. CASE UNCHANGED <<flows, cases, run>>
  BY <1>0, <1>10
<1> QED
  BY <1>1, <1>2, <1>3, <1>4, <1>5, <1>6, <1>7, <1>8, <1>9, <1>10 DEF Next, Step, Complete, vars, Call, Lookup, CheckTemplate, RecordCase, RecordRepeat, RecordFlow, RecordReopen, Reread, Fail, Deploy, Retire

\* A decision to finish a case stays right until it commits.
LEMMA DecidedOKStep == IInv /\ [Next]_vars => DecidedOK'
<1> SUFFICES ASSUME IInv, [Next]_vars PROVE DecidedOK'
  OBVIOUS
<1> USE RequestType DEF DecidedOK, FlowsOf, Decided
<1>0. TypeOK /\ TxOK /\ LocksOK /\ RowsOK /\ DecidedOK
  BY DEF IInv
<1>1. ASSUME NEW p \in Clients, NEW acked \in BOOLEAN, RecordCommit(p, acked) PROVE DecidedOK'
  <2> SUFFICES ASSUME NEW w \in Workflows PROVE Decided(w)'
    BY DEF DecidedOK
  <2>1. RecordDelta(p)
    BY <1>1, RecordEffect
  <2>2. run[w].stage = "decided" => flows[w] # None /\ flows[w].case # CaseOf(p)
    BY <1>0, <2>1, RowType DEF RecordDelta, RowsOK, RowOK, LocksOK, ForUpdate, KeyShare
  <2> QED
    BY <1>0, <2>1, <2>2 DEF RecordDelta
<1>2. ASSUME NEW p \in Clients, NEW acked \in BOOLEAN, Start(p, acked) PROVE DecidedOK'
  <2>1. StartDelta(p)
    BY <1>2, StartEffect
  <2> QED
    BY <1>0, <2>1, RowType DEF StartDelta, Live
<1>3. ASSUME NEW p \in Clients, NEW acked \in BOOLEAN, MarkStarted(p, acked) PROVE DecidedOK'
  <2>1. MarkDelta(p)
    BY <1>3, MarkEffect
  <2> QED
    BY <1>0, <2>1, RowType DEF MarkDelta, SameIdentity
<1>4. ASSUME NEW w \in Workflows, Finish(w) PROVE DecidedOK'
  BY <1>0, <1>4 DEF TypeOK, Finish
<1>5. ASSUME NEW w \in Workflows, LockCase(w) PROVE DecidedOK'
  BY <1>0, <1>5 DEF TypeOK, LockCase
<1>6. ASSUME NEW w \in Workflows, DecideCase(w) PROVE DecidedOK'
  BY <1>0, <1>6 DEF TypeOK, DecideCase
<1>7. ASSUME NEW w \in Workflows, NEW acked \in BOOLEAN, CommitCompletion(w, acked) PROVE DecidedOK'
  <2> SUFFICES ASSUME NEW u \in Workflows PROVE Decided(u)'
    BY DEF DecidedOK
  <2>1. CompletionDelta(w)
    BY <1>7, CompletionEffect
  <2>2. CASE u = w
    BY <2>1, <2>2 DEF CompletionDelta
  \* Another decision is about another case.
  <2>3. CASE u # w
    <3>1. run'[u] = run[u] /\ flows'[u] = flows[u]
      BY <2>1, <2>3 DEF CompletionDelta
    <3>2. run[u].stage = "decided" => flows[u].case # flows[w].case
      BY <1>0, <2>1, <2>3 DEF CompletionDelta, LocksOK, ForUpdate
    <3>3. \A v \in Workflows \ {w} : flows'[v] = flows[v]
      BY <2>1 DEF CompletionDelta
    <3>4. flows'[w] # None /\ flows'[w].case = flows[w].case /\ flows[w] # None
      BY <2>1 DEF CompletionDelta, SameIdentity
    <3> QED
      BY <1>0, <3>1, <3>2, <3>3, <3>4
  <2> QED
    BY <2>2, <2>3
<1>8. ASSUME NEW w \in Workflows, FailCompletion(w) PROVE DecidedOK'
  BY <1>0, <1>8 DEF TypeOK, FailCompletion
<1>9. CASE UNCHANGED <<run, flows>>
  BY <1>0, <1>9
<1> QED
  BY <1>1, <1>2, <1>3, <1>4, <1>5, <1>6, <1>7, <1>8, <1>9 DEF Next, Step, Complete, vars, Call, Lookup, CheckTemplate, RecordCase, RecordRepeat, RecordFlow, RecordReopen, Reread, Fail, EnsureCase, Deploy, Retire

\* What a client has read of its flow stays right, but for the status.
LEMMA ReadsOKStep == IInv /\ [Next]_vars => ReadsOK'
<1> SUFFICES ASSUME IInv, [Next]_vars PROVE ReadsOK'
  OBVIOUS
<1> USE RequestType DEF ReadsOK, ReadOK
<1>0. TypeOK /\ TxOK /\ ReadsOK
  BY DEF IInv
<1>1. ASSUME NEW p \in Clients, Call(p) PROVE ReadsOK'
  BY <1>0, <1>1 DEF TypeOK, Call, Answers
<1>2. ASSUME NEW p \in Clients, Lookup(p) PROVE ReadsOK'
  <2> SUFFICES ASSUME NEW q \in Clients PROVE ReadOK(q)'
    BY DEF ReadsOK
  <2>1. CASE q = p
    <3>1. flows[WorkflowOf(p)] \in FlowOrNone
      BY <1>0 DEF TypeOK
    <3>2. saw'[p] = flows[WorkflowOf(p)] /\ UNCHANGED flows
      BY <1>0, <1>2 DEF TypeOK, Lookup
    <3>3. /\ pc'[p] \in {"reread", "start", "mark", "ok"} => flows[WorkflowOf(p)] # None
          /\ pc'[p] \in {"start", "mark"} =>
               /\ flows[WorkflowOf(p)] # None /\ pc'[p] = "start"
               /\ flows[WorkflowOf(p)].status = "STARTING"
               /\ def'[p] = flows[WorkflowOf(p)].version
               /\ flows[WorkflowOf(p)].case = CaseOf(p)
               /\ flows[WorkflowOf(p)].template = Request[p].template
      BY <1>0, <1>2 DEF TypeOK, Lookup, ResumeAt
    <3> QED
      BY <2>1, <3>1, <3>2, <3>3 DEF FlowOrNone
  <2>2. CASE q # p
    BY <1>0, <1>2, <2>2 DEF TypeOK, Lookup
  <2> QED
    BY <2>1, <2>2
<1>3. ASSUME NEW p \in Clients, CheckTemplate(p) PROVE ReadsOK'
  BY <1>0, <1>3 DEF TypeOK, CheckTemplate
<1>4. ASSUME NEW p \in Clients, RecordCase(p) PROVE ReadsOK'
  BY <1>0, <1>4 DEF TypeOK, RecordCase
<1>5. ASSUME NEW p \in Clients, RecordRepeat(p) PROVE ReadsOK'
  BY <1>0, <1>5 DEF TypeOK, RecordRepeat, FlowUncontended, NoTx
<1>6. ASSUME NEW p \in Clients, RecordFlow(p) PROVE ReadsOK'
  BY <1>0, <1>6 DEF TypeOK, RecordFlow, FlowUncontended
<1>7. ASSUME NEW p \in Clients, RecordReopen(p) PROVE ReadsOK'
  BY <1>0, <1>7 DEF TypeOK, RecordReopen
<1>8. ASSUME NEW p \in Clients, NEW acked \in BOOLEAN, RecordCommit(p, acked) PROVE ReadsOK'
  <2> SUFFICES ASSUME NEW q \in Clients PROVE ReadOK(q)'
    BY DEF ReadsOK
  <2>1. RecordDelta(p)
    BY <1>8, RecordEffect
  <2>2. CASE q = p
    BY <2>1, <2>2 DEF RecordDelta
  <2>3. CASE q # p
    <3>1. pc'[q] = pc[q] /\ saw'[q] = saw[q] /\ def'[q] = def[q]
      BY <2>1, <2>3 DEF RecordDelta
    <3>2. flows[WorkflowOf(q)] # None => flows'[WorkflowOf(q)] = flows[WorkflowOf(q)]
      BY <2>1 DEF RecordDelta
    <3> QED
      BY <1>0, <3>1, <3>2
  <2> QED
    BY <2>2, <2>3
<1>9. ASSUME NEW p \in Clients, Reread(p) PROVE ReadsOK'
  <2> SUFFICES ASSUME NEW q \in Clients PROVE ReadOK(q)'
    BY DEF ReadsOK
  <2>1. CASE q = p
    <3>1. flows[WorkflowOf(p)] \in FlowOrNone
      BY <1>0 DEF TypeOK
    <3>2. saw'[p] = flows[WorkflowOf(p)] /\ UNCHANGED flows
      BY <1>0, <1>9 DEF TypeOK, Reread
    <3>3. /\ pc'[p] \in {"reread", "start", "mark", "ok"} => flows[WorkflowOf(p)] # None
          /\ pc'[p] \in {"start", "mark"} =>
               /\ flows[WorkflowOf(p)] # None /\ pc'[p] = "start"
               /\ flows[WorkflowOf(p)].status = "STARTING"
               /\ def'[p] = flows[WorkflowOf(p)].version
               /\ flows[WorkflowOf(p)].case = CaseOf(p)
               /\ flows[WorkflowOf(p)].template = Request[p].template
      BY <1>0, <1>9 DEF TypeOK, Reread, ResumeAt, DefOfRow
    <3> QED
      BY <2>1, <3>1, <3>2, <3>3 DEF FlowOrNone
  <2>2. CASE q # p
    BY <1>0, <1>9, <2>2 DEF TypeOK, Reread
  <2> QED
    BY <2>1, <2>2
<1>10. ASSUME NEW p \in Clients, NEW acked \in BOOLEAN, Start(p, acked) PROVE ReadsOK'
  <2>1. StartDelta(p)
    BY <1>10, StartEffect
  <2> QED
    BY <1>0, <2>1, RowType DEF StartDelta, Live
<1>11. ASSUME NEW p \in Clients, NEW acked \in BOOLEAN, MarkStarted(p, acked) PROVE ReadsOK'
  <2> SUFFICES ASSUME NEW q \in Clients PROVE ReadOK(q)'
    BY DEF ReadsOK
  <2>1. MarkDelta(p)
    BY <1>11, MarkEffect
  <2>2. SameIdentity(WorkflowOf(q))
    BY <2>1 DEF MarkDelta
  <2>3. /\ pc'[q] = pc[q] \/ (pc[q] = "mark" /\ pc'[q] \in {"ok", "failed"})
        /\ saw'[q] = saw[q] /\ def'[q] = def[q]
    <3>1. CASE q = p
      BY <2>1, <3>1 DEF MarkDelta
    <3>2. CASE q # p
      BY <2>1, <3>2 DEF MarkDelta
    <3> QED
      BY <3>1, <3>2
  <2> QED
    BY <1>0, <2>2, <2>3 DEF SameIdentity
<1>12. ASSUME NEW p \in Clients, Fail(p) PROVE ReadsOK'
  BY <1>0, <1>12 DEF TypeOK, Fail, NoTx, Serving
<1>13. ASSUME NEW w \in Workflows, NEW acked \in BOOLEAN, CommitCompletion(w, acked) PROVE ReadsOK'
  <2> SUFFICES ASSUME NEW q \in Clients PROVE ReadOK(q)'
    BY DEF ReadsOK
  <2>1. CompletionDelta(w)
    BY <1>13, CompletionEffect
  <2>2. SameIdentity(WorkflowOf(q))
    BY <2>1 DEF CompletionDelta
  <2>3. pc'[q] = pc[q] /\ saw'[q] = saw[q] /\ def'[q] = def[q]
    BY <2>1 DEF CompletionDelta
  <2> QED
    BY <1>0, <2>2, <2>3 DEF SameIdentity
<1>14. CASE UNCHANGED <<pc, flows, saw, def>>
  BY <1>0, <1>14
<1> QED
  BY <1>1, <1>2, <1>3, <1>4, <1>5, <1>6, <1>7, <1>8, <1>9, <1>10, <1>11, <1>12, <1>13, <1>14 DEF Next, Step, Complete, vars, Finish, LockCase, DecideCase, FailCompletion, EnsureCase, Deploy, Retire

\* A row past STARTING has been run.
LEMMA StartedOKStep == IInv /\ [Next]_vars => StartedOK'
<1> SUFFICES ASSUME IInv, [Next]_vars PROVE StartedOK'
  OBVIOUS
<1> USE RequestType DEF StartedOK
<1>0. TypeOK /\ RowsOK /\ ReadsOK /\ StartedOK
  BY DEF IInv
<1>1. ASSUME NEW p \in Clients, Call(p) PROVE StartedOK'
  BY <1>0, <1>1 DEF TypeOK, Call, Answers
<1>2. ASSUME NEW p \in Clients, Lookup(p) PROVE StartedOK'
  BY <1>0, <1>2 DEF TypeOK, Lookup, ResumeAt
<1>3. ASSUME NEW p \in Clients, CheckTemplate(p) PROVE StartedOK'
  BY <1>0, <1>3 DEF TypeOK, CheckTemplate
<1>4. ASSUME NEW p \in Clients, RecordCase(p) PROVE StartedOK'
  BY <1>0, <1>4 DEF TypeOK, RecordCase
<1>5. ASSUME NEW p \in Clients, RecordRepeat(p) PROVE StartedOK'
  BY <1>0, <1>5 DEF TypeOK, RecordRepeat, FlowUncontended, NoTx
<1>6. ASSUME NEW p \in Clients, RecordFlow(p) PROVE StartedOK'
  BY <1>0, <1>6 DEF TypeOK, RecordFlow, FlowUncontended
<1>7. ASSUME NEW p \in Clients, RecordReopen(p) PROVE StartedOK'
  BY <1>0, <1>7 DEF TypeOK, RecordReopen
<1>8. ASSUME NEW p \in Clients, NEW acked \in BOOLEAN, RecordCommit(p, acked) PROVE StartedOK'
  <2>1. RecordDelta(p)
    BY <1>8, RecordEffect
  <2>2. /\ UNCHANGED run /\ flows[WorkflowOf(p)] = None
        /\ flows'[WorkflowOf(p)].status = "STARTING"
        /\ \A w \in Workflows \ {WorkflowOf(p)} : flows'[w] = flows[w]
        /\ \A q \in Clients : pc'[q] = "mark" => pc[q] = "mark"
    BY <2>1 DEF RecordDelta
  <2>3. run[WorkflowOf(p)].stage = "none"
    BY <1>0, <2>2 DEF RowsOK, RowOK
  <2> QED
    BY <1>0, <2>2, <2>3
<1>9. ASSUME NEW p \in Clients, Reread(p) PROVE StartedOK'
  BY <1>0, <1>9 DEF TypeOK, Reread, ResumeAt, DefOfRow
<1>10. ASSUME NEW p \in Clients, NEW acked \in BOOLEAN, Start(p, acked) PROVE StartedOK'
  <2>1. StartDelta(p)
    BY <1>10, StartEffect
  <2> QED
    BY <1>0, <2>1, RowType DEF StartDelta, Live
<1>11. ASSUME NEW p \in Clients, NEW acked \in BOOLEAN, MarkStarted(p, acked) PROVE StartedOK'
  <2>1. MarkDelta(p)
    BY <1>11, MarkEffect
  <2>2. UNCHANGED run /\ \A q \in Clients : pc'[q] = "mark" => pc[q] = "mark"
    BY <2>1 DEF MarkDelta
  <2>3. run[WorkflowOf(p)].n > 0
    BY <1>0, <2>1 DEF MarkDelta
  <2>4. \A w \in Workflows : /\ flows'[w] = None <=> flows[w] = None
                             /\ w # WorkflowOf(p) => flows'[w] = flows[w]
                             /\ flows[w].status = "COMPLETED" => flows'[w].status = "COMPLETED"
    BY <2>1 DEF MarkDelta, SameIdentity
  <2>5. ASSUME NEW w \in Workflows, flows'[w] # None, flows'[w].status # "STARTING"
        PROVE  run[w].n > 0
    <3>1. CASE w = WorkflowOf(p)
      BY <2>3, <3>1
    <3>2. CASE w # WorkflowOf(p)
      BY <1>0, <2>4, <2>5, <3>2
    <3> QED
      BY <3>1, <3>2
  <2>6. \A w \in Workflows : run[w].stage = "closed" => flows'[w].status = "COMPLETED"
    BY <1>0, <2>4
  <2>7. \A q \in Clients : pc'[q] = "mark" => run[WorkflowOf(q)].n > 0
    BY <1>0, <2>2
  <2> QED
    BY <2>2, <2>5, <2>6, <2>7
<1>12. ASSUME NEW p \in Clients, Fail(p) PROVE StartedOK'
  BY <1>0, <1>12 DEF TypeOK, Fail, NoTx, Serving
<1>13. ASSUME NEW w \in Workflows, Finish(w) PROVE StartedOK'
  BY <1>0, <1>13 DEF TypeOK, Finish
<1>14. ASSUME NEW w \in Workflows, LockCase(w) PROVE StartedOK'
  BY <1>0, <1>14 DEF TypeOK, LockCase
<1>15. ASSUME NEW w \in Workflows, DecideCase(w) PROVE StartedOK'
  BY <1>0, <1>15 DEF TypeOK, DecideCase
<1>16. ASSUME NEW w \in Workflows, NEW acked \in BOOLEAN, CommitCompletion(w, acked) PROVE StartedOK'
  <2>1. CompletionDelta(w)
    BY <1>16, CompletionEffect
  <2>2. run[w].n > 0
    BY <1>0, <2>1 DEF CompletionDelta, RowsOK, RowOK
  <2>3. \A u \in Workflows : run'[u].n = run[u].n /\ (u # w => run'[u] = run[u])
    BY <2>1 DEF CompletionDelta
  <2> QED
    BY <1>0, <2>1, <2>2, <2>3 DEF CompletionDelta
<1>17. ASSUME NEW w \in Workflows, FailCompletion(w) PROVE StartedOK'
  BY <1>0, <1>17 DEF TypeOK, FailCompletion
<1>18. CASE UNCHANGED <<flows, run, pc>>
  BY <1>0, <1>18
<1> QED
  BY <1>1, <1>2, <1>3, <1>4, <1>5, <1>6, <1>7, <1>8, <1>9, <1>10, <1>11, <1>12, <1>13, <1>14, <1>15, <1>16, <1>17, <1>18 DEF Next, Step, Complete, vars, EnsureCase, Deploy, Retire

\* Runs agree with their rows.
LEMMA RunsAsRecordedStep == IInv /\ [Next]_vars => RunsAsRecorded'
<1> SUFFICES ASSUME IInv, [Next]_vars PROVE RunsAsRecorded'
  OBVIOUS
<1> USE RequestType DEF RunsAsRecorded, RunAgrees
<1>0. TypeOK /\ RowsOK /\ ReadsOK /\ RunsAsRecorded
  BY DEF IInv
<1>1. ASSUME NEW p \in Clients, NEW acked \in BOOLEAN, RecordCommit(p, acked) PROVE RunsAsRecorded'
  <2>1. RecordDelta(p)
    BY <1>1, RecordEffect
  <2> QED
    BY <1>0, <2>1, RowType DEF RecordDelta
<1>2. ASSUME NEW p \in Clients, NEW acked \in BOOLEAN, Start(p, acked) PROVE RunsAsRecorded'
  <2> SUFFICES ASSUME NEW w \in Workflows PROVE RunAgrees(w)'
    BY DEF RunsAsRecorded
  <2>1. StartDelta(p)
    BY <1>2, StartEffect
  <2>2. CASE w # WorkflowOf(p) \/ run'[w] = run[w]
    BY <1>0, <2>1, <2>2 DEF StartDelta
  <2>3. CASE w = WorkflowOf(p) /\ run'[w] # run[w]
    <3>1. /\ run'[w].def = def[p] /\ run'[w].version = saw[p].version
          /\ run'[w].by = saw[p].by /\ UNCHANGED flows
      BY <2>1, <2>3 DEF StartDelta
    <3>2. ReadOK(p) /\ RowOK(w) /\ pc[p] = "start"
      BY <1>0, <2>1 DEF StartDelta, ReadsOK, RowsOK
    <3> QED
      BY <2>3, <3>1, <3>2 DEF ReadOK, RowOK
  <2> QED
    BY <2>2, <2>3
<1>3. ASSUME NEW p \in Clients, NEW acked \in BOOLEAN, MarkStarted(p, acked) PROVE RunsAsRecorded'
  <2>1. MarkDelta(p)
    BY <1>3, MarkEffect
  <2> QED
    BY <1>0, <2>1, RowType DEF MarkDelta, SameIdentity
<1>4. ASSUME NEW w \in Workflows, Finish(w) PROVE RunsAsRecorded'
  BY <1>0, <1>4 DEF TypeOK, Finish
<1>5. ASSUME NEW w \in Workflows, LockCase(w) PROVE RunsAsRecorded'
  BY <1>0, <1>5 DEF TypeOK, LockCase
<1>6. ASSUME NEW w \in Workflows, DecideCase(w) PROVE RunsAsRecorded'
  BY <1>0, <1>6 DEF TypeOK, DecideCase
<1>7. ASSUME NEW w \in Workflows, NEW acked \in BOOLEAN, CommitCompletion(w, acked) PROVE RunsAsRecorded'
  <2>1. CompletionDelta(w)
    BY <1>7, CompletionEffect
  <2> QED
    BY <1>0, <2>1, RowType DEF CompletionDelta, SameIdentity
<1>8. ASSUME NEW w \in Workflows, FailCompletion(w) PROVE RunsAsRecorded'
  BY <1>0, <1>8 DEF TypeOK, FailCompletion
<1>9. CASE UNCHANGED <<run, flows>>
  BY <1>0, <1>9
<1> QED
  BY <1>1, <1>2, <1>3, <1>4, <1>5, <1>6, <1>7, <1>8, <1>9 DEF Next, Step, Complete, vars, Call, Lookup, CheckTemplate, RecordCase, RecordRepeat, RecordFlow, RecordReopen, Reread, Fail, EnsureCase, Deploy, Retire

\* An ok answer means the flow has run.
LEMMA AnsweredOkRanStep == IInv /\ [Next]_vars => AnsweredOkRan'
<1> SUFFICES ASSUME IInv, [Next]_vars PROVE AnsweredOkRan'
  OBVIOUS
<1> USE RequestType DEF AnsweredOkRan, OkRan
<1>0. TypeOK /\ ReadsOK /\ RowsOK /\ StartedOK /\ AnsweredOkRan
  BY DEF IInv
<1>1. ASSUME NEW p \in Clients, Call(p) PROVE AnsweredOkRan'
  BY <1>0, <1>1 DEF TypeOK, Call, Answers
<1>2. ASSUME NEW p \in Clients, Lookup(p) PROVE AnsweredOkRan'
  <2> SUFFICES ASSUME NEW q \in Clients PROVE OkRan(q)'
    BY DEF AnsweredOkRan
  <2>1. CASE q = p
    <3>1. UNCHANGED <<run, flows>>
      BY <1>2 DEF Lookup
    <3>2. pc'[p] = "ok" =>
            /\ flows[WorkflowOf(p)] # None /\ flows[WorkflowOf(p)].status # "STARTING"
            /\ flows[WorkflowOf(p)].case = CaseOf(p)
            /\ flows[WorkflowOf(p)].template = Request[p].template
      BY <1>0, <1>2 DEF TypeOK, Lookup, ResumeAt, ReadsOK, ReadOK
    <3> QED
      BY <1>0, <2>1, <3>1, <3>2 DEF StartedOK
  <2>2. CASE q # p
    BY <1>0, <1>2, <2>2 DEF TypeOK, Lookup
  <2> QED
    BY <2>1, <2>2
<1>3. ASSUME NEW p \in Clients, CheckTemplate(p) PROVE AnsweredOkRan'
  BY <1>0, <1>3 DEF TypeOK, CheckTemplate
<1>4. ASSUME NEW p \in Clients, RecordCase(p) PROVE AnsweredOkRan'
  BY <1>0, <1>4 DEF TypeOK, RecordCase
<1>5. ASSUME NEW p \in Clients, RecordRepeat(p) PROVE AnsweredOkRan'
  BY <1>0, <1>5 DEF TypeOK, RecordRepeat, FlowUncontended, NoTx
<1>6. ASSUME NEW p \in Clients, RecordFlow(p) PROVE AnsweredOkRan'
  BY <1>0, <1>6 DEF TypeOK, RecordFlow, FlowUncontended
<1>7. ASSUME NEW p \in Clients, RecordReopen(p) PROVE AnsweredOkRan'
  BY <1>0, <1>7 DEF TypeOK, RecordReopen
<1>8. ASSUME NEW p \in Clients, NEW acked \in BOOLEAN, RecordCommit(p, acked) PROVE AnsweredOkRan'
  <2> SUFFICES ASSUME NEW q \in Clients PROVE OkRan(q)'
    BY DEF AnsweredOkRan
  <2>1. RecordDelta(p)
    BY <1>8, RecordEffect
  <2>2. pc'[q] = "ok" => q # p /\ pc[q] = "ok"
    BY <2>1 DEF RecordDelta
  <2>3. pc[q] = "ok" => WorkflowOf(q) # WorkflowOf(p)
    BY <1>0, <2>1 DEF RecordDelta, ReadsOK, ReadOK
  <2> QED
    BY <1>0, <2>1, <2>2, <2>3 DEF RecordDelta
<1>9. ASSUME NEW p \in Clients, Reread(p) PROVE AnsweredOkRan'
  <2> SUFFICES ASSUME NEW q \in Clients PROVE OkRan(q)'
    BY DEF AnsweredOkRan
  <2>1. CASE q = p
    <3>1. UNCHANGED <<run, flows>>
      BY <1>9 DEF Reread
    <3>2. pc'[p] = "ok" =>
            /\ flows[WorkflowOf(p)] # None /\ flows[WorkflowOf(p)].status # "STARTING"
            /\ flows[WorkflowOf(p)].case = CaseOf(p)
            /\ flows[WorkflowOf(p)].template = Request[p].template
      BY <1>0, <1>9 DEF TypeOK, Reread, ResumeAt, ReadsOK, ReadOK
    <3> QED
      BY <1>0, <2>1, <3>1, <3>2 DEF StartedOK
  <2>2. CASE q # p
    BY <1>0, <1>9, <2>2 DEF TypeOK, Reread
  <2> QED
    BY <2>1, <2>2
<1>10. ASSUME NEW p \in Clients, NEW acked \in BOOLEAN, Start(p, acked) PROVE AnsweredOkRan'
  <2>1. StartDelta(p)
    BY <1>10, StartEffect
  <2> QED
    BY <1>0, <2>1, RowType DEF StartDelta, Live
<1>11. ASSUME NEW p \in Clients, NEW acked \in BOOLEAN, MarkStarted(p, acked) PROVE AnsweredOkRan'
  <2> SUFFICES ASSUME NEW q \in Clients, pc'[q] = "ok" PROVE OkRan(q)'
    BY DEF AnsweredOkRan
  <2>1. MarkDelta(p)
    BY <1>11, MarkEffect
  <2>2. UNCHANGED run /\ SameIdentity(WorkflowOf(q)) /\ (q # p => pc[q] = "ok") /\ pc[p] = "mark"
    BY <2>1 DEF MarkDelta
  <2>3. flows[WorkflowOf(q)] # None /\ run[WorkflowOf(q)].n > 0
    BY <1>0, <2>2 DEF ReadsOK, ReadOK, StartedOK
  <2>4. CASE q = p
    BY <1>0, <2>2, <2>3, <2>4 DEF SameIdentity, ReadsOK, ReadOK
  <2>5. CASE q # p
    BY <1>0, <2>2, <2>3, <2>5 DEF SameIdentity
  <2> QED
    BY <2>4, <2>5
<1>12. ASSUME NEW p \in Clients, Fail(p) PROVE AnsweredOkRan'
  BY <1>0, <1>12 DEF TypeOK, Fail, NoTx, Serving
<1>13. ASSUME NEW w \in Workflows, Finish(w) PROVE AnsweredOkRan'
  BY <1>0, <1>13 DEF TypeOK, Finish
<1>14. ASSUME NEW w \in Workflows, LockCase(w) PROVE AnsweredOkRan'
  BY <1>0, <1>14 DEF TypeOK, LockCase
<1>15. ASSUME NEW w \in Workflows, DecideCase(w) PROVE AnsweredOkRan'
  BY <1>0, <1>15 DEF TypeOK, DecideCase
<1>16. ASSUME NEW w \in Workflows, NEW acked \in BOOLEAN, CommitCompletion(w, acked) PROVE AnsweredOkRan'
  <2>1. CompletionDelta(w)
    BY <1>16, CompletionEffect
  <2> QED
    BY <1>0, <2>1, RowType DEF CompletionDelta, SameIdentity
<1>17. ASSUME NEW w \in Workflows, FailCompletion(w) PROVE AnsweredOkRan'
  BY <1>0, <1>17 DEF TypeOK, FailCompletion
<1>18. CASE UNCHANGED <<pc, run, flows>>
  BY <1>0, <1>18
<1> QED
  BY <1>1, <1>2, <1>3, <1>4, <1>5, <1>6, <1>7, <1>8, <1>9, <1>10, <1>11, <1>12, <1>13, <1>14, <1>15, <1>16, <1>17, <1>18 DEF Next, Step, Complete, vars, EnsureCase, Deploy, Retire

\* FINISHED means that every flow has completed.
LEMMA FinishedExactStep == IInv /\ [Next]_vars => FinishedExact'
<1> SUFFICES ASSUME IInv, [Next]_vars PROVE FinishedExact'
  OBVIOUS
<1> USE RequestType DEF FinishedExact, FlowsOf
<1>0. TypeOK /\ TxOK /\ TxUnique /\ LocksOK /\ RowsOK /\ DecidedOK /\ FinishedExact
  BY DEF IInv
<1>1. ASSUME NEW p \in Clients, NEW acked \in BOOLEAN, RecordCommit(p, acked) PROVE FinishedExact'
  <2>1. RecordDelta(p)
    BY <1>1, RecordEffect
  <2> QED
    BY <1>0, <2>1, RowType DEF RecordDelta
<1>2. ASSUME NEW p \in Clients, NEW acked \in BOOLEAN, MarkStarted(p, acked) PROVE FinishedExact'
  <2>1. MarkDelta(p)
    BY <1>2, MarkEffect
  <2> QED
    BY <1>0, <2>1, RowType DEF MarkDelta, SameIdentity
<1>3. ASSUME NEW w \in Workflows, NEW acked \in BOOLEAN, CommitCompletion(w, acked) PROVE FinishedExact'
  <2> SUFFICES ASSUME NEW c \in Cases
               PROVE  cases'[c] = "FINISHED" <=>
                        /\ \E u \in Workflows : flows'[u] # None /\ flows'[u].case = c
                        /\ \A u \in Workflows : flows'[u] # None /\ flows'[u].case = c =>
                             flows'[u].status = "COMPLETED"
    OBVIOUS
  <2>1. CompletionDelta(w)
    BY <1>3, CompletionEffect
  <2>2. /\ flows[w] # None /\ flows'[w] # None /\ flows'[w].case = flows[w].case
        /\ flows'[w].status = "COMPLETED"
        /\ \A u \in Workflows \ {w} : flows'[u] = flows[u]
    BY <2>1 DEF CompletionDelta, SameIdentity
  <2>3. CASE c # flows[w].case
    <3>1. cases'[c] = cases[c]
      BY <2>1, <2>3 DEF CompletionDelta
    <3> QED
      BY <1>0, <2>2, <2>3, <3>1
  <2>4. CASE c = flows[w].case
    <3>1. run[w].finish <=> \A u \in Workflows :
             u # w /\ flows[u] # None /\ flows[u].case = c => flows[u].status = "COMPLETED"
      BY <1>0, <2>1, <2>4 DEF CompletionDelta, DecidedOK, Decided
    <3>2. cases'[c] = IF run[w].finish THEN "FINISHED" ELSE cases[c]
      BY <2>1, <2>4 DEF CompletionDelta
    <3>3. CASE run[w].finish
      BY <2>2, <2>4, <3>1, <3>2, <3>3
    \* Another flow is open, so the case was not FINISHED and is not now.
    <3>4. CASE ~run[w].finish
      <4>1. PICK u \in Workflows \ {w} : /\ flows[u] # None /\ flows[u].case = c
                                         /\ flows[u].status # "COMPLETED"
        BY <3>1, <3>4
      <4>2. cases[c] # "FINISHED"
        BY <1>0, <4>1
      <4> QED
        BY <2>2, <3>2, <3>4, <4>1, <4>2
    <3> QED
      BY <3>3, <3>4
  <2> QED
    BY <2>3, <2>4
<1>4. ASSUME NEW c \in Cases, EnsureCase(c) PROVE FinishedExact'
  BY <1>0, <1>4 DEF TypeOK, EnsureCase
<1>5. CASE UNCHANGED <<cases, flows>>
  BY <1>0, <1>5
<1> QED
  BY <1>1, <1>2, <1>3, <1>4, <1>5 DEF Next, Step, Complete, vars, Call, Lookup, CheckTemplate, RecordCase, RecordRepeat, RecordFlow, RecordReopen, Reread, Start, Fail, Finish, LockCase, DecideCase, FailCompletion, Deploy, Retire

----------------------------------------------------------------------------
(***************************************************************************)
(* The inductive invariant holds in every state.                           *)
(***************************************************************************)
\* The initial state satisfies the inductive invariant.
LEMMA InitIInv == Init => IInv
<1> SUFFICES ASSUME Init PROVE IInv
  OBVIOUS
<1> USE DEF Init
<1>1. TypeOK
  BY VersionAssumption, NoTxType, NoRunType DEF TypeOK, OwnersOrNone, FlowOrNone, Versions
<1>2. TxOK /\ TxUnique
  BY RequestType DEF TxOK, HoldsTx, TxUnique, NoTx, InTx
<1>3. LocksOK /\ RowsOK /\ DecidedOK /\ StartedOK /\ RunsAsRecorded
  BY RequestType DEF LocksOK, ForUpdate, RowsOK, RowOK, DecidedOK, Decided, StartedOK,
                     RunsAsRecorded, RunAgrees, NoRun
<1>4. ReadsOK /\ AnsweredOkRan
  BY DEF ReadsOK, ReadOK, AnsweredOkRan, OkRan
<1>5. FinishedExact
  BY DEF FinishedExact, FlowsOf
<1> QED
  BY <1>1, <1>2, <1>3, <1>4, <1>5 DEF IInv

\* The inductive invariant: what StartFlow, its transactions, the engine and the
\* completion activity keep true together, for every set of clients, cases and workflows.
THEOREM IInvHolds == Spec => []IInv
<1>1. IInv /\ [Next]_vars => IInv'
  BY TypeStep, TxOKStep, TxUniqueStep, LocksOKStep, RowsOKStep, DecidedOKStep, ReadsOKStep,
     StartedOKStep, RunsAsRecordedStep, AnsweredOkRanStep, FinishedExactStep DEF IInv
<1> QED
  BY InitIInv, <1>1, PTL DEF Spec

\* Every variable of the case ledger's implementation keeps its type.
THEOREM TypeCorrect == Spec => []TypeOK
BY IInvHolds, PTL DEF IInv

\* A case is FINISHED exactly when all its flows, of which it has some, are COMPLETED.
THEOREM FinishedIsExact == Spec => []FinishedExact
BY IInvHolds, PTL DEF IInv

\* A run has the definition, the variables and the payload its row was recorded with.
THEOREM EveryRunAsRecorded == Spec => []RunsAsRecorded
BY IInvHolds, PTL DEF IInv

\* A client that is told ok has its flow run under its own case and template.
THEOREM OkMeansRun == Spec => []AnsweredOkRan
BY IInvHolds, PTL DEF IInv

----------------------------------------------------------------------------
(***************************************************************************)
(* No orphan cases: a flow has its case, and only EnsureCase makes a case  *)
(* without a flow.                                                         *)
(***************************************************************************)
\* No step, MarkCompleted and a repeated Record included, leaves a case without its flow.
LEMMA NoOrphanStep == IInv /\ NoOrphanCase /\ [Next]_vars => NoOrphanCase'
<1> SUFFICES ASSUME IInv, NoOrphanCase, [Next]_vars, IInv' PROVE NoOrphanCase'
  BY TypeStep, TxOKStep, TxUniqueStep, LocksOKStep, RowsOKStep, DecidedOKStep, ReadsOKStep,
     StartedOKStep, RunsAsRecordedStep, AnsweredOkRanStep, FinishedExactStep DEF IInv
<1>1. \A w \in Workflows : flows'[w] # None => cases'[flows'[w].case] # "none"
  BY DEF IInv, RowsOK, RowOK
<1> SUFFICES ASSUME NEW c \in Cases \ EnsuredCases, cases'[c] # "none"
             PROVE  \E w \in Workflows : flows'[w] # None /\ flows'[w].case = c
  BY <1>1 DEF NoOrphanCase, FlowsOf
<1>2. cases[c] # "none" => \E w \in Workflows : flows[w] # None /\ flows[w].case = c
  BY DEF NoOrphanCase, FlowsOf
<1>3. ASSUME NEW p \in Clients, NEW acked \in BOOLEAN, RecordCommit(p, acked)
      PROVE  \E w \in Workflows : flows'[w] # None /\ flows'[w].case = c
  <2>1. RecordDelta(p)
    BY <1>3, RecordEffect
  <2>2. CASE c = CaseOf(p)
    BY <2>1, <2>2, RequestType DEF RecordDelta
  <2>3. CASE c # CaseOf(p)
    BY <1>2, <2>1, <2>3, RequestType DEF RecordDelta
  <2> QED
    BY <2>2, <2>3
<1>4. ASSUME NEW p \in Clients, NEW acked \in BOOLEAN, MarkStarted(p, acked)
      PROVE  \E w \in Workflows : flows'[w] # None /\ flows'[w].case = c
  BY <1>2, <1>4, MarkEffect DEF MarkDelta, SameIdentity
<1>5. ASSUME NEW w \in Workflows, NEW acked \in BOOLEAN, CommitCompletion(w, acked)
      PROVE  \E u \in Workflows : flows'[u] # None /\ flows'[u].case = c
  <2>1. CompletionDelta(w)
    BY <1>5, CompletionEffect
  <2>2. CASE c = flows[w].case
    BY <2>1, <2>2 DEF CompletionDelta, SameIdentity
  <2>3. CASE c # flows[w].case
    BY <1>2, <2>1, <2>3 DEF CompletionDelta, SameIdentity
  <2> QED
    BY <2>2, <2>3
<1>6. ASSUME NEW d \in Cases, EnsureCase(d)
      PROVE  \E w \in Workflows : flows'[w] # None /\ flows'[w].case = c
  BY <1>2, <1>6 DEF EnsureCase, IInv, TypeOK
<1>7. CASE UNCHANGED <<cases, flows>>
  BY <1>2, <1>7
<1> QED
  BY <1>3, <1>4, <1>5, <1>6, <1>7 DEF Next, Step, Complete, vars, Call, Lookup, CheckTemplate,
     RecordCase, RecordRepeat, RecordFlow, RecordReopen, Reread, Start, Fail, Finish, LockCase,
     DecideCase, FailCompletion, Deploy, Retire

\* A recorded flow has its case, and a case that nobody ensured has a flow.
THEOREM NoCaseOrphaned == Spec => []NoOrphanCase
<1>1. Init => NoOrphanCase
  BY DEF Init, NoOrphanCase
<1> QED
  BY <1>1, IInvHolds, NoOrphanStep, PTL DEF Spec

----------------------------------------------------------------------------
(***************************************************************************)
(* What a step never does.                                                 *)
(***************************************************************************)
\* A row keeps what it was recorded with, and its status only moves forward.
THEOREM RecordsAreForGood == Spec => RecordedForGood
<1> DEFINE Kept(w) == /\ flows'[w] = [flows[w] EXCEPT !.status = flows'[w].status]
                      /\ Rank(flows'[w].status) >= Rank(flows[w].status)
           Keeps == \A w \in Workflows : flows[w] # None => Kept(w)
<1>1. ASSUME IInv, NEW w \in Workflows, flows[w] # None, flows'[w] = flows[w] PROVE Kept(w)
  <2>1. flows[w] \in Flow /\ flows[w].status \in Statuses
    BY <1>1, FlowFields DEF IInv, TypeOK, FlowOrNone
  <2> QED
    BY <1>1, <2>1 DEF Flow, Rank, Statuses
<1>2. ASSUME IInv, [Next]_vars PROVE Keeps
  <2> SUFFICES ASSUME NEW w \in Workflows, flows[w] # None PROVE Kept(w)
    OBVIOUS
  <2>0. /\ flows[w] \in Flow /\ flows[w].status \in Statuses /\ flows \in [Workflows -> FlowOrNone]
    BY <1>2, FlowFields DEF IInv, TypeOK, FlowOrNone
  <2>1. ASSUME NEW p \in Clients, NEW acked \in BOOLEAN, RecordCommit(p, acked)
        PROVE  flows'[w] = flows[w]
    BY <1>2, <2>1, RecordEffect, RequestType DEF RecordDelta
  <2>2. ASSUME NEW p \in Clients, NEW acked \in BOOLEAN, MarkStarted(p, acked) PROVE Kept(w)
    <3>1. CASE w = WorkflowOf(p)
      <4>1. flows'[w] = [flows[w] EXCEPT !.status = StartedFrom(flows[w].status)]
        BY <2>0, <2>2, <3>1, RequestType DEF MarkStarted
      <4>2. flows'[w].status = StartedFrom(flows[w].status)
        BY <2>0, <4>1 DEF Flow
      <4> QED
        BY <2>0, <4>1, <4>2 DEF StartedFrom, Rank, Statuses
    <3>2. CASE w # WorkflowOf(p)
      BY <1>1, <1>2, <2>2, <3>2, MarkEffect DEF MarkDelta
    <3> QED
      BY <3>1, <3>2
  <2>3. ASSUME NEW u \in Workflows, NEW acked \in BOOLEAN, CommitCompletion(u, acked) PROVE Kept(w)
    <3>1. CASE w = u
      <4>1. flows'[w] = [flows[w] EXCEPT !.status = "COMPLETED"]
        BY <2>0, <2>3, <3>1 DEF CommitCompletion
      <4>2. flows'[w].status = "COMPLETED"
        BY <2>0, <4>1 DEF Flow
      <4> QED
        BY <2>0, <4>1, <4>2 DEF Rank, Statuses
    <3>2. CASE w # u
      BY <1>1, <1>2, <2>3, <3>2, CompletionEffect DEF CompletionDelta
    <3> QED
      BY <3>1, <3>2
  <2>4. CASE UNCHANGED flows
    BY <1>1, <1>2, <2>4
  <2> QED
    BY <1>1, <1>2, <2>1, <2>2, <2>3, <2>4 DEF Next, Step, Complete, vars, Call, Lookup,
       CheckTemplate, RecordCase, RecordRepeat, RecordFlow, RecordReopen, Reread, Start, Fail,
       Finish, LockCase, DecideCase, FailCompletion, EnsureCase, Deploy, Retire
<1>3. IInv /\ [Next]_vars => [Keeps]_vars
  BY <1>2
<1> QED
  BY <1>3, IInvHolds, PTL DEF Spec, RecordedForGood

\* A second run needs a completed flow and a client that read its row before that.
THEOREM RerunNeedsStaleRead == Spec => RerunOnlyFromStaleRead
<1> DEFINE Stale(w) == /\ flows[w].status = "COMPLETED"
                       /\ \E p \in Clients : /\ WorkflowOf(p) = w
                                             /\ pc[p] = "start" /\ pc'[p] # "start"
                                             /\ saw[p].status = "STARTING"
           Rerun == \A w \in Workflows : run'[w].n > run[w].n /\ run[w].n > 0 => Stale(w)
<1>1. ASSUME IInv, [Next]_vars PROVE Rerun
  <2> SUFFICES ASSUME NEW w \in Workflows, run'[w].n > run[w].n, run[w].n > 0 PROVE Stale(w)
    OBVIOUS
  <2>0. run[w] \in Run /\ run[w].n \in Nat /\ run \in [Workflows -> Run]
    BY <1>1, RunFields DEF IInv, TypeOK
  <2>1. ASSUME NEW p \in Clients, NEW acked \in BOOLEAN, Start(p, acked) PROVE Stale(w)
    <3>1. StartDelta(p)
      BY <1>1, <2>1, StartEffect
    <3>2. w = WorkflowOf(p) /\ ~Live(w)
      BY <2>0, <3>1, RequestType DEF StartDelta
    <3>3. run[w].stage = "closed"
      BY <1>1, <2>0, <3>2, RunFields DEF Live, Stages, IInv, RowsOK, RowOK
    <3>4. flows[w].status = "COMPLETED"
      BY <1>1, <3>3 DEF IInv, StartedOK
    <3>5. pc[p] = "start" /\ pc'[p] # "start" /\ saw[p].status = "STARTING"
      BY <1>1, <3>1 DEF StartDelta, IInv, ReadsOK, ReadOK
    <3> QED
      BY <3>2, <3>4, <3>5
  <2>2. ASSUME NEW u \in Workflows, NEW acked \in BOOLEAN, CommitCompletion(u, acked) PROVE FALSE
    BY <1>1, <2>0, <2>2, CompletionEffect DEF CompletionDelta
  <2>3. ASSUME NEW u \in Workflows, Finish(u) \/ LockCase(u) \/ DecideCase(u) \/ FailCompletion(u)
        PROVE  FALSE
    <3>1. run'[w].n = run[w].n
      BY <2>0, <2>3 DEF Finish, LockCase, DecideCase, FailCompletion, Run
    <3> QED
      BY <2>0, <3>1
  <2>4. CASE UNCHANGED run
    BY <2>0, <2>4
  <2> QED
    BY <1>1, <2>1, <2>2, <2>3, <2>4 DEF Next, Step, Complete, vars, Call, Lookup,
       CheckTemplate, RecordCase, RecordRepeat, RecordFlow, RecordReopen, RecordCommit, Reread,
       MarkStarted, Fail, EnsureCase, Deploy, Retire
<1>2. IInv /\ [Next]_vars => [Rerun]_vars
  BY <1>1
<1> QED
  BY <1>2, IInvHolds, PTL DEF Spec, RerunOnlyFromStaleRead

----------------------------------------------------------------------------
(***************************************************************************)
(* CaseFlows implements CaseLedger. A commit of Record is the ledger's     *)
(* Open, the first commit of MarkCompleted its Complete, and EnsureCase    *)
(* its Ensure; nothing else changes what the ledger sees.                  *)
(***************************************************************************)
\* What the ledger sees of one row.
LEMMA OpenFlowsAt ==
  ASSUME IInv, NEW w \in Workflows
  PROVE  /\ flows[w] = None => OpenFlows[w] = None
         /\ flows[w] # None => /\ OpenFlows[w] # None
                               /\ OpenFlows[w].case = flows[w].case
                               /\ (OpenFlows[w].progress = "done" <=> flows[w].status = "COMPLETED")
<1>1. CASE flows[w] = None
  BY <1>1 DEF OpenFlows
<1>2. CASE flows[w] # None
  <2>1. OpenFlows[w] = [case |-> flows[w].case,
                        progress |-> IF flows[w].status = "COMPLETED" THEN "done" ELSE "open"]
    BY <1>2 DEF OpenFlows
  <2>2. OpenFlows[w] \in LedgerRow
    BY <1>2, <2>1, RowType DEF LedgerRow
  <2> QED
    BY <1>2, <2>1, <2>2, NoneAssumption
<1> QED
  BY <1>1, <1>2

\* The initial states of the detailed specification map to the ledger's.
LEMMA LedgerInit == Init => Ledger!Init
BY DEF Init, Ledger!Init, OpenFlows

\* Rows that keep their identity and whether they are done look the same to the ledger.
LEMMA SameLedgerRows ==
  ASSUME \A w \in Workflows :
           /\ flows'[w] = None <=> flows[w] = None
           /\ flows[w] # None =>
                /\ flows'[w].case = flows[w].case
                /\ flows'[w].status = "COMPLETED" <=> flows[w].status = "COMPLETED"
  PROVE  OpenFlows' = OpenFlows
BY DEF OpenFlows

\* A commit of Record opens the flow in the ledger.
LEMMA CommitOpens ==
  ASSUME IInv, NEW p \in Clients, NEW acked \in BOOLEAN, RecordCommit(p, acked)
  PROVE  Ledger!Open(WorkflowOf(p), CaseOf(p), Request[p].owner)
<1>1. RecordDelta(p)
  BY RecordEffect
<1>2. OpenFlows[WorkflowOf(p)] = None
  BY <1>1, RequestType DEF RecordDelta, OpenFlows
<1>3. OpenFlows' = [OpenFlows EXCEPT ![WorkflowOf(p)] = [case |-> CaseOf(p), progress |-> "open"]]
  <2> SUFFICES ASSUME NEW u \in Workflows
               PROVE  OpenFlows'[u] = IF u = WorkflowOf(p) THEN [case |-> CaseOf(p), progress |-> "open"]
                                      ELSE OpenFlows[u]
    BY DEF OpenFlows
  <2>1. CASE u = WorkflowOf(p)
    <3>1. flows'[u] # None /\ flows'[u].case = CaseOf(p) /\ flows'[u].status = "STARTING"
      BY <1>1, <2>1 DEF RecordDelta
    <3> QED
      BY <2>1, <3>1 DEF OpenFlows
  <2>2. CASE u # WorkflowOf(p)
    BY <1>1, <2>2 DEF RecordDelta, OpenFlows
  <2> QED
    BY <2>1, <2>2
<1>4. cases' = [cases EXCEPT ![CaseOf(p)] = "IN_PROGRESS"]
  BY <1>1, RequestType DEF RecordCommit, RecordDelta, IInv, TypeOK
<1>5. holder' = [holder EXCEPT ![CaseOf(p)] = IF Request[p].owner = None THEN @ ELSE Request[p].owner]
  BY DEF RecordCommit
<1> QED
  BY <1>2, <1>3, <1>4, <1>5 DEF Ledger!Open

\* A ledger row with another progress.
LEMMA DoneRow ==
  ASSUME NEW C, NEW D, NEW d \in D, NEW r \in [case : C, progress : D]
  PROVE  [r EXCEPT !.progress = d] = [case |-> r.case, progress |-> d]
<1> DEFINE x == [r EXCEPT !.progress = d]
           y == [case |-> r.case, progress |-> d]
<1>1. x \in [case : C, progress : D] /\ x.case = r.case /\ x.progress = d
  OBVIOUS
<1>2. y \in [case : C, progress : D] /\ y.case = r.case /\ y.progress = d
  OBVIOUS
<1> HIDE DEF x, y
<1>3. x = y
  BY <1>1, <1>2
<1> QED
  BY <1>3 DEF x, y

\* The first commit of MarkCompleted completes the flow in the ledger; when the activity
\* runs again after its answer was lost, the ledger sees nothing.
LEMMA CommitCompletes ==
  ASSUME IInv, NEW w \in Workflows, NEW acked \in BOOLEAN, CommitCompletion(w, acked)
  PROVE  Ledger!Complete(w) \/ UNCHANGED <<cases, OpenFlows, holder>>
<1>1. CompletionDelta(w)
  BY CompletionEffect
<1>2. UNCHANGED holder
  BY DEF CommitCompletion
<1>3. /\ OpenFlows[w] # None /\ OpenFlows[w].case = flows[w].case
      /\ (OpenFlows[w].progress = "done" <=> flows[w].status = "COMPLETED")
  BY <1>1, OpenFlowsAt DEF CompletionDelta
<1>4. run[w].finish <=> \A u \in Workflows :
         u # w /\ flows[u] # None /\ flows[u].case = flows[w].case => flows[u].status = "COMPLETED"
  BY <1>1 DEF CompletionDelta, IInv, DecidedOK, Decided
<1>5. CASE flows[w].status = "COMPLETED"
  <2>1. run[w].finish => cases[flows[w].case] = "FINISHED"
    BY <1>1, <1>4, <1>5 DEF CompletionDelta, IInv, FinishedExact, FlowsOf
  <2>2. cases' = cases
    BY <1>1, <2>1 DEF CompletionDelta, CommitCompletion, IInv, TypeOK
  <2>3. OpenFlows' = OpenFlows
    <3>1. \A u \in Workflows :
            /\ flows'[u] = None <=> flows[u] = None
            /\ flows[u] # None =>
                 /\ flows'[u].case = flows[u].case
                 /\ flows'[u].status = "COMPLETED" <=> flows[u].status = "COMPLETED"
      BY <1>1, <1>5 DEF CompletionDelta, SameIdentity
    <3> QED
      BY <3>1, SameLedgerRows
  <2> QED
    BY <1>2, <2>2, <2>3
<1>6. CASE flows[w].status # "COMPLETED"
  <2>1. OpenFlows' = [OpenFlows EXCEPT ![w].progress = "done"]
    <3>1. /\ flows[w] # None /\ flows'[w] # None /\ flows'[w].case = flows[w].case
          /\ flows'[w].status = "COMPLETED"
      BY <1>1 DEF CompletionDelta, SameIdentity
    <3>2. OpenFlows'[w] = [case |-> flows[w].case, progress |-> "done"]
      BY <3>1 DEF OpenFlows
    <3>3. OpenFlows[w] = [case |-> flows[w].case, progress |-> "open"]
      BY <1>6, <3>1 DEF OpenFlows
    <3>4. [OpenFlows[w] EXCEPT !.progress = "done"] = [case |-> flows[w].case, progress |-> "done"]
      <4>1. OpenFlows[w] \in [case : Cases, progress : {"open", "done"}]
        BY <3>1, <3>3, RowType
      <4> QED
        BY <3>3, <4>1, DoneRow
    <3>5. \A u \in Workflows \ {w} : OpenFlows'[u] = OpenFlows[u]
      BY <1>1 DEF CompletionDelta, OpenFlows
    <3>6. /\ OpenFlows' = [u \in Workflows |-> OpenFlows'[u]]
          /\ OpenFlows = [u \in Workflows |-> OpenFlows[u]]
      BY DEF OpenFlows
    <3> QED
      BY <3>2, <3>4, <3>5, <3>6
  <2>2. run[w].finish <=> \A u \in Ledger!OnCase(OpenFlows[w].case) \ {w} : OpenFlows[u].progress = "done"
    BY <1>3, <1>4, OpenFlowsAt DEF Ledger!OnCase
  <2>3. cases' = [cases EXCEPT ![OpenFlows[w].case] =
                    IF \A u \in Ledger!OnCase(OpenFlows[w].case) \ {w} : OpenFlows[u].progress = "done"
                    THEN "FINISHED" ELSE @]
    BY <1>3, <2>2 DEF CommitCompletion
  <2>4. OpenFlows[w].progress = "open"
    BY <1>1, <1>6 DEF OpenFlows, CompletionDelta
  <2> QED
    BY <1>2, <1>3, <2>1, <2>3, <2>4 DEF Ledger!Complete
<1> QED
  BY <1>5, <1>6

\* Every step is one of the ledger's or changes nothing it sees.
LEMMA LedgerStep == IInv /\ [Next]_vars => [Ledger!Next]_<<cases, OpenFlows, holder>>
<1> SUFFICES ASSUME IInv, [Next]_vars
             PROVE  Ledger!Next \/ UNCHANGED <<cases, OpenFlows, holder>>
  OBVIOUS
<1>1. ASSUME NEW p \in Clients, NEW acked \in BOOLEAN, RecordCommit(p, acked) PROVE Ledger!Next
  BY <1>1, CommitOpens, RequestType DEF Ledger!Next, OwnersOrNone
<1>2. ASSUME NEW p \in Clients, NEW acked \in BOOLEAN, MarkStarted(p, acked)
      PROVE  UNCHANGED <<cases, OpenFlows, holder>>
  <2>1. MarkDelta(p)
    BY <1>2, MarkEffect
  <2>2. \A u \in Workflows :
          /\ flows'[u] = None <=> flows[u] = None
          /\ flows[u] # None =>
               /\ flows'[u].case = flows[u].case
               /\ flows'[u].status = "COMPLETED" <=> flows[u].status = "COMPLETED"
    BY <2>1 DEF MarkDelta, SameIdentity
  <2>3. OpenFlows' = OpenFlows
    BY <2>2, SameLedgerRows
  <2> QED
    BY <1>2, <2>3 DEF MarkStarted
<1>3. ASSUME NEW w \in Workflows, NEW acked \in BOOLEAN, CommitCompletion(w, acked)
      PROVE  Ledger!Next \/ UNCHANGED <<cases, OpenFlows, holder>>
  BY <1>3, CommitCompletes DEF Ledger!Next
<1>4. ASSUME NEW c \in Cases, EnsureCase(c) PROVE Ledger!Next
  <2>1. UNCHANGED OpenFlows
    BY <1>4 DEF EnsureCase, OpenFlows
  <2>2. Ledger!Ensure(c)
    BY <1>4, <2>1 DEF EnsureCase, Ledger!Ensure
  <2> QED
    BY <2>2 DEF Ledger!Next
<1>5. CASE UNCHANGED <<cases, flows, holder>>
  BY <1>5 DEF OpenFlows
<1> QED
  BY <1>1, <1>2, <1>3, <1>4, <1>5 DEF Next, Step, Complete, vars, Call, Lookup, CheckTemplate,
     RecordCase, RecordRepeat, RecordFlow, RecordReopen, Reread, Start, Fail, Finish, LockCase,
     DecideCase, FailCompletion, Deploy, Retire

\* The transactions, the engine and the retries together implement the ledger.
THEOREM RefinesLedger == Spec => ImplementsLedger
BY LedgerInit, LedgerStep, IInvHolds, PTL DEF Spec, ImplementsLedger, Ledger!Spec, Ledger!ledgerVars
============================================================================
