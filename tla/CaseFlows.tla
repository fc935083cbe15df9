----------------------------- MODULE CaseFlows -----------------------------
(***************************************************************************)
(* internal/caseflow: a case has flows, each flow is one workflow run.     *)
(* StartFlow records a flow in a PostgreSQL transaction and then asks the  *)
(* workflow engine to start it; the engine's completion activity records   *)
(* that it is over and finishes the case with its last flow.               *)
(*                                                                         *)
(* A client is one caller of StartFlow together with the caller's retries. *)
(* A transaction is a sequence of statements: what it has written is in    *)
(* tx[p] (Record) or run[w].stage (MarkCompleted) until it commits, and    *)
(* the row locks that PostgreSQL takes for it are read off those two.      *)
(***************************************************************************)
EXTENDS Integers

CONSTANTS
  Clients,      \* callers of StartFlow
  Cases,        \* case IDs
  Workflows,    \* workflow IDs
  Templates,    \* workflow definitions by name
  Owners,       \* OU handles that can hold a role on a case
  None,         \* no row, no owner
  MaxVersion,   \* artifact manifest versions are 1 .. MaxVersion
  Request,      \* what each client asks StartFlow for
  TemplatesAt,  \* the templates each manifest version holds
  EnsuredCases, \* the cases a domain service creates before it starts a flow
  MaxFaults     \* bound on calls that fail

Versions == 1 .. MaxVersion
OwnersOrNone == Owners \cup {None}

\* stable: the caller chose the workflow ID and uses it again when it retries;
\* otherwise the ID is a fresh uuid, which no other request can name.
Requests == [case : Cases, template : Templates, workflow : Workflows,
             stable : BOOLEAN, owner : OwnersOrNone]

Statuses == {"STARTING", "STARTED", "COMPLETED"}
Flow == [case : Cases, template : Templates, version : Versions,
         status : Statuses, by : Clients]
FlowOrNone == Flow \cup {None}
LedgerRow == [case : Cases, progress : {"open", "done"}]

ASSUME VersionAssumption == MaxVersion \in Nat \ {0} /\ MaxFaults \in Nat
ASSUME RequestAssumption ==
  /\ Request \in [Clients -> Requests]
  /\ TemplatesAt \in [Versions -> SUBSET Templates]
  /\ EnsuredCases \subseteq Cases
  /\ \A p, q \in Clients :
        p # q /\ ~Request[p].stable => Request[q].workflow # Request[p].workflow
ASSUME NoneAssumption ==
  None \notin Flow /\ None \notin LedgerRow /\ None \notin Owners /\ None \notin Clients

VARIABLES
  cases,    \* cases.state by case ID, "none" where there is no row
  flows,    \* case_flows by workflow ID
  holder,   \* case_parties: the OU that holds the owner's role on each case
  serving,  \* the manifest versions that replicas serve as Current
  pc,       \* where each client's call of StartFlow is
  saw,      \* the row each client last read
  def,      \* the manifest version of the definition each client holds, 0 for none
  tx,       \* the uncommitted writes of each client's Record
  run,      \* the engine's run of each workflow ID
  faults    \* calls that have failed

dbVars == <<cases, flows, holder>>
clientVars == <<pc, saw, def, tx>>
vars == <<cases, flows, holder, serving, pc, saw, def, tx, run, faults>>

NoTx == [case |-> FALSE, flow |-> FALSE, reopen |-> FALSE]
TxState == [case : BOOLEAN, flow : BOOLEAN, reopen : BOOLEAN]

\* stage: "none" until a first run, "running" while its nodes run, "completing",
\* "locked" and "decided" while its completion activity records it, "closed" after.
\* n counts the runs the engine has started under the ID; def, version and by are
\* the definition, variables and payload of the latest.
Stages == {"none", "running", "completing", "locked", "decided", "closed"}
NoRun == [stage |-> "none", n |-> 0, def |-> 0, version |-> 0, by |-> None, finish |-> FALSE]
Run == [stage : Stages, n : Nat, def : 0 .. MaxVersion, version : 0 .. MaxVersion,
        by : Clients \cup {None}, finish : BOOLEAN]

Answers == {"ok", "conflict", "unknown", "failed"}
Serving == {"lookup", "check", "insertCase", "insertFlow", "reopen", "commit",
            "reread", "start", "mark"}
InTx == {"insertFlow", "reopen", "commit"}

(***************************************************************************)
(* The rows and locks of the open transactions.                            *)
(***************************************************************************)
CaseOf(p) == Request[p].case
WorkflowOf(p) == Request[p].workflow
FlowsOf(c) == {w \in Workflows : flows[w] # None /\ flows[w].case = c}

\* Mutant: case_flows.case_id has no foreign key.
KeyShareDropped(p, c) == FALSE
\* The foreign key check of a flow insert holds the case row FOR KEY SHARE.
KeyShare(p, c) == tx[p].flow /\ CaseOf(p) = c
\* Mutant: MarkCompleted reads the case row without locking it.
ForUpdateDropped(w, c) == FALSE
\* MarkCompleted holds the case row FOR UPDATE.
ForUpdate(w, c) == run[w].stage \in {"locked", "decided"} /\ flows[w].case = c

Live(w) == run[w].stage \in {"running", "completing", "locked", "decided"}

----------------------------------------------------------------------------
(***************************************************************************)
(* StartFlow.                                                              *)
(***************************************************************************)
Goto(p, from, to) == pc[p] = from /\ pc' = [pc EXCEPT ![p] = to]

\* A client calls StartFlow, or a caller with a stable ID calls it again.
Call(p) ==
  /\ \/ pc[p] = "idle"
     \/ pc[p] \in Answers /\ Request[p].stable
  /\ pc' = [pc EXCEPT ![p] = IF Request[p].stable THEN "lookup" ELSE "check"]
  /\ saw' = [saw EXCEPT ![p] = None]
  /\ def' = [def EXCEPT ![p] = 0]
  /\ UNCHANGED <<dbVars, serving, tx, run, faults>>

\* Mutants: every repeat reaches the engine; a recorded row is taken for a started one.
ResumeAlways(p, f) ==
  IF f.case # CaseOf(p) \/ f.template # Request[p].template THEN "conflict" ELSE "start"
ResumeRecorded(p, f) ==
  IF f.case # CaseOf(p) \/ f.template # Request[p].template THEN "conflict" ELSE "ok"
\* resume: what StartFlow does next with the row f it has read.
ResumeAt(p, f) ==
  IF f.case # CaseOf(p) \/ f.template # Request[p].template THEN "conflict"
  ELSE IF f.status # "STARTING" THEN "ok" ELSE "start"

\* The first read, which only a caller-chosen workflow ID needs. resume(nil)
\* loads the definition from the recorded version.
Lookup(p) ==
  LET f == flows[WorkflowOf(p)] IN
  /\ Goto(p, "lookup", IF f = None THEN "check" ELSE ResumeAt(p, f))
  /\ saw' = [saw EXCEPT ![p] = f]
  /\ def' = [def EXCEPT ![p] = IF f = None THEN 0 ELSE f.version]
  /\ UNCHANGED <<dbVars, serving, tx, run, faults>>

\* The replica's current version must hold the template before anything is written.
CheckTemplate(p) ==
  \E v \in serving :
    /\ Goto(p, "check", IF Request[p].template \in TemplatesAt[v] THEN "insertCase" ELSE "unknown")
    /\ def' = [def EXCEPT ![p] = v]
    /\ UNCHANGED <<dbVars, serving, saw, tx, run, faults>>

\* Record, statement 1: an insert of a case ID waits for an uncommitted one.
RecordCase(p) ==
  /\ Goto(p, "insertCase", "insertFlow")
  /\ \A q \in Clients : ~(tx[q].case /\ CaseOf(q) = CaseOf(p))
  /\ tx' = [tx EXCEPT ![p].case = (cases[CaseOf(p)] = "none")]
  /\ UNCHANGED <<dbVars, serving, saw, def, run, faults>>

\* Record, statement 2: the unique workflow ID waits for an uncommitted insert of it.
\* A repeat ends the transaction, taking back the case it may have created.
FlowUncontended(p) == \A q \in Clients : ~(tx[q].flow /\ WorkflowOf(q) = WorkflowOf(p))

\* Mutant: the case is not taken back.
RecordRepeatKeepsCase(p) ==
  /\ flows[WorkflowOf(p)] # None
  /\ FlowUncontended(p)
  /\ Goto(p, "insertFlow", "reread")
  /\ tx' = [tx EXCEPT ![p] = NoTx]
  /\ cases' = [cases EXCEPT ![CaseOf(p)] = IF tx[p].case THEN "IN_PROGRESS" ELSE @]
  /\ UNCHANGED <<flows, holder, serving, saw, def, run, faults>>
RecordRepeat(p) ==
  /\ flows[WorkflowOf(p)] # None
  /\ FlowUncontended(p)
  /\ Goto(p, "insertFlow", "reread")
  /\ tx' = [tx EXCEPT ![p] = NoTx]
  /\ UNCHANGED <<dbVars, serving, saw, def, run, faults>>

\* The first insert goes on to the foreign key check, which waits for FOR UPDATE.
RecordFlow(p) ==
  /\ flows[WorkflowOf(p)] = None
  /\ FlowUncontended(p)
  /\ \A w \in Workflows : ~ForUpdate(w, CaseOf(p))
  /\ Goto(p, "insertFlow", "reopen")
  /\ tx' = [tx EXCEPT ![p].flow = TRUE]
  /\ UNCHANGED <<dbVars, serving, saw, def, run, faults>>

\* Record, statement 3: a case that reads FINISHED is reopened; the row is then
\* locked, so another reopen waits.
RecordReopen(p) ==
  /\ Goto(p, "reopen", "commit")
  /\ \A q \in Clients : ~(tx[q].reopen /\ CaseOf(q) = CaseOf(p))
  /\ tx' = [tx EXCEPT ![p].reopen = (cases[CaseOf(p)] = "FINISHED")]
  /\ UNCHANGED <<dbVars, serving, saw, def, run, faults>>

\* Record commits the case, the flow, the reopening and the owner together. The
\* caller may not learn of it.
RecordCommit(p, acked) ==
  /\ acked \/ faults < MaxFaults
  /\ Goto(p, "commit", IF acked THEN "reread" ELSE "failed")
  /\ flows' = [flows EXCEPT ![WorkflowOf(p)] =
        [case |-> CaseOf(p), template |-> Request[p].template, version |-> def[p],
         status |-> "STARTING", by |-> p]]
  /\ cases' = [cases EXCEPT ![CaseOf(p)] =
        IF tx[p].case \/ tx[p].reopen THEN "IN_PROGRESS" ELSE @]
  /\ holder' = [holder EXCEPT ![CaseOf(p)] =
        IF Request[p].owner = None THEN @ ELSE Request[p].owner]
  /\ tx' = [tx EXCEPT ![p] = NoTx]
  /\ faults' = IF acked THEN faults ELSE faults + 1
  /\ UNCHANGED <<serving, saw, def, run>>

\* Mutant: the definition found for the current version is kept.
DefOfCurrent(p, f) == def[p]
\* A row recorded on another version has its definition loaded from that version.
DefOfRow(p, f) == f.version

\* The read after Record: another request may have recorded the row first.
Reread(p) ==
  LET f == flows[WorkflowOf(p)] IN
  /\ Goto(p, "reread", ResumeAt(p, f))
  /\ saw' = [saw EXCEPT ![p] = f]
  /\ def' = [def EXCEPT ![p] = DefOfRow(p, f)]
  /\ UNCHANGED <<dbVars, serving, tx, run, faults>>

\* The engine attaches to a live run of the ID and starts a new one otherwise.
Start(p, acked) ==
  LET w == WorkflowOf(p) IN
  /\ acked \/ faults < MaxFaults
  /\ Goto(p, "start", IF acked THEN "mark" ELSE "failed")
  /\ run' = IF Live(w) THEN run
            ELSE [run EXCEPT ![w] =
                    [stage |-> "running", n |-> @.n + 1, def |-> def[p],
                     version |-> saw[p].version, by |-> saw[p].by, finish |-> FALSE]]
  /\ faults' = IF acked THEN faults ELSE faults + 1
  /\ UNCHANGED <<dbVars, serving, saw, def, tx>>

\* Mutant: MarkStarted overwrites the status.
StartedFromAny(s) == "STARTED"
StartedFrom(s) == IF s = "STARTING" THEN "STARTED" ELSE s

\* MarkStarted moves only STARTING; it waits for MarkCompleted's lock on the row.
MarkStarted(p, acked) ==
  LET w == WorkflowOf(p) IN
  /\ acked \/ faults < MaxFaults
  /\ run[w].stage # "decided"
  /\ Goto(p, "mark", IF acked THEN "ok" ELSE "failed")
  /\ flows' = [flows EXCEPT ![w].status = StartedFrom(@)]
  /\ faults' = IF acked THEN faults ELSE faults + 1
  /\ UNCHANGED <<cases, holder, serving, saw, def, tx, run>>

\* Mutant: a failed transaction is left open.
FailLeavesTxOpen(p) ==
  /\ pc[p] \in Serving
  /\ faults < MaxFaults
  /\ pc' = [pc EXCEPT ![p] = "failed"]
  /\ faults' = faults + 1
  /\ UNCHANGED <<dbVars, serving, saw, def, tx, run>>
\* A read, a statement or the process fails: the transaction rolls back.
Fail(p) ==
  /\ pc[p] \in Serving
  /\ faults < MaxFaults
  /\ pc' = [pc EXCEPT ![p] = "failed"]
  /\ tx' = [tx EXCEPT ![p] = NoTx]
  /\ faults' = faults + 1
  /\ UNCHANGED <<dbVars, serving, saw, def, run>>

Step(p) ==
  \/ Lookup(p) \/ CheckTemplate(p)
  \/ RecordCase(p) \/ RecordRepeat(p) \/ RecordFlow(p) \/ RecordReopen(p) \/ Reread(p)
  \/ \E acked \in BOOLEAN : RecordCommit(p, acked) \/ Start(p, acked) \/ MarkStarted(p, acked)

----------------------------------------------------------------------------
(***************************************************************************)
(* The engine's run of a workflow, and its completion activity.            *)
(***************************************************************************)
\* The last node of the run ends; how long that takes is up to its tasks.
Finish(w) ==
  /\ run[w].stage = "running"
  /\ run' = [run EXCEPT ![w].stage = "completing"]
  /\ UNCHANGED <<dbVars, serving, clientVars, faults>>

\* MarkCompleted: read the flow's case, then lock the case row FOR UPDATE, which
\* waits for every other lock on it.
LockCase(w) ==
  /\ run[w].stage = "completing"
  /\ flows[w] # None
  /\ \A p \in Clients : ~KeyShare(p, flows[w].case)
  /\ \A u \in Workflows : ~ForUpdate(u, flows[w].case)
  /\ run' = [run EXCEPT ![w].stage = "locked"]
  /\ UNCHANGED <<dbVars, serving, clientVars, faults>>

\* MarkCompleted: mark the flow and, where no other flow is open, the case.
DecideCase(w) ==
  /\ run[w].stage = "locked"
  /\ run' = [run EXCEPT ![w].stage = "decided",
                        ![w].finish = \A u \in FlowsOf(flows[w].case) :
                                         u # w => flows[u].status = "COMPLETED"]
  /\ UNCHANGED <<dbVars, serving, clientVars, faults>>

\* MarkCompleted commits. The engine closes the run, unless the activity's answer
\* was lost: it then runs the activity again.
CommitCompletion(w, acked) ==
  /\ acked \/ faults < MaxFaults
  /\ run[w].stage = "decided"
  /\ flows' = [flows EXCEPT ![w].status = "COMPLETED"]
  /\ cases' = [cases EXCEPT ![flows[w].case] = IF run[w].finish THEN "FINISHED" ELSE @]
  /\ run' = [run EXCEPT ![w].stage = IF acked THEN "closed" ELSE "completing", ![w].finish = FALSE]
  /\ faults' = IF acked THEN faults ELSE faults + 1
  /\ UNCHANGED <<holder, serving, clientVars>>

\* Mutant: the completion handler reports a failed transaction as done.
FailCompletionSwallowed(w) ==
  /\ run[w].stage \in {"locked", "decided"}
  /\ faults < MaxFaults
  /\ run' = [run EXCEPT ![w].stage = "closed", ![w].finish = FALSE]
  /\ faults' = faults + 1
  /\ UNCHANGED <<dbVars, serving, clientVars>>
\* The activity fails and its transaction rolls back; Temporal retries it.
FailCompletion(w) ==
  /\ run[w].stage \in {"locked", "decided"}
  /\ faults < MaxFaults
  /\ run' = [run EXCEPT ![w].stage = "completing", ![w].finish = FALSE]
  /\ faults' = faults + 1
  /\ UNCHANGED <<dbVars, serving, clientVars>>

Complete(w) ==
  LockCase(w) \/ DecideCase(w) \/ \E acked \in BOOLEAN : CommitCompletion(w, acked)

----------------------------------------------------------------------------
(***************************************************************************)
(* The rest of the server.                                                 *)
(***************************************************************************)
\* EnsureCase: a statement of its own, before the domain row and the flow.
EnsureCase(c) ==
  /\ c \in EnsuredCases
  /\ cases[c] = "none"
  /\ \A q \in Clients : ~(tx[q].case /\ CaseOf(q) = c)
  /\ cases' = [cases EXCEPT ![c] = "IN_PROGRESS"]
  /\ UNCHANGED <<flows, holder, serving, clientVars, run, faults>>

\* A deploy brings up a replica on a newer manifest version, and takes down the
\* old ones; for a while replicas serve different versions.
Deploy(v) ==
  /\ \A u \in serving : u < v
  /\ serving' = serving \cup {v}
  /\ UNCHANGED <<dbVars, clientVars, run, faults>>

\* Mutant: the last replica is taken down.
RetireLast(v) ==
  /\ v \in serving
  /\ serving' = serving \ {v}
  /\ UNCHANGED <<dbVars, clientVars, run, faults>>
Retire(v) ==
  /\ v \in serving
  /\ serving \ {v} # {}
  /\ serving' = serving \ {v}
  /\ UNCHANGED <<dbVars, clientVars, run, faults>>

----------------------------------------------------------------------------
Init ==
  /\ cases = [c \in Cases |-> "none"]
  /\ flows = [w \in Workflows |-> None]
  /\ holder = [c \in Cases |-> None]
  /\ serving = {1}
  /\ pc = [p \in Clients |-> "idle"]
  /\ saw = [p \in Clients |-> None]
  /\ def = [p \in Clients |-> 0]
  /\ tx = [p \in Clients |-> NoTx]
  /\ run = [w \in Workflows |-> NoRun]
  /\ faults = 0

Next ==
  \/ \E p \in Clients : Call(p) \/ Step(p) \/ Fail(p)
  \/ \E w \in Workflows : Finish(w) \/ Complete(w) \/ FailCompletion(w)
  \/ \E c \in Cases : EnsureCase(c)
  \/ \E v \in Versions : Deploy(v) \/ Retire(v)

\* A call that is being served runs on, a caller with a stable ID calls again
\* after a failure, and Temporal retries the completion activity. Nothing says
\* that a workflow's tasks are ever done, or that a deploy happens.
Fairness ==
  /\ \A p \in Clients : WF_vars(Step(p)) /\ WF_vars(pc[p] = "failed" /\ Call(p))
  /\ \A w \in Workflows : WF_vars(Complete(w))

Spec == Init /\ [][Next]_vars
FairSpec == Spec /\ Fairness

----------------------------------------------------------------------------
(***************************************************************************)
(* Properties.                                                             *)
(***************************************************************************)
TypeOK ==
  /\ cases \in [Cases -> {"none", "IN_PROGRESS", "FINISHED"}]
  /\ flows \in [Workflows -> FlowOrNone]
  /\ holder \in [Cases -> OwnersOrNone]
  /\ serving \subseteq Versions /\ serving # {}
  /\ pc \in [Clients -> {"idle"} \cup Serving \cup Answers]
  /\ saw \in [Clients -> FlowOrNone]
  /\ def \in [Clients -> 0 .. MaxVersion]
  /\ tx \in [Clients -> TxState]
  /\ run \in [Workflows -> Run]
  /\ faults \in 0 .. MaxFaults

\* A case is FINISHED exactly when it has a flow and every one of its flows has
\* completed, whatever flows start and complete at the same moment (the lock order
\* that Record and MarkCompleted rely on).
FinishedExact ==
  \A c \in Cases :
    cases[c] = "FINISHED" <=>
      FlowsOf(c) # {} /\ \A w \in FlowsOf(c) : flows[w].status = "COMPLETED"

\* Every recorded flow has its case, and a case nobody ensured has a flow: a repeated
\* workflow ID under another case leaves no empty case behind (Record's DELETE).
NoOrphanCase ==
  /\ \A w \in Workflows : flows[w] # None => cases[flows[w].case] # "none"
  /\ \A c \in Cases \ EnsuredCases : cases[c] # "none" => FlowsOf(c) # {}

\* A workflow runs the definition, the variables and the payload its row was first
\* recorded with, whichever client started it and whatever was deployed since.
RunAgrees(w) ==
  run[w].n > 0 => /\ flows[w] # None
                  /\ run[w].def = flows[w].version
                  /\ run[w].version = flows[w].version
                  /\ run[w].by = flows[w].by
                  /\ flows[w].template \in TemplatesAt[run[w].def]
RunsAsRecorded == \A w \in Workflows : RunAgrees(w)

\* A caller that is told its flow has started is right: the engine has run its
\* workflow, under the caller's own case and template.
OkRan(p) ==
  pc[p] = "ok" => /\ run[WorkflowOf(p)].n > 0
                  /\ flows[WorkflowOf(p)].case = CaseOf(p)
                  /\ flows[WorkflowOf(p)].template = Request[p].template
AnsweredOkRan == \A p \in Clients : OkRan(p)

\* A second run is started under a workflow ID only for a flow already COMPLETED, by a
\* client that read it STARTING before that: every client that reads it later is kept
\* from the engine, and so is every client while the first run is live.
RerunOnlyFromStaleRead ==
  [][\A w \in Workflows :
       run'[w].n > run[w].n /\ run[w].n > 0 =>
         /\ flows[w].status = "COMPLETED"
         /\ \E p \in Clients : /\ WorkflowOf(p) = w
                               /\ pc[p] = "start" /\ pc'[p] # "start"
                               /\ saw[p].status = "STARTING"]_vars

\* What StartFlow's comments promise: a flow is safe to start again, since once it has
\* started or completed a repeat does not reach the engine as a brand-new run.
AtMostOneRun == \A w \in Workflows : run[w].n <= 1

\* A workflow ID names one flow for good, and its status only moves forward: a late
\* MarkStarted does not undo a completion.
Rank(s) == CASE s = "STARTING" -> 1 [] s = "STARTED" -> 2 [] s = "COMPLETED" -> 3
RecordedForGood ==
  [][\A w \in Workflows : flows[w] # None =>
       /\ flows'[w] = [flows[w] EXCEPT !.status = flows'[w].status]
       /\ Rank(flows'[w].status) >= Rank(flows[w].status)]_vars

\* The case_flows rows as the ledger sees them.
OpenFlows == [w \in Workflows |->
  IF flows[w] = None THEN None
  ELSE [case |-> flows[w].case,
        progress |-> IF flows[w].status = "COMPLETED" THEN "done" ELSE "open"]]

Ledger == INSTANCE CaseLedger WITH state <- cases, open <- OpenFlows

\* The transactions, the engine and the retries together implement the ledger: what
\* commits is one of its steps or changes nothing it can see.
ImplementsLedger == Ledger!Spec

\* A request with a stable workflow ID is answered in the end, in spite of the calls
\* that fail and the locks it waits for.
EventuallyAnswered ==
  \A p \in Clients :
    Request[p].stable /\ pc[p] \in Serving ~> pc[p] \in {"ok", "conflict", "unknown"}

\* A workflow that is over is recorded as COMPLETED in the end.
EventuallyCompleted ==
  \A w \in Workflows :
    run[w].stage = "completing" ~> flows[w] # None /\ flows[w].status = "COMPLETED"
============================================================================
