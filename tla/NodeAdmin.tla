------------------------------ MODULE NodeAdmin ------------------------------
(***************************************************************************)
(* internal/workflowadmin: an admin takes a node of a flow out of the hands*)
(* of its task (force park) and decides what becomes of a parked node      *)
(* (resolve). Each request reads the workflow's status first and acts on   *)
(* what it read, in calls of its own to the engine and to the task manager.*)
(*                                                                         *)
(* A node's run is its step. On a flow, a TASK node starts a task named    *)
(* after its step; inside a task's own workflow, its step waits for an     *)
(* outside party. The engine and the task manager are external: each of    *)
(* their calls is one step.                                                *)
(***************************************************************************)
EXTENDS Naturals, FiniteSets

CONSTANTS
  AdminRequests,     \* force park and resolve requests
  MaxNodeSteps,      \* bound on the runs of the node
  MaxAdminFailures   \* bound on calls that fail

ASSUME AdminBoundsAssumption == MaxNodeSteps \in Nat \ {0} /\ MaxAdminFailures \in Nat

VARIABLES
  node,      \* the engine's NodeInfo: type, step, status, park category; and whose node it is
  taskOf,    \* the task, or the outside party's work, that each step waits for
  reports,   \* steps whose task is completed and has yet to report to its parent
  override,  \* what each admin request is doing and has read
  adminFailures

adminVars == <<node, taskOf, reports, override, adminFailures>>

NodeSteps == 1 .. MaxNodeSteps
Statuses == {"RUNNING", "AWAITING_ADMIN", "COMPLETED", "FAILED"}
Actions == {"RETRY", "COMPLETE", "ABORT"}
NoOverride == [pc |-> "idle", kind |-> "none", step |-> 1, action |-> "RETRY", status |-> "none"]

AdminType ==
  /\ node \in [type : {"TASK", "GATEWAY"}, of : {"flow", "task workflow"},
               step : NodeSteps, status : Statuses, forced : BOOLEAN]
  /\ taskOf \in [NodeSteps -> {"none", "open", "completed", "cancelled"}]
  /\ reports \subseteq NodeSteps
  /\ override \in [AdminRequests ->
       [pc : {"idle", "check", "park", "close", "signal", "done"}, kind : {"none", "force park", "resolve"},
        step : NodeSteps, action : Actions, status : {"none", "204", "400", "409", "500"}]]
  /\ adminFailures \in 0 .. MaxAdminFailures

----------------------------------------------------------------------------
(* The node and its task (external).                                       *)

IsTask == node.type = "TASK"
Waits(s) == node.step = s /\ node.status = "RUNNING"
Parked(s) == node.step = s /\ node.status = "AWAITING_ADMIN"

\* StartTask: the node runs again under a new step, whose task is open.
Runs(s) ==
  /\ node' = [node EXCEPT !.step = s, !.status = "RUNNING", !.forced = FALSE]
  /\ taskOf' = [taskOf EXCEPT ![s] = IF IsTask THEN "open" ELSE "none"]

TaskEnds(s) ==
  /\ taskOf[s] = "open"
  /\ taskOf' = [taskOf EXCEPT ![s] = "completed"]
  /\ reports' = reports \cup {s}
  /\ UNCHANGED <<node, override, adminFailures>>

\* The parent takes a completion only for the step that its node waits on.
Reports(s) ==
  /\ s \in reports
  /\ reports' = reports \ {s}
  /\ node' = IF Waits(s) THEN [node EXCEPT !.status = "COMPLETED"] ELSE node
  /\ UNCHANGED <<taskOf, override, adminFailures>>

\* A mapping, a condition or the task itself fails: the node parks without an admin.
Parks ==
  /\ node.status = "RUNNING"
  /\ node' = [node EXCEPT !.status = "AWAITING_ADMIN"]
  /\ taskOf' = [taskOf EXCEPT ![node.step] = IF @ = "open" THEN "completed" ELSE @]
  /\ UNCHANGED <<reports, override, adminFailures>>

\* The workflow loops back to the node.
Revisits ==
  /\ node.status = "COMPLETED"
  /\ node.step < MaxNodeSteps
  /\ Runs(node.step + 1)
  /\ UNCHANGED <<reports, override, adminFailures>>

----------------------------------------------------------------------------
(* Requests.                                                               *)

OverrideGoes(a, pc) == override' = [override EXCEPT ![a].pc = pc]
OverrideAnswers(a, status) == override' = [override EXCEPT ![a].pc = "done", ![a].status = status]

OverrideArrives(a, kind, s, action) ==
  /\ override[a] = NoOverride
  /\ override' = [override EXCEPT ![a] =
       [pc |-> "check", kind |-> kind, step |-> s, action |-> action, status |-> "none"]]
  /\ UNCHANGED <<node, taskOf, reports, adminFailures>>

\* Mutant: a node that was force parked before needs nothing more.
FindForceParkNodeDone(a) ==
  LET s == override[a].step
  IN /\ override[a].pc = "check" /\ override[a].kind = "force park"
     /\ CASE IsTask /\ Waits(s) -> OverrideGoes(a, "park")
          [] IsTask /\ Parked(s) /\ node.forced -> OverrideAnswers(a, "204")
          [] OTHER -> OverrideAnswers(a, "409")
     /\ UNCHANGED <<node, taskOf, reports, adminFailures>>
\* findForceParkNode: when there is a task to close, a node that was force parked before is
\* taken for a request that failed to close it.
FindForceParkNode(a) ==
  LET s == override[a].step
      repeat == node.of = "flow" /\ Parked(s) /\ node.forced
  IN /\ override[a].pc = "check" /\ override[a].kind = "force park"
     /\ CASE node.step # s -> OverrideAnswers(a, "409")
          [] node.step = s /\ ~IsTask -> OverrideAnswers(a, "400")
          [] IsTask /\ Waits(s) -> OverrideGoes(a, "park")
          [] IsTask /\ repeat -> OverrideGoes(a, "close")
          [] node.step = s /\ IsTask /\ ~Waits(s) /\ ~repeat -> OverrideAnswers(a, "409")
     /\ UNCHANGED <<node, taskOf, reports, adminFailures>>

\* Mutant: the park is answered before the task is closed.
ForceParkAlone(a) ==
  /\ override[a].pc = "park"
  /\ IF Waits(override[a].step)
       THEN node' = [node EXCEPT !.status = "AWAITING_ADMIN", !.forced = TRUE] /\ OverrideAnswers(a, "204")
       ELSE OverrideAnswers(a, "409") /\ UNCHANGED node
  /\ UNCHANGED <<taskOf, reports, adminFailures>>
\* ForceParkActivation; the node may no longer wait on the step.
ForcePark(a) ==
  /\ override[a].pc = "park"
  /\ IF Waits(override[a].step)
       THEN /\ node' = [node EXCEPT !.status = "AWAITING_ADMIN", !.forced = TRUE]
            /\ IF node.of = "flow" THEN OverrideGoes(a, "close") ELSE OverrideAnswers(a, "204")
       ELSE OverrideAnswers(a, "409") /\ UNCHANGED node
  /\ UNCHANGED <<taskOf, reports, adminFailures>>

\* CancelTask; a task that is not open is closed already.
CloseTask(a) ==
  LET s == override[a].step
  IN /\ override[a].pc = "close"
     /\ taskOf' = [taskOf EXCEPT ![s] = IF @ = "open" THEN "cancelled" ELSE @]
     /\ OverrideAnswers(a, "204")
     /\ UNCHANGED <<node, reports, adminFailures>>

\* findParkedNode.
FindParkedNode(a) ==
  /\ override[a].pc = "check" /\ override[a].kind = "resolve"
  /\ IF ~Parked(override[a].step) THEN OverrideAnswers(a, "409")
     ELSE IF ~IsTask /\ override[a].action = "COMPLETE" THEN OverrideAnswers(a, "400")
     ELSE OverrideGoes(a, "signal")
  /\ UNCHANGED <<node, taskOf, reports, adminFailures>>

\* A signal, which the engine drops when the step is no longer parked.
Resolve(a) ==
  LET s == override[a].step
      action == override[a].action
      parked == Parked(s)
  IN /\ override[a].pc = "signal"
     /\ parked /\ action = "RETRY" => s < MaxNodeSteps
     /\ CASE parked /\ action = "RETRY" -> Runs(s + 1)
          [] parked /\ action = "COMPLETE" ->
               node' = [node EXCEPT !.status = "COMPLETED", !.forced = FALSE] /\ UNCHANGED taskOf
          [] parked /\ action = "ABORT" ->
               node' = [node EXCEPT !.status = "FAILED", !.forced = FALSE] /\ UNCHANGED taskOf
          [] OTHER -> UNCHANGED <<node, taskOf>>
     /\ OverrideAnswers(a, "204")
     /\ UNCHANGED <<reports, adminFailures>>

\* The engine or the task manager fails; the admin is told to retry.
OverrideFails(a) ==
  /\ override[a].pc \in {"check", "park", "close", "signal"}
  /\ adminFailures < MaxAdminFailures
  /\ adminFailures' = adminFailures + 1
  /\ OverrideAnswers(a, "500")
  /\ UNCHANGED <<node, taskOf, reports>>

----------------------------------------------------------------------------
AdminInit ==
  /\ \E type \in {"TASK", "GATEWAY"}, of \in {"flow", "task workflow"} :
       node = [type |-> type, of |-> of, step |-> 1, status |-> "RUNNING", forced |-> FALSE]
  /\ taskOf = [s \in NodeSteps |-> IF s = 1 /\ IsTask THEN "open" ELSE "none"]
  /\ reports = {}
  /\ override = [a \in AdminRequests |-> NoOverride]
  /\ adminFailures = 0

AdminNext ==
  \/ \E s \in NodeSteps : TaskEnds(s) \/ Reports(s)
  \/ Parks \/ Revisits
  \/ \E a \in AdminRequests :
       \/ \E s \in NodeSteps, action \in Actions :
            \/ OverrideArrives(a, "resolve", s, action)
            \/ action = "RETRY" /\ OverrideArrives(a, "force park", s, action)
       \/ FindForceParkNode(a) \/ ForcePark(a) \/ CloseTask(a)
       \/ FindParkedNode(a) \/ Resolve(a) \/ OverrideFails(a)

AdminSpec == AdminInit /\ [][AdminNext]_adminVars

----------------------------------------------------------------------------
(* Properties.                                                             *)

\* ForceParkTaskNode and ForceParkTaskWorkflowStep: once the admin is answered 204 the task is
\* closed and the step takes no completion, whichever of the calls a completion had raced.
ForceParkedIsClosed ==
  \A a \in AdminRequests :
    override[a].kind = "force park" /\ override[a].status = "204" =>
      /\ node.of = "flow" => taskOf[override[a].step] # "open"
      /\ ~Waits(override[a].step)

\* "If closing the task fails, the node is already visibly parked": a task is open after its
\* node has stopped waiting for it only while a request is about to close it, or after one
\* could not close it.
OpenTasksAreAwaited ==
  \A s \in NodeSteps :
    taskOf[s] = "open" /\ node.of = "flow" /\ ~Waits(s) =>
      \/ \E a \in AdminRequests : override[a].pc = "close" /\ override[a].step = s
      \/ \E a \in AdminRequests : override[a].kind = "force park" /\ override[a].step = s /\ override[a].status = "500"
============================================================================
