----------------------------- MODULE SlpaEvents -----------------------------
(***************************************************************************)
(* external-integration/slpa/webhook: the ports authority's system (CMS)   *)
(* reports what it decides on a service order, and later that its invoice  *)
(* is paid. Each event is for one wait, the approval's or the invoice's;   *)
(* tasks of one consignment hold the same order.                           *)
(*                                                                         *)
(* A call looks for the wait in up to three queries, with the task moving  *)
(* between them, and completes the step it found. The CMS sends an event   *)
(* until it is answered 200, and may send it again afterwards. The task    *)
(* manager and the workflow between the waits are external.                *)
(***************************************************************************)
EXTENDS Naturals, Sequences, FiniteSets

CONSTANTS
  SlpaCalls,      \* webhook calls under way at once
  MaxEvents,      \* bound on the events of an order
  MaxWaitSteps,   \* bound on the steps of a wait
  MaxSlpaFailures \* bound on queries that fail

ASSUME SlpaBoundsAssumption == MaxEvents \in Nat /\ MaxWaitSteps \in Nat \ {0} /\ MaxSlpaFailures \in Nat

VARIABLES
  sent,      \* the events that the CMS has sent, in order
  answered,  \* the events that it has been answered 200 for
  held,      \* whether a task's record holds the order's slug yet
  wait,      \* the wait of each template
  hook,      \* what each call is doing
  applied,   \* history: the events that completed a step, and whose wait's it was
  slpaFailures

slpaVars == <<sent, answered, held, wait, hook, applied, slpaFailures>>

Templates == {"approval", "invoice"}
ClerkApproves == "service_order.approved_by_accounts_clerk"
ClerkRejects == "service_order.rejected_by_accounts_clerk"
AccountantApproves == "service_order.approved_by_accountant"
AccountantRejects == "service_order.rejected_by_accountant"
BackToClerk == "service_order.rejected_to_accounts_clerk"
InvoicePaid == "invoice.paid"
SlpaEventNames == {ClerkApproves, ClerkRejects, AccountantApproves, AccountantRejects, BackToClerk, InvoicePaid}

EventNumbers == 1 .. MaxEvents
NoHook == [pc |-> "idle", event |-> 0, step |-> 0]

SlpaType ==
  /\ sent \in Seq(SlpaEventNames) /\ Len(sent) <= MaxEvents
  /\ answered \subseteq EventNumbers
  /\ held \in BOOLEAN
  /\ wait \in [Templates -> [state : {"none", "parked", "moving", "completed"}, step : 0 .. MaxWaitSteps,
                             decision : SlpaEventNames \cup {"none"}]]
  /\ hook \in [SlpaCalls -> [pc : {"idle", "parked", "states", "held", "complete"},
                             event : EventNumbers \cup {0}, step : 0 .. MaxWaitSteps]]
  /\ applied \subseteq EventNumbers \X Templates
  /\ slpaFailures \in 0 .. MaxSlpaFailures

----------------------------------------------------------------------------
(* The CMS and the workflow (external).                                    *)

\* HandleWebhook and Decision.
TemplateOf(name) == IF name = InvoicePaid THEN "invoice" ELSE "approval"
Final(name) == name \notin {ClerkApproves, BackToClerk}

LastSent == IF sent = <<>> THEN BackToClerk ELSE sent[Len(sent)]
Decides(name) ==
  CASE LastSent = BackToClerk -> name \in {ClerkApproves, ClerkRejects}
    [] LastSent = ClerkApproves -> name \in {AccountantApproves, AccountantRejects, BackToClerk}
    [] LastSent = AccountantApproves -> name = InvoicePaid
    [] OTHER -> FALSE

Send(name) ==
  /\ Len(sent) < MaxEvents
  /\ Decides(name)
  /\ sent' = Append(sent, name)
  /\ UNCHANGED <<answered, held, wait, hook, applied, slpaFailures>>

\* The submission's answer is saved, with the slug.
OrderHeld ==
  /\ ~held
  /\ held' = TRUE
  /\ UNCHANGED <<sent, answered, wait, hook, applied, slpaFailures>>

Opens(t) ==
  /\ wait[t].state = "none"
  /\ held
  /\ t = "invoice" => wait["approval"].state = "completed" /\ wait["approval"].decision = AccountantApproves
  /\ wait' = [wait EXCEPT ![t].state = "parked", ![t].step = 1]
  /\ UNCHANGED <<sent, answered, held, hook, applied, slpaFailures>>

\* A decision that is not final sends the workflow back to the same wait; a final one ends it.
Continues(t) ==
  /\ wait[t].state = "moving"
  /\ Final(wait[t].decision) \/ wait[t].step < MaxWaitSteps
  /\ wait' = IF Final(wait[t].decision) THEN [wait EXCEPT ![t].state = "completed"]
                                        ELSE [wait EXCEPT ![t].state = "parked", ![t].step = @ + 1]
  /\ UNCHANGED <<sent, answered, held, hook, applied, slpaFailures>>

----------------------------------------------------------------------------
(* A call.                                                                 *)

EventOf(w) == sent[hook[w].event]
WaitOf(w) == wait[TemplateOf(EventOf(w))]
HookGoes(w, pc, step) == hook' = [hook EXCEPT ![w].pc = pc, ![w].step = step]
HookAnswers(w, ok) ==
  /\ hook' = [hook EXCEPT ![w] = NoHook]
  /\ answered' = IF ok THEN answered \cup {hook[w].event} ELSE answered

Deliver(w, e) ==
  /\ hook[w] = NoHook
  /\ hook' = [hook EXCEPT ![w] = [pc |-> "parked", event |-> e, step |-> 0]]
  /\ UNCHANGED <<sent, answered, held, wait, applied, slpaFailures>>

\* parked, first query: a wait of the event's own template.
LookParked(w) ==
  /\ hook[w].pc = "parked"
  /\ IF WaitOf(w).state = "parked" THEN HookGoes(w, "complete", WaitOf(w).step) ELSE HookGoes(w, "states", 0)
  /\ UNCHANGED <<sent, answered, held, wait, applied, slpaFailures>>

\* Mutant: any wait that is not parked has been completed.
LookStatesOnce(w) ==
  /\ hook[w].pc = "states"
  /\ IF WaitOf(w).state = "none" THEN HookGoes(w, "held", 0) /\ UNCHANGED answered ELSE HookAnswers(w, TRUE)
  /\ UNCHANGED <<sent, held, wait, applied, slpaFailures>>
\* Second: a wait that has run to its end answers 200; any other asks for a retry (409).
LookStates(w) ==
  /\ hook[w].pc = "states"
  /\ CASE WaitOf(w).state = "none" -> HookGoes(w, "held", 0) /\ UNCHANGED answered
       [] WaitOf(w).state = "completed" -> HookAnswers(w, TRUE)
       [] OTHER -> HookAnswers(w, FALSE)
  /\ UNCHANGED <<sent, held, wait, applied, slpaFailures>>

\* Third: 409 for an order that has not got so far, 404 for one that no task holds. Retried both.
LookHeld(w) ==
  /\ hook[w].pc = "held"
  /\ HookAnswers(w, FALSE)
  /\ UNCHANGED <<sent, held, wait, applied, slpaFailures>>

\* CompleteTaskStep (external) takes only the step that is parked; a stale one is a 500, retried.
Complete(w) ==
  LET t == TemplateOf(EventOf(w))
      current == wait[t].state = "parked" /\ wait[t].step = hook[w].step
  IN /\ hook[w].pc = "complete"
     /\ wait' = IF current THEN [wait EXCEPT ![t].state = "moving", ![t].decision = EventOf(w)] ELSE wait
     /\ applied' = IF current THEN applied \cup {<<hook[w].event, t>>} ELSE applied
     /\ HookAnswers(w, current)
     /\ UNCHANGED <<sent, held, slpaFailures>>

\* A query fails, or the answer is lost: the CMS sends the event again.
CallFails(w) ==
  /\ hook[w].pc \in {"parked", "states", "held"}
  /\ slpaFailures < MaxSlpaFailures
  /\ slpaFailures' = slpaFailures + 1
  /\ HookAnswers(w, FALSE)
  /\ UNCHANGED <<sent, held, wait, applied>>

----------------------------------------------------------------------------
SlpaInit ==
  /\ sent = <<>>
  /\ answered = {}
  /\ held = FALSE
  /\ wait = [t \in Templates |-> [state |-> "none", step |-> 0, decision |-> "none"]]
  /\ hook = [w \in SlpaCalls |-> NoHook]
  /\ applied = {}
  /\ slpaFailures = 0

SlpaNext ==
  \/ \E name \in SlpaEventNames : Send(name)
  \/ OrderHeld
  \/ \E t \in Templates : Opens(t) \/ Continues(t)
  \/ \E w \in SlpaCalls :
       \/ \E e \in DOMAIN sent : Deliver(w, e)
       \/ LookParked(w) \/ LookStates(w) \/ LookHeld(w) \/ Complete(w) \/ CallFails(w)

SlpaSpec == SlpaInit /\ [][SlpaNext]_slpaVars

----------------------------------------------------------------------------
(* Properties.                                                             *)

\* "Answering already applied here would drop an event nothing acted on" (parked): an event that
\* the CMS is told to stop sending has completed a step of its own wait, or its own wait had been
\* ended by a final event that had; a sibling's wait never answers for it.
AnsweredWasApplied ==
  \A e \in answered :
    LET t == TemplateOf(sent[e])
    IN \/ <<e, t>> \in applied
       \/ \E f \in DOMAIN sent : Final(sent[f]) /\ <<f, t>> \in applied
============================================================================
