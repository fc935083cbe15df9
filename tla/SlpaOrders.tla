---------------------------- MODULE SlpaOrders ----------------------------
(***************************************************************************)
(* A consignment's export through SLPA: the cargo declaration, the service *)
(* order and its invoice are submitted by api_call steps, and then each    *)
(* container of the order has a branch of its own, which pairs it with one *)
(* of the containers that the terminal has pre-advised and asks for its    *)
(* gate pass.                                                              *)
(*                                                                         *)
(* The CMS (external) keeps the orders, the pairings and the passes. The   *)
(* answer to a call may be lost whether or not the CMS has served it, and  *)
(* an activity whose record was not saved is run again (external,          *)
(* Temporal). Which step follows which is the artifact's (external), as    *)
(* the interpreters describe it.                                           *)
(***************************************************************************)
EXTENDS Naturals, Sequences, FiniteSets

CONSTANTS
  OrderRows,     \* the containers of the order's form, by the placeholders they are priced under
  RealContainers,\* the containers that the terminal may pre-advise, by their sqids
  NoContainer,
  MaxContainers, \* the largest order that is split
  MaxOrders,     \* bound on the orders that the CMS raises
  MaxCmsLosses   \* bound on answers lost and on activities run again

ASSUME OrdersAssumption ==
  /\ OrderRows \in Seq({OrderRows[i] : i \in DOMAIN OrderRows})
  /\ NoContainer \notin RealContainers /\ \A i \in DOMAIN OrderRows : OrderRows[i] # NoContainer
  /\ MaxContainers \in Nat /\ MaxOrders \in Nat /\ MaxCmsLosses \in Nat

VARIABLES
  order,    \* the consignment's steps before the split, and what they have recorded
  cms,      \* what the CMS holds
  branch,   \* each branch's step, what its last lookup recorded, and its pairing
  unsure,   \* history: the containers whose removal was not answered
  cmsLosses

slpaOrderVars == <<order, cms, branch, unsure, cmsLosses>>

Placeholders == {OrderRows[i] : i \in DOMAIN OrderRows}
Branches == DOMAIN OrderRows
ContainerOrNone == RealContainers \cup {NoContainer}
NotSplit == [pc |-> "none", real |-> {}, free |-> {}, placeholders |-> {}, chosen |-> NoContainer,
             paired |-> NoContainer, deleted |-> FALSE]

SlpaOrdersType ==
  /\ order \in [pc : {"ecdn", "order", "invoice", "payment", "split", "failed", "branches"},
                number : 0 .. MaxOrders, paid : BOOLEAN]
  /\ cms \in [declared : BOOLEAN, orders : 0 .. MaxOrders, invoiced : SUBSET (1 .. MaxOrders), paid : BOOLEAN,
              advised : SUBSET RealContainers, pairing : [RealContainers -> Placeholders \cup {NoContainer}],
              passes : SUBSET Placeholders]
  /\ branch \in [Branches -> [pc : {"none", "lookup", "choose", "save", "resolve", "pass", "done"},
                              real : SUBSET RealContainers, free : SUBSET RealContainers,
                              placeholders : SUBSET Placeholders, chosen : ContainerOrNone,
                              paired : ContainerOrNone, deleted : BOOLEAN]]
  /\ unsure \subseteq RealContainers
  /\ cmsLosses \in 0 .. MaxCmsLosses

----------------------------------------------------------------------------
(* The CMS's answers: whether the call failed, and what the body says.     *)

\* Flatten: the fields of an answer, whichever level of the envelope they come from.
Answer200(status, envelope, number) ==
  [err |-> FALSE, error |-> FALSE, status |-> status, envelope |-> envelope, number |-> number, paid |-> FALSE]
Unanswered == [err |-> TRUE, error |-> FALSE, status |-> "none", envelope |-> "none", number |-> 0, paid |-> FALSE]
\* A refusal fails the call or is answered 200, and may carry a number all the same.
CmsRefusals(number) ==
  {[err |-> e, error |-> TRUE, status |-> "none", envelope |-> "0", number |-> n, paid |-> FALSE] :
     e \in BOOLEAN, n \in {0, number}}

\* HasErrors: the call failed, or the body carries a refusal.
NotServed(x) == x.err \/ x.error
\* Accepted, for the cargo declaration.
EcdnAccepted(x) == ~NotServed(x) /\ x.status = "ACCEPTED"
\* interpret and raised, for either kind of order.
OrderRaised(x) == ~NotServed(x) /\ (x.number # 0 \/ x.status = "ACCEPTED")
\* GenerateInterpreter.Interpret.
InvoiceIssued(x) == ~NotServed(x) /\ x.number # 0
\* envelopeOK, for a consolidation saved or removed.
EnvelopeServed(x) == ~NotServed(x) /\ x.envelope = "1"
\* Interpret, for a gate pass.
PassIssued(x) == ~NotServed(x) /\ x.number # 0

\* What a step may get to hear: the CMS's answer, or nothing.
Heard(x) ==
  \/ x \in {Unanswered} /\ cmsLosses < MaxCmsLosses /\ cmsLosses' = cmsLosses + 1
  \/ x # Unanswered /\ UNCHANGED cmsLosses

----------------------------------------------------------------------------
(* Before the split.                                                       *)

\* BuildRequest and Interpret (ecdn): a declaration that cannot be assembled is not sent; a refused
\* one, or one not answered, leaves the trader on the form.
UploadDeclaration ==
  /\ order.pc = "ecdn"
  /\ \E served \in BOOLEAN :
       \E x \in (IF served THEN {Answer200("ACCEPTED", "1", 0)} ELSE CmsRefusals(0)) \cup {Unanswered} :
         /\ Heard(x)
         /\ cms' = [cms EXCEPT !.declared = cms.declared \/ served]
         /\ order' = [order EXCEPT !.pc = IF EcdnAccepted(x) THEN "order" ELSE "ecdn"]
  /\ UNCHANGED <<branch, unsure>>

\* BuildRequest and Interpret (serviceorder): an order that cannot be assembled is sent without
\* lines, and refused; one that was raised and not answered is raised again by the next submission.
RaiseOrder ==
  /\ order.pc = "order"
  /\ \E served \in {FALSE} \cup {s \in {TRUE} : cms.orders < MaxOrders} :
       \E x \in (IF served THEN {Answer200("new", "1", cms.orders + 1)} ELSE CmsRefusals(cms.orders)) \cup {Unanswered} :
         /\ Heard(x)
         /\ cms' = [cms EXCEPT !.orders = IF served THEN @ + 1 ELSE @]
         /\ order' = IF OrderRaised(x) THEN [order EXCEPT !.pc = "invoice", !.number = x.number] ELSE order
  /\ UNCHANGED <<branch, unsure>>

\* GenerateInterpreter: an order that is already invoiced is answered with that invoice; the step
\* that follows waits for the payment unless the answer says that it has landed.
GenerateInvoice ==
  /\ order.pc = "invoice"
  /\ \E served \in BOOLEAN :
       \E x \in (IF served THEN {[Answer200("invoiced", "1", order.number) EXCEPT !.paid = cms.paid]}
                 ELSE CmsRefusals(0)) \cup {Unanswered} :
         /\ Heard(x)
         /\ cms' = [cms EXCEPT !.invoiced = IF served THEN @ \cup {order.number} ELSE @]
         /\ order' = IF InvoiceIssued(x) THEN [order EXCEPT !.pc = IF x.paid THEN "split" ELSE "payment", !.paid = x.paid]
                     ELSE order
  /\ UNCHANGED <<branch, unsure>>

\* The trader pays SLPA; the CMS reports it to the step that waits.
PaymentLands ==
  /\ order.number \in cms.invoiced /\ ~cms.paid
  /\ cms' = [cms EXCEPT !.paid = TRUE]
  /\ UNCHANGED <<order, branch, unsure, cmsLosses>>
PaymentReported ==
  /\ order.pc = "payment" /\ cms.paid
  /\ order' = [order EXCEPT !.pc = "split", !.paid = TRUE]
  /\ UNCHANGED <<cms, branch, unsure, cmsLosses>>

\* SLPAContainerSplitBuilderFunc: one branch for each container of the order, which owns its placeholder.
SplitContainers ==
  /\ order.pc = "split"
  /\ IF Len(OrderRows) \in 1 .. MaxContainers
     THEN /\ order' = [order EXCEPT !.pc = "branches"]
          /\ branch' = [b \in Branches |-> [NotSplit EXCEPT !.pc = "lookup"]]
     ELSE order' = [order EXCEPT !.pc = "failed"] /\ UNCHANGED branch
  /\ UNCHANGED <<cms, unsure, cmsLosses>>

----------------------------------------------------------------------------
(* A branch.                                                               *)

\* The terminal pre-advises a container against the declaration.
Advise(r) ==
  /\ cms' = [cms EXCEPT !.advised = @ \cup {r}]
  /\ UNCHANGED <<order, branch, unsure, cmsLosses>>

\* FetchInterpreter and Rows: the two sides are recorded as the CMS holds them now, and a failed
\* lookup records none; the trader's form offers those that are not paired (availableContainers).
Look(b) ==
  /\ branch[b].pc = "lookup"
  /\ \/ /\ branch' = [branch EXCEPT ![b].pc = "choose", ![b].real = cms.advised, ![b].placeholders = Placeholders,
                                    ![b].free = {r \in cms.advised : cms.pairing[r] = NoContainer}]
        /\ UNCHANGED cmsLosses
     \/ /\ Heard(Unanswered)
        /\ branch' = [branch EXCEPT ![b].pc = "choose", ![b].real = {}, ![b].placeholders = {}, ![b].free = {}]
  /\ UNCHANGED <<order, cms, unsure>>

\* The trader picks a container that is offered, types one where none is, or asks to look again.
Choose(b) ==
  /\ branch[b].pc = "choose"
  /\ \/ \E r \in IF branch[b].free # {} THEN branch[b].free ELSE RealContainers :
          branch' = [branch EXCEPT ![b].pc = "save", ![b].chosen = r]
     \/ branch' = [branch EXCEPT ![b].pc = "lookup"]
  /\ UNCHANGED <<order, cms, unsure, cmsLosses>>

\* PairOne: the container that was chosen with the branch's own placeholder, when the last lookup
\* holds both.
PairOne(b) ==
  {p \in branch[b].real \X branch[b].placeholders : p = <<branch[b].chosen, OrderRows[b]>>}

\* The CMS pairs what is pre-advised and not paired, on either side.
CmsPairs(p) ==
  p[1] \in cms.advised /\ cms.pairing[p[1]] = NoContainer /\ \A r \in RealContainers : cms.pairing[r] # p[2]

\* SaveInterpreter.Interpret.
Saved(x) == EnvelopeServed(x)

\* SaveInterpreter: a pairing that is not saved releases the choice and goes back to the lookup; one
\* whose record is lost is saved again.
SaveConsolidation(b) ==
  /\ branch[b].pc = "save"
  /\ \E served \in {FALSE} \cup {TRUE : p \in {q \in PairOne(b) : CmsPairs(q)}} :
       /\ cms' = IF served THEN [cms EXCEPT !.pairing[branch[b].chosen] = OrderRows[b]] ELSE cms
       /\ \/ \E x \in (IF served THEN {Answer200("none", "1", 0)} ELSE CmsRefusals(0)) \cup {Unanswered} :
               /\ Heard(x)
               /\ branch' = IF Saved(x) THEN [branch EXCEPT ![b].pc = "resolve"]
                            ELSE [branch EXCEPT ![b].pc = "lookup", ![b].chosen = NoContainer]
          \/ served /\ Heard(Unanswered) /\ UNCHANGED branch
  /\ UNCHANGED <<order, unsure>>

\* SLPAConsolidationResolveFunc: the container that was paired, found in the last lookup.
ResolveContainer(b) ==
  /\ branch[b].pc = "resolve" /\ branch[b].chosen \in branch[b].real
  /\ branch' = [branch EXCEPT ![b].pc = "pass", ![b].paired = branch[b].chosen, ![b].deleted = FALSE]
  /\ UNCHANGED <<order, cms, unsure, cmsLosses>>

\* Interpreter (gatepass): the pass is asked for by the branch's placeholder, once the order is paid.
IssuePass(b) ==
  /\ branch[b].pc = "pass"
  /\ \E served \in BOOLEAN :
       \E x \in (IF served THEN {Answer200("none", "1", b)} ELSE CmsRefusals(0)) \cup {Unanswered} :
         /\ Heard(x)
         /\ cms' = [cms EXCEPT !.passes = IF served THEN @ \cup {OrderRows[b]} ELSE @]
         /\ branch' = [branch EXCEPT ![b].pc = IF PassIssued(x) THEN "done" ELSE "pass"]
  /\ UNCHANGED <<order, unsure>>

\* DeleteInterpreter: the pairing is removed, with the passes that hang off it, and the branch goes
\* back to consolidate; a removal that is refused, or not answered, leaves it where it was.
RemoveConsolidation(b) ==
  /\ branch[b].pc = "pass"
  /\ \E served \in {s \in BOOLEAN : s => cms.pairing[branch[b].paired] # NoContainer} :
       /\ cms' = IF served THEN [cms EXCEPT !.pairing[branch[b].paired] = NoContainer,
                                            !.passes = @ \ {cms.pairing[branch[b].paired]}]
                 ELSE cms
       /\ \E x \in (IF served THEN {Answer200("none", "1", 0)} ELSE CmsRefusals(0)) \cup {Unanswered} :
            /\ Heard(x)
            /\ branch' = IF EnvelopeServed(x)
                         THEN [branch EXCEPT ![b].pc = "lookup", ![b].deleted = TRUE, ![b].chosen = NoContainer]
                         ELSE branch
            /\ unsure' = IF x = Unanswered THEN unsure \cup {branch[b].paired} ELSE unsure
  /\ UNCHANGED order

\* caseContainers and pairedContainer, for a sundry order: each placeholder with the container that
\* the case's tasks pair it with.
CaseContainers ==
  {[placeholder |-> OrderRows[b], real |-> IF branch[b].deleted THEN NoContainer ELSE branch[b].paired] :
     b \in {x \in Branches : order.pc = "branches"}}

----------------------------------------------------------------------------
SlpaOrdersInit ==
  /\ order = [pc |-> "ecdn", number |-> 0, paid |-> FALSE]
  /\ cms = [declared |-> FALSE, orders |-> 0, invoiced |-> {}, paid |-> FALSE, advised |-> {},
            pairing |-> [r \in RealContainers |-> NoContainer], passes |-> {}]
  /\ branch = [b \in Branches |-> NotSplit]
  /\ unsure = {} /\ cmsLosses = 0

SlpaOrdersNext ==
  \/ UploadDeclaration \/ RaiseOrder \/ GenerateInvoice \/ PaymentLands \/ PaymentReported \/ SplitContainers
  \/ \E r \in RealContainers \ cms.advised : order.pc = "branches" /\ Advise(r)
  \/ \E b \in Branches :
       \/ Look(b) \/ Choose(b) \/ SaveConsolidation(b) \/ ResolveContainer(b)
       \/ IssuePass(b) \/ RemoveConsolidation(b)

----------------------------------------------------------------------------
(* Properties.                                                             *)

\* What the steps record is what the CMS holds: a declaration it has accepted, an order it has
\* raised and invoiced, each container paired with the placeholder of the branch that says so, and a
\* pass for each branch that is over -- but for a container whose removal was not answered.
SlpaBooksAgree ==
  /\ order.pc # "ecdn" => cms.declared
  /\ order.pc \notin {"ecdn", "order"} => order.number \in 1 .. cms.orders
  /\ order.pc \in {"payment", "split", "branches"} => order.number \in cms.invoiced
  /\ order.pc \in {"split", "branches"} => cms.paid
  /\ \A row \in CaseContainers :
       row.real \in RealContainers \ unsure => cms.pairing[row.real] = row.placeholder
  /\ \A b \in Branches :
       branch[b].pc = "done" /\ branch[b].paired \notin unsure => OrderRows[b] \in cms.passes
=============================================================================
