---------------------------- MODULE SundryOrders ----------------------------
(***************************************************************************)
(* A sundry order: a flow of its own that adds services to an order which  *)
(* SLPA has invoiced. A step asks the CMS for the services it offers, the  *)
(* form offers them against the case's containers, and an api_call step    *)
(* raises the order.                                                       *)
(*                                                                         *)
(* The CMS (external) changes its services whenever it likes, and keeps    *)
(* the sundry orders. Answers and records are lost as in SlpaOrders. Which *)
(* step follows which is the artifact's (external).                        *)
(***************************************************************************)
EXTENDS SlpaOrders

CONSTANTS
  Services,    \* that the CMS has, by their IDs
  SundryForms, \* what the trader may enter
  NoService,
  ParentInvoice, \* the number of the order's invoice; 0 is none
  MaxSundries  \* bound on the sundry orders that the CMS raises

ASSUME SundryAssumption == MaxSundries \in Nat

VARIABLES
  sundry,    \* the flow: its step, its client key, what its lookups have recorded, the form and the number
  catalogue, \* the CMS's services
  sundries   \* the CMS's sundry orders, by their numbers

sundryVars == <<sundry, catalogue, sundries>>

\* A service is ordered with others, or by itself only; one may lack a name, and one be withdrawn.
Catalogues == [Services -> {"sundry", "standard", "unnamed", "withdrawn"}]
SundryLines == [container : Placeholders \cup {NoContainer}, service : Services \cup {NoService}, quantity : Nat]
ASSUME SundryFormsAssumption == SundryForms \subseteq [parent : Nat, lines : Seq(SundryLines)]

SundryType ==
  /\ sundry.pc \in {"services", "form", "submit", "done"}
  /\ sundry.clientKey \in {"key", "blank", "other"}
  /\ sundry.services \subseteq Services /\ sundry.containers \subseteq Placeholders
  /\ sundry.form \in SundryForms /\ sundry.number \in 0 .. MaxSundries
  /\ catalogue \in Catalogues
  /\ \A n \in DOMAIN sundries : sundries[n].lines \in Seq(SundryLines)

----------------------------------------------------------------------------
\* ClientKeyHeaders: nothing but a text is presented.
Identified == sundry.clientKey = "key"

\* BuildSundry and buildSundryLines: a form that lacks something is sent without its lines.
SundryBody(form) ==
  LET whole == /\ form.parent # 0 /\ form.lines # << >>
               /\ \A i \in DOMAIN form.lines :
                    LET line == form.lines[i]
                    IN line.container # NoContainer /\ line.service # NoService /\ line.quantity >= 1
  IN [form EXCEPT !.lines = IF whole THEN @ ELSE << >>]

\* sundryServices: the services that the answer names and that may be ordered with others.
Usable(services) == {s \in Services : services[s] = "sundry"}

\* ServicesInterpreter: a lookup that fails, or finds nothing, records no services.
ListServices ==
  /\ sundry.pc = "services"
  /\ \E x \in (IF Identified THEN {Answer200("none", "1", 0)} ELSE {}) \cup CmsRefusals(0) \cup {Unanswered} :
       /\ Heard(x)
       /\ sundry' = [sundry EXCEPT !.pc = "form", !.services = IF NotServed(x) THEN {} ELSE Usable(catalogue)]
  /\ UNCHANGED <<catalogue, sundries>>

\* SLPASundryProjector: a field of a line is picked from what is offered, or typed when nothing is.
Offered(choices, any) == IF choices # {} THEN choices ELSE any

FillSundry ==
  /\ sundry.pc = "form"
  /\ \/ \E form \in SundryForms :
          /\ \A i \in DOMAIN form.lines :
               /\ form.lines[i].service \in Offered(sundry.services, Services \cup {NoService})
               /\ form.lines[i].container \in Offered(sundry.containers, Placeholders \cup {NoContainer})
          /\ sundry' = [sundry EXCEPT !.pc = "submit", !.form = form]
     \/ sundry' = [sundry EXCEPT !.pc = "services"]
  /\ UNCHANGED <<catalogue, sundries, cmsLosses>>

\* The CMS (external) finds the order by its invoice and takes services that it offers.
CmsTakes(body) ==
  /\ Identified /\ Len(sundries) < MaxSundries
  /\ body.parent = ParentInvoice /\ body.lines # << >>
  /\ \A i \in DOMAIN body.lines : catalogue[body.lines[i].service] # "withdrawn"

\* SundryInterpreter: an order that was not raised, or not answered, brings the form back; one whose
\* record is lost is raised again.
RaiseSundry ==
  LET body == SundryBody(sundry.form)
  IN /\ sundry.pc = "submit"
     /\ \E served \in {s \in BOOLEAN : s => CmsTakes(body)} :
          /\ sundries' = IF served THEN Append(sundries, body) ELSE sundries
          /\ \/ \E x \in (IF served THEN {Answer200("new", "1", Len(sundries) + 1)} ELSE CmsRefusals(Len(sundries)))
                         \cup {Unanswered} :
                  /\ Heard(x)
                  /\ sundry' = IF OrderRaised(x) THEN [sundry EXCEPT !.pc = "done", !.number = x.number]
                               ELSE [sundry EXCEPT !.pc = "form"]
             \/ served /\ Heard(Unanswered) /\ UNCHANGED sundry
     /\ UNCHANGED catalogue

\* SLPA adds a service, renames it or withdraws it.
ServiceChanges ==
  /\ \E s \in Services, as \in {"sundry", "standard", "unnamed", "withdrawn"} : catalogue' = [catalogue EXCEPT ![s] = as]
  /\ UNCHANGED <<sundry, sundries, cmsLosses>>

\* The case's containers were read by an earlier step, before or after the case had any.
SundryInit(catalogues, keys) ==
  /\ \E key \in keys, containers \in {{}, Placeholders}, form \in {f \in SundryForms : f.lines = << >>} :
       sundry = [pc |-> "services", clientKey |-> key, services |-> {}, containers |-> containers, form |-> form, number |-> 0]
  /\ catalogue \in catalogues
  /\ sundries = << >>

SundryNext == ListServices \/ FillSundry \/ RaiseSundry \/ ServiceChanges

----------------------------------------------------------------------------
(* Properties.                                                             *)

\* A sundry order that the trader is told of is one that the CMS has raised, for the form as it was
\* when it was answered; whatever was edited, refused or lost in between, and however the CMS's
\* services have changed since they were listed, no order is short of what its form needed.
SundryIsAsOrdered ==
  /\ sundry.pc = "done" => sundry.number \in DOMAIN sundries /\ sundries[sundry.number] = sundry.form
  /\ \A n \in DOMAIN sundries :
       /\ sundries[n].parent = ParentInvoice
       /\ \A i \in DOMAIN sundries[n].lines : sundries[n].lines[i].quantity >= 1
=============================================================================
