------------------------------ MODULE Payments ------------------------------
(***************************************************************************)
(* The PAYMENT plugin and the GovPay+ gateway: a payment step opens a      *)
(* checkout under its callback token, shows the trader the reference, and  *)
(* waits. The bank presents the reference to the payer, takes the money,   *)
(* and notifies.                                                           *)
(*                                                                         *)
(* The payment service (external, core/payment) keeps the transactions and *)
(* settles one when its gateway has accepted the notification; the task    *)
(* manager (external) takes a completion only for the step that waits.     *)
(* Both of the bank's calls read the payee's mapping from the              *)
(* configuration of the moment: a restart may have changed it.             *)
(***************************************************************************)
EXTENDS Naturals, Sequences, FiniteSets

CONSTANTS
  Payees,       \* organisation and service that a fee is paid to
  Methods,      \* payment methods
  NoMethod,     \* the trader has selected none
  Identities,   \* sub-institutions and services as the bank names them
  NoIdentity,   \* the method does not map the payee
  FirstMapping, \* each method's payees at the start
  Inputs,       \* amounts that a workflow may compute, in tenths of a cent
  NoInput,
  FeeAmount,    \* each payee's amount in the step's configuration
  MaxAmount,    \* the largest that the transaction's column holds
  MaxPaySteps,  \* bound on the runs of the step
  MaxSessions,  \* bound on checkouts
  MaxCrashes,   \* bound on activities run again
  MaxRemaps     \* bound on changes of the configuration

ASSUME PayeesAssumption == Payees # {}
ASSUME FeesAssumption ==
  /\ FirstMapping \in [Methods -> [Payees -> Identities \cup {NoIdentity}]]
  /\ MaxPaySteps \in Nat /\ MaxSessions \in Nat /\ MaxCrashes \in Nat /\ MaxRemaps \in Nat

VARIABLES
  fee,       \* the payment step: its run, what its activity is doing, and the reference shown
  sessions,  \* the transactions, numbered by their references
  mapping,   \* the payment section of config.yaml
  crashes,
  remaps

payVars == <<fee, sessions, mapping, crashes, remaps>>

References == 1 .. MaxSessions
NoReference == 0
\* What a step may charge: an amount of either source that is one, and that the column holds as it is.
Fees == {a \in Inputs \cup {FeeAmount[p] : p \in Payees} : a > 0 /\ a <= MaxAmount /\ a % 10 = 0}
Session == [method : Methods, payee : Payees, amount : Fees, token : 1 .. MaxPaySteps,
            expired : BOOLEAN, presented : SUBSET Identities, paid : SUBSET Identities,
            settled : BOOLEAN]

PaymentsType ==
  /\ fee \in [step : 0 .. MaxPaySteps, pc : {"idle", "checkout", "save", "suspend", "waiting", "failed"},
              method : Methods \cup {NoMethod}, payee : Payees, amount : Fees \cup {NoInput},
              shown : References \cup {NoReference}]
  /\ sessions \in Seq(Session) /\ Len(sessions) <= MaxSessions
  /\ mapping \in [Methods -> [Payees -> Identities \cup {NoIdentity}]]
  /\ crashes \in 0 .. MaxCrashes
  /\ remaps \in 0 .. MaxRemaps

----------------------------------------------------------------------------
(* The step.                                                               *)

\* ListAvailableMethods (external): those that map the payee.
Available(p) == {m \in Methods : mapping[m][p] # NoIdentity}

\* selectPaymentMethod: the methods that may be taken; none when the step parks.
Selected(requested, p) ==
  IF requested # NoMethod THEN {requested} \cap Available(p)
  ELSE {m \in Available(p) : Cardinality(Available(p)) = 1}

\* Mutant: nothing is an amount.
ChargeableNothing(input, p) ==
  {a \in {IF input # NoInput THEN input ELSE FeeAmount[p]} : a <= MaxAmount /\ a % 10 = 0}
\* resolvePaymentAmount and storableAmount: an input takes the configuration's place, and an
\* amount that the database would refuse or round is none.
Chargeable(input, p) ==
  {a \in {IF input # NoInput THEN input ELSE FeeAmount[p]} : a > 0 /\ a <= MaxAmount /\ a % 10 = 0}

\* The workflow reaches the step, anew or again, or an admin retries it.
Begin(p, requested, input) ==
  LET method == Selected(requested, p)
      amount == Chargeable(input, p)
      parks == method = {} \/ amount = {}
  IN /\ fee.pc \in {"idle", "failed"}
     /\ fee.step < MaxPaySteps
     /\ fee' = [fee EXCEPT !.step = @ + 1,
                           !.pc = IF parks THEN "failed" ELSE "checkout",
                           !.payee = p,
                           !.method = IF parks THEN NoMethod ELSE CHOOSE m \in method : TRUE,
                           !.amount = IF parks THEN NoInput ELSE CHOOSE a \in amount : TRUE]
     /\ UNCHANGED <<sessions, mapping, crashes, remaps>>

\* CreateCheckoutSession commits a transaction with the step's token and a fresh reference;
\* ErrPayeeNotMapped parks the step before anything is written.
CreateCheckout ==
  /\ fee.pc = "checkout"
  /\ Len(sessions) < MaxSessions
  /\ IF fee.method \in Available(fee.payee)
       THEN /\ sessions' = Append(sessions,
                 [method |-> fee.method, payee |-> fee.payee, amount |-> fee.amount, token |-> fee.step,
                  expired |-> FALSE, presented |-> {}, paid |-> {}, settled |-> FALSE])
            /\ fee' = [fee EXCEPT !.pc = "save"]
       ELSE fee' = [fee EXCEPT !.pc = "failed"] /\ UNCHANGED sessions
  /\ UNCHANGED <<mapping, crashes, remaps>>

\* The record is saved with the reference of this run's checkout.
ShowReference ==
  /\ fee.pc = "save"
  /\ fee' = [fee EXCEPT !.pc = "suspend", !.shown = Len(sessions)]
  /\ UNCHANGED <<sessions, mapping, crashes, remaps>>

Suspend ==
  /\ fee.pc = "suspend"
  /\ fee' = [fee EXCEPT !.pc = "waiting"]
  /\ UNCHANGED <<sessions, mapping, crashes, remaps>>

\* The process dies after the checkout; the engine runs the activity again.
ActivityAgain ==
  /\ fee.pc \in {"save", "suspend"}
  /\ crashes < MaxCrashes
  /\ crashes' = crashes + 1
  /\ fee' = [fee EXCEPT !.pc = "checkout"]
  /\ UNCHANGED <<sessions, mapping, remaps>>

----------------------------------------------------------------------------
(* The bank.                                                               *)

Payable(i) == ~sessions[i].expired /\ ~sessions[i].settled

\* parseIdentity and match, against the mapping of the moment.
Registered(i) == mapping[sessions[i].method][sessions[i].payee]
Matches(i, id) == Registered(i) # NoIdentity /\ id = Registered(i)

\* HandleValidateReference: the first answer that applies. A call for another service learns
\* no more than one for an unknown reference.
Presentment(i, id) ==
  CASE Registered(i) = NoIdentity -> "500 configuration_error"
    [] Registered(i) # NoIdentity /\ ~Matches(i, id) -> "404 invalid_reference"
    [] Matches(i, id) /\ ~Payable(i) -> "409 not_payable"
    [] OTHER -> "200"

Present(i, id) ==
  /\ Presentment(i, id) = "200"
  /\ sessions' = [sessions EXCEPT ![i].presented = @ \cup {id}]
  /\ UNCHANGED <<fee, mapping, crashes, remaps>>

\* The bank takes the amount that it was presented.
Pay(i, id) ==
  /\ id \in sessions[i].presented
  /\ sessions' = [sessions EXCEPT ![i].presented = @ \ {id}, ![i].paid = @ \cup {id}]
  /\ UNCHANGED <<fee, mapping, crashes, remaps>>

\* CompleteTaskStepByToken (external), with the step's submit command.
CompletePaid(i) ==
  fee' = IF fee.pc = "waiting" /\ sessions[i].token = fee.step THEN [fee EXCEPT !.pc = "idle"] ELSE fee

\* Mutant: the identity is verified when the reference is presented, and not again.
NotifyUnverified(i, id) ==
  /\ id \in sessions[i].paid
  /\ sessions[i].settled \/ Payable(i)
  /\ sessions' = [sessions EXCEPT ![i].settled = TRUE]
  /\ CompletePaid(i)
  /\ UNCHANGED <<mapping, crashes, remaps>>
\* ParseWebhook verifies the identity, then the service settles. The bank repeats a
\* notification, settled or refused.
Notify(i, id) ==
  /\ id \in sessions[i].paid
  /\ Matches(i, id)
  /\ sessions[i].settled \/ Payable(i)
  /\ sessions' = [sessions EXCEPT ![i].settled = TRUE]
  /\ CompletePaid(i)
  /\ UNCHANGED <<mapping, crashes, remaps>>

\* A reference's lifetime passes.
ReferenceExpires(i) ==
  /\ Payable(i)
  /\ sessions' = [sessions EXCEPT ![i].expired = TRUE]
  /\ UNCHANGED <<fee, mapping, crashes, remaps>>

\* A restart with another mapping of a payee.
Remap(m, p, id) ==
  /\ remaps < MaxRemaps
  /\ id # mapping[m][p]
  /\ mapping' = [mapping EXCEPT ![m][p] = id]
  /\ remaps' = remaps + 1
  /\ UNCHANGED <<fee, sessions, crashes>>

----------------------------------------------------------------------------
PaymentsInit ==
  /\ fee = [step |-> 0, pc |-> "idle", method |-> NoMethod, payee |-> CHOOSE p \in Payees : TRUE,
            amount |-> NoInput, shown |-> NoReference]
  /\ sessions = <<>>
  /\ mapping = FirstMapping
  /\ crashes = 0
  /\ remaps = 0

PaymentsNext ==
  \/ \E p \in Payees, m \in Methods \cup {NoMethod}, a \in Inputs \cup {NoInput} : Begin(p, m, a)
  \/ CreateCheckout \/ ShowReference \/ Suspend \/ ActivityAgain
  \/ \E i \in DOMAIN sessions :
       \/ \E id \in Identities : Present(i, id) \/ Pay(i, id) \/ Notify(i, id)
       \/ ReferenceExpires(i)
  \/ \E m \in Methods, p \in Payees, id \in Identities \cup {NoIdentity} : Remap(m, p, id)

PaymentsSpec == PaymentsInit /\ [][PaymentsNext]_payVars

----------------------------------------------------------------------------
(* Properties.                                                             *)

\* "a receipt issued against a different GovPay+ service cannot settle this transaction": a step
\* is completed by the money of a checkout that this very run of it has opened, paid to the
\* identity that its payee has now, wherever the payer was sent when it was presented. The late
\* payment of a reference of an earlier run, or of the earlier mapping, completes nothing.
PaymentCompletesItsStep ==
  [][fee.pc = "waiting" /\ fee'.pc # "waiting" =>
       \E i \in DOMAIN sessions :
         /\ sessions'[i].settled
         /\ Registered(i) \in sessions[i].paid
         /\ sessions[i].token = fee.step
         /\ sessions[i].payee = fee.payee /\ sessions[i].amount = fee.amount]_payVars
============================================================================
