----------------------------- MODULE EphytoHub -----------------------------
(***************************************************************************)
(* The NPQS ePhyto Hub calls: a phytosanitary certificate is built from    *)
(* the trader's application and the officer's choice of items, submitted   *)
(* to the IPPC Hub, polled until it is delivered, and perhaps withdrawn.   *)
(*                                                                         *)
(* The workflow (external) sends a submission again unattended when it is  *)
(* recorded as retryable, and polls with a timer up to a cap.  The Hub     *)
(* (external) numbers the envelopes it takes; a connection may be reset    *)
(* after it has taken one, and a gateway may answer in its place.          *)
(***************************************************************************)
EXTENDS Naturals, Sequences, FiniteSets
LOCAL INSTANCE FiniteSetsExt

CONSTANTS
  Certificates,   \* what applications and officers' choices may say
  Items,          \* commodities; those that can be described and have an origin are Describable
  Describable,
  Papers,      \* what may be sent along: of types the Hub takes, and of a size
  HubTypes,
  SizeOf,
  MaxAttachment,  \* limits of the Hub's guidelines
  MaxCertificate,
  MaxEnvelopes,   \* bound on what the Hub receives
  MaxHubCalls,    \* bound on the calls of the flow
  MaxResets       \* bound on connections reset and gateway failures

Questions == {"original_certificate_form", "packing", "containers"}

ASSUME HubBoundsAssumption == MaxEnvelopes \in Nat /\ MaxHubCalls \in Nat /\ MaxResets \in Nat
ASSUME CertificatesAssumption ==
  /\ Describable \subseteq Items /\ HubTypes \subseteq Papers
  /\ Certificates \subseteq [commodities : SUBSET Items, picked : [Items -> {"in", "out", "absent"}],
                             documents : SUBSET Papers, send : SUBSET Papers, to : BOOLEAN,
                             reexport : BOOLEAN, answered : SUBSET Questions]

VARIABLES
  ephyto,    \* the flow: where it is, its form and flags, and the answer it has
  envelopes, \* what the Hub has taken; an envelope's index is its delivery number
  hubCalls,
  resets

hubVars == <<ephyto, envelopes, hubCalls, resets>>

NoNumber == 0
Numbers == 1 .. MaxEnvelopes
Infos == {"none", "PendingDelivery", "Delivered", "DeliveredWithWarnings", "FailedDelivery"}
HubAnswers == [resp : BOOLEAN, err : BOOLEAN, number : Numbers \cup {NoNumber}, info : Infos]

HubType ==
  /\ ephyto \in [pc : {"form", "submit", "timer", "poll", "over", "withdraw"}, form : Certificates,
                 submitted : BOOLEAN, retryable : BOOLEAN, delivered : BOOLEAN, withdrawn : BOOLEAN,
                 tracking : Numbers \cup {NoNumber}, answered : BOOLEAN]
  /\ Len(envelopes) <= MaxEnvelopes
  /\ hubCalls \in 0 .. MaxHubCalls /\ resets \in 0 .. MaxResets

----------------------------------------------------------------------------
(* The certificate.                                                        *)

\* buildConsignment, excludedItemIDs: every commodity that is not deselected.
IncludedItems(c) == {x \in c.commodities : c.picked[x] # "out"}
\* anyItemIncluded: of what the officer's list names.
AnyItemIncluded(c) == \E x \in Items : c.picked[x] = "in"

\* buildReExport: declared once the three questions have an answer.
Declaration(c) == IF c.reexport /\ c.answered = Questions THEN c.answered ELSE {}

\* buildAttachments: of the documents that were uploaded, those that the trader said yes to.
Attachments(c) == c.documents \cap c.send

\* Base64, as the certificate's size is measured.
Encoded(size) == 4 * ((size + 2) \div 3)
\* resolveAttachments: each document is read, of a type the Hub takes and small enough, and so are
\* all of them together.
Attachable(documents) ==
  /\ documents \subseteq HubTypes
  /\ \A d \in documents : SizeOf[d] <= MaxAttachment
  /\ MapThenSumSet(LAMBDA d : Encoded(SizeOf[d]), documents) <= MaxCertificate

\* BuildInput: the certificate of an application.
CertificateOf(c, status, documents) ==
  [status |-> status, items |-> IncludedItems(c), documents |-> documents, declares |-> Declaration(c)]
\* buildTradeLine: a commodity needs a description and an origin.
BuildTradeLine(x) == x \in Describable
\* BuildCertificate.
BuildCertificate(e) == e.items # {} /\ \A x \in e.items : BuildTradeLine(x)
\* BuildCertXML: the certificate, when it can be built.
Rendered(c, status, documents) == {e \in {CertificateOf(c, status, documents)} : BuildCertificate(e)}

\* BuildEnvelope for a submission: at most one, none when the certificate cannot be built.
SubmitEnvelope(c) ==
  IF AnyItemIncluded(c) /\ c.to /\ Attachable(Attachments(c)) THEN Rendered(c, "Issued", Attachments(c)) ELSE {}
\* And for a withdrawal, which sends no documents.
WithdrawEnvelope(c) == IF AnyItemIncluded(c) /\ c.to THEN Rendered(c, "Withdrawn", {}) ELSE {}

----------------------------------------------------------------------------
(* What is made of an answer.                                              *)

NoAnswer == [resp |-> FALSE, err |-> TRUE, number |-> NoNumber, info |-> "none"]

\* Mutant: an envelope that failed delivery counts as accepted.
HubAcceptsNumbered(x) == ~x.err /\ x.resp /\ x.number # NoNumber
\* Response.Delivered, of an answer without an error.
HubAccepts(x) == ~x.err /\ x.resp /\ x.number # NoNumber /\ x.info # "FailedDelivery"

\* For the workflow to retry: the Hub never answered.
Retryable(x) == ~HubAccepts(x) /\ ~x.resp /\ x.err

\* IsDelivered.
IsDelivered(info) == info \in {"Delivered", "DeliveredWithWarnings"}

Numbered(x) == IF x.resp /\ x.number # NoNumber THEN x.number ELSE ephyto.tracking

----------------------------------------------------------------------------
(* Calls.                                                                  *)

\* What the Hub may answer an envelope that it does not take: it cannot be reached, a gateway or a
\* SOAP fault answers, or the validation fails.
Refusals ==
  {NoAnswer} \cup [resp : {TRUE}, err : BOOLEAN, number : {NoNumber}, info : {"none", "FailedDelivery"}]
\* It is given a number, delivered or not, and the answer may be lost or cut short.
Taken(n, info) ==
  {[resp |-> TRUE, err |-> FALSE, number |-> n, info |-> info],
   [resp |-> TRUE, err |-> TRUE, number |-> n, info |-> "none"],
   [resp |-> TRUE, err |-> TRUE, number |-> NoNumber, info |-> "none"], NoAnswer}

\* One call with an envelope, and what the flow then does with the answer.
Sends(e, Interpret(_)) ==
  /\ hubCalls < MaxHubCalls /\ hubCalls' = hubCalls + 1
  /\ \/ /\ \E x \in Refusals : Interpret(x)
        /\ UNCHANGED <<envelopes, resets>>
     \/ /\ Len(envelopes) < MaxEnvelopes
        /\ \E info \in {"PendingDelivery", "FailedDelivery"}, x \in HubAnswers :
             /\ x \in Taken(Len(envelopes) + 1, info)
             /\ envelopes' = Append(envelopes, [of |-> e, info |-> info, accepted |-> info = "PendingDelivery"])
             /\ x.err => resets < MaxResets
             /\ resets' = IF x.err THEN resets + 1 ELSE resets
             /\ Interpret(x)

\* The trader fills the form in, or edits it after a refusal, and submits.
SubmitCertificate(c) ==
  /\ ephyto.pc = "form"
  /\ ephyto' = [ephyto EXCEPT !.pc = "submit", !.form = c]
  /\ UNCHANGED <<envelopes, hubCalls, resets>>

\* interpretSubmit: a certificate that cannot be built goes back to the trader; a document may also
\* not be readable this time.
NotBuilt ==
  /\ ephyto.pc = "submit"
  /\ SubmitEnvelope(ephyto.form) = {} \/ Attachments(ephyto.form) # {}
  /\ ephyto' = [ephyto EXCEPT !.pc = "form", !.submitted = FALSE, !.retryable = FALSE]
  /\ UNCHANGED <<envelopes, hubCalls, resets>>

InterpretSubmit(x) ==
  ephyto' = [ephyto EXCEPT
    !.pc = IF HubAccepts(x) THEN "timer" ELSE IF Retryable(x) THEN "submit" ELSE "form",
    !.submitted = HubAccepts(x), !.retryable = Retryable(x), !.tracking = Numbered(x), !.answered = x.resp]
SubmitToHub ==
  /\ ephyto.pc = "submit"
  /\ \E e \in SubmitEnvelope(ephyto.form) : Sends(e, InterpretSubmit)

\* The timer fires.
TimerFires ==
  /\ ephyto.pc = "timer"
  /\ ephyto' = [ephyto EXCEPT !.pc = "poll"]
  /\ UNCHANGED <<envelopes, hubCalls, resets>>

\* interpretPoll: what the Hub says of the number, or an error; the cap ends the loop.
Poll ==
  /\ ephyto.pc = "poll" /\ ephyto.tracking # NoNumber
  /\ hubCalls < MaxHubCalls /\ hubCalls' = hubCalls + 1
  /\ \E x \in {NoAnswer, [resp |-> TRUE, err |-> FALSE, number |-> ephyto.tracking,
                          info |-> envelopes[ephyto.tracking].info]} :
       LET delivered == ~x.err /\ x.resp /\ IsDelivered(x.info)
       IN \E next \in IF delivered THEN {"over"} ELSE {"timer", "over"} :
            ephyto' = [ephyto EXCEPT !.pc = next, !.delivered = delivered]
  /\ UNCHANGED <<envelopes, resets>>

\* The officer withdraws the certificate.
Withdraw ==
  /\ ephyto.pc = "over" /\ ~ephyto.withdrawn
  /\ ephyto' = [ephyto EXCEPT !.pc = "withdraw"]
  /\ UNCHANGED <<envelopes, hubCalls, resets>>

\* interpretWithdraw: the number is that of the withdrawal.
InterpretWithdraw(x) ==
  ephyto' = [ephyto EXCEPT !.pc = "over", !.withdrawn = HubAccepts(x), !.tracking = Numbered(x)]
WithdrawFromHub ==
  /\ ephyto.pc = "withdraw"
  /\ \E e \in WithdrawEnvelope(ephyto.form) : Sends(e, InterpretWithdraw)

\* The importing NPPO fetches an envelope, or never does.
Delivery(n) ==
  /\ envelopes[n].info = "PendingDelivery"
  /\ \E info \in {"Delivered", "DeliveredWithWarnings", "FailedDelivery"} :
       envelopes' = [envelopes EXCEPT ![n].info = info]
  /\ UNCHANGED <<ephyto, hubCalls, resets>>

----------------------------------------------------------------------------
HubInit ==
  /\ ephyto \in [pc : {"form"}, form : Certificates, submitted : {FALSE}, retryable : {FALSE},
                 delivered : {FALSE}, withdrawn : {FALSE}, tracking : {NoNumber}, answered : {FALSE}]
  /\ envelopes = << >> /\ hubCalls = 0 /\ resets = 0

HubNext ==
  \/ \E c \in Certificates : SubmitCertificate(c)
  \/ NotBuilt \/ SubmitToHub \/ TimerFires \/ Poll \/ Withdraw \/ WithdrawFromHub
  \/ \E n \in 1 .. Len(envelopes) : Delivery(n)

----------------------------------------------------------------------------
(* Properties.                                                             *)

\* What the flow tells its trader is so at the Hub: submitted, the Hub has accepted the certificate
\* as it was applied for, with every item the officer kept and every document that was chosen;
\* delivered, the importing NPPO has it; withdrawn, the Hub has a withdrawal of those very items.
\* And it sends a certificate again unattended only when the Hub has not judged it.
HubVerdictsAreTrue ==
  /\ ephyto.submitted =>
       \E n \in 1 .. Len(envelopes) :
         /\ envelopes[n].accepted /\ envelopes[n].of.status = "Issued"
         /\ envelopes[n].of.items = IncludedItems(ephyto.form)
         /\ envelopes[n].of.documents = ephyto.form.documents \cap ephyto.form.send
         /\ ephyto.pc \in {"timer", "poll"} => n = ephyto.tracking
         /\ ephyto.delivered => IsDelivered(envelopes[n].info)
  /\ ephyto.withdrawn =>
       \E n \in 1 .. Len(envelopes) : /\ envelopes[n].accepted /\ envelopes[n].of.status = "Withdrawn"
                                      /\ envelopes[n].of.items = IncludedItems(ephyto.form)
  /\ ephyto.retryable => ~ephyto.answered
=============================================================================
