----------------------------- MODULE EdgeCalls -----------------------------
(***************************************************************************)
(* The api_call plugin with the SLC Edge interpreters: a trader's form is  *)
(* verified as often as they like, submitted as a declaration or as a      *)
(* dispatch note, and, once Customs has rejected it, submitted again.      *)
(*                                                                         *)
(* The answer to a submission may be lost, and an activity whose record    *)
(* was not saved is run again (external, Temporal) with the same inputs.   *)
(* SLC Edge (external) gives each message it takes an edgeId; ASYCUDA      *)
(* (external) acts on one message of each nswId and suppresses the others. *)
(* The workflow (external) maps the edgeId in the step's output back into  *)
(* its next submission.                                                    *)
(***************************************************************************)
EXTENDS Naturals, Sequences, FiniteSets

CONSTANTS
  Declarations, \* contents of the trader's form
  NoForm,
  Mappable,     \* those that can be mapped onto the payload
  Valid,        \* those that Customs registers
  MaxAttempts,  \* bound on submissions
  MaxMessages,  \* bound on what SLC Edge receives
  MaxEdgeLosses \* bound on answers lost and on activities run again

ASSUME EdgeBoundsAssumption == MaxAttempts \in Nat /\ MaxMessages \in Nat /\ MaxEdgeLosses \in Nat

VARIABLES
  declaring,   \* the step: what it is doing, its inputs, the answer it has, and its output
  messages,    \* what SLC Edge has taken; a message's index is its edgeId
  handled,     \* the messages that ASYCUDA has seen, suppressed ones included
  registered,  \* those that it has acted on
  dispatched,  \* the edgeIds recorded with the workflow that sent them
  attempts,
  edgeLosses

edgeCallVars == <<declaring, messages, handled, registered, dispatched, attempts, edgeLosses>>

NoEdgeId == 0
EdgeIds == 1 .. MaxMessages
EdgeIdOrNone == EdgeIds \cup {NoEdgeId}

\* An answer: whether the call failed, and what its body says.
EdgeAnswers == [err : BOOLEAN, status : {"RECEIVED", "REJECTED", "none"},
                errors : {"none", "list", "object"}, edgeId : EdgeIdOrNone]
Lost == [err |-> TRUE, status |-> "none", errors |-> "none", edgeId |-> NoEdgeId]

EdgeCallsType ==
  /\ declaring \in [kind : {"cusdec", "note"}, pc : {"form", "call", "record", "save", "waiting", "done"},
                    form : Declarations, previous : EdgeIdOrNone, answer : EdgeAnswers,
                    accepted : BOOLEAN, edgeId : EdgeIdOrNone, verified : Declarations \cup {NoForm}]
  /\ Len(messages) <= MaxMessages
  /\ \A e \in 1 .. Len(messages) :
       /\ messages[e].form \in Declarations /\ messages[e].previous \in EdgeIdOrNone
       /\ messages[e].attempt \in 1 .. MaxAttempts
  /\ registered \subseteq handled /\ handled \subseteq 1 .. Len(messages)
  /\ dispatched \subseteq 1 .. Len(messages)
  /\ attempts \in 0 .. MaxAttempts /\ edgeLosses \in 0 .. MaxEdgeLosses

----------------------------------------------------------------------------
(* What is sent, and how an answer is read.                                *)

\* Mutant: the identifier is derived from the payload alone.
NswIdOfPayload(form, previous) == <<form>>
\* For: the same on every resend of one submission, and another for the next one.
NswId(form, previous) == <<form, previous>>

\* BuildPayload: the form as Customs reads it, with the identifier derived from it.
Payload(form, previous) == {[form |-> f, id |-> NswId(f, previous)] : f \in {form} \cap Mappable}

Received(e) == [err |-> FALSE, status |-> "RECEIVED", errors |-> "none", edgeId |-> e]
\* A refusal fails the call, or is told in a body that is answered 200.
EdgeRefusals ==
  {[err |-> TRUE, status |-> "none", errors |-> "object", edgeId |-> NoEdgeId],
   [err |-> FALSE, status |-> "REJECTED", errors |-> "none", edgeId |-> NoEdgeId],
   [err |-> FALSE, status |-> "RECEIVED", errors |-> "list", edgeId |-> NoEdgeId]}

\* statusIsAccepted.
StatusIsAccepted(x) == x.status \in {"QUEUED", "ACCEPTED", "RECEIVED"}
\* CusdecInterpreter.Interpret, hasErrors.
CusdecAccepts(x) == ~x.err /\ x.errors # "list" /\ StatusIsAccepted(x)
\* CDNInterpreter.Interpret, hasErrors.
NoteAccepts(x) == ~x.err /\ x.errors = "none" /\ StatusIsAccepted(x)
Accepts(x) == IF declaring.kind = "cusdec" THEN CusdecAccepts(x) ELSE NoteAccepts(x)

----------------------------------------------------------------------------
(* The step.                                                               *)

OthersStay == UNCHANGED <<messages, handled, registered, dispatched>>

\* The trader edits the form.
EditForm(f) ==
  /\ declaring.pc = "form" /\ f # declaring.form
  /\ declaring' = [declaring EXCEPT !.form = f]
  /\ OthersStay /\ UNCHANGED <<attempts, edgeLosses>>

\* VerifyInterpreter: the answer is a verdict on the form as it was sent, an unreadable answer or
\* a failed call is none; a form that cannot be mapped is sent empty and not verified.
Verify ==
  /\ declaring.pc = "form" /\ declaring.kind = "cusdec"
  /\ \E verified \in {NoForm} \cup ({declaring.form} \cap Mappable \cap Valid) :
       declaring' = [declaring EXCEPT !.verified = verified]
  /\ OthersStay /\ UNCHANGED <<attempts, edgeLosses>>

\* The trader submits: the step's inputs are the form and the edgeId that its output holds.
Submit ==
  /\ declaring.pc = "form" /\ attempts < MaxAttempts
  /\ declaring' = [declaring EXCEPT !.pc = "call", !.previous = declaring.edgeId]
  /\ attempts' = attempts + 1
  /\ OthersStay /\ UNCHANGED edgeLosses

Gets(x) == declaring' = [declaring EXCEPT !.pc = "record", !.answer = x]

\* callMultipart and BuildParts (cusdec): a declaration that cannot be assembled is not sent;
\* an attachment may not be readable this time.
NotAssembled ==
  /\ declaring.pc = "call" /\ declaring.kind = "cusdec"
  /\ Gets(Lost)
  /\ OthersStay /\ UNCHANGED <<attempts, edgeLosses>>

\* BuildRequest (cdn): what cannot be mapped is sent as an error, which SLC Edge refuses.
SendsError ==
  /\ declaring.pc = "call" /\ declaring.kind = "note" /\ Payload(declaring.form, declaring.previous) = {}
  /\ \E x \in EdgeRefusals : Gets(x)
  /\ OthersStay /\ UNCHANGED <<attempts, edgeLosses>>

\* SLC Edge refuses the message at its boundary, or takes it; the answer may be lost.
Call ==
  /\ declaring.pc = "call"
  /\ \E payload \in Payload(declaring.form, declaring.previous) :
       \/ /\ \E x \in EdgeRefusals : Gets(x)
          /\ UNCHANGED <<messages, edgeLosses>>
       \/ /\ Len(messages) < MaxMessages
          /\ messages' = Append(messages, [form |-> payload.form, previous |-> declaring.previous,
                                           id |-> payload.id, attempt |-> attempts])
          /\ \/ Gets(Received(Len(messages) + 1)) /\ UNCHANGED edgeLosses
             \/ edgeLosses < MaxEdgeLosses /\ edgeLosses' = edgeLosses + 1 /\ Gets(Lost)
  /\ UNCHANGED <<handled, registered, dispatched, attempts>>

\* recordDispatch: an accepted call is recorded, retried, and given up; the step goes on all the same.
RecordDispatch ==
  /\ declaring.pc = "record"
  /\ declaring' = [declaring EXCEPT !.pc = "save"]
  /\ IF Accepts(declaring.answer) /\ declaring.answer.edgeId # NoEdgeId
     THEN dispatched' \in {dispatched, dispatched \cup {declaring.answer.edgeId}}
     ELSE UNCHANGED dispatched
  /\ UNCHANGED <<messages, handled, registered, attempts, edgeLosses>>

\* Execute: the output namespace is replaced by what the answer says; the workflow goes on to wait
\* for Customs, or back to the form.
SaveAnswer ==
  /\ declaring.pc = "save"
  /\ LET accepted == Accepts(declaring.answer)
     IN declaring' = [declaring EXCEPT !.pc = IF accepted THEN "waiting" ELSE "form",
                                       !.accepted = accepted, !.edgeId = declaring.answer.edgeId,
                                       !.answer = Lost]
  /\ OthersStay /\ UNCHANGED <<attempts, edgeLosses>>

\* The record was not saved: the activity is run again.
CallAgain ==
  /\ declaring.pc \in {"record", "save"} /\ edgeLosses < MaxEdgeLosses
  /\ edgeLosses' = edgeLosses + 1
  /\ declaring' = [declaring EXCEPT !.pc = "call", !.answer = Lost]
  /\ OthersStay /\ UNCHANGED attempts

----------------------------------------------------------------------------
(* Customs.                                                                *)

Asycuda(e) ==
  /\ handled' = handled \cup {e}
  /\ registered' = registered \cup {x \in {e} : \A r \in registered : messages[r].id # messages[x].id}
  /\ UNCHANGED <<declaring, messages, dispatched, attempts, edgeLosses>>

\* The result of a declaration finds the workflow that its edgeId was recorded with.
Result ==
  /\ declaring.pc = "waiting" /\ declaring.edgeId \in registered \cap dispatched
  /\ declaring' = [declaring EXCEPT !.pc = IF messages[declaring.edgeId].form \in Valid THEN "done" ELSE "form"]
  /\ OthersStay /\ UNCHANGED <<attempts, edgeLosses>>

----------------------------------------------------------------------------
EdgeCallsInit ==
  /\ declaring \in [kind : {"cusdec", "note"}, pc : {"form"}, form : Declarations, previous : {NoEdgeId},
                    answer : {Lost}, accepted : {FALSE}, edgeId : {NoEdgeId}, verified : {NoForm}]
  /\ messages = << >>
  /\ handled = {} /\ registered = {} /\ dispatched = {}
  /\ attempts = 0 /\ edgeLosses = 0

EdgeCallsNext ==
  \/ \E f \in Declarations : EditForm(f)
  \/ Verify \/ Submit \/ NotAssembled \/ SendsError \/ Call \/ RecordDispatch \/ SaveAnswer \/ CallAgain
  \/ \E e \in (1 .. Len(messages)) \ handled : Asycuda(e)
  \/ Result

EdgeCallsSpec == EdgeCallsInit /\ [][EdgeCallsNext]_edgeCallVars

----------------------------------------------------------------------------
(* Properties.                                                             *)

\* Customs acts at most once on what a trader has submitted once, however often a lost answer or an
\* activity run again sends it; and a submission that follows an acknowledged one is never taken for
\* a message of another submission, even when the trader has changed nothing (nswid.For).
OneRegistrationPerSubmission ==
  /\ \A r, s \in registered : messages[r].attempt = messages[s].attempt => r = s
  /\ \A e, x \in 1 .. Len(messages) :
       messages[e].previous # NoEdgeId /\ messages[e].id = messages[x].id =>
         messages[e].attempt = messages[x].attempt

\* A step that says a submission was accepted holds the edgeId of a message of that very submission,
\* which SLC Edge has taken with the form as the trader sent it; and what it says is verified is
\* what Customs would register.
EdgeVerdictsAreTrue ==
  /\ declaring.pc = "waiting" =>
       /\ declaring.edgeId \in 1 .. Len(messages)
       /\ messages[declaring.edgeId].attempt = attempts
       /\ messages[declaring.edgeId].form = declaring.form
  /\ declaring.verified # NoForm => declaring.verified \in Valid
=============================================================================
