----------------------------- MODULE RecordsProofs -----------------------------
(***************************************************************************)
(* Theorems about what the steps of a consignment record of the parties    *)
(* outside: Customs, the ports authority, the ePhyto Hub, and storage.     *)
(***************************************************************************)
EXTENDS OutsideRecords, TLAPS

----------------------------------------------------------------------------
(***************************************************************************)
(* Theorems about EdgeCalls, for any forms and any number of submissions,  *)
(* messages, lost answers and activities run again.                        *)
(*                                                                         *)
(* All messages of one attempt carry one form and one previous edgeId, and *)
(* a previous edgeId is that of a message of the attempt just before: so   *)
(* the identifier derived from the two settles the attempt.                *)
(***************************************************************************)

Sent == 1 .. Len(messages)
Calling == declaring.pc \in {"call", "record", "save"}

\* The types that the proofs rest on: an identifier is derived as nswid.For derives it.
Messages == [form : Declarations, previous : EdgeIdOrNone, id : Declarations \X EdgeIdOrNone, attempt : 1 .. MaxAttempts]
CallsTyped ==
  /\ declaring \in [kind : {"cusdec", "note"}, pc : {"form", "call", "record", "save", "waiting", "done"},
                    form : Declarations, previous : EdgeIdOrNone, answer : EdgeAnswers,
                    accepted : BOOLEAN, edgeId : EdgeIdOrNone, verified : Declarations \cup {NoForm}]
  /\ messages \in Seq(Messages) /\ Len(messages) <= MaxMessages
  /\ registered \subseteq handled /\ handled \subseteq Sent /\ dispatched \subseteq Sent
  /\ attempts \in 0 .. MaxAttempts /\ edgeLosses \in 0 .. MaxEdgeLosses
  /\ declaring.pc # "form" => attempts > 0

\* A message's identifier is derived from what it carries; its attempt has been made, and the
\* edgeId that it refers to is that of a message of the attempt before.
MessagesOK ==
  \A e \in Sent :
    /\ messages[e].id = <<messages[e].form, messages[e].previous>>
    /\ messages[e].attempt <= attempts
    /\ messages[e].previous # NoEdgeId =>
         /\ messages[e].previous \in Sent
         /\ messages[e].attempt = messages[messages[e].previous].attempt + 1

\* Two messages of one attempt say the same.
AttemptsOK ==
  \A e, x \in Sent :
    messages[e].attempt = messages[x].attempt =>
      messages[e].form = messages[x].form /\ messages[e].previous = messages[x].previous

\* The step holds what its attempt sends, and, when it is not calling, the answer to its last attempt.
StepOK ==
  /\ Calling =>
       /\ \A e \in Sent : messages[e].attempt = attempts =>
            messages[e].form = declaring.form /\ messages[e].previous = declaring.previous
       /\ declaring.previous # NoEdgeId =>
            declaring.previous \in Sent /\ attempts = messages[declaring.previous].attempt + 1
  /\ ~Calling /\ declaring.edgeId # NoEdgeId =>
       declaring.edgeId \in Sent /\ messages[declaring.edgeId].attempt = attempts

\* An answer is a refusal, none, or names a message of the attempt.
AnswerOK ==
  declaring.pc \in {"record", "save"} =>
    \/ declaring.answer \in {Lost} \cup EdgeRefusals
    \/ \E e \in Sent : declaring.answer = Received(e) /\ messages[e].attempt = attempts

\* No two messages that Customs acted on share an identifier.
RegisteredOK == \A r, s \in registered : messages[r].id = messages[s].id => r = s

\* A step that waits has the edgeId of what its form says.
WaitingOK ==
  /\ declaring.pc = "waiting" =>
       declaring.edgeId \in Sent /\ messages[declaring.edgeId].attempt = attempts
         /\ messages[declaring.edgeId].form = declaring.form
  /\ declaring.verified # NoForm => declaring.verified \in Valid

CallsInv == CallsTyped /\ MessagesOK /\ AttemptsOK /\ StepOK /\ AnswerOK /\ RegisteredOK /\ WaitingOK
----------------------------------------------------------------------------
LEMMA SentTyped ==
  ASSUME CallsTyped
  PROVE  /\ Len(messages) \in Nat /\ \A e \in Sent : messages[e] \in Messages /\ messages[e].attempt \in Nat
         /\ attempts \in Nat /\ edgeLosses \in Nat
<1>1. Len(messages) \in Nat /\ \A e \in Sent : messages[e] \in Messages
  BY DEF CallsTyped, Sent
<1>2. \A m \in Messages : m.attempt \in Nat
  BY EdgeBoundsAssumption DEF Messages
<1> QED BY <1>1, <1>2, EdgeBoundsAssumption DEF CallsTyped

LEMMA InitCalls == EdgeCallsInit => CallsInv
<1> SUFFICES ASSUME EdgeCallsInit PROVE CallsInv
  OBVIOUS
<1>1. Len(messages) = 0 /\ Sent = {} /\ registered = {} /\ declaring.pc = "form" /\ declaring.edgeId = NoEdgeId
  BY DEF EdgeCallsInit, Sent
<1>2. CallsTyped
  <2>1. /\ Lost \in EdgeAnswers /\ NoEdgeId \in EdgeIdOrNone
        /\ declaring \in [kind : {"cusdec", "note"}, pc : {"form"}, form : Declarations, previous : {NoEdgeId},
                          answer : {Lost}, accepted : {FALSE}, edgeId : {NoEdgeId}, verified : {NoForm}]
    BY DEF EdgeCallsInit, EdgeAnswers, EdgeIdOrNone, Lost
  <2>2. declaring \in [kind : {"cusdec", "note"}, pc : {"form", "call", "record", "save", "waiting", "done"},
                      form : Declarations, previous : EdgeIdOrNone, answer : EdgeAnswers,
                      accepted : BOOLEAN, edgeId : EdgeIdOrNone, verified : Declarations \cup {NoForm}]
    BY <2>1
  <2>3. messages \in Seq(Messages)
    BY DEF EdgeCallsInit
  <2> QED BY <1>1, <2>2, <2>3, EdgeBoundsAssumption DEF EdgeCallsInit, CallsTyped
<1>3. MessagesOK /\ AttemptsOK /\ RegisteredOK
  BY <1>1 DEF MessagesOK, AttemptsOK, RegisteredOK
<1>4. StepOK /\ AnswerOK /\ WaitingOK
  BY <1>1 DEF EdgeCallsInit, StepOK, AnswerOK, WaitingOK, Calling
<1> QED BY <1>2, <1>3, <1>4 DEF CallsInv

\* What a step of the trader or of the plugin leaves alone, unless it sends.
LEMMA Quiet ==
  ASSUME CallsInv, UNCHANGED <<messages, registered>>, attempts' = attempts
  PROVE  MessagesOK' /\ AttemptsOK' /\ RegisteredOK'
  BY DEF CallsInv, MessagesOK, AttemptsOK, RegisteredOK, Sent

LEMMA EditStep ==
  ASSUME CallsInv, NEW f \in Declarations, EditForm(f)
  PROVE  CallsInv'
<1> USE DEF CallsInv, EditForm, OthersStay
<1>1. CallsTyped'
  BY DEF CallsTyped, Sent
<1>2. MessagesOK' /\ AttemptsOK' /\ RegisteredOK'
  BY Quiet
<1>3. StepOK' /\ AnswerOK' /\ WaitingOK'
  BY DEF CallsTyped, StepOK, AnswerOK, WaitingOK, Calling, Sent
<1> QED BY <1>1, <1>2, <1>3

LEMMA VerifyStep ==
  ASSUME CallsInv, Verify
  PROVE  CallsInv'
<1>1. PICK v \in {declaring.form, NoForm} :
        declaring' = [declaring EXCEPT !.verified = v] /\ (v # NoForm => v \in Valid)
  BY DEF Verify
<1>2. UNCHANGED <<messages, handled, registered, dispatched, attempts, edgeLosses>> /\ declaring.pc = "form"
  BY DEF Verify, OthersStay
<1>3. CallsTyped'
  BY <1>1, <1>2 DEF CallsInv, CallsTyped, Sent
<1>4. MessagesOK' /\ AttemptsOK' /\ RegisteredOK'
  BY <1>2, Quiet
<1>5. /\ declaring'.pc = "form" /\ declaring'.edgeId = declaring.edgeId
      /\ declaring'.verified = v
  BY <1>1, <1>2 DEF CallsInv, CallsTyped
<1>6. StepOK' /\ AnswerOK' /\ WaitingOK'
  BY <1>1, <1>2, <1>5 DEF CallsInv, StepOK, AnswerOK, WaitingOK, Calling, Sent
<1> QED BY <1>3, <1>4, <1>6 DEF CallsInv

LEMMA SubmitStep ==
  ASSUME CallsInv, Submit
  PROVE  CallsInv'
<1>1. /\ messages' = messages /\ registered' = registered /\ Sent' = Sent /\ attempts' = attempts + 1
      /\ declaring.pc = "form" /\ declaring'.pc = "call"
      /\ declaring'.previous = declaring.edgeId /\ declaring'.verified = declaring.verified
      /\ attempts \in Nat /\ ~Calling
  BY SentTyped DEF CallsInv, CallsTyped, Submit, OthersStay, Sent, Calling
<1>2. CallsTyped'
  <2>1. attempts' \in 0 .. MaxAttempts /\ attempts' > 0
    BY <1>1, EdgeBoundsAssumption DEF Submit
  <2>2. UNCHANGED <<messages, handled, registered, dispatched, edgeLosses>>
    BY DEF Submit, OthersStay
  <2>3. declaring' \in [kind : {"cusdec", "note"}, pc : {"form", "call", "record", "save", "waiting", "done"},
                       form : Declarations, previous : EdgeIdOrNone, answer : EdgeAnswers,
                       accepted : BOOLEAN, edgeId : EdgeIdOrNone, verified : Declarations \cup {NoForm}]
    BY DEF CallsInv, CallsTyped, Submit
  <2> QED BY <1>1, <2>1, <2>2, <2>3 DEF CallsInv, CallsTyped
<1>3. \A e \in Sent : messages[e] \in Messages /\ messages[e].attempt \in Nat /\ messages[e].attempt <= attempts
  BY SentTyped DEF CallsInv, MessagesOK
<1>4. MessagesOK'
  BY <1>1, <1>3 DEF CallsInv, MessagesOK
<1>5. AttemptsOK' /\ RegisteredOK'
  BY <1>1 DEF CallsInv, AttemptsOK, RegisteredOK
<1>6. StepOK'
  <2>1. \A e \in Sent : messages[e].attempt # attempts + 1
    BY <1>1, <1>3
  <2>2. declaring.edgeId # NoEdgeId => declaring.edgeId \in Sent /\ messages[declaring.edgeId].attempt = attempts
    BY <1>1 DEF CallsInv, StepOK
  <2> QED BY <1>1, <2>1, <2>2 DEF StepOK, Calling
<1>7. AnswerOK' /\ WaitingOK'
  BY <1>1 DEF CallsInv, AnswerOK, WaitingOK
<1> QED BY <1>2, <1>4, <1>5, <1>6, <1>7 DEF CallsInv

\* A step that hears an answer, or none.
LEMMA GetsStep ==
  ASSUME CallsInv, NEW x \in EdgeAnswers, Gets(x), declaring.pc = "call",
         UNCHANGED <<messages, handled, registered, dispatched, attempts, edgeLosses>>,
         x \in {Lost} \cup EdgeRefusals
  PROVE  CallsInv'
<1>1. CallsTyped'
  BY DEF CallsInv, CallsTyped, Gets, Sent
<1>2. MessagesOK' /\ AttemptsOK' /\ RegisteredOK'
  BY Quiet
<1>3. StepOK' /\ AnswerOK' /\ WaitingOK'
  <2>1. declaring'.pc = "record" /\ declaring'.answer = x /\ declaring'.form = declaring.form
        /\ declaring'.previous = declaring.previous /\ declaring'.verified = declaring.verified
    BY DEF CallsInv, CallsTyped, Gets
  <2> QED BY <2>1 DEF CallsInv, StepOK, AnswerOK, WaitingOK, Calling, Sent, EdgeRefusals
<1> QED BY <1>1, <1>2, <1>3 DEF CallsInv

LEMMA AnswersTyped == {Lost} \cup EdgeRefusals \subseteq EdgeAnswers
  BY DEF Lost, EdgeRefusals, EdgeAnswers, EdgeIdOrNone, NoEdgeId

\* What one more message of the attempt that is calling does to the messages.
LEMMA OneMore ==
  ASSUME CallsInv, Calling, NEW n, n \notin Sent, Sent' = Sent \cup {n}, attempts' = attempts,
         \A e \in Sent : messages'[e] = messages[e],
         messages'[n].id = <<declaring.form, declaring.previous>>, messages'[n].form = declaring.form,
         messages'[n].previous = declaring.previous, messages'[n].attempt = attempts
  PROVE  /\ MessagesOK' /\ AttemptsOK'
         /\ \A e \in Sent' : messages'[e].attempt = attempts =>
              messages'[e].form = declaring.form /\ messages'[e].previous = declaring.previous
         /\ declaring.previous # NoEdgeId =>
              declaring.previous \in Sent' /\ attempts = messages'[declaring.previous].attempt + 1
<1>1. /\ \A e \in Sent : messages[e].attempt = attempts =>
           messages[e].form = declaring.form /\ messages[e].previous = declaring.previous
      /\ declaring.previous # NoEdgeId => declaring.previous \in Sent /\ attempts = messages[declaring.previous].attempt + 1
  BY DEF CallsInv, StepOK
<1>2. \A e \in Sent' : messages'[e].attempt = attempts =>
        messages'[e].form = declaring.form /\ messages'[e].previous = declaring.previous
  BY <1>1
<1>3. declaring.previous # NoEdgeId =>
        declaring.previous \in Sent' /\ attempts = messages'[declaring.previous].attempt + 1
  BY <1>1
<1>4. MessagesOK'
  <2> SUFFICES ASSUME NEW e \in Sent'
               PROVE  /\ messages'[e].id = <<messages'[e].form, messages'[e].previous>>
                      /\ messages'[e].attempt <= attempts
                      /\ messages'[e].previous # NoEdgeId =>
                           /\ messages'[e].previous \in Sent'
                           /\ messages'[e].attempt = messages'[messages'[e].previous].attempt + 1
    BY DEF MessagesOK
  <2>1. CASE e = n
    <3>1. attempts <= attempts
      BY SentTyped DEF CallsInv
    <3> QED BY <2>1, <3>1, <1>3
  <2>2. CASE e \in Sent
    BY <2>2 DEF CallsInv, MessagesOK
  <2> QED BY <2>1, <2>2
<1>5. AttemptsOK'
  <2> SUFFICES ASSUME NEW e \in Sent', NEW y \in Sent', messages'[e].attempt = messages'[y].attempt
               PROVE  messages'[e].form = messages'[y].form /\ messages'[e].previous = messages'[y].previous
    BY DEF AttemptsOK
  <2>1. CASE messages'[e].attempt = attempts
    BY <2>1, <1>2
  <2>2. CASE messages'[e].attempt # attempts
    BY <2>2 DEF CallsInv, AttemptsOK
  <2> QED BY <2>1, <2>2
<1> QED BY <1>2, <1>3, <1>4, <1>5

\* A message that SLC Edge takes, whatever is heard of it.
LEMMA TakenStep ==
  ASSUME CallsInv, NEW payload \in Payload(declaring.form, declaring.previous), NEW x \in EdgeAnswers,
         declaring.pc = "call", Len(messages) < MaxMessages, Gets(x),
         messages' = Append(messages, [form |-> payload.form, previous |-> declaring.previous,
                                       id |-> payload.id, attempt |-> attempts]),
         x \in {Received(Len(messages) + 1), Lost},
         edgeLosses' \in 0 .. MaxEdgeLosses,
         UNCHANGED <<handled, registered, dispatched, attempts>>
  PROVE  CallsInv'
<1> DEFINE n == Len(messages) + 1
           m == [form |-> declaring.form, previous |-> declaring.previous,
                 id |-> <<declaring.form, declaring.previous>>, attempt |-> attempts]
<1>1. payload.form = declaring.form /\ payload.id = <<declaring.form, declaring.previous>>
  BY DEF Payload, NswId
<1>2. messages' = Append(messages, m)
  BY <1>1
<1>3. m \in Messages
  BY EdgeBoundsAssumption DEF CallsInv, CallsTyped, Messages
<1>4. m.form = declaring.form /\ m.previous = declaring.previous /\ m.id = <<declaring.form, declaring.previous>> /\ m.attempt = attempts
  OBVIOUS
<1> HIDE DEF m
<1>5. /\ messages' \in Seq(Messages) /\ Len(messages) \in Nat /\ Len(messages') = n /\ Sent' = Sent \cup {n} /\ n \notin Sent
      /\ messages'[n] = m /\ \A e \in Sent : messages'[e] = messages[e]
      /\ n \in Nat /\ n <= MaxMessages
  BY <1>2, <1>3, EdgeBoundsAssumption DEF CallsInv, CallsTyped, Sent
<1>6. /\ declaring'.pc = "record" /\ declaring'.answer = x /\ declaring'.form = declaring.form
      /\ declaring'.previous = declaring.previous /\ declaring'.verified = declaring.verified
      /\ declaring' \in [kind : {"cusdec", "note"}, pc : {"form", "call", "record", "save", "waiting", "done"},
                         form : Declarations, previous : EdgeIdOrNone, answer : EdgeAnswers,
                         accepted : BOOLEAN, edgeId : EdgeIdOrNone, verified : Declarations \cup {NoForm}]
  BY DEF CallsInv, CallsTyped, Gets
<1>7. CallsTyped'
  BY <1>5, <1>6 DEF CallsInv, CallsTyped
<1>8. /\ MessagesOK' /\ AttemptsOK'
      /\ \A e \in Sent' : messages'[e].attempt = attempts =>
           messages'[e].form = declaring.form /\ messages'[e].previous = declaring.previous
      /\ declaring.previous # NoEdgeId =>
           declaring.previous \in Sent' /\ attempts = messages'[declaring.previous].attempt + 1
  <2>1. messages'[n].id = <<declaring.form, declaring.previous>> /\ messages'[n].form = declaring.form
        /\ messages'[n].previous = declaring.previous /\ messages'[n].attempt = attempts
    BY <1>4, <1>5
  <2>2. Calling
    BY DEF Calling
  <2> HIDE DEF n
  <2> QED BY <1>5, <2>1, <2>2, OneMore
<1>9. StepOK'
  BY <1>6, <1>8 DEF StepOK, Calling
<1>10. AnswerOK'
  <2>1. n \in Sent' /\ messages'[n].attempt = attempts'
    BY <1>4, <1>5
  <2> QED BY <1>6, <2>1 DEF AnswerOK
<1>11. RegisteredOK' /\ WaitingOK'
  <2>1. registered' = registered /\ \A r \in registered : messages'[r] = messages[r]
    BY <1>5 DEF CallsInv, CallsTyped
  <2>2. RegisteredOK'
    BY <2>1 DEF CallsInv, RegisteredOK
  <2>3. WaitingOK'
    BY <1>6 DEF CallsInv, WaitingOK
  <2> QED BY <2>2, <2>3
<1> QED BY <1>7, <1>8, <1>9, <1>10, <1>11 DEF CallsInv

LEMMA CallStep ==
  ASSUME CallsInv, Call
  PROVE  CallsInv'
<1>1. PICK payload \in Payload(declaring.form, declaring.previous) :
       \/ /\ \E x \in EdgeRefusals : Gets(x)
          /\ UNCHANGED <<messages, edgeLosses>>
       \/ /\ Len(messages) < MaxMessages
          /\ messages' = Append(messages, [form |-> payload.form, previous |-> declaring.previous,
                                           id |-> payload.id, attempt |-> attempts])
          /\ \/ Gets(Received(Len(messages) + 1)) /\ UNCHANGED edgeLosses
             \/ edgeLosses < MaxEdgeLosses /\ edgeLosses' = edgeLosses + 1 /\ Gets(Lost)
  BY DEF Call
<1>2. declaring.pc = "call" /\ UNCHANGED <<handled, registered, dispatched, attempts>>
  BY DEF Call
<1>3. ASSUME NEW x \in EdgeRefusals, Gets(x), UNCHANGED <<messages, edgeLosses>>
      PROVE  CallsInv'
  BY <1>2, <1>3, AnswersTyped, GetsStep
<1>4. ASSUME Len(messages) < MaxMessages,
             messages' = Append(messages, [form |-> payload.form, previous |-> declaring.previous,
                                           id |-> payload.id, attempt |-> attempts]),
             NEW x \in {Received(Len(messages) + 1), Lost}, Gets(x),
             edgeLosses' \in {edgeLosses, edgeLosses + 1}, edgeLosses' <= MaxEdgeLosses
      PROVE  CallsInv'
  <2>1. x \in EdgeAnswers
    <3>1. Len(messages) + 1 \in EdgeIdOrNone
      BY <1>4, SentTyped, EdgeBoundsAssumption DEF CallsInv, EdgeIdOrNone, EdgeIds
    <3>2. Received(Len(messages) + 1) \in EdgeAnswers
      BY <3>1 DEF Received, EdgeAnswers
    <3> QED BY <1>4, <3>2, AnswersTyped
  <2>2. edgeLosses' \in 0 .. MaxEdgeLosses
    BY <1>4, SentTyped, EdgeBoundsAssumption DEF CallsInv, CallsTyped
  <2> QED BY <1>2, <1>4, <2>1, <2>2, TakenStep
<1>5. edgeLosses \in Nat /\ edgeLosses <= MaxEdgeLosses
  BY EdgeBoundsAssumption DEF CallsInv, CallsTyped
<1> QED BY <1>1, <1>3, <1>4, <1>5, EdgeBoundsAssumption

\* What an answer names is a message of this attempt, and an accepted one names one.
LEMMA AnswerNames ==
  ASSUME CallsInv, declaring.pc \in {"record", "save"}
  PROVE  /\ declaring.answer.edgeId # NoEdgeId =>
              declaring.answer.edgeId \in Sent /\ messages[declaring.answer.edgeId].attempt = attempts
         /\ Accepts(declaring.answer) => declaring.answer.edgeId # NoEdgeId
<1>1. CASE declaring.answer \in {Lost} \cup EdgeRefusals
  BY <1>1 DEF Lost, EdgeRefusals, Accepts, CusdecAccepts, NoteAccepts, StatusIsAccepted
<1>2. CASE \E e \in Sent : declaring.answer = Received(e) /\ messages[e].attempt = attempts
  BY <1>2 DEF Received, Sent, NoEdgeId
<1> QED BY <1>1, <1>2 DEF CallsInv, AnswerOK

\* Steps in which only the step itself moves on, with no call made.
LEMMA RecordStep ==
  ASSUME CallsInv, RecordDispatch
  PROVE  CallsInv'
<1>1. /\ declaring.pc = "record" /\ declaring' = [declaring EXCEPT !.pc = "save"]
      /\ UNCHANGED <<messages, handled, registered, attempts, edgeLosses>>
  BY DEF RecordDispatch
<1>2. dispatched' \subseteq Sent
  <2>1. CASE Accepts(declaring.answer) /\ declaring.answer.edgeId # NoEdgeId
    <3>1. declaring.answer.edgeId \in Sent
      BY <1>1, <2>1, AnswerNames
    <3>2. dispatched' \in {dispatched, dispatched \cup {declaring.answer.edgeId}}
      BY <2>1 DEF RecordDispatch
    <3> QED BY <3>1, <3>2 DEF CallsInv, CallsTyped
  <2>2. CASE ~(Accepts(declaring.answer) /\ declaring.answer.edgeId # NoEdgeId)
    BY <2>2 DEF RecordDispatch, CallsInv, CallsTyped
  <2> QED BY <2>1, <2>2
<1>3. /\ declaring'.pc = "save" /\ declaring'.answer = declaring.answer /\ declaring'.form = declaring.form
      /\ declaring'.previous = declaring.previous /\ declaring'.verified = declaring.verified
  BY <1>1 DEF CallsInv, CallsTyped
<1>4. CallsTyped'
  <2>1. declaring' \in [kind : {"cusdec", "note"}, pc : {"form", "call", "record", "save", "waiting", "done"},
                       form : Declarations, previous : EdgeIdOrNone, answer : EdgeAnswers,
                       accepted : BOOLEAN, edgeId : EdgeIdOrNone, verified : Declarations \cup {NoForm}]
    BY <1>1 DEF CallsInv, CallsTyped
  <2>2. Sent' = Sent
    BY <1>1 DEF Sent
  <2> QED BY <1>1, <1>2, <2>1, <2>2 DEF CallsInv, CallsTyped
<1>5. MessagesOK' /\ AttemptsOK' /\ RegisteredOK'
  BY <1>1, Quiet
<1>6. StepOK' /\ AnswerOK' /\ WaitingOK'
  BY <1>1, <1>3 DEF CallsInv, StepOK, AnswerOK, WaitingOK, Calling, Sent
<1> QED BY <1>4, <1>5, <1>6 DEF CallsInv

LEMMA SaveStep ==
  ASSUME CallsInv, SaveAnswer
  PROVE  CallsInv'
<1>1. /\ declaring.pc = "save"
      /\ UNCHANGED <<messages, handled, registered, dispatched, attempts, edgeLosses>>
  BY DEF SaveAnswer, OthersStay
<1>2. PICK pc \in {"waiting", "form"}, accepted \in BOOLEAN :
        /\ declaring' = [declaring EXCEPT !.pc = pc, !.accepted = accepted, !.edgeId = declaring.answer.edgeId,
                                          !.answer = Lost]
        /\ pc = "waiting" => Accepts(declaring.answer)
  BY DEF SaveAnswer, Accepts, CusdecAccepts, NoteAccepts, StatusIsAccepted
<1>3. /\ declaring'.pc = pc /\ declaring'.edgeId = declaring.answer.edgeId
      /\ declaring'.form = declaring.form /\ declaring'.verified = declaring.verified
  BY <1>2 DEF CallsInv, CallsTyped
<1>4. CallsTyped'
  <2>1. declaring.answer.edgeId \in EdgeIdOrNone /\ Lost \in EdgeAnswers
    BY AnswersTyped DEF CallsInv, CallsTyped, EdgeAnswers
  <2>2. declaring' \in [kind : {"cusdec", "note"}, pc : {"form", "call", "record", "save", "waiting", "done"},
                       form : Declarations, previous : EdgeIdOrNone, answer : EdgeAnswers,
                       accepted : BOOLEAN, edgeId : EdgeIdOrNone, verified : Declarations \cup {NoForm}]
    BY <1>2, <2>1 DEF CallsInv, CallsTyped
  <2>3. Sent' = Sent
    BY <1>1 DEF Sent
  <2> QED BY <1>1, <2>2, <2>3 DEF CallsInv, CallsTyped
<1>5. MessagesOK' /\ AttemptsOK' /\ RegisteredOK'
  BY <1>1, Quiet
<1>6. /\ declaring.answer.edgeId # NoEdgeId =>
           declaring.answer.edgeId \in Sent /\ messages[declaring.answer.edgeId].attempt = attempts
      /\ Accepts(declaring.answer) => declaring.answer.edgeId # NoEdgeId
  BY <1>1, AnswerNames
<1>7. StepOK' /\ AnswerOK' /\ WaitingOK'
  <2>1. Sent' = Sent /\ messages' = messages /\ attempts' = attempts
    BY <1>1 DEF Sent
  <2>2. \A e \in Sent : messages[e].attempt = attempts => messages[e].form = declaring.form
    BY <1>1 DEF CallsInv, StepOK, Calling
  <2> QED BY <1>2, <1>3, <1>6, <2>1, <2>2 DEF CallsInv, StepOK, AnswerOK, WaitingOK, Calling
<1> QED BY <1>4, <1>5, <1>7 DEF CallsInv

LEMMA AgainStep ==
  ASSUME CallsInv, CallAgain
  PROVE  CallsInv'
<1>1. /\ declaring.pc \in {"record", "save"} /\ declaring' = [declaring EXCEPT !.pc = "call", !.answer = Lost]
      /\ UNCHANGED <<messages, handled, registered, dispatched, attempts>> /\ edgeLosses' \in 0 .. MaxEdgeLosses
  BY SentTyped, EdgeBoundsAssumption DEF CallAgain, OthersStay, CallsInv, CallsTyped
<1>2. /\ declaring'.pc = "call" /\ declaring'.form = declaring.form
      /\ declaring'.previous = declaring.previous /\ declaring'.verified = declaring.verified
  BY <1>1 DEF CallsInv, CallsTyped
<1>3. CallsTyped'
  <2>1. declaring' \in [kind : {"cusdec", "note"}, pc : {"form", "call", "record", "save", "waiting", "done"},
                       form : Declarations, previous : EdgeIdOrNone, answer : EdgeAnswers,
                       accepted : BOOLEAN, edgeId : EdgeIdOrNone, verified : Declarations \cup {NoForm}]
    BY <1>1, AnswersTyped DEF CallsInv, CallsTyped
  <2>2. Sent' = Sent
    BY <1>1 DEF Sent
  <2> QED BY <1>1, <2>1, <2>2 DEF CallsInv, CallsTyped
<1>4. MessagesOK' /\ AttemptsOK' /\ RegisteredOK'
  BY <1>1, Quiet
<1>5. StepOK' /\ AnswerOK' /\ WaitingOK'
  BY <1>1, <1>2 DEF CallsInv, StepOK, AnswerOK, WaitingOK, Calling, Sent
<1> QED BY <1>3, <1>4, <1>5 DEF CallsInv

LEMMA CustomsStep ==
  ASSUME CallsInv, NEW e \in Sent \ handled, Asycuda(e)
  PROVE  CallsInv'
<1>1. /\ handled' = handled \cup {e}
      /\ registered' = registered \cup {x \in {e} : \A r \in registered : messages[r].id # messages[x].id}
      /\ UNCHANGED <<declaring, messages, dispatched, attempts, edgeLosses>> /\ Sent' = Sent
  BY DEF Asycuda, Sent
<1>2. CallsTyped'
  BY <1>1 DEF CallsInv, CallsTyped
<1>3. RegisteredOK'
  BY <1>1 DEF CallsInv, RegisteredOK
<1>4. MessagesOK' /\ AttemptsOK' /\ StepOK' /\ AnswerOK' /\ WaitingOK'
  BY <1>1 DEF CallsInv, MessagesOK, AttemptsOK, StepOK, AnswerOK, WaitingOK, Calling
<1> QED BY <1>2, <1>3, <1>4 DEF CallsInv

LEMMA ResultStep ==
  ASSUME CallsInv, Result
  PROVE  CallsInv'
<1>1. PICK pc \in {"done", "form"} : declaring' = [declaring EXCEPT !.pc = pc]
  BY DEF Result
<1>2. /\ declaring.pc = "waiting"
      /\ UNCHANGED <<messages, handled, registered, dispatched, attempts, edgeLosses>>
  BY DEF Result, OthersStay
<1>3. declaring'.pc = pc /\ declaring'.edgeId = declaring.edgeId /\ declaring'.verified = declaring.verified
  BY <1>1 DEF CallsInv, CallsTyped
<1>4. CallsTyped'
  BY <1>1, <1>2 DEF CallsInv, CallsTyped, Sent
<1>5. MessagesOK' /\ AttemptsOK' /\ RegisteredOK'
  BY <1>2, Quiet
<1>6. StepOK' /\ AnswerOK' /\ WaitingOK'
  BY <1>2, <1>3 DEF CallsInv, StepOK, AnswerOK, WaitingOK, Calling, Sent
<1> QED BY <1>4, <1>5, <1>6 DEF CallsInv

\* What is not sent, and what is sent as an error, is heard and goes nowhere.
LEMMA UnsentStep ==
  ASSUME CallsInv, NotAssembled \/ SendsError
  PROVE  CallsInv'
<1>1. PICK x \in {Lost} \cup EdgeRefusals : Gets(x)
  BY DEF NotAssembled, SendsError
<1>2. declaring.pc = "call" /\ UNCHANGED <<messages, handled, registered, dispatched, attempts, edgeLosses>>
  BY DEF NotAssembled, SendsError, OthersStay
<1> QED BY <1>1, <1>2, AnswersTyped, GetsStep

LEMMA StepCalls == CallsInv /\ [EdgeCallsNext]_edgeCallVars => CallsInv'
<1> SUFFICES ASSUME CallsInv, [EdgeCallsNext]_edgeCallVars PROVE CallsInv'
  OBVIOUS
<1>1. ASSUME NEW f \in Declarations, EditForm(f) PROVE CallsInv'
  BY <1>1, EditStep
<1>2. CASE Verify
  BY <1>2, VerifyStep
<1>3. CASE Submit
  BY <1>3, SubmitStep
<1>4. CASE NotAssembled \/ SendsError
  BY <1>4, UnsentStep
<1>5. CASE Call
  BY <1>5, CallStep
<1>6. CASE RecordDispatch
  BY <1>6, RecordStep
<1>7. CASE SaveAnswer
  BY <1>7, SaveStep
<1>8. CASE CallAgain
  BY <1>8, AgainStep
<1>9. ASSUME NEW e \in (1 .. Len(messages)) \ handled, Asycuda(e) PROVE CallsInv'
  BY <1>9, CustomsStep DEF Sent
<1>10. CASE Result
  BY <1>10, ResultStep
<1>11. CASE UNCHANGED edgeCallVars
  BY <1>11 DEF edgeCallVars, CallsInv, CallsTyped, MessagesOK, AttemptsOK, StepOK, AnswerOK, RegisteredOK, WaitingOK,
               Sent, Calling
<1> QED BY <1>1, <1>2, <1>3, <1>4, <1>5, <1>6, <1>7, <1>8, <1>9, <1>10, <1>11 DEF EdgeCallsNext

\* Two messages that follow an acknowledged one under one identifier are of one attempt.
LEMMA IdentifierSettlesAttempt == CallsInv => OneRegistrationPerSubmission
<1> SUFFICES ASSUME CallsInv PROVE OneRegistrationPerSubmission
  OBVIOUS
<1>1. \A r, s \in registered : messages[r].attempt = messages[s].attempt => r = s
  <2> SUFFICES ASSUME NEW r \in registered, NEW s \in registered, messages[r].attempt = messages[s].attempt
               PROVE  r = s
    OBVIOUS
  <2>1. r \in Sent /\ s \in Sent
    BY DEF CallsInv, CallsTyped
  <2>2. messages[r].id = messages[s].id
    BY <2>1 DEF CallsInv, MessagesOK, AttemptsOK
  <2> QED BY <2>2 DEF CallsInv, RegisteredOK
<1>2. \A e, x \in Sent :
        messages[e].previous # NoEdgeId /\ messages[e].id = messages[x].id =>
          messages[e].attempt = messages[x].attempt
  <2> SUFFICES ASSUME NEW e \in Sent, NEW x \in Sent, messages[e].previous # NoEdgeId,
                      messages[e].id = messages[x].id
               PROVE  messages[e].attempt = messages[x].attempt
    OBVIOUS
  <2>1. messages[x].previous = messages[e].previous
    BY DEF CallsInv, MessagesOK
  <2> QED BY <2>1 DEF CallsInv, MessagesOK
<1> QED BY <1>1, <1>2 DEF OneRegistrationPerSubmission, Sent

LEMMA CallsInvariant == EdgeCallsSpec => []CallsInv
  BY InitCalls, StepCalls, PTL DEF EdgeCallsSpec

LEMMA CallsHaveType == CallsInv => EdgeCallsType
<1> SUFFICES ASSUME CallsInv PROVE EdgeCallsType
  OBVIOUS
<1>1. \A e \in Sent : messages[e].form \in Declarations /\ messages[e].previous \in EdgeIdOrNone
                      /\ messages[e].attempt \in 1 .. MaxAttempts
  BY SentTyped DEF CallsInv, Messages
<1> QED
  BY <1>1 DEF CallsInv, CallsTyped, EdgeCallsType, Sent

\* Every record has its type (the step's data, the messages, and what is known of them).
THEOREM CallsTypeCorrect == EdgeCallsSpec => []EdgeCallsType
  BY CallsHaveType, CallsInvariant, PTL

\* However many answers are lost and activities run again, Customs acts at most once on a submission,
\* and one that follows an acknowledged one is never taken for another (nswid.For).
THEOREM OneRegistration == EdgeCallsSpec => []OneRegistrationPerSubmission
  BY CallsInvariant, IdentifierSettlesAttempt, PTL

\* A step that waits for Customs holds the edgeId of its own last submission (Interpret), and what it
\* calls verified is valid.
THEOREM VerdictsAreTrue == EdgeCallsSpec => []EdgeVerdictsAreTrue
<1>1. CallsInv => EdgeVerdictsAreTrue
  BY DEF CallsInv, WaitingOK, EdgeVerdictsAreTrue, Sent
<1> QED BY <1>1, CallsInvariant, PTL

----------------------------------------------------------------------------
(***************************************************************************)
(* The record of a stored document is this round's, whatever earlier       *)
(* rounds and attempts have stored.                                        *)
(***************************************************************************)

DocumentSources == [form : {"inputs", "link", "inline", "none"}, holds : Contents \cup {NoContent}]
DocumentResults == [what : {"nothing", "file", "error"}, key : Nat]
PaperStates == [plugin : {"generator", "archiver"}, pc : {"idle", "store", "save", "done", "failed"},
                source : DocumentSources, expired : BOOLEAN, round : Nat, out : DocumentResults]

\* A document is stored only if there is one, what is about to be recorded is this round's, and until
\* then the record is the last round's.
PapersInv ==
  /\ paper \in PaperStates /\ filed \in DocumentResults /\ before \in DocumentResults
  /\ PapersType
  /\ paper.pc = "store" => paper.source.form # "none" /\ paper.source.holds \in Contents
  /\ paper.pc = "save" =>
       \/ /\ paper.out.what = "file" /\ paper.source.form # "none"
          /\ paper.out.key \in 1 .. Len(files) /\ files[paper.out.key] = paper.source.holds
       \/ /\ paper.out.what = "error" /\ paper.plugin = "archiver"
          /\ paper.source.holds = NoContent \/ paper.expired
  /\ paper.pc # "done" => filed = before
  /\ DocumentsAreCurrent

LEMMA SourcesAre == \A plugin : Sources(plugin) \subseteq DocumentSources
  BY DEF Sources, DocumentSources

LEMMA PaperFields ==
  ASSUME NEW x \in PaperStates
  PROVE  /\ \A pc \in {"idle", "store", "save", "done", "failed"} : [x EXCEPT !.pc = pc] \in PaperStates
         /\ \A out \in DocumentResults : [x EXCEPT !.out = out] \in PaperStates
         /\ \A n \in Nat : [x EXCEPT !.round = n] \in PaperStates
         /\ \A source \in DocumentSources : [x EXCEPT !.source = source] \in PaperStates
         /\ \A e \in BOOLEAN : [x EXCEPT !.expired = e] \in PaperStates
  BY DEF PaperStates

\* What storage keeps, when it may have stored one document more.
Keeps(kept) == kept \in Seq(Contents) /\ Len(files) <= Len(kept) /\ \A k \in 1 .. Len(files) : kept[k] = files[k]
\* What a step that goes on to pc has got.
Got(pc, out, kept) ==
  /\ out \in DocumentResults /\ out.key <= Len(kept)
  /\ pc = "store" => paper.source.form # "none" /\ paper.source.holds \in Contents
  /\ pc = "save" =>
       \/ /\ out.what = "file" /\ paper.source.form # "none"
          /\ out.key \in 1 .. Len(kept) /\ kept[out.key] = paper.source.holds
       \/ /\ out.what = "error" /\ paper.plugin = "archiver"
          /\ paper.source.holds = NoContent \/ paper.expired
GoesTo(pc, out, kept) ==
  /\ paper' = [[paper EXCEPT !.pc = pc] EXCEPT !.out = out] /\ files' = kept /\ UNCHANGED <<filed, before>>
  /\ paperFailures' \in 0 .. MaxDocumentFailures

LEMMA FilesKept == PapersInv => Keeps(files)
  BY DEF PapersInv, PapersType, Keeps

\* A step that goes on in its round, having stored what it says it has.
LEMMA PaperGoes ==
  ASSUME PapersInv, NEW kept, NEW pc \in {"idle", "store", "save", "failed"}, NEW out,
         paper.pc # "done", Keeps(kept), Got(pc, out, kept), GoesTo(pc, out, kept)
  PROVE  PapersInv'
<1> DEFINE y == [paper EXCEPT !.pc = pc]
           x == [y EXCEPT !.out = out]
<1>1. paper \in PaperStates /\ out \in DocumentResults
  BY DEF PapersInv, Got
<1>2. y \in PaperStates
  BY <1>1, PaperFields
<1>3. x \in PaperStates
  <2> HIDE DEF y
  <2> QED
    BY <1>1, <1>2, PaperFields
<1>4. /\ x.pc = pc /\ x.out = out /\ x.plugin = paper.plugin /\ x.source = paper.source
      /\ x.expired = paper.expired /\ x.round = paper.round
  BY <1>1 DEF PaperStates
<1>5. /\ paper' = x /\ files' = kept /\ UNCHANGED <<filed, before>> /\ paperFailures' \in 0 .. MaxDocumentFailures
  BY DEF GoesTo
<1> HIDE DEF x
<1>6. out \in DocumentResults /\ out.key <= Len(kept) /\ kept \in Seq(Contents) /\ Len(files) <= Len(kept)
      /\ \A k \in 1 .. Len(files) : kept[k] = files[k]
  BY DEF Got, Keeps
<1>7. PapersType'
  <2>1. \A r \in {filed, before, out} : r.what \in {"nothing", "file", "error"} /\ r.key \in 0 .. Len(kept)
    <3>1. \A r \in {filed, before} : r.what \in {"nothing", "file", "error"} /\ r.key \in 0 .. Len(files)
      BY DEF PapersInv, PapersType
    <3>2. Len(files) \in Nat /\ Len(kept) \in Nat
      BY <1>6 DEF PapersInv, PapersType
    <3>3. \A r \in {filed, before} : r.key \in 0 .. Len(kept)
      BY <1>6, <3>1, <3>2
    <3>4. out.what \in {"nothing", "file", "error"} /\ out.key \in 0 .. Len(kept)
      BY <1>6, <3>2 DEF DocumentResults
    <3> QED
      BY <3>1, <3>3, <3>4
  <2> QED
    BY <1>4, <1>5, <1>6, <2>1 DEF PapersInv, PapersType
<1>8. paper'.pc # "done" /\ paper'.pc = pc /\ paper'.out = out
  BY <1>4, <1>5
<1>9. /\ paper'.pc = "store" => paper'.source.form # "none" /\ paper'.source.holds \in Contents
      /\ paper'.pc = "save" =>
           \/ /\ paper'.out.what = "file" /\ paper'.source.form # "none"
              /\ paper'.out.key \in 1 .. Len(files') /\ files'[paper'.out.key] = paper'.source.holds
           \/ /\ paper'.out.what = "error" /\ paper'.plugin = "archiver"
              /\ paper'.source.holds = NoContent \/ paper'.expired
  BY <1>4, <1>5 DEF Got
<1>10. filed' = before' /\ paper' \in PaperStates /\ filed' \in DocumentResults /\ before' \in DocumentResults
  BY <1>3, <1>5 DEF PapersInv
<1> QED
  BY <1>7, <1>8, <1>9, <1>10 DEF PapersInv, DocumentsAreCurrent

\* The activity is run again: what it has stored stays, unknown to the record.
LEMMA PaperFailsKeeps ==
  ASSUME PapersInv, paper.pc # "done", NEW kept, Keeps(kept), PaperFails(kept)
  PROVE  PapersInv'
<1>1. /\ paper' = [paper EXCEPT !.pc = "idle"] /\ files' = kept /\ UNCHANGED <<filed, before>>
      /\ paperFailures' \in 0 .. MaxDocumentFailures
  BY PapersAssumption DEF PaperFails, PapersInv, PapersType
<1>2. /\ paper \in PaperStates /\ paper.out \in DocumentResults /\ paper.out.key \in 0 .. Len(files)
      /\ Len(files) \in Nat /\ Len(kept) \in Nat /\ Len(files) <= Len(kept)
  BY DEF PapersInv, PapersType, PaperStates, Keeps
<1>3. paper.out.key <= Len(kept)
  BY <1>2 DEF DocumentResults
<1>4. [paper EXCEPT !.pc = "idle"] = [[paper EXCEPT !.pc = "idle"] EXCEPT !.out = paper.out]
  BY <1>2 DEF PaperStates
<1>5. Got("idle", paper.out, kept)
  BY <1>2, <1>3 DEF Got
<1>6. GoesTo("idle", paper.out, kept)
  BY <1>1, <1>4 DEF GoesTo
<1> QED
  BY <1>5, <1>6, PaperGoes

\* A step that goes on and stores nothing.
LEMMA PaperMoves ==
  ASSUME PapersInv, NEW pc \in {"store", "failed"}, paper.pc # "done", paper' = [paper EXCEPT !.pc = pc],
         pc = "store" => paper.source.form # "none" /\ paper.source.holds \in Contents,
         UNCHANGED <<filed, files, before, paperFailures>>
  PROVE  PapersInv'
<1>1. /\ paper \in PaperStates /\ paper.out \in DocumentResults /\ paper.out.key \in 0 .. Len(files)
      /\ files \in Seq(Contents) /\ Len(files) \in Nat /\ paperFailures \in 0 .. MaxDocumentFailures
  BY DEF PapersInv, PapersType, PaperStates
<1>2. paper.out.key <= Len(files)
  BY <1>1 DEF DocumentResults
<1>3. [paper EXCEPT !.pc = pc] = [[paper EXCEPT !.pc = pc] EXCEPT !.out = paper.out]
  BY <1>1 DEF PaperStates
<1>4. Got(pc, paper.out, files)
  BY <1>1, <1>2 DEF Got
<1>5. GoesTo(pc, paper.out, files)
  BY <1>1, <1>3 DEF GoesTo
<1> QED
  BY <1>4, <1>5, FilesKept, PaperGoes

LEMMA RenderKeeps ==
  ASSUME PapersInv, RenderDocument
  PROVE  PapersInv'
<1>1. paper.pc = "idle" /\ files \in Seq(Contents) /\ paper.plugin = "generator" /\ paper \in PaperStates
  BY DEF RenderDocument, PapersInv, PapersType
<1>2. paper.source.holds \in Contents \cup {NoContent} /\ paper.source.form # "none"
  BY <1>1 DEF PapersInv, PapersType, Sources
<1>3. CASE PaperFails(files)
  BY <1>1, <1>3, FilesKept, PaperFailsKeeps
<1>4. CASE paper' = [paper EXCEPT !.pc = IF paper.source.holds = NoContent THEN "failed" ELSE "store"]
           /\ UNCHANGED <<filed, files, before, paperFailures>>
  <2>1. CASE paper.source.holds = NoContent
    BY <1>1, <1>4, <2>1, PaperMoves
  <2>2. CASE paper.source.holds # NoContent
    BY <1>1, <1>2, <1>4, <2>2, PaperMoves
  <2> QED
    BY <2>1, <2>2
<1> QED
  BY <1>3, <1>4 DEF RenderDocument

\* The step is over, with what it has recorded.
LEMMA PaperEnds ==
  ASSUME PapersInv, paper' = [paper EXCEPT !.pc = "done"], filed' \in {filed, paper.out}, DocumentsAreCurrent',
         UNCHANGED <<files, before, paperFailures>>
  PROVE  PapersInv'
<1>1. paper \in PaperStates /\ paper.out \in DocumentResults /\ filed' \in DocumentResults
  BY DEF PapersInv, PaperStates
<1>2. /\ paper' \in PaperStates /\ paper'.pc = "done" /\ paper'.plugin = paper.plugin /\ paper'.source = paper.source
      /\ paper'.expired = paper.expired /\ paper'.round = paper.round /\ paper'.out = paper.out
  <2>1. paper' \in PaperStates
    BY <1>1, PaperFields
  <2> QED
    BY <1>1, <2>1 DEF PaperStates
<1>3. PapersType'
  <2>1. \A r \in {filed', before, paper.out} : r.what \in {"nothing", "file", "error"} /\ r.key \in 0 .. Len(files)
    BY DEF PapersInv, PapersType
  <2> QED
    BY <1>2, <2>1 DEF PapersInv, PapersType
<1> QED
  BY <1>1, <1>2, <1>3 DEF PapersInv

LEMMA FetchDocumentKeeps ==
  ASSUME PapersInv, FetchDocument
  PROVE  PapersInv'
<1> DEFINE source == paper.source
<1>1. /\ paper.pc = "idle" /\ files \in Seq(Contents) /\ paper.plugin = "archiver" /\ paper \in PaperStates
      /\ filed = before /\ paperFailures \in 0 .. MaxDocumentFailures /\ Len(files) \in Nat
  BY DEF FetchDocument, PapersInv, PapersType
<1>2. source.holds \in Contents \cup {NoContent}
  BY <1>1 DEF PapersInv, PapersType, Sources
<1>3. CASE PaperFails(files)
  BY <1>1, <1>3, FilesKept, PaperFailsKeeps
<1>4. CASE UNCHANGED <<filed, files, before, paperFailures>> /\ ~PaperFails(files)
  <2>1. CASE source.form = "none"
    <3>1. paper' = [paper EXCEPT !.pc = "done"]
      BY <1>4, <2>1 DEF FetchDocument
    <3>2. paper'.source = source
      BY <1>1, <3>1 DEF PaperStates
    <3>3. DocumentsAreCurrent'
      BY <1>1, <1>4, <2>1, <3>2 DEF DocumentsAreCurrent
    <3> QED
      BY <1>4, <3>1, <3>3, PaperEnds
  <2>2. CASE source.form # "none" /\ Unobtainable(source, paper.expired)
    <3>1. paper' = [paper EXCEPT !.pc = "save", !.out = Refused]
      BY <1>4, <2>2 DEF FetchDocument
    <3>2. paper' = [[paper EXCEPT !.pc = "save"] EXCEPT !.out = Refused]
      BY <3>1
    <3>3. Refused \in DocumentResults /\ Refused.what = "error" /\ Refused.key = 0
      BY DEF Refused, DocumentResults
    <3>4. source.holds = NoContent \/ paper.expired
      BY <2>2 DEF Unobtainable
    <3>5. Got("save", Refused, files)
      BY <1>1, <3>3, <3>4 DEF Got
    <3>6. GoesTo("save", Refused, files)
      BY <1>1, <1>4, <3>2 DEF GoesTo
    <3> QED
      BY <1>1, <3>5, <3>6, FilesKept, PaperGoes
  <2>3. CASE source.form # "none" /\ ~Unobtainable(source, paper.expired)
    <3>1. paper' = [paper EXCEPT !.pc = "store"]
      BY <1>4, <2>3 DEF FetchDocument
    <3>2. source.holds \in Contents
      BY <1>2, <2>3 DEF Unobtainable
    <3> QED
      BY <1>1, <1>4, <2>3, <3>1, <3>2, PaperMoves
  <2> QED
    BY <2>1, <2>2, <2>3
<1> QED
  BY <1>3, <1>4 DEF FetchDocument

LEMMA StoreKeeps ==
  ASSUME PapersInv, StoreDocument
  PROVE  PapersInv'
<1> DEFINE stored == Append(files, paper.source.holds)
           out == [what |-> "file", key |-> Len(stored)]
<1>1. /\ paper.pc = "store" /\ files \in Seq(Contents) /\ paperFailures \in 0 .. MaxDocumentFailures
      /\ paper.source.form # "none" /\ paper.source.holds \in Contents
  BY DEF StoreDocument, PapersInv, PapersType
<1>2. /\ stored \in Seq(Contents) /\ Len(stored) = Len(files) + 1 /\ Len(files) \in Nat
      /\ \A k \in 1 .. Len(files) : stored[k] = files[k]
      /\ stored[Len(stored)] = paper.source.holds
  BY <1>1
<1>3. \/ paper' = [paper EXCEPT !.pc = "save", !.out = out] /\ files' = stored /\ UNCHANGED <<filed, before, paperFailures>>
      \/ PaperFails(files) \/ PaperFails(stored)
  BY DEF StoreDocument
<1> HIDE DEF stored
<1>4. out \in DocumentResults /\ out.what = "file" /\ out.key = Len(stored)
  BY <1>2 DEF DocumentResults
<1>5. Len(files) <= Len(stored) /\ Len(stored) \in 1 .. Len(stored)
  BY <1>2
<1> HIDE DEF out
<1>7. Keeps(stored)
  BY <1>2, <1>5 DEF Keeps
<1>6. CASE paper' = [paper EXCEPT !.pc = "save", !.out = out] /\ files' = stored /\ UNCHANGED <<filed, before, paperFailures>>
  <2>1. paper' = [[paper EXCEPT !.pc = "save"] EXCEPT !.out = out]
    BY <1>6
  <2>2. Got("save", out, stored)
    BY <1>1, <1>2, <1>4, <1>5 DEF Got
  <2>3. GoesTo("save", out, stored)
    BY <1>1, <1>6, <2>1 DEF GoesTo
  <2> QED
    BY <1>1, <1>7, <2>2, <2>3, PaperGoes
<1> QED
  BY <1>1, <1>3, <1>6, <1>7, FilesKept, PaperFailsKeeps

LEMMA FileKeeps ==
  ASSUME PapersInv, FileDocument
  PROVE  PapersInv'
<1>1. paper.pc = "save" /\ files \in Seq(Contents) /\ paper \in PaperStates
  BY DEF FileDocument, PapersInv, PapersType
<1>2. CASE PaperFails(files)
  BY <1>1, <1>2, FilesKept, PaperFailsKeeps
<1>3. CASE filed' = paper.out /\ paper' = [paper EXCEPT !.pc = "done"] /\ UNCHANGED <<files, before, paperFailures>>
  <2>1. paper'.source = paper.source /\ paper'.plugin = paper.plugin /\ paper'.expired = paper.expired
    BY <1>1, <1>3 DEF PaperStates
  <2>2. DocumentsAreCurrent'
    BY <1>1, <1>3, <2>1 DEF PapersInv, DocumentsAreCurrent
  <2> QED
    BY <1>3, <2>2, PaperEnds
<1> QED
  BY <1>2, <1>3 DEF FileDocument

LEMMA ExpiresKeeps ==
  ASSUME PapersInv, LinkExpires
  PROVE  PapersInv'
<1>1. paper \in PaperStates /\ paper' = [paper EXCEPT !.expired = TRUE] /\ UNCHANGED <<filed, files, before, paperFailures>>
  BY DEF LinkExpires, PapersInv
<1>2. /\ paper' \in PaperStates
      /\ paper'.expired = TRUE /\ paper'.pc = paper.pc /\ paper'.plugin = paper.plugin /\ paper'.source = paper.source
      /\ paper'.round = paper.round /\ paper'.out = paper.out
  <2>1. paper' \in PaperStates
    BY <1>1, PaperFields
  <2> QED
    BY <1>1, <2>1 DEF PaperStates
<1>3. PapersType'
  BY <1>1, <1>2 DEF PapersInv, PapersType
<1> QED
  BY <1>1, <1>2, <1>3 DEF PapersInv, DocumentsAreCurrent

LEMMA NextDocumentKeeps ==
  ASSUME PapersInv, NextDocument
  PROVE  PapersInv'
<1>1. PICK source \in Sources(paper.plugin) :
        paper' = [paper EXCEPT !.pc = "idle", !.round = paper.round + 1, !.source = source, !.expired = FALSE]
  BY DEF NextDocument
<1>2. /\ paper \in PaperStates /\ paper.round < MaxDocumentRounds /\ before' = filed /\ UNCHANGED <<filed, files, paperFailures>>
      /\ paper.round \in 1 .. MaxDocumentRounds /\ source \in DocumentSources
  BY SourcesAre DEF NextDocument, PapersInv, PapersType
<1>3. paper.round + 1 \in 1 .. MaxDocumentRounds /\ paper.round + 1 \in Nat
  BY <1>2, PapersAssumption
<1> DEFINE a == [paper EXCEPT !.pc = "idle"]
           b == [a EXCEPT !.round = paper.round + 1]
           c == [b EXCEPT !.source = source]
           d == [c EXCEPT !.expired = FALSE]
<1>4. paper' = d
  BY <1>1
<1>5. a \in PaperStates /\ a.pc = "idle" /\ a.plugin = paper.plugin /\ a.out = paper.out
  <2>1. a \in PaperStates
    BY <1>2, PaperFields
  <2> QED
    BY <1>2, <2>1 DEF PaperStates
<1> HIDE DEF a
<1>6. b \in PaperStates /\ b.pc = "idle" /\ b.plugin = paper.plugin /\ b.out = paper.out /\ b.round = paper.round + 1
  <2>1. b \in PaperStates
    BY <1>3, <1>5, PaperFields
  <2> QED
    BY <1>5, <2>1 DEF PaperStates
<1> HIDE DEF b
<1>7. /\ c \in PaperStates /\ c.pc = "idle" /\ c.plugin = paper.plugin /\ c.out = paper.out /\ c.round = paper.round + 1
      /\ c.source = source
  <2>1. c \in PaperStates
    BY <1>2, <1>6, PaperFields
  <2> QED
    BY <1>6, <2>1 DEF PaperStates
<1> HIDE DEF c
<1>8. /\ d \in PaperStates /\ d.pc = "idle" /\ d.plugin = paper.plugin /\ d.out = paper.out /\ d.round = paper.round + 1
      /\ d.source = source /\ d.expired = FALSE
  <2>1. d \in PaperStates
    BY <1>7, PaperFields
  <2> QED
    BY <1>7, <2>1 DEF PaperStates
<1> HIDE DEF d
<1>9. PapersType'
  BY <1>2, <1>3, <1>4, <1>8 DEF PapersInv, PapersType
<1> QED
  BY <1>2, <1>4, <1>8, <1>9 DEF PapersInv, DocumentsAreCurrent

LEMMA PapersStep ==
  ASSUME PapersInv, [PapersNext]_paperVars
  PROVE  PapersInv'
<1>1. CASE UNCHANGED paperVars
  BY <1>1 DEF paperVars, PapersInv, PapersType, DocumentsAreCurrent
<1> QED
  BY <1>1, RenderKeeps, FetchDocumentKeeps, StoreKeeps, FileKeeps, ExpiresKeeps, NextDocumentKeeps DEF PapersNext

LEMMA PapersInitInv ==
  ASSUME NEW plugins \in SUBSET {"generator", "archiver"}, PapersInit(plugins)
  PROVE  PapersInv
<1>1. PICK plugin \in plugins : \E source \in Sources(plugin) :
        paper = [plugin |-> plugin, pc |-> "idle", source |-> source, expired |-> FALSE, round |-> 1, out |-> NotFiled]
  BY DEF PapersInit
<1>2. PICK source \in Sources(plugin) :
        paper = [plugin |-> plugin, pc |-> "idle", source |-> source, expired |-> FALSE, round |-> 1, out |-> NotFiled]
  BY <1>1
<1>3. filed = NotFiled /\ before = NotFiled /\ files = << >> /\ paperFailures = 0
  BY DEF PapersInit
<1>4. NotFiled \in DocumentResults /\ NotFiled.what = "nothing" /\ NotFiled.key = 0
  BY DEF NotFiled, DocumentResults
<1>5. source \in DocumentSources
  BY SourcesAre
<1>6. paper \in PaperStates
  BY <1>2, <1>4, <1>5 DEF PaperStates
<1>7. paper.plugin = plugin /\ paper.pc = "idle" /\ paper.source = source /\ paper.expired = FALSE /\ paper.round = 1
      /\ paper.out = NotFiled
  BY <1>2
<1>8. files \in Seq(Contents) /\ Len(files) = 0
  BY <1>3
<1>9. 1 \in 1 .. MaxDocumentRounds /\ 0 \in 0 .. MaxDocumentFailures
  BY PapersAssumption
<1>10. PapersType
  <2>1. \A x \in {filed, before, paper.out} : x.what \in {"nothing", "file", "error"} /\ x.key \in 0 .. Len(files)
    BY <1>3, <1>4, <1>7, <1>8
  <2>2. /\ paper.plugin \in {"generator", "archiver"} /\ paper.source \in Sources(paper.plugin)
        /\ paper.round \in 1 .. MaxDocumentRounds /\ paperFailures \in 0 .. MaxDocumentFailures
    BY <1>3, <1>7, <1>9
  <2> QED
    BY <1>7, <1>8, <2>1, <2>2 DEF PapersType
<1> QED
  BY <1>3, <1>4, <1>6, <1>7, <1>10 DEF PapersInv, DocumentsAreCurrent

----------------------------------------------------------------------------
(***************************************************************************)
(* A sundry order is raised whole, and told to the trader as it was raised.*)
(***************************************************************************)

SundryStates == [pc : {"services", "form", "submit", "done"}, clientKey : {"key", "blank", "other"},
                 services : SUBSET Services, containers : SUBSET Placeholders, form : SundryForms,
                 number : 0 .. MaxSundries]
SundryBodies == [parent : Nat, lines : Seq(SundryLines)]

SundryInv ==
  /\ sundry \in SundryStates
  /\ catalogue \in Catalogues
  /\ sundries \in Seq(SundryBodies) /\ Len(sundries) <= MaxSundries
  /\ SundryIsAsOrdered

LEMMA SundryFields ==
  ASSUME NEW x \in SundryStates
  PROVE  /\ \A pc \in {"services", "form", "submit", "done"} : [x EXCEPT !.pc = pc] \in SundryStates
         /\ \A services \in SUBSET Services : [x EXCEPT !.services = services] \in SundryStates
         /\ \A form \in SundryForms : [x EXCEPT !.form = form] \in SundryStates
         /\ \A n \in 0 .. MaxSundries : [x EXCEPT !.number = n] \in SundryStates
  BY DEF SundryStates

\* A form that lacks something is sent without its lines, and a whole one as it is.
LEMMA BodyIs ==
  ASSUME NEW form \in SundryForms
  PROVE  /\ SundryBody(form) \in SundryBodies
         /\ SundryBody(form).lines # << >> =>
              SundryBody(form) = form /\ \A i \in DOMAIN form.lines : form.lines[i].quantity >= 1
<1> DEFINE whole == /\ form.parent # 0 /\ form.lines # << >>
                    /\ \A i \in DOMAIN form.lines :
                         LET line == form.lines[i]
                         IN line.container # NoContainer /\ line.service # NoService /\ line.quantity >= 1
<1>1. form \in [parent : Nat, lines : Seq(SundryLines)]
  BY SundryFormsAssumption
<1>2. CASE whole
  <2>1. SundryBody(form) = [form EXCEPT !.lines = form.lines]
    BY <1>2 DEF SundryBody
  <2>2. SundryBody(form) = form
    BY <1>1, <2>1
  <2> QED
    BY <1>1, <1>2, <2>2 DEF SundryBodies
<1>3. CASE ~whole
  <2>1. SundryBody(form) = [form EXCEPT !.lines = << >>]
    BY <1>3 DEF SundryBody
  <2>2. SundryBody(form).lines = << >>
    BY <1>1, <2>1
  <2>3. SundryBody(form) \in SundryBodies
    <3>1. << >> \in Seq(SundryLines)
      OBVIOUS
    <3>2. form \in SundryBodies
      BY <1>1 DEF SundryBodies
    <3>3. \A lines \in Seq(SundryLines) : [form EXCEPT !.lines = lines] \in SundryBodies
      BY <3>2 DEF SundryBodies
    <3> QED
      BY <2>1, <3>1, <3>3
  <2> QED
    BY <2>2, <2>3
<1> QED
  BY <1>2, <1>3

\* A step of the flow that raises no order and is not over.
LEMMA SundryGoes ==
  ASSUME SundryInv, NEW pc \in {"services", "form", "submit"}, NEW y \in SundryStates,
         sundry' = [y EXCEPT !.pc = pc], UNCHANGED <<catalogue, sundries>>
  PROVE  SundryInv'
<1>1. sundry' \in SundryStates
  BY SundryFields
<1>2. sundry'.pc = pc
  BY DEF SundryStates
<1> QED
  BY <1>1, <1>2 DEF SundryInv, SundryIsAsOrdered

LEMMA ListKeeps ==
  ASSUME SundryInv, ListServices
  PROVE  SundryInv'
<1>1. PICK services \in SUBSET Services : sundry' = [sundry EXCEPT !.pc = "form", !.services = services]
  <2>1. Usable(catalogue) \in SUBSET Services /\ {} \in SUBSET Services
    BY DEF Usable
  <2> QED
    BY <2>1 DEF ListServices
<1>2. /\ sundry \in SundryStates /\ UNCHANGED <<catalogue, sundries>>
      /\ [sundry EXCEPT !.services = services] \in SundryStates
  BY SundryFields DEF SundryInv, ListServices
<1>3. sundry' = [[sundry EXCEPT !.services = services] EXCEPT !.pc = "form"]
  BY <1>1, <1>2 DEF SundryStates
<1> QED
  BY <1>2, <1>3, SundryGoes

LEMMA FillKeeps ==
  ASSUME SundryInv, FillSundry
  PROVE  SundryInv'
<1>1. sundry \in SundryStates /\ UNCHANGED <<catalogue, sundries>>
  BY DEF SundryInv, FillSundry
<1>2. ASSUME NEW form \in SundryForms, sundry' = [sundry EXCEPT !.pc = "submit", !.form = form]
      PROVE  SundryInv'
  <2>1. [sundry EXCEPT !.form = form] \in SundryStates
    BY <1>1, SundryFields
  <2>2. sundry' = [[sundry EXCEPT !.form = form] EXCEPT !.pc = "submit"]
    BY <1>1, <1>2 DEF SundryStates
  <2> QED
    BY <1>1, <2>1, <2>2, SundryGoes
<1>3. CASE sundry' = [sundry EXCEPT !.pc = "services"]
  BY <1>1, <1>3, SundryGoes
<1> QED
  BY <1>2, <1>3 DEF FillSundry

\* The CMS has one order more, of the form as it stands.
LEMMA RaisedKeeps ==
  ASSUME SundryInv, sundry.pc = "submit", CmsTakes(SundryBody(sundry.form)),
         sundries' = Append(sundries, SundryBody(sundry.form))
  PROVE  /\ sundries' \in Seq(SundryBodies) /\ Len(sundries') = Len(sundries) + 1 /\ Len(sundries') <= MaxSundries
         /\ Len(sundries) \in Nat /\ sundries'[Len(sundries')] = sundry.form
         /\ \A n \in DOMAIN sundries' :
              /\ sundries'[n].parent = ParentInvoice
              /\ \A i \in DOMAIN sundries'[n].lines : sundries'[n].lines[i].quantity >= 1
<1> DEFINE body == SundryBody(sundry.form)
<1>1. sundry.form \in SundryForms /\ sundries \in Seq(SundryBodies)
  BY DEF SundryInv, SundryStates
<1>2. /\ Len(sundries) < MaxSundries /\ body.parent = ParentInvoice /\ body \in SundryBodies /\ body = sundry.form
      /\ \A i \in DOMAIN body.lines : body.lines[i].quantity >= 1
  BY <1>1, BodyIs DEF CmsTakes
<1> HIDE DEF body
<1>3. sundries' = Append(sundries, body)
  BY DEF body
<1>4. /\ sundries' \in Seq(SundryBodies) /\ Len(sundries') = Len(sundries) + 1 /\ Len(sundries) \in Nat
      /\ sundries'[Len(sundries')] = body /\ \A n \in 1 .. Len(sundries) : sundries'[n] = sundries[n]
  BY <1>1, <1>2, <1>3
<1>5. ASSUME NEW n \in DOMAIN sundries'
      PROVE  /\ sundries'[n].parent = ParentInvoice
             /\ \A i \in DOMAIN sundries'[n].lines : sundries'[n].lines[i].quantity >= 1
  <2>1. CASE n = Len(sundries')
    BY <1>2, <1>4, <2>1
  <2>2. CASE n # Len(sundries')
    <3>1. n \in DOMAIN sundries /\ sundries'[n] = sundries[n]
      BY <1>1, <1>4, <1>5, <2>2
    <3> QED
      BY <3>1 DEF SundryInv, SundryIsAsOrdered
  <2> QED
    BY <2>1, <2>2
<1>6. Len(sundries') <= MaxSundries
  BY <1>2, <1>4, SundryAssumption
<1> QED
  BY <1>2, <1>4, <1>5, <1>6

LEMMA RefusedSundry == \A n : \A x \in CmsRefusals(n) \cup {Unanswered} : ~OrderRaised(x)
  BY DEF CmsRefusals, Unanswered, OrderRaised, NotServed

LEMMA RaiseKeeps ==
  ASSUME SundryInv, RaiseSundry
  PROVE  SundryInv'
<1> DEFINE body == SundryBody(sundry.form)
<1>1. sundry \in SundryStates /\ sundry.pc = "submit" /\ UNCHANGED catalogue
  BY DEF SundryInv, RaiseSundry
<1>2. PICK served \in {s \in BOOLEAN : s => CmsTakes(body)} :
        /\ sundries' = IF served THEN Append(sundries, body) ELSE sundries
        /\ \/ \E x \in (IF served THEN {Answer200("new", "1", Len(sundries) + 1)} ELSE CmsRefusals(Len(sundries)))
                       \cup {Unanswered} :
                sundry' = IF OrderRaised(x) THEN [sundry EXCEPT !.pc = "done", !.number = x.number]
                          ELSE [sundry EXCEPT !.pc = "form"]
           \/ served /\ UNCHANGED sundry
  BY DEF RaiseSundry
<1>3. /\ sundries' \in Seq(SundryBodies) /\ Len(sundries') <= MaxSundries
      /\ \A n \in DOMAIN sundries' :
           /\ sundries'[n].parent = ParentInvoice
           /\ \A i \in DOMAIN sundries'[n].lines : sundries'[n].lines[i].quantity >= 1
  BY <1>1, <1>2, RaisedKeeps DEF SundryInv, SundryIsAsOrdered
<1>4. CASE sundry' \in {sundry, [sundry EXCEPT !.pc = "form"]}
  <2>1. sundry' \in SundryStates
    BY <1>1, <1>4, SundryFields
  <2>2. sundry'.pc \in {"submit", "form"}
    BY <1>1, <1>4 DEF SundryStates
  <2> QED
    BY <1>1, <1>3, <2>1, <2>2 DEF SundryInv, SundryIsAsOrdered
<1>5. CASE served /\ sundry' = [sundry EXCEPT !.pc = "done", !.number = Len(sundries) + 1]
  <2> DEFINE y == [sundry EXCEPT !.pc = "done"]
             z == [y EXCEPT !.number = Len(sundries) + 1]
  <2>1. /\ Len(sundries') = Len(sundries) + 1 /\ Len(sundries) \in Nat /\ sundries'[Len(sundries')] = sundry.form
    BY <1>1, <1>2, <1>5, RaisedKeeps
  <2>2. Len(sundries) + 1 \in 0 .. MaxSundries
    BY <1>3, <2>1, SundryAssumption
  <2>3. y \in SundryStates
    BY <1>1, SundryFields
  <2>4. z \in SundryStates
    <3> HIDE DEF y
    <3> QED
      BY <2>2, <2>3, SundryFields
  <2>5. z.pc = "done" /\ z.number = Len(sundries) + 1 /\ z.form = sundry.form
    BY <1>1 DEF SundryStates
  <2>6. sundry' = z
    BY <1>5
  <2> HIDE DEF z
  <2>7. sundry'.number = Len(sundries') /\ sundry'.form = sundry.form /\ sundry' \in SundryStates
    BY <2>1, <2>4, <2>5, <2>6
  <2>8. sundry'.number \in DOMAIN sundries' /\ sundries'[sundry'.number] = sundry'.form
    BY <1>3, <2>1, <2>7
  <2> QED
    BY <1>1, <1>3, <2>7, <2>8 DEF SundryInv, SundryIsAsOrdered
<1>6. \/ sundry' \in {sundry, [sundry EXCEPT !.pc = "form"]}
      \/ served /\ sundry' = [sundry EXCEPT !.pc = "done", !.number = Len(sundries) + 1]
  <2>1. ASSUME NEW x \in (IF served THEN {Answer200("new", "1", Len(sundries) + 1)} ELSE CmsRefusals(Len(sundries)))
                         \cup {Unanswered}, OrderRaised(x)
        PROVE  served /\ x.number = Len(sundries) + 1
    <3>1. x = Answer200("new", "1", Len(sundries) + 1) /\ served
      BY <2>1, RefusedSundry
    <3> QED
      BY <3>1 DEF Answer200
  <2> QED
    BY <1>2, <2>1
<1> QED
  BY <1>4, <1>5, <1>6

LEMMA SundryStep ==
  ASSUME SundryInv, [SundryNext]_sundryVars
  PROVE  SundryInv'
<1>1. CASE UNCHANGED sundryVars
  BY <1>1 DEF sundryVars, SundryInv, SundryIsAsOrdered
<1>2. CASE ServiceChanges
  <2>1. catalogue' \in Catalogues /\ UNCHANGED <<sundry, sundries>>
    BY <1>2 DEF ServiceChanges, Catalogues, SundryInv
  <2> QED
    BY <2>1 DEF SundryInv, SundryIsAsOrdered
<1> QED
  BY <1>1, <1>2, ListKeeps, FillKeeps, RaiseKeeps DEF SundryNext

LEMMA SundryInitInv ==
  ASSUME SundryInit(Catalogues, {"key", "blank", "other"})
  PROVE  SundryInv
<1>1. PICK key \in {"key", "blank", "other"}, containers \in {{}, Placeholders}, form \in SundryForms :
        sundry = [pc |-> "services", clientKey |-> key, services |-> {}, containers |-> containers, form |-> form,
                  number |-> 0]
  BY DEF SundryInit
<1>2. sundry \in SundryStates /\ sundry.pc = "services"
  <2>1. containers \in SUBSET Placeholders /\ 0 \in 0 .. MaxSundries
    BY SundryAssumption
  <2> QED
    BY <1>1, <2>1 DEF SundryStates
<1>3. catalogue \in Catalogues /\ sundries = << >>
  BY DEF SundryInit
<1>4. sundries \in Seq(SundryBodies) /\ Len(sundries) = 0 /\ DOMAIN sundries = {}
  BY <1>3
<1> QED
  BY <1>2, <1>3, <1>4, SundryAssumption DEF SundryInv, SundryIsAsOrdered

----------------------------------------------------------------------------
(***************************************************************************)
(* The ports authority's books. A container that a branch claims is paired *)
(* with the branch's placeholder, and claimed by no other, unless the      *)
(* answer to its removal was lost: the CMS pairs a container, and a        *)
(* placeholder, only once, so what is claimed is not paired again, and     *)
(* what is removed is either let go of by its branch or in doubt.          *)
(***************************************************************************)

OrderStates == [pc : {"ecdn", "order", "invoice", "payment", "split", "failed", "branches"},
                number : 0 .. MaxOrders, paid : BOOLEAN]
Pairings == [RealContainers -> Placeholders \cup {NoContainer}]
CmsStates == [declared : BOOLEAN, orders : 0 .. MaxOrders, invoiced : SUBSET (1 .. MaxOrders), paid : BOOLEAN,
              advised : SUBSET RealContainers, pairing : Pairings, passes : SUBSET Placeholders]
BranchStates == [pc : {"none", "lookup", "choose", "save", "resolve", "pass", "done"},
                 real : SUBSET RealContainers, free : SUBSET RealContainers,
                 placeholders : SUBSET Placeholders, chosen : ContainerOrNone,
                 paired : ContainerOrNone, deleted : BOOLEAN]

\* What a branch holds to be paired with its placeholder: the container it has saved, until it is resolved,
\* and then what it was resolved to.
Claims(x) ==
  {r \in RealContainers : \/ x.pc = "resolve" /\ r = x.chosen
                          \/ x.pc \in {"pass", "done"} /\ r = x.paired}

\* A branch has a choice to save or to resolve, a pairing to ask a pass for, and none before or after.
StandsWell(x) ==
  /\ x \in BranchStates
  /\ x.pc \in {"save", "resolve"} => x.chosen \in RealContainers
  /\ x.pc \in {"pass", "done"} => x.paired \in RealContainers /\ ~x.deleted
  /\ x.pc \notin {"pass", "done"} => x.deleted \/ x.paired = NoContainer

PairedOnce(pairing) ==
  \A r \in RealContainers : \A s \in RealContainers : pairing[r] = pairing[s] => pairing[r] = NoContainer \/ r = s

OrderBooks ==
  /\ order.pc # "ecdn" => cms.declared
  /\ order.pc \notin {"ecdn", "order"} => order.number \in 1 .. cms.orders
  /\ order.pc \in {"payment", "split", "branches"} => order.number \in cms.invoiced
  /\ order.pc \in {"split", "branches"} => cms.paid

BranchBooks ==
  /\ \A b \in Branches : StandsWell(branch[b])
  /\ \A b \in Branches : \A r \in Claims(branch[b]) \ unsure : cms.pairing[r] = OrderRows[b]
  /\ \A b \in Branches : \A d \in Branches \ {b} : Claims(branch[b]) \cap Claims(branch[d]) \subseteq unsure
  /\ PairedOnce(cms.pairing)
  /\ \A b \in Branches : branch[b].pc = "done" /\ branch[b].paired \notin unsure => OrderRows[b] \in cms.passes

OrdersInv ==
  /\ order \in OrderStates /\ cms \in CmsStates /\ unsure \subseteq RealContainers
  /\ branch \in [Branches -> BranchStates]
  /\ OrderBooks
  /\ BranchBooks

LEMMA OrderFields ==
  ASSUME NEW x \in OrderStates
  PROVE  /\ \A pc \in {"ecdn", "order", "invoice", "payment", "split", "failed", "branches"} :
              [x EXCEPT !.pc = pc] \in OrderStates
         /\ \A n \in 0 .. MaxOrders : [x EXCEPT !.number = n] \in OrderStates
         /\ \A paid \in BOOLEAN : [x EXCEPT !.paid = paid] \in OrderStates
  BY DEF OrderStates

LEMMA CmsFields ==
  ASSUME NEW x \in CmsStates
  PROVE  /\ \A declared \in BOOLEAN : [x EXCEPT !.declared = declared] \in CmsStates
         /\ \A n \in 0 .. MaxOrders : [x EXCEPT !.orders = n] \in CmsStates
         /\ \A invoiced \in SUBSET (1 .. MaxOrders) : [x EXCEPT !.invoiced = invoiced] \in CmsStates
         /\ \A paid \in BOOLEAN : [x EXCEPT !.paid = paid] \in CmsStates
         /\ \A advised \in SUBSET RealContainers : [x EXCEPT !.advised = advised] \in CmsStates
         /\ \A pairing \in Pairings : [x EXCEPT !.pairing = pairing] \in CmsStates
         /\ \A passes \in SUBSET Placeholders : [x EXCEPT !.passes = passes] \in CmsStates
  BY DEF CmsStates

\* The branches' part needs only the pairings, the passes and the doubts.
LEMMA BranchesStay ==
  ASSUME OrdersInv, UNCHANGED <<branch, unsure>>, cms'.pairing = cms.pairing, cms.passes \subseteq cms'.passes
  PROVE  BranchBooks'
  BY DEF OrdersInv, BranchBooks

\* Before the split: the CMS's records of the order only grow.
LEMMA OrderGoes ==
  ASSUME OrdersInv, order' \in OrderStates, cms' \in CmsStates, OrderBooks', UNCHANGED <<branch, unsure>>,
         cms'.pairing = cms.pairing, cms.passes \subseteq cms'.passes
  PROVE  OrdersInv'
<1>1. BranchBooks'
  BY BranchesStay
<1> QED
  BY <1>1 DEF OrdersInv

\* The order's part needs only what the CMS has of the order.
LEMMA OrderStays ==
  ASSUME OrdersInv, order' = order, cms'.declared = cms.declared, cms'.orders = cms.orders,
         cms'.invoiced = cms.invoiced, cms'.paid = cms.paid
  PROVE  OrderBooks'
  BY DEF OrdersInv, OrderBooks

LEMMA RefusedCms ==
  \A n : \A x \in CmsRefusals(n) \cup {Unanswered} :
    ~EcdnAccepted(x) /\ ~OrderRaised(x) /\ ~InvoiceIssued(x) /\ ~EnvelopeServed(x) /\ ~PassIssued(x)
  BY DEF CmsRefusals, Unanswered, EcdnAccepted, OrderRaised, InvoiceIssued, EnvelopeServed, PassIssued, NotServed

LEMMA DeclarationKeeps ==
  ASSUME OrdersInv, UploadDeclaration
  PROVE  OrdersInv'
<1>1. order \in OrderStates /\ cms \in CmsStates /\ order.pc = "ecdn" /\ UNCHANGED <<branch, unsure>>
  BY DEF OrdersInv, UploadDeclaration
<1>2. PICK served \in BOOLEAN, pc \in {"ecdn", "order"} :
        /\ cms' = [cms EXCEPT !.declared = cms.declared \/ served]
        /\ order' = [order EXCEPT !.pc = pc]
        /\ pc = "order" => served
  <2>1. PICK served \in BOOLEAN :
          \E x \in (IF served THEN {Answer200("ACCEPTED", "1", 0)} ELSE CmsRefusals(0)) \cup {Unanswered} :
            /\ cms' = [cms EXCEPT !.declared = cms.declared \/ served]
            /\ order' = [order EXCEPT !.pc = IF EcdnAccepted(x) THEN "order" ELSE "ecdn"]
    BY DEF UploadDeclaration
  <2> QED
    BY <2>1, RefusedCms
<1>3. /\ cms.declared \in BOOLEAN /\ (cms.declared \/ served) \in BOOLEAN
      /\ cms'.declared = (cms.declared \/ served) /\ cms'.pairing = cms.pairing /\ cms'.passes = cms.passes
  BY <1>1, <1>2 DEF CmsStates
<1>4. cms' \in CmsStates /\ order' \in OrderStates /\ order'.pc = pc
  <2>1. cms' \in CmsStates
    BY <1>1, <1>2, <1>3, CmsFields
  <2>2. order' \in OrderStates
    BY <1>1, <1>2, OrderFields
  <2> QED
    BY <1>1, <1>2, <2>1, <2>2 DEF OrderStates
<1>5. OrderBooks'
  BY <1>2, <1>3, <1>4 DEF OrderBooks
<1> QED
  BY <1>1, <1>3, <1>4, <1>5, OrderGoes

LEMMA RaiseOrderKeeps ==
  ASSUME OrdersInv, RaiseOrder
  PROVE  OrdersInv'
<1>1. order \in OrderStates /\ cms \in CmsStates /\ order.pc = "order" /\ UNCHANGED <<branch, unsure>>
  BY DEF OrdersInv, RaiseOrder
<1>2. cms.orders \in 0 .. MaxOrders /\ MaxOrders \in Nat /\ cms.orders \in Nat
  BY <1>1, OrdersAssumption DEF CmsStates
<1>3. PICK n \in 0 .. MaxOrders :
        /\ cms' = [cms EXCEPT !.orders = n] /\ cms.orders <= n
        /\ \/ order' = order
           \/ n # 0 /\ order' = [order EXCEPT !.pc = "invoice", !.number = n]
  <2>1. PICK served \in {FALSE} \cup {s \in {TRUE} : cms.orders < MaxOrders} :
          \E x \in (IF served THEN {Answer200("new", "1", cms.orders + 1)} ELSE CmsRefusals(cms.orders)) \cup {Unanswered} :
            /\ cms' = [cms EXCEPT !.orders = IF served THEN @ + 1 ELSE @]
            /\ order' = IF OrderRaised(x) THEN [order EXCEPT !.pc = "invoice", !.number = x.number] ELSE order
    BY DEF RaiseOrder
  <2>2. CASE served
    <3>1. cms.orders + 1 \in 0 .. MaxOrders /\ cms.orders + 1 # 0 /\ cms.orders <= cms.orders + 1
      BY <1>2, <2>1, <2>2
    <3>2. cms' = [cms EXCEPT !.orders = cms.orders + 1]
      BY <2>1, <2>2
    <3>3. Answer200("new", "1", cms.orders + 1).number = cms.orders + 1
      BY DEF Answer200
    <3>4. order' \in {order, [order EXCEPT !.pc = "invoice", !.number = cms.orders + 1]}
      BY <2>1, <2>2, <3>3, RefusedCms
    <3> QED
      BY <3>1, <3>2, <3>4
  <2>3. CASE ~served
    <3>1. cms' = [cms EXCEPT !.orders = cms.orders] /\ order' = order
      BY <2>1, <2>3, RefusedCms
    <3> QED
      BY <1>2, <3>1
  <2> QED
    BY <2>2, <2>3
<1>4. cms' \in CmsStates
  BY <1>1, <1>3, CmsFields
<1>5. /\ cms'.orders = n /\ cms'.declared = cms.declared /\ cms'.pairing = cms.pairing /\ cms'.passes = cms.passes
  BY <1>1, <1>3 DEF CmsStates
<1>6. cms.declared
  BY <1>1 DEF OrdersInv, OrderBooks
<1>7. CASE order' = order
  <2>1. OrderBooks'
    BY <1>1, <1>5, <1>6, <1>7 DEF OrderBooks
  <2> QED
    BY <1>1, <1>4, <1>5, <1>7, <2>1, OrderGoes
<1>8. CASE n # 0 /\ order' = [order EXCEPT !.pc = "invoice", !.number = n]
  <2> DEFINE y == [order EXCEPT !.pc = "invoice"]
  <2>1. y \in OrderStates
    BY <1>1, OrderFields
  <2>2. order' = [y EXCEPT !.number = n]
    BY <1>8
  <2>3. y.pc = "invoice"
    BY <1>1 DEF OrderStates
  <2> HIDE DEF y
  <2>4. order' \in OrderStates
    BY <2>1, <2>2, OrderFields
  <2>5. order'.pc = "invoice" /\ order'.number = n
    BY <2>1, <2>2, <2>3 DEF OrderStates
  <2>6. n \in 1 .. cms'.orders
    BY <1>2, <1>3, <1>5, <1>8
  <2>7. OrderBooks'
    BY <1>5, <1>6, <2>5, <2>6 DEF OrderBooks
  <2> QED
    BY <1>1, <1>4, <1>5, <2>4, <2>7, OrderGoes
<1> QED
  BY <1>3, <1>7, <1>8

LEMMA InvoiceKeeps ==
  ASSUME OrdersInv, GenerateInvoice
  PROVE  OrdersInv'
<1>1. order \in OrderStates /\ cms \in CmsStates /\ order.pc = "invoice" /\ UNCHANGED <<branch, unsure>>
  BY DEF OrdersInv, GenerateInvoice
<1>2. /\ order.number \in 1 .. cms.orders /\ cms.declared /\ cms.paid \in BOOLEAN
      /\ cms.orders \in 0 .. MaxOrders /\ MaxOrders \in Nat /\ cms.invoiced \subseteq 1 .. MaxOrders
  BY <1>1, OrdersAssumption DEF OrdersInv, OrderBooks, CmsStates
<1>3. PICK served \in BOOLEAN :
        /\ cms' = [cms EXCEPT !.invoiced = IF served THEN @ \cup {order.number} ELSE @]
        /\ \/ order' = order
           \/ /\ served
              /\ order' = [order EXCEPT !.pc = IF cms.paid THEN "split" ELSE "payment", !.paid = cms.paid]
  <2>1. PICK served \in BOOLEAN :
          \E x \in (IF served THEN {[Answer200("invoiced", "1", order.number) EXCEPT !.paid = cms.paid]}
                    ELSE CmsRefusals(0)) \cup {Unanswered} :
            /\ cms' = [cms EXCEPT !.invoiced = IF served THEN @ \cup {order.number} ELSE @]
            /\ order' = IF InvoiceIssued(x) THEN [order EXCEPT !.pc = IF x.paid THEN "split" ELSE "payment", !.paid = x.paid]
                        ELSE order
    BY DEF GenerateInvoice
  <2>2. [Answer200("invoiced", "1", order.number) EXCEPT !.paid = cms.paid].paid = cms.paid
    BY DEF Answer200
  <2> QED
    BY <2>1, <2>2, RefusedCms
<1>4. PICK invoiced \in SUBSET (1 .. MaxOrders) :
        /\ cms' = [cms EXCEPT !.invoiced = invoiced] /\ cms.invoiced \subseteq invoiced
        /\ served => order.number \in invoiced
  <2> DEFINE more == cms.invoiced \cup {order.number}
  <2>1. order.number \in 1 .. MaxOrders
    BY <1>2
  <2>2. more \in SUBSET (1 .. MaxOrders) /\ order.number \in more /\ cms.invoiced \subseteq more
    BY <1>2, <2>1
  <2>3. CASE served
    <3>1. cms' = [cms EXCEPT !.invoiced = more]
      BY <1>3, <2>3
    <3> QED
      BY <2>2, <3>1
  <2>4. CASE ~served
    <3>1. cms' = [cms EXCEPT !.invoiced = cms.invoiced]
      BY <1>3, <2>4
    <3> QED
      BY <1>2, <2>4, <3>1
  <2> QED
    BY <2>3, <2>4
<1>5. cms' \in CmsStates
  BY <1>1, <1>4, CmsFields
<1>6. /\ cms'.invoiced = invoiced /\ cms'.declared = cms.declared /\ cms'.orders = cms.orders /\ cms'.paid = cms.paid
      /\ cms'.pairing = cms.pairing /\ cms'.passes = cms.passes
  BY <1>1, <1>4 DEF CmsStates
<1>7. CASE order' = order
  <2>1. OrderBooks'
    BY <1>1, <1>2, <1>6, <1>7 DEF OrderBooks
  <2> QED
    BY <1>1, <1>5, <1>6, <1>7, <2>1, OrderGoes
<1>8. CASE served /\ order' = [order EXCEPT !.pc = IF cms.paid THEN "split" ELSE "payment", !.paid = cms.paid]
  <2> DEFINE y == [order EXCEPT !.pc = IF cms.paid THEN "split" ELSE "payment"]
  <2>1. y \in OrderStates
    BY <1>1, OrderFields
  <2>2. order' = [y EXCEPT !.paid = cms.paid]
    BY <1>8
  <2>3. y.pc \in {"split", "payment"} /\ (y.pc = "split" => cms.paid) /\ y.number = order.number
    BY <1>1 DEF OrderStates
  <2> HIDE DEF y
  <2>4. order' \in OrderStates
    BY <1>2, <2>1, <2>2, OrderFields
  <2>5. order'.pc = y.pc /\ order'.number = order.number
    BY <2>1, <2>2, <2>3 DEF OrderStates
  <2>6. OrderBooks'
    BY <1>2, <1>4, <1>6, <1>8, <2>3, <2>5 DEF OrderBooks
  <2> QED
    BY <1>1, <1>5, <1>6, <2>4, <2>6, OrderGoes
<1> QED
  BY <1>3, <1>7, <1>8

LEMMA PaymentKeeps ==
  ASSUME OrdersInv, PaymentLands \/ PaymentReported
  PROVE  OrdersInv'
<1>1. order \in OrderStates /\ cms \in CmsStates /\ UNCHANGED <<branch, unsure>>
  BY DEF OrdersInv, PaymentLands, PaymentReported
<1>2. CASE PaymentLands
  <2>1. order' = order /\ cms' = [cms EXCEPT !.paid = TRUE]
    BY <1>2 DEF PaymentLands
  <2>2. cms' \in CmsStates
    BY <1>1, <2>1, CmsFields
  <2>3. /\ cms'.paid /\ cms'.invoiced = cms.invoiced /\ cms'.declared = cms.declared /\ cms'.orders = cms.orders
        /\ cms'.pairing = cms.pairing /\ cms'.passes = cms.passes
    BY <1>1, <2>1 DEF CmsStates
  <2>4. OrderBooks'
    BY <2>1, <2>3 DEF OrdersInv, OrderBooks
  <2> QED
    BY <1>1, <2>1, <2>2, <2>3, <2>4, OrderGoes
<1>3. CASE PaymentReported
  <2> DEFINE y == [order EXCEPT !.pc = "split"]
  <2>1. cms' = cms /\ order.pc = "payment" /\ cms.paid /\ order' = [y EXCEPT !.paid = TRUE]
    BY <1>3 DEF PaymentReported
  <2>2. y \in OrderStates
    BY <1>1, OrderFields
  <2>3. y.pc = "split" /\ y.number = order.number
    BY <1>1 DEF OrderStates
  <2> HIDE DEF y
  <2>4. order' \in OrderStates
    BY <2>1, <2>2, OrderFields
  <2>5. order'.pc = "split" /\ order'.number = order.number
    BY <2>1, <2>2, <2>3 DEF OrderStates
  <2>6. OrderBooks'
    BY <2>1, <2>5 DEF OrdersInv, OrderBooks
  <2> QED
    BY <1>1, <2>1, <2>4, <2>6, OrderGoes
<1> QED
  BY <1>2, <1>3

LEMMA NotSplitIs ==
  /\ [NotSplit EXCEPT !.pc = "lookup"] \in BranchStates /\ [NotSplit EXCEPT !.pc = "lookup"].pc = "lookup"
  /\ [NotSplit EXCEPT !.pc = "lookup"].paired = NoContainer
  /\ NotSplit \in BranchStates /\ NotSplit.pc = "none" /\ NotSplit.paired = NoContainer
<1>1. {} \in SUBSET RealContainers /\ {} \in SUBSET Placeholders /\ NoContainer \in ContainerOrNone
  BY DEF ContainerOrNone
<1>2. NotSplit \in BranchStates
  BY <1>1 DEF NotSplit, BranchStates
<1> QED
  BY <1>2 DEF NotSplit, BranchStates

\* Where no branch holds anything to be paired, only the CMS's own pairings matter.
LEMMA NoClaims ==
  ASSUME NEW x \in BranchStates, x.pc \in {"none", "lookup"}, x.paired = NoContainer
  PROVE  StandsWell(x) /\ Claims(x) = {}
  BY DEF StandsWell, Claims

LEMMA SplitKeeps ==
  ASSUME OrdersInv, SplitContainers
  PROVE  OrdersInv'
<1>1. order \in OrderStates /\ cms \in CmsStates /\ order.pc = "split" /\ UNCHANGED <<cms, unsure>>
  BY DEF OrdersInv, SplitContainers
<1>2. PICK pc \in {"branches", "failed"} : order' = [order EXCEPT !.pc = pc]
  BY DEF SplitContainers
<1>3. order' \in OrderStates
  BY <1>1, <1>2, OrderFields
<1>4. order'.pc = pc /\ order'.number = order.number
  BY <1>1, <1>2 DEF OrderStates
<1>5. OrderBooks'
  BY <1>1, <1>4 DEF OrdersInv, OrderBooks
<1>6. CASE UNCHANGED branch
  BY <1>1, <1>3, <1>5, <1>6, OrderGoes
<1>7. CASE branch' = [b \in Branches |-> [NotSplit EXCEPT !.pc = "lookup"]]
  <2> DEFINE y == [NotSplit EXCEPT !.pc = "lookup"]
  <2>1. y \in BranchStates /\ y.pc = "lookup" /\ y.paired = NoContainer
    BY NotSplitIs
  <2>2. branch' = [b \in Branches |-> y]
    BY <1>7
  <2> HIDE DEF y
  <2>3. StandsWell(y) /\ Claims(y) = {}
    BY <2>1, NoClaims
  <2>4. branch' \in [Branches -> BranchStates] /\ \A b \in Branches : branch'[b] = y
    BY <2>1, <2>2
  <2>5. BranchBooks'
    BY <1>1, <2>1, <2>3, <2>4 DEF OrdersInv, BranchBooks
  <2> QED
    BY <1>1, <1>3, <1>5, <2>4, <2>5 DEF OrdersInv
<1> QED
  BY <1>6, <1>7 DEF SplitContainers

LEMMA AdviseKeeps ==
  ASSUME OrdersInv, NEW r \in RealContainers, Advise(r)
  PROVE  OrdersInv'
<1>1. cms \in CmsStates /\ order \in OrderStates /\ UNCHANGED <<order, branch, unsure>>
  BY DEF OrdersInv, Advise
<1>2. PICK advised \in SUBSET RealContainers : cms' = [cms EXCEPT !.advised = advised]
  <2>1. cms.advised \cup {r} \in SUBSET RealContainers
    BY <1>1 DEF CmsStates
  <2> QED
    BY <2>1 DEF Advise
<1>3. cms' \in CmsStates
  BY <1>1, <1>2, CmsFields
<1>4. /\ cms'.declared = cms.declared /\ cms'.orders = cms.orders /\ cms'.invoiced = cms.invoiced
      /\ cms'.paid = cms.paid /\ cms'.pairing = cms.pairing /\ cms'.passes = cms.passes
  BY <1>1, <1>2 DEF CmsStates
<1>5. OrderBooks'
  BY <1>1, <1>4, OrderStays
<1> QED
  BY <1>1, <1>3, <1>4, <1>5, OrderGoes

----------------------------------------------------------------------------
\* A branch goes from one state to another: what it claims, and what the others do, stays as the CMS has it.
KeepsBooks(b, y) ==
  /\ StandsWell(y)
  /\ \A r \in Claims(y) \ unsure' : cms'.pairing[r] = OrderRows[b]
  /\ \A d \in Branches \ {b} : \A r \in Claims(branch[d]) \ unsure' :
       cms'.pairing[r] = cms.pairing[r] /\ r \notin Claims(y)
  /\ PairedOnce(cms'.pairing)
  /\ y.pc = "done" /\ y.paired \notin unsure' => OrderRows[b] \in cms'.passes
  /\ \A d \in Branches \ {b} :
       branch[d].pc = "done" /\ branch[d].paired \notin unsure' => OrderRows[d] \in cms'.passes

\* What the CMS has of the order is not a branch's business.
OrderIsKept ==
  /\ cms'.declared = cms.declared /\ cms'.orders = cms.orders /\ cms'.invoiced = cms.invoiced /\ cms'.paid = cms.paid

LEMMA BranchGoes ==
  ASSUME OrdersInv, NEW b \in Branches, NEW y \in BranchStates, branch' = [branch EXCEPT ![b] = y],
         order' = order, cms' \in CmsStates, OrderIsKept, unsure \subseteq unsure', unsure' \subseteq RealContainers,
         KeepsBooks(b, y)
  PROVE  OrdersInv'
<1>1. /\ branch \in [Branches -> BranchStates] /\ branch' \in [Branches -> BranchStates]
      /\ branch'[b] = y /\ \A d \in Branches \ {b} : branch'[d] = branch[d]
  BY DEF OrdersInv
<1>2. \A d \in Branches : StandsWell(branch'[d])
  BY <1>1 DEF OrdersInv, BranchBooks, KeepsBooks
<1>3. \A d \in Branches : \A r \in Claims(branch'[d]) \ unsure' : cms'.pairing[r] = OrderRows[d]
  BY <1>1 DEF OrdersInv, BranchBooks, KeepsBooks
<1>4. \A d \in Branches : \A e \in Branches \ {d} : Claims(branch'[d]) \cap Claims(branch'[e]) \subseteq unsure'
  <2> SUFFICES ASSUME NEW d \in Branches, NEW e \in Branches \ {d},
                      NEW r \in Claims(branch'[d]) \cap Claims(branch'[e]), r \notin unsure'
               PROVE  FALSE
    OBVIOUS
  <2>1. CASE d = b
    BY <1>1, <2>1 DEF KeepsBooks
  <2>2. CASE e = b
    BY <1>1, <2>2 DEF KeepsBooks
  <2>3. CASE d # b /\ e # b
    BY <1>1, <2>3 DEF OrdersInv, BranchBooks
  <2> QED
    BY <2>1, <2>2, <2>3
<1>5. \A d \in Branches : branch'[d].pc = "done" /\ branch'[d].paired \notin unsure' => OrderRows[d] \in cms'.passes
  BY <1>1 DEF KeepsBooks
<1>6. BranchBooks'
  BY <1>2, <1>3, <1>4, <1>5 DEF BranchBooks, KeepsBooks
<1>7. OrderBooks'
  BY OrderStays DEF OrderIsKept
<1> QED
  BY <1>1, <1>6, <1>7 DEF OrdersInv

\* A branch that claims no more than it did, while the CMS pairs and unpairs nothing.
LEMMA BranchMoves ==
  ASSUME OrdersInv, NEW b \in Branches, NEW y \in BranchStates, branch' = [branch EXCEPT ![b] = y],
         UNCHANGED <<order, unsure>>, cms' \in CmsStates, OrderIsKept, cms'.pairing = cms.pairing,
         cms.passes \subseteq cms'.passes, StandsWell(y), Claims(y) \subseteq Claims(branch[b]),
         y.pc = "done" /\ y.paired \notin unsure => OrderRows[b] \in cms'.passes
  PROVE  OrdersInv'
<1>1. KeepsBooks(b, y)
  <2>1. \A d \in Branches \ {b} : \A r \in Claims(branch[d]) \ unsure : r \notin Claims(y)
    BY DEF OrdersInv, BranchBooks
  <2>2. \A r \in Claims(y) \ unsure : cms.pairing[r] = OrderRows[b]
    BY DEF OrdersInv, BranchBooks
  <2>3. \A d \in Branches \ {b} :
          branch[d].pc = "done" /\ branch[d].paired \notin unsure => OrderRows[d] \in cms'.passes
    BY DEF OrdersInv, BranchBooks
  <2>4. PairedOnce(cms'.pairing)
    BY DEF OrdersInv, BranchBooks
  <2> QED
    BY <2>1, <2>2, <2>3, <2>4 DEF KeepsBooks
<1>2. unsure \subseteq unsure' /\ unsure' \subseteq RealContainers /\ order' = order
  BY DEF OrdersInv
<1> QED
  BY <1>1, <1>2, BranchGoes

LEMMA BranchFields ==
  ASSUME NEW x \in BranchStates
  PROVE  /\ \A pc \in {"none", "lookup", "choose", "save", "resolve", "pass", "done"} : [x EXCEPT !.pc = pc] \in BranchStates
         /\ \A real \in SUBSET RealContainers : [x EXCEPT !.real = real] \in BranchStates
         /\ \A free \in SUBSET RealContainers : [x EXCEPT !.free = free] \in BranchStates
         /\ \A placeholders \in SUBSET Placeholders : [x EXCEPT !.placeholders = placeholders] \in BranchStates
         /\ \A chosen \in ContainerOrNone : [x EXCEPT !.chosen = chosen] \in BranchStates
         /\ \A paired \in ContainerOrNone : [x EXCEPT !.paired = paired] \in BranchStates
         /\ \A deleted \in BOOLEAN : [x EXCEPT !.deleted = deleted] \in BranchStates
  BY DEF BranchStates

\* With nothing saved yet, a branch claims nothing and its old pairing is gone.
Unpaired(x) == x.pc \in {"lookup", "choose", "save"} /\ (x.deleted \/ x.paired = NoContainer)

LEMMA UnpairedIs ==
  ASSUME NEW x \in BranchStates, Unpaired(x), x.pc = "save" => x.chosen \in RealContainers
  PROVE  StandsWell(x) /\ Claims(x) = {} /\ x.pc # "done"
  BY DEF Unpaired, StandsWell, Claims

LEMMA LookKeeps ==
  ASSUME OrdersInv, NEW b \in Branches, Look(b)
  PROVE  OrdersInv'
<1>1. /\ branch[b] \in BranchStates /\ branch[b].pc = "lookup" /\ cms \in CmsStates /\ StandsWell(branch[b])
      /\ UNCHANGED <<order, cms, unsure>> /\ branch \in [Branches -> BranchStates]
  BY DEF OrdersInv, BranchBooks, Look
<1>2. PICK real \in SUBSET RealContainers, placeholders \in SUBSET Placeholders, free \in SUBSET RealContainers :
        branch' = [branch EXCEPT ![b].pc = "choose", ![b].real = real, ![b].placeholders = placeholders, ![b].free = free]
  <2>1. /\ cms.advised \in SUBSET RealContainers /\ {r \in cms.advised : cms.pairing[r] = NoContainer} \in SUBSET RealContainers
        /\ {} \in SUBSET RealContainers /\ {} \in SUBSET Placeholders /\ Placeholders \in SUBSET Placeholders
    BY <1>1 DEF CmsStates
  <2> QED
    BY <2>1 DEF Look
<1> DEFINE u == [branch[b] EXCEPT !.pc = "choose"]
           v == [u EXCEPT !.real = real]
           w == [v EXCEPT !.placeholders = placeholders]
           y == [w EXCEPT !.free = free]
<1>3. branch' = [branch EXCEPT ![b] = y]
  BY <1>1, <1>2
<1>4. u \in BranchStates /\ u.pc = "choose" /\ u.paired = branch[b].paired /\ u.deleted = branch[b].deleted
  <2>1. u \in BranchStates
    BY <1>1, BranchFields
  <2> QED
    BY <1>1, <2>1 DEF BranchStates
<1> HIDE DEF u
<1>5. v \in BranchStates /\ v.pc = "choose" /\ v.paired = branch[b].paired /\ v.deleted = branch[b].deleted
  <2>1. v \in BranchStates
    BY <1>4, BranchFields
  <2> QED
    BY <1>4, <2>1 DEF BranchStates
<1> HIDE DEF v
<1>6. w \in BranchStates /\ w.pc = "choose" /\ w.paired = branch[b].paired /\ w.deleted = branch[b].deleted
  <2>1. w \in BranchStates
    BY <1>5, BranchFields
  <2> QED
    BY <1>5, <2>1 DEF BranchStates
<1> HIDE DEF w
<1>7. y \in BranchStates /\ y.pc = "choose" /\ y.paired = branch[b].paired /\ y.deleted = branch[b].deleted
  <2>1. y \in BranchStates
    BY <1>6, BranchFields
  <2> QED
    BY <1>6, <2>1 DEF BranchStates
<1> HIDE DEF y
<1>8. StandsWell(y) /\ Claims(y) = {} /\ y.pc # "done"
  <2>1. Unpaired(y)
    BY <1>1, <1>7 DEF Unpaired, StandsWell
  <2> QED
    BY <1>7, <2>1, UnpairedIs
<1>9. OrderIsKept /\ cms' \in CmsStates
  BY <1>1 DEF OrderIsKept
<1> QED
  BY <1>1, <1>3, <1>7, <1>8, <1>9, BranchMoves

LEMMA ChooseKeeps ==
  ASSUME OrdersInv, NEW b \in Branches, Choose(b)
  PROVE  OrdersInv'
<1>1. /\ branch[b] \in BranchStates /\ branch[b].pc = "choose" /\ cms \in CmsStates /\ StandsWell(branch[b])
      /\ UNCHANGED <<order, cms, unsure>> /\ branch \in [Branches -> BranchStates]
  BY DEF OrdersInv, BranchBooks, Choose
<1>2. OrderIsKept /\ cms' \in CmsStates
  BY <1>1 DEF OrderIsKept
<1>3. ASSUME NEW r \in RealContainers, branch' = [branch EXCEPT ![b].pc = "save", ![b].chosen = r]
      PROVE  OrdersInv'
  <2> DEFINE u == [branch[b] EXCEPT !.pc = "save"]
             y == [u EXCEPT !.chosen = r]
  <2>1. branch' = [branch EXCEPT ![b] = y]
    BY <1>1, <1>3
  <2>2. u \in BranchStates /\ u.pc = "save" /\ u.paired = branch[b].paired /\ u.deleted = branch[b].deleted
    <3>1. u \in BranchStates
      BY <1>1, BranchFields
    <3> QED
      BY <1>1, <3>1 DEF BranchStates
  <2> HIDE DEF u
  <2>3. y \in BranchStates /\ y.pc = "save" /\ y.chosen = r /\ y.paired = branch[b].paired /\ y.deleted = branch[b].deleted
    <3>1. y \in BranchStates
      BY <2>2, BranchFields DEF ContainerOrNone
    <3> QED
      BY <2>2, <3>1 DEF BranchStates
  <2> HIDE DEF y
  <2>4. StandsWell(y) /\ Claims(y) = {} /\ y.pc # "done"
    <3>1. Unpaired(y)
      BY <1>1, <2>3 DEF Unpaired, StandsWell
    <3> QED
      BY <2>3, <3>1, UnpairedIs
  <2> QED
    BY <1>1, <1>2, <2>1, <2>3, <2>4, BranchMoves
<1>4. CASE branch' = [branch EXCEPT ![b].pc = "lookup"]
  <2> DEFINE y == [branch[b] EXCEPT !.pc = "lookup"]
  <2>1. branch' = [branch EXCEPT ![b] = y]
    BY <1>1, <1>4
  <2>2. y \in BranchStates
    BY <1>1, BranchFields
  <2>3. y.pc = "lookup" /\ y.paired = branch[b].paired /\ y.deleted = branch[b].deleted
    BY <1>1 DEF BranchStates
  <2> HIDE DEF y
  <2>4. StandsWell(y) /\ Claims(y) = {} /\ y.pc # "done"
    <3>1. Unpaired(y)
      BY <1>1, <2>3 DEF Unpaired, StandsWell
    <3> QED
      BY <2>2, <2>3, <3>1, UnpairedIs
  <2> QED
    BY <1>1, <1>2, <2>1, <2>2, <2>4, BranchMoves
<1>5. (IF branch[b].free # {} THEN branch[b].free ELSE RealContainers) \subseteq RealContainers
  BY <1>1 DEF BranchStates
<1> QED
  BY <1>3, <1>4, <1>5 DEF Choose

\* A placeholder's container is paired while it is paired with nothing, and so is the placeholder.
LEMMA PairingGrows ==
  ASSUME NEW pairing \in Pairings, PairedOnce(pairing), NEW r \in RealContainers, pairing[r] = NoContainer,
         NEW row \in Placeholders, row # NoContainer, \A s \in RealContainers : pairing[s] # row
  PROVE  /\ [pairing EXCEPT ![r] = row] \in Pairings /\ PairedOnce([pairing EXCEPT ![r] = row])
         /\ [pairing EXCEPT ![r] = row][r] = row
         /\ \A s \in RealContainers \ {r} : [pairing EXCEPT ![r] = row][s] = pairing[s]
  BY DEF PairedOnce, Pairings

LEMMA PairingShrinks ==
  ASSUME NEW pairing \in Pairings, PairedOnce(pairing), NEW r \in RealContainers
  PROVE  /\ [pairing EXCEPT ![r] = NoContainer] \in Pairings /\ PairedOnce([pairing EXCEPT ![r] = NoContainer])
         /\ \A s \in RealContainers \ {r} : [pairing EXCEPT ![r] = NoContainer][s] = pairing[s]
  BY DEF PairedOnce, Pairings

\* The pairing that a branch asks for is of its own placeholder, and the CMS makes it only if neither has one.
LEMMA SavedPairing ==
  ASSUME OrdersInv, NEW b \in Branches, NEW p \in {q \in PairOne(b) : CmsPairs(q)}
  PROVE  /\ branch[b].chosen \in RealContainers /\ cms.pairing[branch[b].chosen] = NoContainer
         /\ OrderRows[b] \in Placeholders /\ OrderRows[b] # NoContainer
         /\ \A r \in RealContainers : cms.pairing[r] # OrderRows[b]
<1>1. p = <<branch[b].chosen, OrderRows[b]>> /\ p \in branch[b].real \X branch[b].placeholders /\ CmsPairs(p)
  BY DEF PairOne
<1>2. p[1] = branch[b].chosen /\ p[2] = OrderRows[b] /\ branch[b].chosen \in branch[b].real
  BY <1>1
<1>3. branch[b].real \subseteq RealContainers
  BY DEF OrdersInv, BranchStates
<1>4. OrderRows[b] # NoContainer /\ OrderRows[b] \in Placeholders
  BY OrdersAssumption DEF Branches, Placeholders
<1> QED
  BY <1>1, <1>2, <1>3, <1>4 DEF CmsPairs

LEMMA SaveKeeps ==
  ASSUME OrdersInv, NEW b \in Branches, SaveConsolidation(b)
  PROVE  OrdersInv'
<1>1. /\ branch[b] \in BranchStates /\ branch[b].pc = "save" /\ cms \in CmsStates /\ StandsWell(branch[b])
      /\ UNCHANGED <<order, unsure>> /\ branch \in [Branches -> BranchStates] /\ unsure \subseteq RealContainers
      /\ PairedOnce(cms.pairing) /\ cms.pairing \in Pairings
  BY DEF OrdersInv, BranchBooks, SaveConsolidation, CmsStates
<1>2. PICK served \in BOOLEAN :
        /\ served => \E p \in {q \in PairOne(b) : CmsPairs(q)} : TRUE
        /\ cms' = IF served THEN [cms EXCEPT !.pairing[branch[b].chosen] = OrderRows[b]] ELSE cms
        /\ \/ served /\ branch' = [branch EXCEPT ![b].pc = "resolve"]
           \/ branch' = [branch EXCEPT ![b].pc = "lookup", ![b].chosen = NoContainer]
           \/ served /\ UNCHANGED branch
  <2>1. PICK served \in {FALSE} \cup {TRUE : p \in {q \in PairOne(b) : CmsPairs(q)}} :
          /\ cms' = IF served THEN [cms EXCEPT !.pairing[branch[b].chosen] = OrderRows[b]] ELSE cms
          /\ \/ \E x \in (IF served THEN {Answer200("none", "1", 0)} ELSE CmsRefusals(0)) \cup {Unanswered} :
                  branch' = IF Saved(x) THEN [branch EXCEPT ![b].pc = "resolve"]
                            ELSE [branch EXCEPT ![b].pc = "lookup", ![b].chosen = NoContainer]
             \/ served /\ UNCHANGED branch
    BY DEF SaveConsolidation
  <2>2. served \in BOOLEAN /\ (served => \E p \in {q \in PairOne(b) : CmsPairs(q)} : TRUE)
    OBVIOUS
  <2>3. \A x \in CmsRefusals(0) \cup {Unanswered} : ~Saved(x)
    BY RefusedCms DEF Saved
  <2> QED
    BY <2>1, <2>2, <2>3
<1> DEFINE r == branch[b].chosen
           pairing == IF served THEN [cms.pairing EXCEPT ![r] = OrderRows[b]] ELSE cms.pairing
<1>3. r \in RealContainers
  BY <1>1 DEF StandsWell
<1>4. served => /\ cms.pairing[r] = NoContainer /\ OrderRows[b] \in Placeholders /\ OrderRows[b] # NoContainer
                /\ \A s \in RealContainers : cms.pairing[s] # OrderRows[b]
  BY <1>2, SavedPairing
<1>5. /\ pairing \in Pairings /\ PairedOnce(pairing) /\ (served => pairing[r] = OrderRows[b])
      /\ \A s \in RealContainers : s # r \/ ~served => pairing[s] = cms.pairing[s]
  BY <1>1, <1>3, <1>4, PairingGrows
<1>6. cms' = [cms EXCEPT !.pairing = pairing]
  BY <1>1, <1>2 DEF CmsStates
<1> HIDE DEF pairing
<1>7. /\ cms' \in CmsStates /\ cms'.pairing = pairing /\ cms'.passes = cms.passes /\ OrderIsKept
  <2>1. cms' \in CmsStates
    BY <1>1, <1>5, <1>6, CmsFields
  <2> QED
    BY <1>1, <1>6, <2>1 DEF CmsStates, OrderIsKept
<1>8. \A d \in Branches : \A s \in Claims(branch[d]) \ unsure' : (cms'.pairing[s] = cms.pairing[s]) /\ (served => s # r)
  <2> SUFFICES ASSUME NEW d \in Branches, NEW s \in Claims(branch[d]) \ unsure'
               PROVE  (cms'.pairing[s] = cms.pairing[s]) /\ (served => s # r)
    OBVIOUS
  <2>1. cms.pairing[s] = OrderRows[d] /\ OrderRows[d] # NoContainer /\ s \in RealContainers
    BY <1>1, OrdersAssumption DEF OrdersInv, BranchBooks, Branches, Claims
  <2> QED
    BY <1>4, <1>5, <1>7, <2>1
<1>9. \A d \in Branches : branch[d].pc = "done" /\ branch[d].paired \notin unsure' => OrderRows[d] \in cms'.passes
  BY <1>1, <1>7 DEF OrdersInv, BranchBooks
<1>10. unsure \subseteq unsure' /\ unsure' \subseteq RealContainers /\ order' = order
  BY <1>1
<1>11. ASSUME NEW y \in BranchStates, branch' = [branch EXCEPT ![b] = y], StandsWell(y), y.pc # "done",
              \A s \in Claims(y) : served /\ s = r
       PROVE  OrdersInv'
  <2>1. KeepsBooks(b, y)
    BY <1>5, <1>7, <1>8, <1>9, <1>11 DEF KeepsBooks
  <2> QED
    BY <1>7, <1>10, <1>11, <2>1, BranchGoes
<1>12. CASE served /\ branch' = [branch EXCEPT ![b].pc = "resolve"]
  <2> DEFINE y == [branch[b] EXCEPT !.pc = "resolve"]
  <2>1. branch' = [branch EXCEPT ![b] = y]
    BY <1>1, <1>12
  <2>2. y \in BranchStates
    BY <1>1, BranchFields
  <2>3. y.pc = "resolve" /\ y.chosen = r /\ y.paired = branch[b].paired /\ y.deleted = branch[b].deleted
    BY <1>1 DEF BranchStates
  <2> HIDE DEF y
  <2>4. StandsWell(y) /\ \A s \in Claims(y) : served /\ s = r
    BY <1>1, <1>3, <1>12, <2>2, <2>3 DEF StandsWell, Claims
  <2> QED
    BY <1>11, <2>1, <2>2, <2>3, <2>4
<1>13. CASE branch' = [branch EXCEPT ![b].pc = "lookup", ![b].chosen = NoContainer]
  <2> DEFINE u == [branch[b] EXCEPT !.pc = "lookup"]
             y == [u EXCEPT !.chosen = NoContainer]
  <2>1. branch' = [branch EXCEPT ![b] = y]
    BY <1>1, <1>13
  <2>2. u \in BranchStates /\ u.pc = "lookup" /\ u.paired = branch[b].paired /\ u.deleted = branch[b].deleted
    <3>1. u \in BranchStates
      BY <1>1, BranchFields
    <3> QED
      BY <1>1, <3>1 DEF BranchStates
  <2> HIDE DEF u
  <2>3. y \in BranchStates /\ y.pc = "lookup" /\ y.paired = branch[b].paired /\ y.deleted = branch[b].deleted
    <3>1. y \in BranchStates
      BY <2>2, BranchFields DEF ContainerOrNone
    <3> QED
      BY <2>2, <3>1 DEF BranchStates
  <2> HIDE DEF y
  <2>4. StandsWell(y) /\ Claims(y) = {} /\ y.pc # "done"
    <3>1. Unpaired(y)
      BY <1>1, <2>3 DEF Unpaired, StandsWell
    <3> QED
      BY <2>3, <3>1, UnpairedIs
  <2> QED
    BY <1>11, <2>1, <2>3, <2>4
<1>14. CASE served /\ UNCHANGED branch
  <2>1. branch' = [branch EXCEPT ![b] = branch[b]]
    BY <1>1, <1>14
  <2>2. Claims(branch[b]) = {}
    BY <1>1 DEF Claims
  <2> QED
    BY <1>1, <1>11, <2>1, <2>2
<1> QED
  BY <1>2, <1>12, <1>13, <1>14

LEMMA ResolveKeeps ==
  ASSUME OrdersInv, NEW b \in Branches, ResolveContainer(b)
  PROVE  OrdersInv'
<1>1. /\ branch[b] \in BranchStates /\ branch[b].pc = "resolve" /\ cms \in CmsStates /\ StandsWell(branch[b])
      /\ UNCHANGED <<order, cms, unsure>> /\ branch \in [Branches -> BranchStates]
      /\ branch' = [branch EXCEPT ![b].pc = "pass", ![b].paired = branch[b].chosen, ![b].deleted = FALSE]
  BY DEF OrdersInv, BranchBooks, ResolveContainer
<1> DEFINE r == branch[b].chosen
           u == [branch[b] EXCEPT !.pc = "pass"]
           v == [u EXCEPT !.paired = r]
           y == [v EXCEPT !.deleted = FALSE]
<1>2. r \in RealContainers /\ r \in ContainerOrNone /\ r \in Claims(branch[b])
  <2>1. branch[b].pc = "resolve" /\ StandsWell(branch[b])
    BY <1>1
  <2>2. branch[b].chosen \in RealContainers
    BY <2>1 DEF StandsWell
  <2> QED
    BY <2>1, <2>2 DEF Claims, ContainerOrNone
<1>3. branch' = [branch EXCEPT ![b] = y]
  BY <1>1
<1> HIDE DEF r
<1>4. u \in BranchStates /\ u.pc = "pass"
  <2>1. u \in BranchStates
    BY <1>1, BranchFields
  <2> QED
    BY <1>1, <2>1 DEF BranchStates
<1> HIDE DEF u
<1>5. v \in BranchStates /\ v.pc = "pass" /\ v.paired = r
  <2>1. v \in BranchStates
    BY <1>2, <1>4, BranchFields
  <2> QED
    BY <1>4, <2>1 DEF BranchStates
<1> HIDE DEF v
<1>6. y \in BranchStates /\ y.pc = "pass" /\ y.paired = r /\ ~y.deleted
  <2>1. y \in BranchStates
    BY <1>5, BranchFields
  <2> QED
    BY <1>5, <2>1 DEF BranchStates
<1> HIDE DEF y
<1>7. StandsWell(y) /\ Claims(y) \subseteq Claims(branch[b]) /\ y.pc # "done"
  BY <1>2, <1>6 DEF StandsWell, Claims
<1>8. OrderIsKept /\ cms' \in CmsStates
  BY <1>1 DEF OrderIsKept
<1> QED
  BY <1>1, <1>3, <1>6, <1>7, <1>8, BranchMoves

LEMMA IssueKeeps ==
  ASSUME OrdersInv, NEW b \in Branches, IssuePass(b)
  PROVE  OrdersInv'
<1>1. /\ branch[b] \in BranchStates /\ branch[b].pc = "pass" /\ cms \in CmsStates /\ StandsWell(branch[b])
      /\ UNCHANGED <<order, unsure>> /\ branch \in [Branches -> BranchStates]
  BY DEF OrdersInv, BranchBooks, IssuePass
<1>2. OrderRows[b] \in Placeholders /\ cms.passes \in SUBSET Placeholders
  BY <1>1 DEF Branches, Placeholders, CmsStates
<1>3. PICK passes \in SUBSET Placeholders, pc \in {"pass", "done"} :
        /\ cms' = [cms EXCEPT !.passes = passes] /\ cms.passes \subseteq passes
        /\ branch' = [branch EXCEPT ![b].pc = pc]
        /\ pc = "done" => OrderRows[b] \in passes
  <2>1. PICK served \in BOOLEAN :
          \E x \in (IF served THEN {Answer200("none", "1", b)} ELSE CmsRefusals(0)) \cup {Unanswered} :
            /\ cms' = [cms EXCEPT !.passes = IF served THEN @ \cup {OrderRows[b]} ELSE @]
            /\ branch' = [branch EXCEPT ![b].pc = IF PassIssued(x) THEN "done" ELSE "pass"]
    BY DEF IssuePass
  <2> DEFINE more == cms.passes \cup {OrderRows[b]}
  <2>2. CASE served
    <3>1. cms' = [cms EXCEPT !.passes = more]
      BY <2>1, <2>2
    <3>2. more \in SUBSET Placeholders /\ OrderRows[b] \in more /\ cms.passes \subseteq more
      BY <1>2
    <3>3. PICK pc \in {"pass", "done"} : branch' = [branch EXCEPT ![b].pc = pc]
      BY <2>1
    <3> QED
      BY <3>1, <3>2, <3>3
  <2>3. CASE ~served
    <3>1. cms' = [cms EXCEPT !.passes = cms.passes]
      BY <2>1, <2>3
    <3>2. branch' = [branch EXCEPT ![b].pc = "pass"]
      BY <2>1, <2>3, RefusedCms
    <3> QED
      BY <1>2, <3>1, <3>2
  <2> QED
    BY <2>2, <2>3
<1> DEFINE y == [branch[b] EXCEPT !.pc = pc]
<1>4. branch' = [branch EXCEPT ![b] = y]
  BY <1>1, <1>3
<1>5. y \in BranchStates
  BY <1>1, BranchFields
<1>6. y.pc = pc /\ y.paired = branch[b].paired /\ y.deleted = branch[b].deleted
  BY <1>1 DEF BranchStates
<1> HIDE DEF y
<1>7. StandsWell(y) /\ Claims(y) \subseteq Claims(branch[b])
  BY <1>1, <1>5, <1>6 DEF StandsWell, Claims
<1>8. cms' \in CmsStates
  BY <1>1, <1>3, CmsFields
<1>9. cms'.passes = passes /\ cms'.pairing = cms.pairing /\ OrderIsKept
  BY <1>1, <1>3 DEF CmsStates, OrderIsKept
<1> QED
  BY <1>1, <1>3, <1>4, <1>5, <1>6, <1>7, <1>8, <1>9, BranchMoves

\* Nobody else, whose pairing is not in doubt, has the container that is removed or waits for its pass.
LEMMA RemoveKeeps ==
  ASSUME OrdersInv, NEW b \in Branches, RemoveConsolidation(b)
  PROVE  OrdersInv'
<1> DEFINE r == branch[b].paired
<1>1. /\ branch[b] \in BranchStates /\ branch[b].pc = "pass" /\ cms \in CmsStates /\ StandsWell(branch[b])
      /\ order' = order /\ branch \in [Branches -> BranchStates] /\ unsure \subseteq RealContainers
      /\ PairedOnce(cms.pairing) /\ cms.pairing \in Pairings /\ cms.passes \in SUBSET Placeholders
      /\ r \in RealContainers /\ Claims(branch[b]) = {r} /\ ~branch[b].deleted
  BY DEF OrdersInv, BranchBooks, RemoveConsolidation, CmsStates, StandsWell, Claims
<1>2. PICK served \in BOOLEAN :
        /\ cms' = IF served THEN [cms EXCEPT !.pairing[r] = NoContainer, !.passes = @ \ {cms.pairing[r]}] ELSE cms
        /\ \/ served /\ unsure' = unsure
              /\ branch' = [branch EXCEPT ![b].pc = "lookup", ![b].deleted = TRUE, ![b].chosen = NoContainer]
           \/ unsure' = unsure \cup {r} /\ branch' = branch
           \/ ~served /\ unsure' = unsure /\ branch' = branch
  <2>1. PICK served \in BOOLEAN :
          /\ cms' = IF served THEN [cms EXCEPT !.pairing[branch[b].paired] = NoContainer,
                                               !.passes = @ \ {cms.pairing[branch[b].paired]}]
                    ELSE cms
          /\ \E x \in (IF served THEN {Answer200("none", "1", 0)} ELSE CmsRefusals(0)) \cup {Unanswered} :
               /\ branch' = IF EnvelopeServed(x)
                            THEN [branch EXCEPT ![b].pc = "lookup", ![b].deleted = TRUE, ![b].chosen = NoContainer]
                            ELSE branch
               /\ unsure' = IF x = Unanswered THEN unsure \cup {branch[b].paired} ELSE unsure
    BY DEF RemoveConsolidation
  <2>2. EnvelopeServed(Answer200("none", "1", 0)) /\ Answer200("none", "1", 0) # Unanswered
    BY DEF EnvelopeServed, NotServed, Answer200, Unanswered
  <2> QED
    BY <2>1, <2>2, RefusedCms
<1> DEFINE pairing == IF served THEN [cms.pairing EXCEPT ![r] = NoContainer] ELSE cms.pairing
           passes == IF served THEN cms.passes \ {cms.pairing[r]} ELSE cms.passes
           z == [cms EXCEPT !.pairing = pairing]
<1>3. /\ pairing \in Pairings /\ PairedOnce(pairing) /\ passes \in SUBSET Placeholders
      /\ \A s \in RealContainers : s # r \/ ~served => pairing[s] = cms.pairing[s]
      /\ \A row \in cms.passes : row \in passes \/ (served /\ row = cms.pairing[r])
  <2>1. CASE served
    <3>1. pairing = [cms.pairing EXCEPT ![r] = NoContainer] /\ passes = cms.passes \ {cms.pairing[r]}
      BY <2>1
    <3>2. pairing \in Pairings /\ PairedOnce(pairing) /\ \A s \in RealContainers \ {r} : pairing[s] = cms.pairing[s]
      BY <1>1, <3>1, PairingShrinks
    <3> QED
      BY <1>1, <2>1, <3>1, <3>2
  <2>2. CASE ~served
    <3>1. pairing = cms.pairing /\ passes = cms.passes
      BY <2>2
    <3> QED
      BY <1>1, <2>2, <3>1
  <2> QED
    BY <2>1, <2>2
<1>4. cms' = [z EXCEPT !.passes = passes]
  BY <1>1, <1>2 DEF CmsStates
<1> HIDE DEF pairing, passes
<1>5. z \in CmsStates
  BY <1>1, <1>3, CmsFields
<1>6. z.pairing = pairing /\ z.declared = cms.declared /\ z.orders = cms.orders /\ z.invoiced = cms.invoiced /\ z.paid = cms.paid
  BY <1>1 DEF CmsStates
<1> HIDE DEF z
<1>7. /\ cms' \in CmsStates /\ cms'.pairing = pairing /\ cms'.passes = passes /\ OrderIsKept
  <2>1. cms' \in CmsStates
    BY <1>3, <1>4, <1>5, CmsFields
  <2> QED
    BY <1>4, <1>5, <1>6, <2>1 DEF CmsStates, OrderIsKept
<1>8. \A d \in Branches \ {b} : \A s \in Claims(branch[d]) \ unsure :
        /\ s # r /\ cms'.pairing[s] = cms.pairing[s]
  <2> SUFFICES ASSUME NEW d \in Branches \ {b}, NEW s \in Claims(branch[d]) \ unsure
               PROVE  s # r /\ cms'.pairing[s] = cms.pairing[s]
    OBVIOUS
  <2>1. s \in RealContainers /\ Claims(branch[d]) \cap Claims(branch[b]) \subseteq unsure
    BY DEF Claims, OrdersInv, BranchBooks
  <2> QED
    BY <1>1, <1>3, <1>7, <2>1
<1>9. \A d \in Branches \ {b} :
        branch[d].pc = "done" /\ branch[d].paired \notin unsure => OrderRows[d] \in cms'.passes
  <2> SUFFICES ASSUME NEW d \in Branches \ {b}, branch[d].pc = "done", branch[d].paired \notin unsure
               PROVE  OrderRows[d] \in passes
    BY <1>7
  <2>1. OrderRows[d] \in cms.passes /\ StandsWell(branch[d])
    BY DEF OrdersInv, BranchBooks
  <2>2. branch[d].paired \in Claims(branch[d]) \ unsure
    BY <2>1 DEF StandsWell, Claims
  <2>3. branch[d].paired # r /\ branch[d].paired \in RealContainers
    BY <1>8, <2>2 DEF Claims
  <2>4. cms.pairing[branch[d].paired] = OrderRows[d] /\ OrderRows[d] # NoContainer
    BY <2>2, OrdersAssumption DEF OrdersInv, BranchBooks, Branches
  <2>5. OrderRows[d] # cms.pairing[r]
    BY <1>1, <2>3, <2>4 DEF PairedOnce
  <2> QED
    BY <1>3, <2>1, <2>5
<1>10. unsure \subseteq unsure' /\ unsure' \subseteq RealContainers
  BY <1>1, <1>2
<1>11. ASSUME NEW y \in BranchStates, branch' = [branch EXCEPT ![b] = y], StandsWell(y), y.pc # "done",
              \A s \in Claims(y) \ unsure' : ~served /\ s = r
       PROVE  OrdersInv'
  <2>1. \A s \in Claims(y) \ unsure' : cms'.pairing[s] = OrderRows[b]
    <3>1. \A s \in Claims(branch[b]) \ unsure : cms.pairing[s] = OrderRows[b]
      BY DEF OrdersInv, BranchBooks
    <3> QED
      BY <1>1, <1>3, <1>7, <1>10, <1>11, <3>1
  <2>2. \A d \in Branches \ {b} : \A s \in Claims(branch[d]) \ unsure' : s \notin Claims(y)
    BY <1>8, <1>10, <1>11
  <2>3. KeepsBooks(b, y)
    BY <1>3, <1>7, <1>8, <1>9, <1>10, <1>11, <2>1, <2>2 DEF KeepsBooks
  <2> QED
    BY <1>1, <1>7, <1>10, <1>11, <2>3, BranchGoes
<1>12. CASE branch' = [branch EXCEPT ![b].pc = "lookup", ![b].deleted = TRUE, ![b].chosen = NoContainer]
  <2> DEFINE u == [branch[b] EXCEPT !.pc = "lookup"]
             v == [u EXCEPT !.deleted = TRUE]
             y == [v EXCEPT !.chosen = NoContainer]
  <2>1. branch' = [branch EXCEPT ![b] = y]
    BY <1>1, <1>12
  <2>2. u \in BranchStates /\ u.pc = "lookup"
    <3>1. u \in BranchStates
      BY <1>1, BranchFields
    <3> QED
      BY <1>1, <3>1 DEF BranchStates
  <2> HIDE DEF u
  <2>3. v \in BranchStates /\ v.pc = "lookup" /\ v.deleted
    <3>1. v \in BranchStates
      BY <2>2, BranchFields
    <3> QED
      BY <2>2, <3>1 DEF BranchStates
  <2> HIDE DEF v
  <2>4. y \in BranchStates /\ y.pc = "lookup" /\ y.deleted
    <3>1. y \in BranchStates
      BY <2>3, BranchFields DEF ContainerOrNone
    <3> QED
      BY <2>3, <3>1 DEF BranchStates
  <2> HIDE DEF y
  <2>5. StandsWell(y) /\ Claims(y) = {} /\ y.pc # "done"
    <3>1. Unpaired(y)
      BY <2>4 DEF Unpaired
    <3> QED
      BY <2>4, <3>1, UnpairedIs
  <2> QED
    BY <1>11, <2>1, <2>4, <2>5
<1>13. CASE branch' = branch /\ (~served \/ unsure' = unsure \cup {r})
  <2>1. branch' = [branch EXCEPT ![b] = branch[b]]
    BY <1>1, <1>13
  <2>2. \A s \in Claims(branch[b]) \ unsure' : ~served /\ s = r
    BY <1>1, <1>13
  <2> QED
    BY <1>1, <1>11, <2>1, <2>2
<1> QED
  BY <1>2, <1>12, <1>13

LEMMA OrdersStep ==
  ASSUME OrdersInv, [SlpaOrdersNext]_<<order, cms, branch, unsure>>
  PROVE  OrdersInv'
<1>1. CASE UNCHANGED <<order, cms, branch, unsure>>
  BY <1>1 DEF OrdersInv, OrderBooks, BranchBooks
<1> QED
  BY <1>1, DeclarationKeeps, RaiseOrderKeeps, InvoiceKeeps, PaymentKeeps, SplitKeeps, AdviseKeeps, LookKeeps,
     ChooseKeeps, SaveKeeps, ResolveKeeps, IssueKeeps, RemoveKeeps DEF SlpaOrdersNext

LEMMA OrdersInitInv ==
  ASSUME SlpaOrdersInit
  PROVE  OrdersInv
<1>1. 0 \in 0 .. MaxOrders
  BY OrdersAssumption
<1>2. order \in OrderStates /\ order.pc = "ecdn"
  BY <1>1 DEF SlpaOrdersInit, OrderStates
<1>3. cms \in CmsStates /\ \A r \in RealContainers : cms.pairing[r] = NoContainer
  <2>1. [r \in RealContainers |-> NoContainer] \in Pairings
    BY DEF Pairings
  <2> QED
    BY <1>1, <2>1 DEF SlpaOrdersInit, CmsStates
<1>4. branch = [b \in Branches |-> NotSplit] /\ unsure = {}
  BY DEF SlpaOrdersInit
<1>5. NotSplit \in BranchStates /\ StandsWell(NotSplit) /\ Claims(NotSplit) = {} /\ NotSplit.pc # "done"
  BY NotSplitIs, NoClaims
<1>6. branch \in [Branches -> BranchStates] /\ \A b \in Branches : branch[b] = NotSplit
  BY <1>4, <1>5
<1>7. BranchBooks
  BY <1>3, <1>5, <1>6 DEF BranchBooks, PairedOnce
<1>8. OrderBooks
  BY <1>2 DEF OrderBooks
<1> QED
  BY <1>2, <1>3, <1>4, <1>6, <1>7, <1>8 DEF OrdersInv

\* What the sundry orders read of a branch is a pairing that it has not let go of.
LEMMA BooksAgree == OrdersInv => SlpaBooksAgree
<1> SUFFICES ASSUME OrdersInv
             PROVE  SlpaBooksAgree
  OBVIOUS
<1>1. ASSUME NEW row \in CaseContainers, row.real \in RealContainers \ unsure
      PROVE  cms.pairing[row.real] = row.placeholder
  <2>1. PICK b \in Branches :
          row = [placeholder |-> OrderRows[b], real |-> IF branch[b].deleted THEN NoContainer ELSE branch[b].paired]
    BY DEF CaseContainers
  <2>2. row.placeholder = OrderRows[b] /\ row.real = branch[b].paired /\ ~branch[b].deleted
    BY <1>1, <2>1, OrdersAssumption
  <2>3. StandsWell(branch[b]) /\ \A r \in Claims(branch[b]) \ unsure : cms.pairing[r] = OrderRows[b]
    BY DEF OrdersInv, BranchBooks
  <2>4. row.real \in Claims(branch[b])
    BY <1>1, <2>2, <2>3, OrdersAssumption DEF StandsWell, Claims
  <2> QED
    BY <1>1, <2>2, <2>3, <2>4
<1> QED
  BY <1>1 DEF OrdersInv, OrderBooks, BranchBooks, SlpaBooksAgree

----------------------------------------------------------------------------
(***************************************************************************)
(* The ePhyto Hub's verdicts. What the flow says of a certificate rests on *)
(* one envelope of the Hub's: envelopes are only added, none that was      *)
(* delivered changes, and the form stays as it was sent until it is judged.*)
(***************************************************************************)

HubCertificates == [status : {"Issued", "Withdrawn"}, items : SUBSET Items, documents : SUBSET Papers,
                    declares : SUBSET Questions]
Envelopes == [of : HubCertificates, info : Infos, accepted : BOOLEAN]
FlowStates == [pc : {"form", "submit", "timer", "poll", "over", "withdraw"}, form : Certificates,
               submitted : BOOLEAN, retryable : BOOLEAN, delivered : BOOLEAN, withdrawn : BOOLEAN,
               tracking : Numbers \cup {NoNumber}, answered : BOOLEAN]

\* Until a certificate is submitted nothing is said of it, nor of its delivery or withdrawal until they are over.
HubStages ==
  /\ ephyto.pc \in {"form", "submit"} => ~ephyto.submitted
  /\ ephyto.pc \in {"timer", "poll"} => ephyto.submitted
  /\ ephyto.delivered => ephyto.pc \in {"over", "withdraw"}
  /\ ephyto.withdrawn => ephyto.pc = "over"
  /\ ephyto.tracking <= Len(envelopes)

HubInv ==
  /\ ephyto \in FlowStates
  /\ envelopes \in Seq(Envelopes) /\ Len(envelopes) <= MaxEnvelopes
  /\ HubStages
  /\ HubVerdictsAreTrue

\* The Hub has what the flow's certificate was submitted, or withdrawn, as.
IssuedIn(held, n, form) ==
  /\ held[n].accepted /\ held[n].of.status = "Issued"
  /\ held[n].of.items = IncludedItems(form) /\ held[n].of.documents = form.documents \cap form.send
WithdrawnIn(held, n, form) ==
  /\ held[n].accepted /\ held[n].of.status = "Withdrawn" /\ held[n].of.items = IncludedItems(form)

LEMMA VerdictsAre ==
  HubVerdictsAreTrue <=>
    /\ ephyto.submitted =>
         \E n \in 1 .. Len(envelopes) : /\ IssuedIn(envelopes, n, ephyto.form)
                                        /\ ephyto.pc \in {"timer", "poll"} => n = ephyto.tracking
                                        /\ ephyto.delivered => IsDelivered(envelopes[n].info)
    /\ ephyto.withdrawn => \E n \in 1 .. Len(envelopes) : WithdrawnIn(envelopes, n, ephyto.form)
    /\ ephyto.retryable => ~ephyto.answered
  BY DEF HubVerdictsAreTrue, IssuedIn, WithdrawnIn

\* The Hub's envelopes of before are there, as they were or further on their way.
HubKeeps ==
  /\ envelopes' \in Seq(Envelopes) /\ Len(envelopes') <= MaxEnvelopes /\ Len(envelopes) <= Len(envelopes')
  /\ \A n \in 1 .. Len(envelopes) :
       /\ envelopes'[n].of = envelopes[n].of /\ envelopes'[n].accepted = envelopes[n].accepted
       /\ IsDelivered(envelopes[n].info) => IsDelivered(envelopes'[n].info)

LEMMA HubStays ==
  ASSUME HubInv, UNCHANGED envelopes
  PROVE  HubKeeps
  BY DEF HubInv, HubKeeps

\* A verdict that was reached stays true, whatever the Hub takes or delivers.
LEMMA VerdictStays ==
  ASSUME HubInv, HubKeeps
  PROVE  /\ ephyto.submitted =>
              \E n \in 1 .. Len(envelopes') :
                /\ IssuedIn(envelopes', n, ephyto.form)
                /\ ephyto.pc \in {"timer", "poll"} => n = ephyto.tracking
                /\ ephyto.delivered => IsDelivered(envelopes'[n].info)
         /\ ephyto.withdrawn => \E n \in 1 .. Len(envelopes') : WithdrawnIn(envelopes', n, ephyto.form)
<1>1. \A n \in 1 .. Len(envelopes) :
        /\ n \in 1 .. Len(envelopes')
        /\ IssuedIn(envelopes, n, ephyto.form) => IssuedIn(envelopes', n, ephyto.form)
        /\ WithdrawnIn(envelopes, n, ephyto.form) => WithdrawnIn(envelopes', n, ephyto.form)
        /\ IsDelivered(envelopes[n].info) => IsDelivered(envelopes'[n].info)
  <2> Len(envelopes) \in Nat /\ Len(envelopes') \in Nat /\ Len(envelopes) <= Len(envelopes')
    BY DEF HubInv, HubKeeps
  <2> QED
    BY DEF HubKeeps, IssuedIn, WithdrawnIn
<1>2. HubVerdictsAreTrue
  BY DEF HubInv
<1> QED
  BY <1>1, <1>2, VerdictsAre

LEMMA CertificateIs ==
  ASSUME NEW c \in Certificates, NEW status \in {"Issued", "Withdrawn"}, NEW documents \in SUBSET Papers,
         NEW e \in Rendered(c, status, documents)
  PROVE  /\ e \in HubCertificates /\ e.status = status /\ e.items = IncludedItems(c) /\ e.documents = documents
<1>1. e = CertificateOf(c, status, documents)
  BY DEF Rendered
<1>2. IncludedItems(c) \in SUBSET Items /\ Declaration(c) \in SUBSET Questions
  <2>1. c.commodities \in SUBSET Items /\ c.answered \in SUBSET Questions
    BY CertificatesAssumption
  <2> QED
    BY <2>1 DEF IncludedItems, Declaration
<1> QED
  BY <1>1, <1>2 DEF CertificateOf, HubCertificates

\* One call with an envelope, and the answer that the flow gets.
IsSent(e, x) ==
  \/ x \in Refusals /\ UNCHANGED envelopes
  \/ /\ Len(envelopes) < MaxEnvelopes
     /\ \E info \in {"PendingDelivery", "FailedDelivery"} :
          /\ x \in HubAnswers /\ x \in Taken(Len(envelopes) + 1, info)
          /\ envelopes' = Append(envelopes, [of |-> e, info |-> info, accepted |-> info = "PendingDelivery"])

LEMMA SentIs ==
  ASSUME HubInv, NEW e \in HubCertificates, NEW x, IsSent(e, x)
  PROVE  /\ HubKeeps
         /\ x.resp \in BOOLEAN /\ x.err \in BOOLEAN
         /\ x.resp /\ x.number # NoNumber => x.number \in 1 .. Len(envelopes')
         /\ HubAccepts(x) => x.resp /\ x.number # NoNumber
         /\ HubAccepts(x) => envelopes'[x.number].of = e /\ envelopes'[x.number].accepted
<1>1. CASE x \in Refusals /\ UNCHANGED envelopes
  <2>1. x.resp \in BOOLEAN /\ x.err \in BOOLEAN /\ x.number = NoNumber
    <3>1. CASE x = NoAnswer
      BY <3>1 DEF NoAnswer
    <3>2. CASE x \in [resp : {TRUE}, err : BOOLEAN, number : {NoNumber}, info : {"none", "FailedDelivery"}]
      BY <3>2
    <3> QED
      BY <1>1, <3>1, <3>2 DEF Refusals
  <2> QED
    BY <1>1, <2>1, HubStays DEF HubAccepts
<1>2. ASSUME Len(envelopes) < MaxEnvelopes, NEW info \in {"PendingDelivery", "FailedDelivery"},
             x \in HubAnswers, x \in Taken(Len(envelopes) + 1, info),
             envelopes' = Append(envelopes, [of |-> e, info |-> info, accepted |-> info = "PendingDelivery"])
      PROVE  /\ HubKeeps
             /\ x.resp \in BOOLEAN /\ x.err \in BOOLEAN
             /\ x.resp /\ x.number # NoNumber => x.number \in 1 .. Len(envelopes')
             /\ HubAccepts(x) => x.resp /\ x.number # NoNumber
             /\ HubAccepts(x) => envelopes'[x.number].of = e /\ envelopes'[x.number].accepted
  <2> DEFINE new == [of |-> e, info |-> info, accepted |-> info = "PendingDelivery"]
  <2>1. new \in Envelopes /\ new.of = e /\ new.accepted = (info = "PendingDelivery")
    BY DEF Envelopes, Infos
  <2>2. envelopes' = Append(envelopes, new) /\ envelopes \in Seq(Envelopes) /\ MaxEnvelopes \in Nat
    BY <1>2, HubBoundsAssumption DEF HubInv
  <2> HIDE DEF new
  <2>3. /\ envelopes' \in Seq(Envelopes) /\ Len(envelopes') = Len(envelopes) + 1 /\ Len(envelopes) \in Nat
        /\ envelopes'[Len(envelopes) + 1] = new /\ \A n \in 1 .. Len(envelopes) : envelopes'[n] = envelopes[n]
    BY <2>1, <2>2
  <2>4. HubKeeps
    BY <1>2, <2>2, <2>3 DEF HubKeeps
  <2>5. /\ x.resp \in BOOLEAN /\ x.err \in BOOLEAN /\ x.number \in {NoNumber, Len(envelopes) + 1}
        /\ HubAccepts(x) => info = "PendingDelivery" /\ x.resp /\ x.number = Len(envelopes) + 1
    <3> DEFINE m == Len(envelopes) + 1
    <3>1. CASE x = [resp |-> TRUE, err |-> FALSE, number |-> m, info |-> info]
      BY <3>1 DEF HubAccepts
    <3>2. CASE x = [resp |-> TRUE, err |-> TRUE, number |-> m, info |-> "none"]
      BY <3>2 DEF HubAccepts
    <3>3. CASE x = [resp |-> TRUE, err |-> TRUE, number |-> NoNumber, info |-> "none"]
      BY <3>3 DEF HubAccepts
    <3>4. CASE x = NoAnswer
      <4>1. x.resp = FALSE /\ x.err = TRUE /\ x.number = NoNumber
        BY <3>4 DEF NoAnswer
      <4> QED
        BY <4>1 DEF HubAccepts
    <3> QED
      BY <1>2, <3>1, <3>2, <3>3, <3>4 DEF Taken
  <2>6. Len(envelopes) + 1 \in 1 .. Len(envelopes') /\ Len(envelopes) + 1 # NoNumber
    BY <2>3 DEF NoNumber
  <2> QED
    BY <2>1, <2>3, <2>4, <2>5, <2>6
<1> QED
  BY <1>1, <1>2 DEF IsSent

\* How an answer's number, or the one of before, is tracked.
LEMMA TrackedIs ==
  ASSUME HubInv, HubKeeps, NEW x, x.resp /\ x.number # NoNumber => x.number \in 1 .. Len(envelopes')
  PROVE  Numbered(x) \in Numbers \cup {NoNumber} /\ Numbered(x) <= Len(envelopes')
<1>1. /\ ephyto.tracking \in Numbers \cup {NoNumber} /\ ephyto.tracking <= Len(envelopes)
      /\ Len(envelopes) \in Nat /\ Len(envelopes') \in Nat /\ Len(envelopes) <= Len(envelopes')
      /\ Len(envelopes') <= MaxEnvelopes /\ MaxEnvelopes \in Nat
  BY HubBoundsAssumption DEF HubInv, FlowStates, HubStages, HubKeeps
<1> QED
  BY <1>1 DEF Numbered, Numbers, NoNumber

\* The flow goes on: its stage is kept, and what it says is so of what the Hub has now.
LEMMA FlowGoes ==
  ASSUME HubInv, HubKeeps, ephyto' \in FlowStates, HubStages', HubVerdictsAreTrue'
  PROVE  HubInv'
  BY DEF HubInv, HubKeeps

LEMMA FlowFields ==
  ASSUME NEW x \in FlowStates
  PROVE  /\ \A pc \in {"form", "submit", "timer", "poll", "over", "withdraw"} : [x EXCEPT !.pc = pc] \in FlowStates
         /\ \A c \in Certificates : [x EXCEPT !.form = c] \in FlowStates
         /\ \A submitted \in BOOLEAN : [x EXCEPT !.submitted = submitted] \in FlowStates
         /\ \A retryable \in BOOLEAN : [x EXCEPT !.retryable = retryable] \in FlowStates
         /\ \A delivered \in BOOLEAN : [x EXCEPT !.delivered = delivered] \in FlowStates
         /\ \A withdrawn \in BOOLEAN : [x EXCEPT !.withdrawn = withdrawn] \in FlowStates
         /\ \A tracking \in Numbers \cup {NoNumber} : [x EXCEPT !.tracking = tracking] \in FlowStates
         /\ \A answered \in BOOLEAN : [x EXCEPT !.answered = answered] \in FlowStates
  BY DEF FlowStates

\* A step that neither sends an envelope nor changes what is said of one.
LEMMA FlowMoves ==
  ASSUME HubInv, NEW pc \in {"form", "submit", "timer", "poll", "over", "withdraw"},
         ephyto' = [ephyto EXCEPT !.pc = pc], UNCHANGED envelopes,
         pc \in {"form", "submit"} => ~ephyto.submitted,
         pc \in {"timer", "poll"} => ephyto.pc \in {"timer", "poll"},
         ephyto.delivered => pc \in {"over", "withdraw"},
         ephyto.withdrawn => pc = "over"
  PROVE  HubInv'
<1>1. ephyto' \in FlowStates
  BY FlowFields DEF HubInv
<1>2. /\ ephyto'.pc = pc /\ ephyto'.form = ephyto.form /\ ephyto'.submitted = ephyto.submitted
      /\ ephyto'.retryable = ephyto.retryable /\ ephyto'.delivered = ephyto.delivered
      /\ ephyto'.withdrawn = ephyto.withdrawn /\ ephyto'.tracking = ephyto.tracking /\ ephyto'.answered = ephyto.answered
  BY DEF HubInv, FlowStates
<1>3. HubStages'
  BY <1>2 DEF HubInv, HubStages
<1>4. HubVerdictsAreTrue'
  BY <1>2 DEF HubInv, HubVerdictsAreTrue
<1> QED
  BY <1>1, <1>3, <1>4, HubStays, FlowGoes

LEMMA SubmitFormKeeps ==
  ASSUME HubInv, NEW c \in Certificates, SubmitCertificate(c)
  PROVE  HubInv'
<1> DEFINE y == [ephyto EXCEPT !.pc = "submit"]
<1>1. ephyto.pc = "form" /\ UNCHANGED envelopes /\ ephyto \in FlowStates
  BY DEF SubmitCertificate, HubInv
<1>2. ephyto' = [y EXCEPT !.form = c]
  BY DEF SubmitCertificate
<1>3. y \in FlowStates
  BY <1>1, FlowFields
<1>4. /\ y.pc = "submit" /\ y.submitted = ephyto.submitted
      /\ y.retryable = ephyto.retryable /\ y.delivered = ephyto.delivered
      /\ y.withdrawn = ephyto.withdrawn /\ y.tracking = ephyto.tracking /\ y.answered = ephyto.answered
  BY <1>1 DEF FlowStates
<1> HIDE DEF y
<1>5. ephyto' \in FlowStates
  BY <1>2, <1>3, FlowFields
<1>6. /\ ephyto'.pc = "submit" /\ ephyto'.submitted = ephyto.submitted
      /\ ephyto'.retryable = ephyto.retryable /\ ephyto'.delivered = ephyto.delivered
      /\ ephyto'.withdrawn = ephyto.withdrawn /\ ephyto'.tracking = ephyto.tracking /\ ephyto'.answered = ephyto.answered
  BY <1>2, <1>3, <1>4 DEF FlowStates
<1>7. ~ephyto.submitted /\ ~ephyto.delivered /\ ~ephyto.withdrawn
  BY <1>1 DEF HubInv, HubStages
<1>8. HubStages' /\ HubVerdictsAreTrue'
  BY <1>1, <1>6, <1>7 DEF HubInv, HubStages, HubVerdictsAreTrue
<1> QED
  BY <1>1, <1>5, <1>8, HubStays, FlowGoes

LEMMA NotBuiltKeeps ==
  ASSUME HubInv, NotBuilt
  PROVE  HubInv'
<1> DEFINE u == [ephyto EXCEPT !.pc = "form"]
           v == [u EXCEPT !.submitted = FALSE]
<1>1. ephyto.pc = "submit" /\ UNCHANGED envelopes /\ ephyto \in FlowStates
  BY DEF NotBuilt, HubInv
<1>2. ephyto' = [v EXCEPT !.retryable = FALSE]
  BY DEF NotBuilt
<1>3. u \in FlowStates
  BY <1>1, FlowFields
<1>4. u.pc = "form" /\ u.delivered = ephyto.delivered /\ u.withdrawn = ephyto.withdrawn /\ u.tracking = ephyto.tracking
  BY <1>1 DEF FlowStates
<1> HIDE DEF u
<1>5. v \in FlowStates
  BY <1>3, FlowFields
<1>6. /\ v.pc = "form" /\ v.submitted = FALSE /\ v.delivered = ephyto.delivered
      /\ v.withdrawn = ephyto.withdrawn /\ v.tracking = ephyto.tracking
  BY <1>3, <1>4 DEF FlowStates
<1> HIDE DEF v
<1>7. ephyto' \in FlowStates
  BY <1>2, <1>5, FlowFields
<1>8. /\ ephyto'.pc = "form" /\ ephyto'.submitted = FALSE /\ ephyto'.retryable = FALSE
      /\ ephyto'.delivered = ephyto.delivered /\ ephyto'.withdrawn = ephyto.withdrawn /\ ephyto'.tracking = ephyto.tracking
  BY <1>2, <1>5, <1>6 DEF FlowStates
<1>9. HubStages' /\ HubVerdictsAreTrue'
  BY <1>1, <1>8 DEF HubInv, HubStages, HubVerdictsAreTrue
<1> QED
  BY <1>1, <1>7, <1>9, HubStays, FlowGoes

LEMMA SubmitKeeps ==
  ASSUME HubInv, SubmitToHub
  PROVE  HubInv'
<1>1. ephyto.pc = "submit" /\ ephyto \in FlowStates /\ ephyto.form \in Certificates
  BY DEF SubmitToHub, HubInv, FlowStates
<1>2. PICK e \in SubmitEnvelope(ephyto.form) : \E x : IsSent(e, x) /\ InterpretSubmit(x)
  BY DEF SubmitToHub, Sends, IsSent
<1> PICK x : IsSent(e, x) /\ InterpretSubmit(x)
  BY <1>2
<1>3. /\ e \in HubCertificates /\ e.status = "Issued" /\ e.items = IncludedItems(ephyto.form)
      /\ e.documents = ephyto.form.documents \cap ephyto.form.send
  <2>1. e \in Rendered(ephyto.form, "Issued", Attachments(ephyto.form))
    BY DEF SubmitEnvelope
  <2>2. Attachments(ephyto.form) \in SUBSET Papers
    BY <1>1, CertificatesAssumption DEF Attachments
  <2> QED
    BY <1>1, <2>1, <2>2, CertificateIs DEF Attachments
<1>4. /\ HubKeeps /\ x.resp \in BOOLEAN /\ x.err \in BOOLEAN
      /\ x.resp /\ x.number # NoNumber => x.number \in 1 .. Len(envelopes')
      /\ HubAccepts(x) => x.resp /\ x.number # NoNumber
      /\ HubAccepts(x) => envelopes'[x.number].of = e /\ envelopes'[x.number].accepted
  BY <1>2, <1>3, SentIs
<1>5. Numbered(x) \in Numbers \cup {NoNumber} /\ Numbered(x) <= Len(envelopes')
  BY <1>4, TrackedIs
<1> DEFINE to == IF HubAccepts(x) THEN "timer" ELSE IF Retryable(x) THEN "submit" ELSE "form"
<1>6. /\ to \in {"timer", "submit", "form"} /\ (to = "timer" <=> HubAccepts(x))
      /\ HubAccepts(x) \in BOOLEAN /\ Retryable(x) \in BOOLEAN
      /\ Retryable(x) => ~x.resp /\ ~HubAccepts(x)
  BY DEF HubAccepts, Retryable
<1>7. /\ ephyto' = [ephyto EXCEPT !.pc = to, !.submitted = HubAccepts(x), !.retryable = Retryable(x),
                                  !.tracking = Numbered(x), !.answered = x.resp]
  BY <1>2 DEF InterpretSubmit
<1> HIDE DEF to
<1>8. PICK accepted \in BOOLEAN, retryable \in BOOLEAN, tracking \in Numbers \cup {NoNumber}, answered \in BOOLEAN :
        /\ accepted = HubAccepts(x) /\ retryable = Retryable(x) /\ tracking = Numbered(x) /\ answered = x.resp
  BY <1>4, <1>5, <1>6
<1> DEFINE t == [ephyto EXCEPT !.pc = to]
           u == [t EXCEPT !.submitted = accepted]
           v == [u EXCEPT !.retryable = retryable]
           w == [v EXCEPT !.tracking = tracking]
<1>9. ephyto' = [w EXCEPT !.answered = answered]
  BY <1>7, <1>8
<1>10. t \in FlowStates /\ t.pc = to /\ t.form = ephyto.form /\ t.delivered = ephyto.delivered /\ t.withdrawn = ephyto.withdrawn
  <2>1. t \in FlowStates
    BY <1>1, <1>6, FlowFields
  <2> QED
    BY <1>1, <2>1 DEF FlowStates
<1> HIDE DEF t
<1>11. /\ u \in FlowStates /\ u.pc = to /\ u.form = ephyto.form /\ u.delivered = ephyto.delivered
       /\ u.withdrawn = ephyto.withdrawn /\ u.submitted = accepted
  <2>1. u \in FlowStates
    BY <1>10, FlowFields
  <2> QED
    BY <1>10, <2>1 DEF FlowStates
<1> HIDE DEF u
<1>12. /\ v \in FlowStates /\ v.pc = to /\ v.form = ephyto.form /\ v.delivered = ephyto.delivered
       /\ v.withdrawn = ephyto.withdrawn /\ v.submitted = accepted /\ v.retryable = retryable
  <2>1. v \in FlowStates
    BY <1>11, FlowFields
  <2> QED
    BY <1>11, <2>1 DEF FlowStates
<1> HIDE DEF v
<1>13. /\ w \in FlowStates /\ w.pc = to /\ w.form = ephyto.form /\ w.delivered = ephyto.delivered
       /\ w.withdrawn = ephyto.withdrawn /\ w.submitted = accepted /\ w.retryable = retryable /\ w.tracking = tracking
  <2>1. w \in FlowStates
    BY <1>12, FlowFields
  <2> QED
    BY <1>12, <2>1 DEF FlowStates
<1> HIDE DEF w
<1>14. /\ ephyto' \in FlowStates /\ ephyto'.pc = to /\ ephyto'.form = ephyto.form /\ ephyto'.delivered = ephyto.delivered
       /\ ephyto'.withdrawn = ephyto.withdrawn /\ ephyto'.submitted = accepted /\ ephyto'.retryable = retryable
       /\ ephyto'.tracking = tracking /\ ephyto'.answered = answered
  <2>1. ephyto' \in FlowStates
    BY <1>9, <1>13, FlowFields
  <2> QED
    BY <1>9, <1>13, <2>1 DEF FlowStates
<1>15. ~ephyto.delivered /\ ~ephyto.withdrawn
  BY <1>1 DEF HubInv, HubStages
<1>16. HubStages'
  BY <1>5, <1>6, <1>8, <1>14, <1>15 DEF HubStages
<1>17. HubVerdictsAreTrue'
  <2>1. ASSUME accepted
        PROVE  x.number \in 1 .. Len(envelopes') /\ tracking = x.number /\ IssuedIn(envelopes', x.number, ephyto.form)
    BY <1>3, <1>4, <1>8, <2>1 DEF IssuedIn, Numbered
  <2>2. retryable => ~answered
    BY <1>6, <1>8
  <2> QED
    BY <1>14, <1>15, <2>1, <2>2 DEF HubVerdictsAreTrue, IssuedIn
<1> QED
  BY <1>4, <1>14, <1>16, <1>17, FlowGoes

\* The poll asks of the very envelope that the submission rests on.
LEMMA PollKeeps ==
  ASSUME HubInv, Poll
  PROVE  HubInv'
<1>1. ephyto.pc = "poll" /\ ephyto \in FlowStates /\ UNCHANGED envelopes /\ ephyto.submitted
  BY DEF Poll, HubInv, HubStages
<1>2. PICK pc \in {"timer", "over"}, delivered \in BOOLEAN :
        /\ ephyto' = [ephyto EXCEPT !.pc = pc, !.delivered = delivered]
        /\ delivered => pc = "over" /\ IsDelivered(envelopes[ephyto.tracking].info)
  <2>1. PICK x \in {NoAnswer, [resp |-> TRUE, err |-> FALSE, number |-> ephyto.tracking,
                               info |-> envelopes[ephyto.tracking].info]} :
          \E next \in IF ~x.err /\ x.resp /\ IsDelivered(x.info) THEN {"over"} ELSE {"timer", "over"} :
            ephyto' = [ephyto EXCEPT !.pc = next, !.delivered = ~x.err /\ x.resp /\ IsDelivered(x.info)]
    BY DEF Poll
  <2> DEFINE delivered == ~x.err /\ x.resp /\ IsDelivered(x.info)
  <2>2. delivered => IsDelivered(envelopes[ephyto.tracking].info)
    BY <2>1 DEF NoAnswer
  <2>3. delivered \in BOOLEAN
    OBVIOUS
  <2>4. PICK next \in IF delivered THEN {"over"} ELSE {"timer", "over"} :
          ephyto' = [ephyto EXCEPT !.pc = next, !.delivered = delivered]
    BY <2>1
  <2> HIDE DEF delivered
  <2> QED
    BY <2>2, <2>3, <2>4
<1> DEFINE y == [ephyto EXCEPT !.pc = pc]
<1>3. ephyto' = [y EXCEPT !.delivered = delivered]
  BY <1>2
<1>4. /\ y \in FlowStates /\ y.pc = pc /\ y.form = ephyto.form /\ y.submitted = ephyto.submitted
      /\ y.retryable = ephyto.retryable /\ y.withdrawn = ephyto.withdrawn
      /\ y.tracking = ephyto.tracking /\ y.answered = ephyto.answered
  <2>1. y \in FlowStates
    BY <1>1, FlowFields
  <2> QED
    BY <1>1, <2>1 DEF FlowStates
<1> HIDE DEF y
<1>5. /\ ephyto' \in FlowStates /\ ephyto'.pc = pc /\ ephyto'.form = ephyto.form /\ ephyto'.submitted = ephyto.submitted
      /\ ephyto'.retryable = ephyto.retryable /\ ephyto'.withdrawn = ephyto.withdrawn
      /\ ephyto'.tracking = ephyto.tracking /\ ephyto'.answered = ephyto.answered /\ ephyto'.delivered = delivered
  <2>1. ephyto' \in FlowStates
    BY <1>3, <1>4, FlowFields
  <2> QED
    BY <1>3, <1>4, <2>1 DEF FlowStates
<1>6. ~ephyto.withdrawn
  BY <1>1 DEF HubInv, HubStages
<1>7. HubStages'
  BY <1>1, <1>2, <1>5, <1>6 DEF HubInv, HubStages
<1>8. HubVerdictsAreTrue'
  <2>1. PICK n \in 1 .. Len(envelopes) : IssuedIn(envelopes, n, ephyto.form) /\ n = ephyto.tracking
    BY <1>1, VerdictsAre DEF HubInv
  <2>2. ephyto.retryable => ~ephyto.answered
    BY DEF HubInv, HubVerdictsAreTrue
  <2> QED
    BY <1>1, <1>2, <1>5, <1>6, <2>1, <2>2 DEF HubVerdictsAreTrue, IssuedIn
<1> QED
  BY <1>1, <1>5, <1>7, <1>8, HubStays, FlowGoes

LEMMA WithdrawalKeeps ==
  ASSUME HubInv, WithdrawFromHub
  PROVE  HubInv'
<1>1. ephyto.pc = "withdraw" /\ ephyto \in FlowStates /\ ephyto.form \in Certificates
  BY DEF WithdrawFromHub, HubInv, FlowStates
<1>2. PICK e \in WithdrawEnvelope(ephyto.form) : \E x : IsSent(e, x) /\ InterpretWithdraw(x)
  BY DEF WithdrawFromHub, Sends, IsSent
<1> PICK x : IsSent(e, x) /\ InterpretWithdraw(x)
  BY <1>2
<1>3. e \in HubCertificates /\ e.status = "Withdrawn" /\ e.items = IncludedItems(ephyto.form)
  <2>1. e \in Rendered(ephyto.form, "Withdrawn", {})
    BY DEF WithdrawEnvelope
  <2>2. {} \in SUBSET Papers
    OBVIOUS
  <2> QED
    BY <1>1, <2>1, <2>2, CertificateIs
<1>4. /\ HubKeeps
      /\ x.resp /\ x.number # NoNumber => x.number \in 1 .. Len(envelopes')
      /\ HubAccepts(x) => x.resp /\ x.number # NoNumber
      /\ HubAccepts(x) => envelopes'[x.number].of = e /\ envelopes'[x.number].accepted
  BY <1>2, <1>3, SentIs
<1>5. PICK withdrawn \in BOOLEAN, tracking \in Numbers \cup {NoNumber} :
        withdrawn = HubAccepts(x) /\ tracking = Numbered(x) /\ tracking <= Len(envelopes')
  <2>1. Numbered(x) \in Numbers \cup {NoNumber} /\ Numbered(x) <= Len(envelopes')
    BY <1>4, TrackedIs
  <2>2. HubAccepts(x) \in BOOLEAN
    BY DEF HubAccepts
  <2> QED
    BY <2>1, <2>2
<1> DEFINE u == [ephyto EXCEPT !.pc = "over"]
           v == [u EXCEPT !.withdrawn = withdrawn]
<1>6. ephyto' = [v EXCEPT !.tracking = tracking]
  BY <1>2, <1>5 DEF InterpretWithdraw
<1>7. /\ u \in FlowStates /\ u.pc = "over" /\ u.form = ephyto.form /\ u.submitted = ephyto.submitted
      /\ u.retryable = ephyto.retryable /\ u.delivered = ephyto.delivered /\ u.answered = ephyto.answered
  <2>1. u \in FlowStates
    BY <1>1, FlowFields
  <2> QED
    BY <1>1, <2>1 DEF FlowStates
<1> HIDE DEF u
<1>8. /\ v \in FlowStates /\ v.pc = "over" /\ v.form = ephyto.form /\ v.submitted = ephyto.submitted
      /\ v.retryable = ephyto.retryable /\ v.delivered = ephyto.delivered /\ v.answered = ephyto.answered
      /\ v.withdrawn = withdrawn
  <2>1. v \in FlowStates
    BY <1>7, FlowFields
  <2> QED
    BY <1>7, <2>1 DEF FlowStates
<1> HIDE DEF v
<1>9. /\ ephyto' \in FlowStates /\ ephyto'.pc = "over" /\ ephyto'.form = ephyto.form
      /\ ephyto'.submitted = ephyto.submitted /\ ephyto'.retryable = ephyto.retryable
      /\ ephyto'.delivered = ephyto.delivered /\ ephyto'.answered = ephyto.answered
      /\ ephyto'.withdrawn = withdrawn /\ ephyto'.tracking = tracking
  <2>1. ephyto' \in FlowStates
    BY <1>6, <1>8, FlowFields
  <2> QED
    BY <1>6, <1>8, <2>1 DEF FlowStates
<1>10. HubStages'
  BY <1>5, <1>9 DEF HubStages
<1>11. HubVerdictsAreTrue'
  <2>1. withdrawn => x.number \in 1 .. Len(envelopes') /\ WithdrawnIn(envelopes', x.number, ephyto.form)
    BY <1>3, <1>4, <1>5 DEF WithdrawnIn
  <2>2. ephyto.submitted =>
          \E n \in 1 .. Len(envelopes') : /\ IssuedIn(envelopes', n, ephyto.form)
                                          /\ ephyto.delivered => IsDelivered(envelopes'[n].info)
    BY <1>4, VerdictStays
  <2>3. ephyto.retryable => ~ephyto.answered
    BY DEF HubInv, HubVerdictsAreTrue
  <2> QED
    BY <1>9, <2>1, <2>2, <2>3 DEF HubVerdictsAreTrue, IssuedIn, WithdrawnIn
<1> QED
  BY <1>4, <1>9, <1>10, <1>11, FlowGoes

LEMMA DeliveryKeeps ==
  ASSUME HubInv, NEW n \in 1 .. Len(envelopes), Delivery(n)
  PROVE  HubInv'
<1>1. /\ envelopes[n].info = "PendingDelivery" /\ ephyto' = ephyto /\ ephyto \in FlowStates
      /\ envelopes \in Seq(Envelopes) /\ Len(envelopes) <= MaxEnvelopes
  BY DEF Delivery, HubInv
<1>2. PICK info \in Infos : envelopes' = [envelopes EXCEPT ![n].info = info]
  BY DEF Delivery, Infos
<1> DEFINE y == [envelopes[n] EXCEPT !.info = info]
<1>3. envelopes[n] \in Envelopes
  BY <1>1
<1>4. y \in Envelopes /\ y.of = envelopes[n].of /\ y.accepted = envelopes[n].accepted
  BY <1>3 DEF Envelopes
<1>5. envelopes' = [envelopes EXCEPT ![n] = y]
  BY <1>1, <1>2
<1> HIDE DEF y
<1>6. /\ envelopes' \in Seq(Envelopes) /\ Len(envelopes') = Len(envelopes) /\ envelopes'[n] = y
      /\ \A m \in 1 .. Len(envelopes) \ {n} : envelopes'[m] = envelopes[m]
  BY <1>1, <1>4, <1>5
<1>7. HubKeeps
  <2>1. ~IsDelivered(envelopes[n].info)
    BY <1>1 DEF IsDelivered
  <2>2. Len(envelopes) \in Nat
    BY <1>1
  <2> QED
    BY <1>1, <1>4, <1>6, <2>1, <2>2 DEF HubKeeps
<1>8. HubStages'
  BY <1>1, <1>6 DEF HubInv, HubStages
<1>9. HubVerdictsAreTrue'
  <2>1. ephyto.retryable => ~ephyto.answered
    BY DEF HubInv, HubVerdictsAreTrue
  <2> QED
    BY <1>1, <1>7, <2>1, VerdictStays DEF HubVerdictsAreTrue, IssuedIn, WithdrawnIn
<1> QED
  BY <1>1, <1>7, <1>8, <1>9, FlowGoes

LEMMA HubStep ==
  ASSUME HubInv, [HubNext]_<<ephyto, envelopes>>
  PROVE  HubInv'
<1>1. CASE UNCHANGED <<ephyto, envelopes>>
  BY <1>1 DEF HubInv, HubStages, HubVerdictsAreTrue
<1>2. CASE TimerFires
  <2>1. ephyto.pc = "timer" /\ ephyto' = [ephyto EXCEPT !.pc = "poll"] /\ UNCHANGED envelopes
    BY <1>2 DEF TimerFires
  <2> QED
    BY <2>1, FlowMoves DEF HubInv, HubStages
<1>3. CASE Withdraw
  <2>1. ephyto.pc = "over" /\ ~ephyto.withdrawn /\ ephyto' = [ephyto EXCEPT !.pc = "withdraw"] /\ UNCHANGED envelopes
    BY <1>3 DEF Withdraw
  <2> QED
    BY <2>1, FlowMoves DEF HubInv, HubStages
<1> QED
  BY <1>1, <1>2, <1>3, SubmitFormKeeps, NotBuiltKeeps, SubmitKeeps, PollKeeps, WithdrawalKeeps, DeliveryKeeps DEF HubNext

LEMMA HubInitInv ==
  ASSUME HubInit
  PROVE  HubInv
<1>1. envelopes = << >> /\ ephyto \in FlowStates /\ ephyto.pc = "form" /\ ephyto.tracking = NoNumber
  BY DEF HubInit, FlowStates
<1>2. ~ephyto.submitted /\ ~ephyto.delivered /\ ~ephyto.withdrawn /\ ~ephyto.retryable
  BY DEF HubInit
<1>3. envelopes \in Seq(Envelopes) /\ Len(envelopes) = 0
  BY <1>1
<1>4. HubStages
  BY <1>1, <1>2, <1>3 DEF HubStages, NoNumber
<1>5. HubVerdictsAreTrue
  BY <1>2 DEF HubVerdictsAreTrue
<1> QED
  BY <1>1, <1>3, <1>4, <1>5, HubBoundsAssumption DEF HubInv

----------------------------------------------------------------------------
(***************************************************************************)
(* All of them, side by side: a step of one party leaves what is held of   *)
(* the others alone.                                                       *)
(***************************************************************************)

OutsideInv ==
  /\ CallsInv
  /\ OrdersInv
  /\ SundryInv
  /\ HubInv
  /\ PapersInv

LEMMA InitOutside ==
  ASSUME OutsideInit(Catalogues, {"key", "blank", "other"}, {"generator", "archiver"})
  PROVE  OutsideInv
<1>1. /\ EdgeCallsInit /\ SlpaOrdersInit /\ SundryInit(Catalogues, {"key", "blank", "other"}) /\ HubInit
      /\ PapersInit({"generator", "archiver"})
  BY DEF OutsideInit
<1> QED
  BY <1>1, InitCalls, OrdersInitInv, SundryInitInv, HubInitInv, PapersInitInv DEF OutsideInv

LEMMA StepOutside ==
  ASSUME OutsideInv, [OutsideNext]_outsideVars
  PROVE  OutsideInv'
<1>1. [EdgeCallsNext]_edgeCallVars
  BY DEF OutsideNext, outsideVars
<1>2. [SlpaOrdersNext]_<<order, cms, branch, unsure>>
  BY DEF OutsideNext, outsideVars, slpaOrderVars
<1>3. [SundryNext]_sundryVars
  BY DEF OutsideNext, outsideVars, sundryVars
<1>4. [HubNext]_<<ephyto, envelopes>>
  BY DEF OutsideNext, outsideVars, hubVars
<1>5. [PapersNext]_paperVars
  BY DEF OutsideNext, outsideVars
<1> QED
  BY <1>1, <1>2, <1>3, <1>4, <1>5, StepCalls, OrdersStep, SundryStep, HubStep, PapersStep DEF OutsideInv

\* The invariant of all the parties outside together.
THEOREM OutsideInvariant == OutsideSpec => []OutsideInv
<1>1. OutsideInit(Catalogues, {"key", "blank", "other"}, {"generator", "archiver"}) => OutsideInv
  BY InitOutside
<1>2. OutsideInv /\ [OutsideNext]_outsideVars => OutsideInv'
  BY StepOutside
<1> QED
  BY <1>1, <1>2, PTL DEF OutsideSpec

\* Whatever is lost, refused, repeated or changed in between, for any number of containers, services,
\* certificates and documents: what a step has recorded of an outside party is so there.
THEOREM RecordsAreTrue == OutsideSpec => []RecordsMatchOutside
<1>1. OutsideInv => RecordsMatchOutside
  <2>1. CallsInv => EdgeVerdictsAreTrue
    BY DEF CallsInv, WaitingOK, EdgeVerdictsAreTrue, Sent
  <2> QED
    BY <2>1, BooksAgree DEF OutsideInv, SundryInv, HubInv, PapersInv, RecordsMatchOutside
<1> QED
  BY <1>1, OutsideInvariant, PTL

----------------------------------------------------------------------------
(* The types of all of them, with the bounds on what is lost.              *)

LossesBounded == cmsLosses \in 0 .. MaxCmsLosses /\ hubCalls \in 0 .. MaxHubCalls /\ resets \in 0 .. MaxResets

LEMMA HeardOnce ==
  ASSUME cmsLosses \in 0 .. MaxCmsLosses, \E x : Heard(x)
  PROVE  cmsLosses' \in 0 .. MaxCmsLosses
  BY OrdersAssumption DEF Heard

LEMMA CmsLossesBounded ==
  ASSUME cmsLosses \in 0 .. MaxCmsLosses, SlpaOrdersNext \/ SundryNext
  PROVE  cmsLosses' \in 0 .. MaxCmsLosses
<1>1. CASE SlpaOrdersNext
  <2>1. CASE \E b \in Branches : \/ Look(b) \/ Choose(b) \/ SaveConsolidation(b) \/ ResolveContainer(b)
                                \/ IssuePass(b) \/ RemoveConsolidation(b)
    BY <2>1, HeardOnce DEF Look, Choose, SaveConsolidation, ResolveContainer, IssuePass, RemoveConsolidation
  <2>2. CASE UploadDeclaration \/ RaiseOrder \/ GenerateInvoice
    BY <2>2, HeardOnce DEF UploadDeclaration, RaiseOrder, GenerateInvoice
  <2>3. CASE PaymentLands \/ PaymentReported \/ SplitContainers \/ \E r \in RealContainers : Advise(r)
    BY <2>3 DEF PaymentLands, PaymentReported, SplitContainers, Advise
  <2> QED
    BY <1>1, <2>1, <2>2, <2>3 DEF SlpaOrdersNext
<1>2. CASE SundryNext
  BY <1>2, HeardOnce DEF SundryNext, ListServices, FillSundry, RaiseSundry, ServiceChanges
<1> QED
  BY <1>1, <1>2

LEMMA HubCallsBounded ==
  ASSUME hubCalls \in 0 .. MaxHubCalls, resets \in 0 .. MaxResets, HubNext
  PROVE  hubCalls' \in 0 .. MaxHubCalls /\ resets' \in 0 .. MaxResets
<1> DEFINE counted == /\ hubCalls < MaxHubCalls /\ hubCalls' = hubCalls + 1
                      /\ resets' = resets \/ (resets < MaxResets /\ resets' = resets + 1)
<1>1. CASE SubmitToHub \/ WithdrawFromHub
  <2>1. ASSUME NEW e \in SubmitEnvelope(ephyto.form), Sends(e, InterpretSubmit) PROVE counted
    BY <2>1 DEF Sends
  <2>2. ASSUME NEW e \in WithdrawEnvelope(ephyto.form), Sends(e, InterpretWithdraw) PROVE counted
    BY <2>2 DEF Sends
  <2>3. counted
    BY <1>1, <2>1, <2>2 DEF SubmitToHub, WithdrawFromHub
  <2> QED
    BY <2>3, HubBoundsAssumption
<1>2. CASE Poll
  BY <1>2, HubBoundsAssumption DEF Poll
<1> QED
  BY <1>1, <1>2 DEF HubNext, SubmitCertificate, NotBuilt, TimerFires, Withdraw, Delivery

LEMMA LossesStayBounded ==
  ASSUME LossesBounded, [OutsideNext]_outsideVars
  PROVE  LossesBounded'
<1>1. \/ UNCHANGED <<cmsLosses, hubCalls, resets>>
      \/ (SlpaOrdersNext \/ SundryNext) /\ UNCHANGED <<hubCalls, resets>>
      \/ HubNext /\ UNCHANGED cmsLosses
  BY DEF OutsideNext, outsideVars, slpaOrderVars, hubVars
<1> QED
  BY <1>1, CmsLossesBounded, HubCallsBounded DEF LossesBounded

\* Every record of a step, and of the outside party that it is about, has its type.
THEOREM OutsideTypeCorrect ==
  OutsideSpec => [](EdgeCallsType /\ SlpaOrdersType /\ SundryType /\ HubType /\ PapersType)
<1>1. OutsideInv /\ LossesBounded => EdgeCallsType /\ SlpaOrdersType /\ SundryType /\ HubType /\ PapersType
  <2> SUFFICES ASSUME OutsideInv, LossesBounded
               PROVE  EdgeCallsType /\ SlpaOrdersType /\ SundryType /\ HubType /\ PapersType
    OBVIOUS
  <2>1. SlpaOrdersType
    BY DEF OutsideInv, OrdersInv, OrderStates, CmsStates, Pairings, BranchStates, LossesBounded, SlpaOrdersType
  <2>2. SundryType
    <3>1. sundry \in SundryStates /\ catalogue \in Catalogues /\ sundries \in Seq(SundryBodies)
      BY DEF OutsideInv, SundryInv
    <3>2. \A n \in DOMAIN sundries : sundries[n] \in SundryBodies
      BY <3>1
    <3> QED
      BY <3>1, <3>2 DEF SundryStates, SundryBodies, SundryType
  <2>3. HubType
    BY DEF OutsideInv, HubInv, FlowStates, LossesBounded, HubType
  <2> QED
    BY <2>1, <2>2, <2>3, CallsHaveType DEF OutsideInv, PapersInv
<1>2. OutsideInit(Catalogues, {"key", "blank", "other"}, {"generator", "archiver"}) => LossesBounded
  BY OrdersAssumption, HubBoundsAssumption DEF OutsideInit, SlpaOrdersInit, HubInit, LossesBounded
<1>3. LossesBounded /\ [OutsideNext]_outsideVars => LossesBounded'
  BY LossesStayBounded
<1>4. OutsideSpec => []LossesBounded
  BY <1>2, <1>3, PTL DEF OutsideSpec
<1> QED
  BY <1>1, <1>4, OutsideInvariant, PTL
================================================================================
